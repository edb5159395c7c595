---------------------- MODULE ResilientProvider_proofs ----------------------
(***************************************************************************)
(* For any number of callers and any policy: the types, the ownership of   *)
(* the half-open slot, the bounds on failures and windows, the accounting  *)
(* of verdicts, and the refinement of UpstreamGate.                        *)
(***************************************************************************)
EXTENDS ResilientProvider, TLAPS

-----------------------------------------------------------------------------
(* What every method of a circuit breaker preserves and leaves behind; as  *)
(* in FallbackChain_proofs.                                                *)

\* The windows a breaker may have next: the first one, or one within the maximum.
Windows == {w \in Nat : /\ w = BaseOpen \/ w <= MaxOpen
                        /\ Lesser(BaseOpen, MaxOpen) <= w}

\* What the invariant says of the breaker alone; every method preserves it.
BreakerInv(b) == /\ b \in Breaker
                 /\ b.trial # NoPermit => b.state = "half_open"
                 /\ b.state = "closed" => b.failures < Threshold
                 /\ b.window \in Windows
                 /\ b.left > MaxOpen => /\ b.left <= BaseOpen
                                        /\ b.window = Escalated(BaseOpen)
                 /\ b.left > 0 => b.state = "open"

LEMMA NewBreakerInv == BreakerInv(NewBreaker)
<1>1. NewBreaker \in Breaker
  BY BreakerAssumption DEF NewBreaker, Breaker
<1>2. NewBreaker.window \in Windows
  BY BreakerAssumption DEF NewBreaker, Windows, Lesser
<1>3. QED
  BY <1>1, <1>2, BreakerAssumption DEF BreakerInv, NewBreaker

LEMMA ScalingGrows ==
  ASSUME NEW w \in Nat, NEW m \in Nat, m >= 1
  PROVE  w * m \in Nat /\ w * m >= w
<1>1. w * m \in Nat
  BY SMT
<1>2. w * m >= w
  BY SMT
<1>3. QED
  BY <1>1, <1>2

\* Escalation keeps a window above the lesser of the two, and within the cap.
LEMMA EscalatedWindow ==
  ASSUME NEW w \in Windows
  PROVE  Lesser(w * Multiplier, MaxOpen) \in Windows
<1>1. w \in Nat /\ Lesser(BaseOpen, MaxOpen) <= w /\ Multiplier \in Nat /\ Multiplier >= 1
  BY BreakerAssumption DEF Windows
<1>2. w * Multiplier \in Nat /\ w * Multiplier >= w
  BY <1>1, ScalingGrows
<1> DEFINE scaled == w * Multiplier
<1> HIDE DEF scaled
<1>3. scaled \in Nat /\ scaled >= w
  BY <1>2 DEF scaled
<1>4. Lesser(scaled, MaxOpen) \in Windows
  BY <1>1, <1>3, BreakerAssumption DEF Lesser, Windows
<1>5. QED
  BY <1>4 DEF scaled

LEMMA OpenedInv ==
  ASSUME NEW b \in Breaker, b.window \in Windows, b.trial = NoPermit
  PROVE  BreakerInv(Opened(b)) /\ Opened(b).trial = NoPermit /\ Opened(b).state = "open"
         /\ Opened(b).left > 0
<1> DEFINE next == Lesser(b.window * Multiplier, MaxOpen)
<1>1. next \in Windows
  BY EscalatedWindow
<1>2. b.window > MaxOpen => b.window = BaseOpen /\ next = Escalated(BaseOpen)
  BY BreakerAssumption DEF Windows, Escalated
<1> HIDE DEF next
<1>3. next \in Nat /\ b.window \in Nat /\ b.window > 0
  BY <1>1, BreakerAssumption DEF Windows, Lesser
<1>4. Opened(b) = [b EXCEPT !.state = "open", !.failures = 0,
                            !.left = b.window, !.window = next]
  BY DEF Opened, next, Escalated
<1>5. Opened(b) \in Breaker
  <2>1. [b EXCEPT !.state = "open", !.failures = 0,
                  !.left = b.window, !.window = next] \in Breaker
    BY <1>3 DEF Breaker
  <2>2. QED
    BY <1>4, <2>1
<1>6. /\ Opened(b).state = "open" /\ Opened(b).trial = NoPermit
      /\ Opened(b).left = b.window /\ Opened(b).window = next
  BY <1>4 DEF Breaker
<1>7. QED
  BY <1>1, <1>2, <1>3, <1>5, <1>6, BreakerAssumption DEF BreakerInv

LEMMA AllowInv ==
  ASSUME NEW b, NEW c \in Callers, BreakerInv(b), Admits(b)
  PROVE  /\ BreakerInv(Allow(b, c))
         /\ Allow(b, c).trial = IF b.state = "closed" THEN NoPermit ELSE c
         /\ b.state # "closed" => Allow(b, c).state = "half_open"
<1>1. CASE b.state = "closed"
  BY <1>1 DEF Allow, BreakerInv
<1>2. CASE b.state # "closed"
  <2>1. Allow(b, c) = [b EXCEPT !.state = "half_open", !.trial = c]
    BY <1>2 DEF Allow
  <2>2. [b EXCEPT !.state = "half_open", !.trial = c] \in Breaker
    BY DEF BreakerInv, Breaker
  <2>3. b.left = 0
    BY DEF BreakerInv, Breaker, Admits
  <2>4. /\ Allow(b, c).state = "half_open" /\ Allow(b, c).trial = c
        /\ Allow(b, c).window = b.window /\ Allow(b, c).left = b.left
    BY <2>1 DEF BreakerInv, Breaker
  <2>5. QED
    BY <1>2, <2>1, <2>2, <2>3, <2>4, BreakerAssumption DEF BreakerInv
<1>3. QED
  BY <1>1, <1>2

LEMMA RecordFailureInv ==
  ASSUME NEW b, BreakerInv(b)
  PROVE  /\ BreakerInv(RecordFailure(b)) /\ RecordFailure(b).trial = NoPermit
         /\ b.state = "half_open" => RecordFailure(b).state = "open"
<1> DEFINE counted == [b EXCEPT !.failures = @ + 1]
<1>1. counted \in Breaker /\ counted.window = b.window /\ counted.trial = b.trial
      /\ counted.failures = b.failures + 1 /\ counted.state = b.state /\ counted.left = b.left
  BY DEF BreakerInv, Breaker
<1>2. CASE b.state = "half_open"
  <2>1. [counted EXCEPT !.trial = NoPermit] \in Breaker
    BY <1>1 DEF Breaker
  <2>2. [counted EXCEPT !.trial = NoPermit].window \in Windows
        /\ [counted EXCEPT !.trial = NoPermit].trial = NoPermit
    BY <1>1 DEF BreakerInv, Breaker
  <2>3. QED
    BY <1>2, <2>1, <2>2, OpenedInv DEF RecordFailure, Trips
<1>3. CASE b.state = "closed" /\ counted.failures >= Threshold
  BY <1>1, <1>3, OpenedInv DEF RecordFailure, BreakerInv, Trips
<1>4. CASE b.state # "half_open" /\ ~(b.state = "closed" /\ counted.failures >= Threshold)
  <2>1. RecordFailure(b) = counted
    BY <1>4 DEF RecordFailure, Trips
  <2>2. QED
    BY <1>1, <1>4, <2>1, BreakerAssumption DEF BreakerInv, Breaker
<1>5. QED
  BY <1>2, <1>3, <1>4

LEMMA ReleaseTrialInv ==
  ASSUME NEW b, NEW p \in Permits, BreakerInv(b)
  PROVE  /\ BreakerInv(ReleaseTrial(b, p))
         /\ ReleaseTrial(b, p).trial = IF b.trial = p THEN NoPermit ELSE b.trial
  BY DEF BreakerInv, Breaker, ReleaseTrial

LEMMA ElapseInv ==
  ASSUME NEW b, BreakerInv(b)
  PROVE  /\ BreakerInv(Elapse(b)) /\ Elapse(b).trial = b.trial
         /\ Elapse(b).state = b.state /\ Elapse(b).left <= b.left
<1> DEFINE rest == IF b.left > 0 THEN b.left - 1 ELSE 0
<1>1. rest \in Nat /\ rest <= b.left /\ (rest > 0 => b.left > 0)
  BY DEF BreakerInv, Breaker
<1> HIDE DEF rest
<1>2. Elapse(b) = [b EXCEPT !.left = rest]
  BY DEF Elapse, rest
<1>3. [b EXCEPT !.left = rest] \in Breaker
  BY <1>1 DEF BreakerInv, Breaker
<1>4. /\ Elapse(b).trial = b.trial /\ Elapse(b).state = b.state
      /\ Elapse(b).left = rest /\ Elapse(b).window = b.window
      /\ Elapse(b).failures = b.failures
  BY <1>2 DEF BreakerInv, Breaker
<1>5. QED
  BY <1>1, <1>2, <1>3, <1>4, BreakerAssumption DEF BreakerInv, Breaker

-----------------------------------------------------------------------------
(* The invariant.                                                          *)

\* The inductive invariant.  PermitsHeld ties where a request is to the
\* permit it carries, which is what makes TrialSlotOwned survive the steps
\* of the other callers; SleepersMayRetry bounds the attempt counter.
PermitsHeld ==
    \A c \in Callers : /\ pc[c] = "calling" => permit[c] \in {Admitted, c}
                       /\ pc[c] = "sleeping" => permit[c] = Admitted
                       /\ pc[c] \in Ended => permit[c] = NoPermit

SleepersMayRetry ==
    \A c \in Callers : pc[c] = "sleeping" => attempt[c] < MaxAttempts - 1

IInv == /\ TypeOK
        /\ BreakerInv(brk)
        /\ TrialSlotOwned
        /\ PermitsHeld
        /\ SleepersMayRetry
        /\ OneVerdictPerRequest

-----------------------------------------------------------------------------
(* The steps of one caller.  Every action but Tick moves one caller; what   *)
(* is left to show for each is the types, the breaker, that caller's own    *)
(* part of the invariant, and who is on trial afterwards.                   *)

LocalInv(c) == /\ pc[c] = "calling" => permit[c] \in {Admitted, c}
               /\ pc[c] = "sleeping" => permit[c] = Admitted
               /\ pc[c] \in Ended => permit[c] = NoPermit
               /\ pc[c] = "sleeping" => attempt[c] < MaxAttempts - 1
               /\ verdicts[c] = IF pc[c] \in {"served", "gave_up"} THEN 1 ELSE 0
               /\ reports[c] = IF pc[c] = "gave_up" THEN 1 ELSE 0

SlotInv(c) == brk.trial = c => pc[c] = "calling" /\ permit[c] = c

OthersUnchanged(c) ==
    \A d \in Callers \ {c} :
        /\ pc'[d] = pc[d] /\ attempt'[d] = attempt[d] /\ permit'[d] = permit[d]
        /\ verdicts'[d] = verdicts[d] /\ reports'[d] = reports[d]

LEMMA LocalParts ==
  IInv => TypeOK /\ BreakerInv(brk) /\ \A c \in Callers : LocalInv(c) /\ SlotInv(c)
  BY BreakerAssumption
  DEF IInv, TrialSlotOwned, PermitsHeld, SleepersMayRetry, OneVerdictPerRequest,
      LocalInv, SlotInv, BreakerInv, Breaker

LEMMA CallerStep ==
  ASSUME IInv, NEW c \in Callers, TypeOK', BreakerInv(brk'),
         OthersUnchanged(c), LocalInv(c)', SlotInv(c)',
         brk'.trial \in {NoPermit, c, brk.trial}
  PROVE  IInv'
<1>1. \A d \in Callers : LocalInv(d) /\ SlotInv(d)
  BY LocalParts
<1>2. ASSUME NEW d \in Callers PROVE LocalInv(d)' /\ SlotInv(d)'
  <2>1. CASE d = c
    BY <2>1
  <2>2. CASE d # c
    BY <1>1, <2>2, BreakerAssumption DEF OthersUnchanged, LocalInv, SlotInv
  <2>3. QED
    BY <2>1, <2>2
<1>3. TrialSlotOwned'
  BY <1>2 DEF TrialSlotOwned, SlotInv, BreakerInv, Breaker
<1>4. PermitsHeld' /\ SleepersMayRetry' /\ OneVerdictPerRequest'
  BY <1>2 DEF LocalInv, PermitsHeld, SleepersMayRetry, OneVerdictPerRequest
<1>5. QED
  BY <1>3, <1>4 DEF IInv

\* A call that ends: its locals are gone, everyone else's are as they were.
LEMMA FinishFacts ==
  ASSUME TypeOK, NEW c \in Callers, NEW how \in Ended, Finish(c, how)
  PROVE  /\ pc' \in [Callers -> Running \cup Ended] /\ attempt' \in [Callers -> 0 .. MaxAttempts - 1]
         /\ permit' \in [Callers -> Permits] /\ timer' \in [Callers -> Nat]
         /\ elapsed' \in [Callers -> 0 .. Deadline + 1]
         /\ pc'[c] = how /\ permit'[c] = NoPermit
         /\ \A d \in Callers \ {c} : /\ pc'[d] = pc[d] /\ attempt'[d] = attempt[d]
                                     /\ permit'[d] = permit[d]
  BY PolicyAssumption DEF TypeOK, Finish, Permits

\* An attempt that is admitted: the slot is either untouched or the caller's.
LEMMA AttemptFacts ==
  ASSUME TypeOK, BreakerInv(brk), NEW c \in Callers, NEW n \in 0 .. MaxAttempts - 1,
         permit[c] \in {NoPermit, Admitted}, Attempt(c, n)
  PROVE  /\ pc' \in [Callers -> Running \cup Ended] /\ attempt' \in [Callers -> 0 .. MaxAttempts - 1]
         /\ permit' \in [Callers -> Permits] /\ timer' \in [Callers -> Nat]
         /\ tokens' \in 0 .. BudgetCapacity
         /\ BreakerInv(brk')
         /\ brk'.trial = IF brk.state = "closed" THEN NoPermit ELSE c
         /\ pc'[c] = "calling"
         /\ permit'[c] = IF brk.state = "closed" THEN Admitted ELSE c
         /\ \A d \in Callers \ {c} : /\ pc'[d] = pc[d] /\ attempt'[d] = attempt[d]
                                     /\ permit'[d] = permit[d]
<1>1. ReleaseTrial(brk, permit[c]) = brk
  <2>1. brk.trial # Admitted /\ (brk.trial = NoPermit => [brk EXCEPT !.trial = NoPermit] = brk)
    BY BreakerAssumption DEF BreakerInv, Breaker
  <2>2. QED
    BY <2>1 DEF ReleaseTrial
<1>2. /\ Admits(brk) /\ brk' = Allow(brk, c)
      /\ permit' = [permit EXCEPT ![c] = PermitFor(brk, c)]
  BY <1>1 DEF Attempt
<1>3. BreakerInv(brk') /\ brk'.trial = IF brk.state = "closed" THEN NoPermit ELSE c
  BY <1>2, AllowInv
<1>4. QED
  BY <1>2, <1>3 DEF TypeOK, Attempt, PermitFor, Permits, Running

\* A refusal: no permit was held that owns the slot, so nothing moves.
LEMMA RefusedFacts ==
  ASSUME BreakerInv(brk), NEW c \in Callers, permit[c] \in {NoPermit, Admitted}, Refused(c)
  PROVE  brk' = brk /\ Finish(c, "refused") /\ tokens' = tokens
<1>1. brk.trial # Admitted /\ (brk.trial = NoPermit => [brk EXCEPT !.trial = NoPermit] = brk)
  BY BreakerAssumption DEF BreakerInv, Breaker
<1>2. QED
  BY <1>1 DEF Refused, ReleaseTrial

-----------------------------------------------------------------------------
(* One lemma per action. *)

LEMMA StartInv ==
  ASSUME IInv, NEW c \in Callers, Start(c)
  PROVE  IInv'
<1>1. /\ TypeOK /\ BreakerInv(brk) /\ LocalInv(c) /\ SlotInv(c) /\ permit[c] = NoPermit
      /\ pc[c] \in Ended
  BY LocalParts DEF Start, LocalInv
<1>2. /\ verdicts' \in [Callers -> Nat] /\ reports' \in [Callers -> Nat]
      /\ verdicts'[c] = 0 /\ reports'[c] = 0
      /\ \A d \in Callers \ {c} : verdicts'[d] = verdicts[d] /\ reports'[d] = reports[d]
  BY <1>1 DEF Start, TypeOK
<1>3. CASE Attempt(c, 0) /\ elapsed' = [elapsed EXCEPT ![c] = 0]
  <2>1. 0 \in 0 .. MaxAttempts - 1
    BY PolicyAssumption
  <2>2. elapsed' \in [Callers -> 0 .. Deadline + 1]
    BY <1>1, <1>3, PolicyAssumption DEF TypeOK
  <2>3. TypeOK' /\ BreakerInv(brk') /\ OthersUnchanged(c)
    BY <1>1, <1>2, <1>3, <2>1, <2>2, AttemptFacts DEF TypeOK, OthersUnchanged, BreakerInv
  <2>4. /\ pc'[c] = "calling" /\ permit'[c] = IF brk.state = "closed" THEN Admitted ELSE c
        /\ brk'.trial = IF brk.state = "closed" THEN NoPermit ELSE c
    BY <1>1, <1>3, <2>1, AttemptFacts
  <2>5. LocalInv(c)' /\ SlotInv(c)'
    BY <1>2, <2>4, BreakerAssumption DEF LocalInv, SlotInv, Ended
  <2>6. QED
    BY <2>3, <2>4, <2>5, CallerStep
<1>4. CASE Refused(c)
  <2>1. brk' = brk /\ Finish(c, "refused") /\ tokens' = tokens
    BY <1>1, <1>4, RefusedFacts
  <2>2. TypeOK' /\ BreakerInv(brk') /\ OthersUnchanged(c) /\ pc'[c] = "refused" /\ permit'[c] = NoPermit
    BY <1>1, <1>2, <2>1, FinishFacts DEF TypeOK, OthersUnchanged, Ended
  <2>3. LocalInv(c)' /\ SlotInv(c)'
    BY <1>1, <1>2, <2>1, <2>2, BreakerAssumption DEF LocalInv, SlotInv, Ended
  <2>4. QED
    BY <2>1, <2>2, <2>3, CallerStep
<1>5. QED
  BY <1>3, <1>4 DEF Start

LEMMA WakeInv ==
  ASSUME IInv, NEW c \in Callers, Wake(c)
  PROVE  IInv'
<1>1. /\ TypeOK /\ BreakerInv(brk) /\ LocalInv(c) /\ SlotInv(c) /\ permit[c] = Admitted
      /\ pc[c] = "sleeping" /\ attempt[c] + 1 \in 0 .. MaxAttempts - 1
  BY LocalParts, PolicyAssumption DEF Wake, LocalInv, TypeOK
<1>2. verdicts' = verdicts /\ reports' = reports /\ verdicts[c] = 0 /\ reports[c] = 0
  BY <1>1 DEF Wake, LocalInv
<1>3. CASE Attempt(c, attempt[c] + 1) /\ UNCHANGED elapsed
  <2>1. TypeOK' /\ BreakerInv(brk') /\ OthersUnchanged(c)
    BY <1>1, <1>2, <1>3, AttemptFacts DEF TypeOK, OthersUnchanged, BreakerInv
  <2>2. /\ pc'[c] = "calling" /\ permit'[c] = IF brk.state = "closed" THEN Admitted ELSE c
        /\ brk'.trial = IF brk.state = "closed" THEN NoPermit ELSE c
    BY <1>1, <1>3, AttemptFacts
  <2>3. LocalInv(c)' /\ SlotInv(c)'
    BY <1>2, <2>2, BreakerAssumption DEF LocalInv, SlotInv, Ended
  <2>4. QED
    BY <2>1, <2>2, <2>3, CallerStep
<1>4. CASE Refused(c)
  <2>1. brk' = brk /\ Finish(c, "refused") /\ tokens' = tokens
    BY <1>1, <1>4, RefusedFacts
  <2>2. TypeOK' /\ BreakerInv(brk') /\ OthersUnchanged(c) /\ pc'[c] = "refused" /\ permit'[c] = NoPermit
    BY <1>1, <1>2, <2>1, FinishFacts DEF TypeOK, OthersUnchanged, Ended
  <2>3. LocalInv(c)' /\ SlotInv(c)'
    BY <1>1, <1>2, <2>1, <2>2, BreakerAssumption DEF LocalInv, SlotInv, Ended
  <2>4. QED
    BY <2>1, <2>2, <2>3, CallerStep
<1>5. QED
  BY <1>3, <1>4 DEF Wake

LEMMA SucceedInv ==
  ASSUME IInv, NEW c \in Callers, Succeed(c)
  PROVE  IInv'
<1>1. /\ TypeOK /\ BreakerInv(brk) /\ LocalInv(c) /\ pc[c] = "calling" /\ permit[c] \in Permits
  BY LocalParts DEF Succeed, TypeOK
<1>2. /\ verdicts' \in [Callers -> Nat] /\ reports' = reports
      /\ verdicts'[c] = 1 /\ reports[c] = 0
      /\ \A d \in Callers \ {c} : verdicts'[d] = verdicts[d]
  BY <1>1 DEF Succeed, TypeOK, LocalInv
<1>3. Finish(c, "served") /\ tokens' = tokens /\ "served" \in Ended
  BY DEF Succeed, Ended
<1>4. BreakerInv(brk') /\ brk'.trial = NoPermit
  <2>1. brk' = ReleaseTrial(NewBreaker, permit[c]) /\ NewBreaker.trial = NoPermit
    BY DEF Succeed, RecordSuccess, NewBreaker
  <2>2. QED
    BY <1>1, <2>1, NewBreakerInv, ReleaseTrialInv
<1>5. TypeOK' /\ OthersUnchanged(c) /\ pc'[c] = "served" /\ permit'[c] = NoPermit
  BY <1>1, <1>2, <1>3, <1>4, FinishFacts DEF TypeOK, OthersUnchanged, BreakerInv
<1>6. LocalInv(c)' /\ SlotInv(c)'
  BY <1>2, <1>4, <1>5, BreakerAssumption DEF LocalInv, SlotInv, Ended
<1>7. QED
  BY <1>4, <1>5, <1>6, CallerStep

LEMMA EndUnjudgedInv ==
  ASSUME IInv, NEW c \in Callers, EndUnjudged(c)
  PROVE  IInv'
<1>1. /\ TypeOK /\ BreakerInv(brk) /\ LocalInv(c) /\ SlotInv(c)
      /\ pc[c] \in Running /\ permit[c] \in Permits
  BY LocalParts DEF EndUnjudged, TypeOK
<1>2. verdicts' = verdicts /\ reports' = reports /\ verdicts[c] = 0 /\ reports[c] = 0
  BY <1>1 DEF EndUnjudged, LocalInv, Running
<1>3. Finish(c, "unjudged") /\ tokens' = tokens /\ "unjudged" \in Ended
  BY DEF EndUnjudged, Ended
<1>4. /\ BreakerInv(brk')
      /\ brk'.trial = IF brk.trial = permit[c] THEN NoPermit ELSE brk.trial
  BY <1>1, ReleaseTrialInv DEF EndUnjudged
<1>5. brk'.trial \in {NoPermit, brk.trial} /\ brk'.trial # c
  BY <1>1, <1>4, BreakerAssumption DEF SlotInv
<1>6. TypeOK' /\ OthersUnchanged(c) /\ pc'[c] = "unjudged" /\ permit'[c] = NoPermit
  BY <1>1, <1>2, <1>3, <1>4, FinishFacts DEF TypeOK, OthersUnchanged, BreakerInv
<1>7. LocalInv(c)' /\ SlotInv(c)'
  BY <1>2, <1>5, <1>6, BreakerAssumption DEF LocalInv, SlotInv, Ended
<1>8. QED
  BY <1>4, <1>5, <1>6, <1>7, CallerStep

\* Both ways of giving up end in the same verdict and the same report.
LEMMA GiveUpInv ==
  ASSUME IInv, NEW c \in Callers, pc[c] = "calling", GiveUp(c),
         tokens' \in 0 .. BudgetCapacity
  PROVE  IInv'
<1>1. TypeOK /\ BreakerInv(brk) /\ LocalInv(c) /\ permit[c] \in Permits
  BY LocalParts DEF TypeOK
<1>2. /\ verdicts' \in [Callers -> Nat] /\ reports' \in [Callers -> Nat]
      /\ verdicts'[c] = 1 /\ reports'[c] = 1
      /\ \A d \in Callers \ {c} : verdicts'[d] = verdicts[d] /\ reports'[d] = reports[d]
  BY <1>1 DEF GiveUp, TypeOK, LocalInv
<1>3. Finish(c, "gave_up") /\ "gave_up" \in Ended
  BY DEF GiveUp, Ended
<1>4. BreakerInv(brk') /\ brk'.trial = NoPermit
  BY <1>1, RecordFailureInv, ReleaseTrialInv DEF GiveUp
<1>5. TypeOK' /\ OthersUnchanged(c) /\ pc'[c] = "gave_up" /\ permit'[c] = NoPermit
  BY <1>1, <1>2, <1>3, <1>4, FinishFacts DEF TypeOK, OthersUnchanged, BreakerInv
<1>6. LocalInv(c)' /\ SlotInv(c)'
  BY <1>2, <1>4, <1>5, BreakerAssumption DEF LocalInv, SlotInv, Ended
<1>7. QED
  BY <1>4, <1>5, <1>6, CallerStep

LEMMA SpendTokenType ==
  ASSUME TypeOK, BudgetAllows
  PROVE  SpendToken \in 0 .. BudgetCapacity
  BY PolicyAssumption DEF TypeOK, BudgetAllows, SpendToken

LEMMA BackoffInv ==
  ASSUME IInv, NEW c \in Callers, Backoff(c)
  PROVE  IInv'
<1>1. /\ TypeOK /\ BreakerInv(brk) /\ LocalInv(c) /\ SlotInv(c)
      /\ pc[c] = "calling" /\ permit[c] = Admitted /\ attempt[c] < MaxAttempts - 1
  BY LocalParts, PolicyAssumption DEF Backoff, LocalInv, LastAttempt, TypeOK, OnTrial
<1>2. timer' \in [Callers -> Nat]
  <2>1. PICK sleep \in Sleeps(attempt[c]) : timer' = [timer EXCEPT ![c] = sleep]
    BY DEF Backoff, OnTrial
  <2>2. sleep \in Nat
    BY PolicyAssumption DEF Sleeps
  <2>3. QED
    BY <1>1, <2>1, <2>2 DEF TypeOK
<1>3. tokens' \in 0 .. BudgetCapacity
  BY <1>1, SpendTokenType DEF Backoff, OnTrial
<1>4. TypeOK' /\ OthersUnchanged(c) /\ pc'[c] = "sleeping"
  BY <1>1, <1>2, <1>3 DEF Backoff, TypeOK, OthersUnchanged, Running, OnTrial
<1>5. brk' = brk /\ brk.trial # c
  BY <1>1, BreakerAssumption DEF Backoff, SlotInv, OnTrial
<1>6. LocalInv(c)' /\ SlotInv(c)' /\ BreakerInv(brk')
  BY <1>1, <1>4, <1>5, BreakerAssumption DEF LocalInv, SlotInv, Ended, Backoff, OnTrial
<1>7. QED
  BY <1>4, <1>5, <1>6, CallerStep

LEMMA TickInv ==
  ASSUME IInv, Tick
  PROVE  IInv'
<1>1. TypeOK /\ BreakerInv(brk)
  BY LocalParts
<1>2. /\ BreakerInv(brk') /\ brk'.trial = brk.trial /\ brk'.state = brk.state
  BY <1>1, ElapseInv DEF Tick, Refilled
<1>3. tokens' \in 0 .. BudgetCapacity
  BY <1>1, PolicyAssumption DEF Tick, TypeOK, Lesser, Refilled
<1>4. timer' \in [Callers -> Nat]
  BY <1>1 DEF Tick, TypeOK, Refilled
<1>5. elapsed' \in [Callers -> 0 .. Deadline + 1]
  BY <1>1, PolicyAssumption DEF Tick, TypeOK, Lesser, Refilled
<1>6. TypeOK'
  BY <1>1, <1>2, <1>3, <1>4, <1>5 DEF Tick, TypeOK, BreakerInv, Refilled
<1>7. QED
  BY <1>2, <1>6 DEF Tick, IInv, TrialSlotOwned, PermitsHeld, SleepersMayRetry, OneVerdictPerRequest, Refilled

-----------------------------------------------------------------------------

LEMMA InitInv == Init => IInv
<1> SUFFICES ASSUME Init PROVE IInv
  OBVIOUS
<1>1. BreakerInv(brk) /\ brk.trial = NoPermit
  BY NewBreakerInv DEF Init, NewBreaker
<1>2. TypeOK
  BY <1>1, PolicyAssumption DEF Init, TypeOK, BreakerInv, Ended, Permits
<1>3. QED
  BY <1>1, <1>2 DEF Init, IInv, TrialSlotOwned, PermitsHeld, SleepersMayRetry,
                    OneVerdictPerRequest, Ended

LEMMA StepInv == IInv /\ [Next]_vars => IInv'
<1> SUFFICES ASSUME IInv, [Next]_vars PROVE IInv'
  OBVIOUS
<1>1. CASE Tick
  BY <1>1, TickInv
<1>2. ASSUME NEW c \in Callers, Start(c) PROVE IInv'
  BY <1>2, StartInv
<1>3. ASSUME NEW c \in Callers, Wake(c) PROVE IInv'
  BY <1>3, WakeInv
<1>4. ASSUME NEW c \in Callers, AttemptEnds(c) PROVE IInv'
  <2>1. CASE Succeed(c)
    BY <2>1, SucceedInv
  <2>2. CASE EndUnjudged(c)
    BY <2>2, EndUnjudgedInv
  <2>3. CASE FailTrial(c)
    BY <2>3, GiveUpInv, LocalParts DEF FailTrial, TypeOK, OnTrial
  <2>4. CASE FailForGood(c)
    <3>1. TypeOK /\ tokens' \in 0 .. BudgetCapacity
      BY <2>4, LocalParts, SpendTokenType DEF FailForGood, TypeOK, OnTrial
    <3>2. QED
      BY <2>4, <3>1, GiveUpInv DEF FailForGood, OnTrial
  <2>5. CASE Backoff(c)
    BY <2>5, BackoffInv
  <2>6. QED
    BY <1>4, <2>1, <2>2, <2>3, <2>4, <2>5 DEF AttemptEnds
<1>5. CASE UNCHANGED vars
  BY <1>5 DEF vars, IInv, TypeOK, TrialSlotOwned, PermitsHeld, SleepersMayRetry,
              OneVerdictPerRequest
<1>6. QED
  BY <1>1, <1>2, <1>3, <1>4, <1>5 DEF Next

\* The inductive invariant holds of every behaviour.
THEOREM Invariant == Spec => []IInv
  BY InitInv, StepInv, PTL DEF Spec

\* Every variable stays in its range, for any policy.
THEOREM TypeCorrect == Spec => []TypeOK
  BY Invariant, PTL DEF IInv

\* The half-open slot never names a call that has ended (resilience.py:167).
THEOREM SlotAlwaysOwned == Spec => []TrialSlotOwned
  BY Invariant, PTL DEF IInv

\* A closed breaker never holds as many failures as its threshold.
THEOREM ClosedMeansBelow == Spec => []ClosedBelowThreshold
<1>1. IInv => ClosedBelowThreshold
  BY DEF IInv, BreakerInv, ClosedBelowThreshold
<1>2. QED
  BY <1>1, Invariant, PTL

\* Only the first window of an outage outgrows max_open_seconds, and only where
\* breaker_reset_seconds does; every later one is within it.
THEOREM WindowsAreBounded == Spec => []WindowBounded
<1>1. IInv => WindowBounded
  BY DEF IInv, BreakerInv, WindowBounded, Windows
<1>2. QED
  BY <1>1, Invariant, PTL

\* One request is at most one verdict and one report, in any interleaving.
THEOREM VerdictsPerRequest == Spec => []OneVerdictPerRequest
  BY Invariant, PTL DEF IInv

\* No caller sleeps while it holds the half-open slot.
THEOREM SleepersHoldNoTrial == Spec => []NobodySleepsOnTrial
<1>1. IInv => NobodySleepsOnTrial
  BY DEF IInv, PermitsHeld, NobodySleepsOnTrial
<1>2. QED
  BY <1>1, Invariant, PTL

\* Only the permit that holds the slot gives it back without a verdict.
THEOREM NobodyElseFreesTheSlot == Spec => SlotFreedByOwner
<1> DEFINE Taken == (/\ brk.state = "half_open" /\ brk'.state = "half_open"
                     /\ brk.trial # NoPermit /\ brk'.trial # brk.trial)
                    => pc'[brk.trial] \in Ended
<1>1. ASSUME IInv, [Next]_vars PROVE Taken
  <2> SUFFICES ASSUME brk.state = "half_open", brk'.state = "half_open",
                      brk.trial # NoPermit, brk'.trial # brk.trial
               PROVE  pc'[brk.trial] \in Ended
    OBVIOUS
  <2>1. /\ TypeOK /\ BreakerInv(brk) /\ \A c \in Callers : LocalInv(c) /\ SlotInv(c)
    BY <1>1, LocalParts
  \* The slot is taken, so nobody is admitted and a refusal changes nothing.
  <2>2. ASSUME NEW c \in Callers, permit[c] \in {NoPermit, Admitted}
        PROVE  ~Admits(ReleaseTrial(brk, permit[c])) /\ ReleaseTrial(brk, permit[c]) = brk
    BY <2>1, <2>2, BreakerAssumption DEF ReleaseTrial, Admits, BreakerInv, Breaker
  <2>3. ASSUME NEW c \in Callers, Start(c) PROVE FALSE
    BY <2>1, <2>2, <2>3 DEF Start, LocalInv, Attempt, Refused
  <2>4. ASSUME NEW c \in Callers, Wake(c) PROVE FALSE
    BY <2>1, <2>2, <2>4 DEF Wake, LocalInv, Attempt, Refused
  <2>5. ASSUME NEW c \in Callers, Succeed(c) PROVE FALSE
    BY <2>5 DEF Succeed, RecordSuccess, ReleaseTrial, NewBreaker
  <2>6. ASSUME NEW c \in Callers, EndUnjudged(c) PROVE pc'[brk.trial] \in Ended
    <3>1. brk.trial = permit[c] /\ permit[c] = c
      BY <2>1, <2>6, BreakerAssumption
      DEF EndUnjudged, ReleaseTrial, LocalInv, Running, BreakerInv, Breaker
    <3>2. pc'[c] = "unjudged"
      BY <2>1, <2>6 DEF EndUnjudged, Finish, TypeOK
    <3>3. QED
      BY <3>1, <3>2 DEF Ended
  <2>7. ASSUME NEW c \in Callers, GiveUp(c) PROVE FALSE
    <3>1. RecordFailure(brk).state = "open" /\ RecordFailure(brk) \in Breaker
      BY <2>1, RecordFailureInv DEF BreakerInv
    <3>2. QED
      BY <2>7, <3>1 DEF GiveUp, ReleaseTrial, Breaker
  <2>8. ASSUME NEW c \in Callers, Backoff(c) PROVE FALSE
    BY <2>8 DEF Backoff, OnTrial
  <2>9. CASE Tick
    BY <2>1, <2>9, ElapseInv DEF Tick, Refilled
  <2>10. CASE UNCHANGED vars
    BY <2>10 DEF vars
  <2>11. QED
    BY <1>1, <2>3, <2>4, <2>5, <2>6, <2>7, <2>8, <2>9, <2>10
    DEF Next, AttemptEnds, FailTrial, FailForGood, OnTrial
<1>2. QED
  BY <1>1, Invariant, PTL DEF Spec, SlotFreedByOwner

-----------------------------------------------------------------------------
(* The refinement.  Callers that are upstream are those whose attempt runs. *)

upstreamBar == {c \in Callers : pc[c] = "calling"}

\* A verdict of failure is a Bad leave in whatever state it lands.
LEMMA GateBad ==
  ASSUME BreakerInv(brk), NEW p \in Permits, brk' = ReleaseTrial(RecordFailure(brk), p)
  PROVE  Gate!Bad
<1>1. brk' = RecordFailure(brk)
  <2>1. RecordFailure(brk) \in Breaker /\ RecordFailure(brk).trial = NoPermit
    BY RecordFailureInv DEF BreakerInv
  <2>2. [RecordFailure(brk) EXCEPT !.trial = NoPermit] = RecordFailure(brk)
    BY <2>1 DEF Breaker
  <2>3. QED
    BY <2>1, <2>2 DEF ReleaseTrial
<1> DEFINE counted == [brk EXCEPT !.failures = @ + 1]
<1>2. /\ counted \in Breaker /\ counted.state = brk.state /\ counted.left = brk.left
      /\ counted.trial = brk.trial /\ counted.window = brk.window
  BY DEF BreakerInv, Breaker
<1>3. CASE brk.state = "half_open"
  <2> DEFINE freed == [counted EXCEPT !.trial = NoPermit]
  <2>1. freed \in Breaker /\ freed.trial = NoPermit /\ freed.window \in Windows
    BY <1>2 DEF Breaker, BreakerInv
  <2>2. brk' = Opened(freed)
    BY <1>1, <1>3 DEF RecordFailure, Trips
  <2>3. QED
    BY <1>3, <2>1, <2>2, OpenedInv DEF Gate!Bad, Gate!Shut
<1>4. CASE brk.state = "closed" /\ counted.failures >= Threshold
  <2>1. brk' = Opened(counted) /\ counted.trial = NoPermit
    BY <1>1, <1>2, <1>4 DEF RecordFailure, BreakerInv, Trips
  <2>2. QED
    BY <1>2, <1>4, <2>1, OpenedInv DEF Gate!Bad, Gate!Shut, BreakerInv
<1>5. CASE brk.state # "half_open" /\ ~(brk.state = "closed" /\ counted.failures >= Threshold)
  <2>1. brk' = counted
    BY <1>1, <1>5 DEF RecordFailure, Trips
  <2>2. QED
    BY <1>2, <1>5, <2>1 DEF Gate!Bad, BreakerInv, Breaker
<1>6. QED
  BY <1>3, <1>4, <1>5

LEMMA GateStep == IInv /\ [Next]_vars => [Gate!Next]_(Gate!vars)
<1> SUFFICES ASSUME IInv, [Next]_vars PROVE [Gate!Next]_(Gate!vars)
  OBVIOUS
<1> USE DEF Gate!Next, Gate!vars
<1>1. TypeOK /\ BreakerInv(brk)
  BY LocalParts
<1>2. ASSUME NEW c \in Callers PROVE LocalInv(c) /\ SlotInv(c)
  BY LocalParts
\* An ended attempt leaves the set, a started one joins it.
<1>3. ASSUME NEW c \in Callers, NEW how \in Ended, Finish(c, how)
      PROVE  upstreamBar' = upstreamBar \ {c}
  BY <1>1, <1>3 DEF upstreamBar, Finish, TypeOK, Ended
<1>4. ASSUME NEW c \in Callers, NEW n \in 0 .. MaxAttempts - 1, Attempt(c, n),
             pc[c] # "calling", permit[c] \in {NoPermit, Admitted}
      PROVE  Gate!Pass(c) \/ Gate!Probe(c)
  <2>1. ReleaseTrial(brk, permit[c]) = brk
    BY <1>1, <1>4, BreakerAssumption DEF BreakerInv, Breaker, ReleaseTrial
  <2>2. Admits(brk) /\ brk' = Allow(brk, c) /\ pc' = [pc EXCEPT ![c] = "calling"]
    BY <1>4, <2>1 DEF Attempt
  <2>3. c \notin upstreamBar /\ upstreamBar' = upstreamBar \cup {c}
    BY <1>1, <1>4, <2>2 DEF upstreamBar, TypeOK
  <2>4. CASE brk.state = "closed"
    BY <2>2, <2>3, <2>4 DEF Allow, Gate!Pass, upstreamBar
  <2>5. CASE brk.state # "closed"
    <3>1. brk'.state = "half_open" /\ brk'.trial = c /\ brk'.left = brk.left
      BY <1>1, <2>2, <2>5 DEF Allow, BreakerInv, Breaker
    <3>2. ~(brk.left > 0) /\ (brk.state = "open" \/ (brk.state = "half_open" /\ brk.trial = NoPermit))
      BY <1>1, <2>2, <2>5 DEF Admits, BreakerInv, Breaker
    <3>3. QED
      BY <2>3, <3>1, <3>2 DEF Gate!Probe, upstreamBar
  <2>6. QED
    BY <2>4, <2>5
<1>5. ASSUME NEW c \in Callers, Refused(c), pc[c] # "calling", permit[c] \in {NoPermit, Admitted}
      PROVE  UNCHANGED Gate!vars
  <2>1. brk' = brk /\ Finish(c, "refused") /\ "refused" \in Ended
    BY <1>1, <1>5, RefusedFacts DEF Ended
  <2>2. upstreamBar' = upstreamBar
    BY <1>3, <1>5, <2>1 DEF upstreamBar
  <2>3. QED
    BY <2>1, <2>2 DEF upstreamBar
<1>6. ASSUME NEW c \in Callers, Start(c) PROVE [Gate!Next]_(Gate!vars)
  <2>1. pc[c] # "calling" /\ permit[c] = NoPermit /\ 0 \in 0 .. MaxAttempts - 1
    BY <1>2, <1>6, PolicyAssumption DEF Start, LocalInv, Ended
  <2>2. QED
    BY <1>4, <1>5, <1>6, <2>1 DEF Start
<1>7. ASSUME NEW c \in Callers, Wake(c) PROVE [Gate!Next]_(Gate!vars)
  <2>1. pc[c] # "calling" /\ permit[c] = Admitted /\ attempt[c] + 1 \in 0 .. MaxAttempts - 1
    BY <1>1, <1>2, <1>7, PolicyAssumption DEF Wake, LocalInv, TypeOK
  <2>2. QED
    BY <1>4, <1>5, <1>7, <2>1 DEF Wake
<1>8. ASSUME NEW c \in Callers, Succeed(c) PROVE Gate!Leave(c)
  <2>1. upstreamBar' = upstreamBar \ {c} /\ c \in upstreamBar
    BY <1>3, <1>8 DEF Succeed, Ended, upstreamBar
  <2>2. brk'.state = "closed" /\ brk'.left = 0 /\ brk'.trial = NoPermit
    BY <1>8 DEF Succeed, RecordSuccess, ReleaseTrial, NewBreaker
  <2>3. QED
    BY <2>1, <2>2 DEF Gate!Leave, Gate!Good, upstreamBar
<1>9. ASSUME NEW c \in Callers, EndUnjudged(c) PROVE [Gate!Next]_(Gate!vars)
  <2>1. upstreamBar' = upstreamBar \ {c} /\ permit[c] \in Permits
    BY <1>1, <1>3, <1>9 DEF EndUnjudged, Ended, TypeOK
  <2>2. /\ brk'.trial = IF brk.trial = permit[c] THEN NoPermit ELSE brk.trial
        /\ brk'.state = brk.state /\ brk'.left = brk.left
    BY <1>1, <1>9 DEF EndUnjudged, ReleaseTrial, BreakerInv, Breaker
  <2>3. brk'.trial = IF brk.trial = c THEN NoPermit ELSE brk.trial
    BY <1>1, <1>2, <1>9, <2>1, <2>2, BreakerAssumption
    DEF LocalInv, SlotInv, EndUnjudged, Running, BreakerInv, Breaker
  <2>4. CASE pc[c] = "calling"
    <3>1. Gate!Leave(c)
      BY <2>1, <2>2, <2>3, <2>4 DEF Gate!Leave, Gate!Quiet, upstreamBar
    <3>2. QED
      BY <3>1
  <2>5. CASE pc[c] # "calling"
    <3>1. brk'.trial = brk.trial /\ upstreamBar' = upstreamBar
      BY <1>2, <2>1, <2>3, <2>5 DEF SlotInv, upstreamBar
    <3>2. QED
      BY <2>2, <3>1 DEF upstreamBar
  <2>6. QED
    BY <2>4, <2>5
<1>10. ASSUME NEW c \in Callers, GiveUp(c), pc[c] = "calling" PROVE Gate!Leave(c)
  <2>1. upstreamBar' = upstreamBar \ {c} /\ c \in upstreamBar
    BY <1>3, <1>10 DEF GiveUp, Ended, upstreamBar
  <2>2. Gate!Bad
    BY <1>1, <1>10, GateBad DEF GiveUp, TypeOK
  <2>3. QED
    BY <2>1, <2>2 DEF Gate!Leave, upstreamBar
<1>11. ASSUME NEW c \in Callers, Backoff(c) PROVE Gate!Leave(c)
  <2>1. c \in upstreamBar /\ upstreamBar' = upstreamBar \ {c}
    BY <1>1, <1>11 DEF Backoff, TypeOK, upstreamBar, OnTrial
  <2>2. brk' = brk /\ brk.trial # c
    BY <1>2, <1>11 DEF Backoff, SlotInv, OnTrial
  <2>3. QED
    BY <2>1, <2>2 DEF Gate!Leave, Gate!Quiet, upstreamBar
<1>12. CASE Tick
  <2>1. brk'.state = brk.state /\ brk'.trial = brk.trial /\ brk'.left <= brk.left
        /\ brk.left \in Nat /\ brk'.left \in Nat /\ upstreamBar' = upstreamBar
    BY <1>1, <1>12, ElapseInv DEF Tick, BreakerInv, Breaker, upstreamBar, Refilled
  <2>2. QED
    BY <2>1 DEF Gate!WindowElapses, upstreamBar
<1>13. CASE UNCHANGED vars
  BY <1>13 DEF vars
<1>14. QED
  BY <1>6, <1>7, <1>8, <1>9, <1>10, <1>11, <1>12, <1>13
  DEF Next, AttemptEnds, FailTrial, FailForGood, OnTrial

\* Every behaviour of the retry loops is a behaviour of UpstreamGate.
THEOREM GateKept == Spec => KeepsGate
<1>1. Init => Gate!Init
  BY DEF Init, NewBreaker, Gate!Init
<1>2. QED
  BY <1>1, GateStep, Invariant, PTL DEF Spec, KeepsGate, Gate!Spec

=============================================================================
