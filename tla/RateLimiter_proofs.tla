------------------------- MODULE RateLimiter_proofs -------------------------
(***************************************************************************)
(* For any rates, window and estimates: when the workers' clocks agree,    *)
(* no stretch of time admits more than a capacity plus its refill; and     *)
(* whatever the clocks do, none of them drains a bucket.                   *)
(***************************************************************************)
EXTENDS RateLimiter, TLAPS

-----------------------------------------------------------------------------
(* Products of naturals, which the arithmetic below treats as opaque.       *)

LEMMA TimesNat ==
  ASSUME NEW m \in Nat, NEW n \in Nat
  PROVE  m * n \in Nat
  BY SMT

LEMMA TimesStep ==
  ASSUME NEW m \in Nat, NEW n \in Nat
  PROVE  (m + 1) * n = m * n + n
  BY SMT

LEMMA TimesMonotone ==
  ASSUME NEW m \in Nat, NEW k \in Nat, NEW n \in Nat, m >= k
  PROVE  m * n >= k * n
<1>1. m - k \in Nat /\ m = k + (m - k)
  OBVIOUS
<1>2. (k + (m - k)) * n = k * n + (m - k) * n
  BY <1>1, SMT
<1>3. (m - k) * n \in Nat /\ k * n \in Nat
  BY <1>1, TimesNat
<1>4. QED
  BY <1>1, <1>2, <1>3

-----------------------------------------------------------------------------
(* What the scripts compute. *)

LEMMA RateFacts == /\ \A b \in Buckets : Rate[b] \in Nat /\ Capacity(Rate[b]) \in Nat
                   /\ Configured \subseteq Buckets
                   /\ "tokens" \in Buckets /\ Rate["tokens"] = Tpm
<1>1. \A b \in Buckets : Rate[b] \in Nat
  BY LimiterAssumption DEF Rate, Buckets
<1>2. \A b \in Buckets : Capacity(Rate[b]) \in Nat
  BY <1>1, LimiterAssumption, TimesNat DEF Capacity
<1>3. QED
  BY <1>1, <1>2 DEF Configured, Buckets, Rate

\* A level is within the capacity, and never below what was written.
LEMMA LevelRange ==
  ASSUME NEW b \in Buckets, NEW x \in Bucket(b), NEW off \in Offsets
  PROVE  /\ Level(x, Rate[b], off) \in 0 .. Capacity(Rate[b])
         /\ x # Absent => Level(x, Rate[b], off) >= x.held
<1>1. Rate[b] \in Nat /\ Capacity(Rate[b]) \in Nat
  BY RateFacts
<1>2. CASE x = Absent
  BY <1>1, <1>2 DEF Level
<1>3. CASE x # Absent
  <2>1. x.held \in 0 .. Capacity(Rate[b]) /\ x.idle \in Int /\ x.off \in Int /\ off \in Int
    <3>1. x \in [held : 0 .. Capacity(Rate[b]), idle : 0 .. IdleTTL - 1, off : Offsets]
      BY <1>3 DEF Bucket
    <3>2. x.held \in 0 .. Capacity(Rate[b]) /\ x.idle \in 0 .. IdleTTL - 1 /\ x.off \in Offsets
      BY <3>1
    <3>3. Window * 2 \in Int /\ Offsets \subseteq Int
      BY LimiterAssumption
    <3>4. x.idle \in Int
      BY <3>2, <3>3 DEF IdleTTL
    <3>5. QED
      BY <3>2, <3>3, <3>4
  <2>2. Elapsed(x, off) \in Nat
    BY <2>1 DEF Elapsed, AtLeast
  <2>3. Elapsed(x, off) * Rate[b] \in Nat
    BY <1>1, <2>2, TimesNat
  <2> DEFINE gained == Elapsed(x, off) * Rate[b]
  <2>4. Level(x, Rate[b], off) = AtMost(Capacity(Rate[b]), x.held + gained)
    BY <1>3 DEF Level
  <2> HIDE DEF gained
  <2>5. gained \in Nat
    BY <2>3 DEF gained
  <2>6. QED
    BY <1>1, <2>1, <2>4, <2>5 DEF AtMost
<1>4. QED
  BY <1>2, <1>3

LEMMA WrittenType ==
  ASSUME NEW b \in Buckets, NEW level \in 0 .. Capacity(Rate[b]), NEW off \in Offsets
  PROVE  /\ Written(level, off) \in Bucket(b) /\ Written(level, off) # Absent
         /\ Written(level, off).held = level
         /\ Level(Written(level, off), Rate[b], off) = level
<1>1. Rate[b] \in Nat /\ Capacity(Rate[b]) \in Nat /\ off \in Int /\ level \in Nat
  BY RateFacts, LimiterAssumption
<1>2. 0 \in 0 .. IdleTTL - 1 /\ 0 \in Nat
  BY LimiterAssumption DEF IdleTTL
<1>3. Written(level, off) \in Bucket(b)
  BY <1>2 DEF Written, Bucket
<1>4. Written(level, off) \in [held : Nat, idle : Nat, off : Int]
  BY <1>1 DEF Written
<1>5. Written(level, off) # Absent
  BY <1>4, LimiterAssumption
<1>6. Elapsed(Written(level, off), off) = 0
  BY <1>1 DEF Elapsed, Written, AtLeast
<1>7. Level(Written(level, off), Rate[b], off) = AtMost(Capacity(Rate[b]), level + 0 * Rate[b])
  BY <1>5, <1>6 DEF Level, Written
<1>8. QED
  BY <1>1, <1>3, <1>5, <1>7 DEF Written, AtMost

\* Settling never leaves the bucket's range and moves the level by the
\* difference, clamped at both ends.
LEMMA SettledFacts ==
  ASSUME NEW x \in Bucket("tokens"), NEW off \in Offsets, NEW delta \in Int, Tpm > 0
  PROVE  /\ Settled(x, Tpm, off, delta) \in Bucket("tokens")
         /\ Level(Settled(x, Tpm, off, delta), Tpm, off)
            = AtLeast(0, AtMost(Capacity(Tpm), Level(x, Tpm, off) + delta))
<1>1. /\ Level(x, Tpm, off) \in 0 .. Capacity(Tpm) /\ Capacity(Tpm) \in Nat /\ Tpm \in Nat
  BY RateFacts, LevelRange
<1> DEFINE next == AtLeast(0, AtMost(Capacity(Tpm), Level(x, Tpm, off) + delta))
<1>2. next \in 0 .. Capacity(Tpm)
  BY <1>1 DEF AtLeast, AtMost
<1>3. CASE delta = 0
  BY <1>1, <1>3 DEF Settled, AtLeast, AtMost
<1>4. CASE delta # 0
  <2>1. Settled(x, Tpm, off, delta) = Written(next, off)
    BY <1>4 DEF Settled
  <2>2. QED
    BY <1>2, <2>1, WrittenType, RateFacts
<1>5. QED
  BY <1>3, <1>4

-----------------------------------------------------------------------------

LEMMA InitType == Init => TypeOK
  BY RateFacts DEF Init, TypeOK, Bucket

LEMMA AdmitScriptType ==
  ASSUME TypeOK, NEW e \in Estimates, NEW off \in Offsets, AdmitScript(e, off)
  PROVE  /\ DOMAIN bucket' = Buckets /\ \A b \in Buckets : bucket'[b] \in Bucket(b)
         /\ \A b \in Configured :
              LET debit == IF Fits(e, off) THEN Cost(b, e) ELSE 0
              IN /\ bucket'[b] # Absent
                 /\ bucket'[b].held = LevelOf(b, off) - debit
                 /\ Level(bucket'[b], Rate[b], off) = LevelOf(b, off) - debit
         /\ \A b \in Buckets \ Configured : bucket'[b] = bucket[b]
<1>1. ASSUME NEW b \in Configured
      PROVE  LevelOf(b, off) - (IF Fits(e, off) THEN Cost(b, e) ELSE 0) \in 0 .. Capacity(Rate[b])
  <2>1. b \in Buckets /\ LevelOf(b, off) \in 0 .. Capacity(Rate[b]) /\ Capacity(Rate[b]) \in Nat
    BY RateFacts, LevelRange DEF TypeOK, LevelOf
  <2>2. Cost(b, e) \in Nat /\ (Fits(e, off) => LevelOf(b, off) >= Cost(b, e))
    BY LimiterAssumption DEF Cost, Fits
  <2>3. QED
    BY <2>1, <2>2
<1>2. ASSUME NEW b \in Configured
      PROVE  bucket'[b] = Written(LevelOf(b, off) - (IF Fits(e, off) THEN Cost(b, e) ELSE 0), off)
  BY <1>2, RateFacts DEF AdmitScript
<1>3. \A b \in Buckets \ Configured : bucket'[b] = bucket[b]
  BY DEF AdmitScript
<1>4. DOMAIN bucket' = Buckets
  BY DEF AdmitScript
<1>5. \A b \in Configured : bucket'[b] \in Bucket(b)
  BY <1>1, <1>2, WrittenType, RateFacts
<1>6. QED
  BY <1>1, <1>2, <1>3, <1>4, <1>5, WrittenType, RateFacts DEF TypeOK

LEMMA HeldIsNat ==
  ASSUME TypeOK, NEW r \in Requests, NEW actual \in Usages \cup {0}, NEW off \in Offsets,
         Reconcile(r, actual, off)
  PROVE  hold[r] \in Nat /\ counted[r] \in Nat /\ actual \in Nat
<1>1. hold[r] \in Estimates \cup {0, NoHold} /\ hold[r] # NoHold
  BY DEF TypeOK, Reconcile
<1>2. \A n \in Estimates \cup Usages \cup {0} : n \in Nat
  BY LimiterAssumption
<1>3. hold[r] \in Estimates \cup {0}
  BY <1>1
<1>4. hold[r] \in Nat
  BY <1>2, <1>3
<1>5. actual \in Nat
  BY <1>2
<1>6. counted[r] \in Nat
  BY DEF TypeOK
<1>7. QED
  BY <1>4, <1>5, <1>6

LEMMA ReconcileType ==
  ASSUME TypeOK, NEW r \in Requests, NEW actual \in Usages \cup {0}, NEW off \in Offsets,
         Reconcile(r, actual, off)
  PROVE  TypeOK'
<1>1. hold[r] \in Nat /\ counted[r] \in Nat /\ actual \in Nat
  BY HeldIsNat
<1>2. DOMAIN bucket' = Buckets /\ \A b \in Buckets : bucket'[b] \in Bucket(b)
  <2>1. Settled(bucket["tokens"], Tpm, off, hold[r] - actual) \in Bucket("tokens")
    <3>1. CASE Tpm = 0
      BY <3>1, RateFacts DEF Settled, TypeOK
    <3>2. CASE Tpm > 0
      BY <1>1, <3>2, RateFacts, SettledFacts DEF TypeOK
    <3>3. QED
      BY <3>1, <3>2, LimiterAssumption
  <2>2. QED
    BY <2>1, RateFacts DEF Reconcile, TypeOK, Buckets
<1>3. burst' \in [Buckets -> Nat]
  <2>1. CASE Tpm = 0
    BY <2>1 DEF Reconcile, TypeOK
  <2>2. CASE Tpm # 0
    <3> DEFINE next == Corrected(burst["tokens"], counted[r] - actual)
    <3>1. burst["tokens"] \in Nat /\ counted[r] - actual \in Int /\ Capacity(Tpm) \in Nat
      BY <1>1, RateFacts DEF TypeOK
    <3>2. next \in Nat
      BY <3>1 DEF Corrected, AtLeast, AtMost
    <3>3. burst' = [burst EXCEPT !["tokens"] = next]
      BY <2>2 DEF Reconcile
    <3>4. QED
      BY <3>2, <3>3 DEF TypeOK
  <2>3. QED
    BY <2>1, <2>2
<1>4. hold' \in [Requests -> Estimates \cup {0, NoHold}] /\ counted' \in [Requests -> Nat]
  BY DEF Reconcile, TypeOK
<1>5. QED
  BY <1>2, <1>3, <1>4 DEF TypeOK

LEMMA AgedType ==
  ASSUME NEW b \in Buckets, NEW x \in Bucket(b)
  PROVE  Aged(x) \in Bucket(b)
<1>1. Absent \in Bucket(b)
  BY DEF Bucket
<1>2. CASE x = Absent \/ x.idle + 1 >= IdleTTL
  BY <1>1, <1>2 DEF Aged
<1>3. CASE x # Absent /\ ~(x.idle + 1 >= IdleTTL)
  <2>1. x \in [held : 0 .. Capacity(Rate[b]), idle : 0 .. IdleTTL - 1, off : Offsets]
    BY <1>3 DEF Bucket
  <2>2. IdleTTL \in Nat /\ x.idle \in 0 .. IdleTTL - 1
    BY <2>1, LimiterAssumption DEF IdleTTL
  <2>3. x.idle + 1 \in 0 .. IdleTTL - 1
    BY <1>3, <2>2
  <2>4. [x EXCEPT !.idle = x.idle + 1] \in [held : 0 .. Capacity(Rate[b]), idle : 0 .. IdleTTL - 1, off : Offsets]
    BY <2>1, <2>3
  <2>5. QED
    BY <1>3, <2>4 DEF Aged, Bucket
<1>4. QED
  BY <1>2, <1>3

LEMMA TypeStep == TypeOK /\ [Next]_vars => TypeOK'
<1> SUFFICES ASSUME TypeOK, [Next]_vars PROVE TypeOK'
  OBVIOUS
<1>1. CASE Tick
  <2>1. burst' \in [Buckets -> Nat]
    <3>1. \A b \in Buckets : AtLeast(0, burst[b] - Rate[b]) \in Nat
      BY RateFacts DEF TypeOK, AtLeast
    <3>2. QED
      BY <1>1, <3>1 DEF Tick
  <2>2. QED
    BY <1>1, <2>1, AgedType DEF Tick, TypeOK
<1>2. ASSUME NEW r \in Requests, NEW e \in Estimates, NEW off \in Offsets, Admitted(r, e, off)
      PROVE  TypeOK'
  <2>1. \A b \in Buckets : Cost(b, e) \in Nat
    BY LimiterAssumption DEF Cost
  <2>2. burst' \in [Buckets -> Nat]
    BY <1>2, <2>1 DEF Admitted, TypeOK
  <2>3. /\ AdmitScript(e, off)
        /\ hold' \in [Requests -> Estimates \cup {0, NoHold}]
        /\ counted' \in [Requests -> Nat]
    BY <1>2, LimiterAssumption DEF Admitted, TypeOK
  <2>4. QED
    BY <2>2, <2>3, AdmitScriptType DEF TypeOK
<1>3. ASSUME NEW r \in Requests, NEW e \in Estimates, NEW off \in Offsets, Rejected(r, e, off)
      PROVE  TypeOK'
  BY <1>3, AdmitScriptType DEF Rejected, TypeOK
<1>4. ASSUME NEW r \in Requests, NEW e \in Estimates, NEW off \in Offsets, FailsOpen(r, e, off)
      PROVE  TypeOK'
  <2>1. /\ hold' \in [Requests -> Estimates \cup {0, NoHold}]
        /\ counted' \in [Requests -> Nat] /\ burst' = burst
    BY <1>4 DEF FailsOpen, TypeOK
  <2>2. DOMAIN bucket' = Buckets /\ \A b \in Buckets : bucket'[b] \in Bucket(b)
    BY <1>4, AdmitScriptType DEF FailsOpen, TypeOK
  <2>3. QED
    BY <2>1, <2>2 DEF TypeOK
<1>5. ASSUME NEW r \in Requests, NEW actual \in Usages \cup {0}, NEW off \in Offsets,
             Reconcile(r, actual, off)
      PROVE  TypeOK'
  BY <1>5, ReconcileType
<1>6. ASSUME NEW r \in Requests, KeepHold(r) PROVE TypeOK'
  BY <1>6 DEF KeepHold, TypeOK
<1>7. CASE UNCHANGED vars
  BY <1>7 DEF vars, TypeOK
<1>8. QED
  BY <1>1, <1>2, <1>3, <1>4, <1>5, <1>6, <1>7 DEF Next

\* The buckets stay in range under every clock, refund and lost reply.
THEOREM TypeCorrect == Spec => []TypeOK
  BY InitType, TypeStep, PTL DEF Spec

\* No clock, however skewed or stepped, drains a bucket (ratelimit.py:30).
THEOREM NeverDrained == Spec => ClocksNeverDrain
<1> DEFINE Kept == \A r \in Requests, e \in Estimates, off \in Offsets, b \in Configured :
          bucket[b] # Absent =>
             /\ Admitted(r, e, off) => bucket'[b].held >= bucket[b].held - Cost(b, e)
             /\ Rejected(r, e, off) => bucket'[b].held >= bucket[b].held
<1>1. ASSUME TypeOK PROVE Kept
  <2> SUFFICES ASSUME NEW r \in Requests, NEW e \in Estimates, NEW off \in Offsets,
                      NEW b \in Configured, bucket[b] # Absent
               PROVE  /\ Admitted(r, e, off) => bucket'[b].held >= bucket[b].held - Cost(b, e)
                      /\ Rejected(r, e, off) => bucket'[b].held >= bucket[b].held
    OBVIOUS
  <2>1. b \in Buckets /\ bucket[b] \in Bucket(b) /\ Cost(b, e) \in Nat
    BY <1>1, RateFacts, LimiterAssumption DEF TypeOK, Cost
  <2>2. /\ LevelOf(b, off) >= bucket[b].held /\ LevelOf(b, off) \in 0 .. Capacity(Rate[b])
        /\ Capacity(Rate[b]) \in Nat
    BY <2>1, RateFacts, LevelRange DEF LevelOf
  <2>3. bucket[b].held \in Int
    BY <2>1, <2>2 DEF Bucket
  <2>4. ASSUME Admitted(r, e, off) PROVE bucket'[b].held = LevelOf(b, off) - Cost(b, e)
    BY <1>1, <2>4, AdmitScriptType DEF Admitted
  <2>5. ASSUME Rejected(r, e, off) PROVE bucket'[b].held = LevelOf(b, off) - 0
    BY <1>1, <2>5, AdmitScriptType DEF Rejected
  <2>6. QED
    BY <2>1, <2>2, <2>3, <2>4, <2>5
<1>2. QED
  BY <1>1, TypeCorrect, PTL DEF Spec, ClocksNeverDrain

-----------------------------------------------------------------------------
(* The allowance.  LevelCoversBurst is inductive once the clocks agree: a   *)
(* level and the history move in opposite directions by the same amount, and *)
(* a bucket only expires when time alone has filled it.                      *)

LEMMA AgedLevel ==
  ASSUME Offsets = {0}, NEW b \in Buckets, NEW x \in Bucket(b)
  PROVE  Level(Aged(x), Rate[b], 0) <= Level(x, Rate[b], 0) + Rate[b]
<1>1. Rate[b] \in Nat /\ Capacity(Rate[b]) \in Nat /\ Window \in Nat
  BY RateFacts, LimiterAssumption
<1>2. CASE x = Absent
  BY <1>1, <1>2 DEF Aged, Level
<1>3. CASE x # Absent
  <2>1. x \in [held : 0 .. Capacity(Rate[b]), idle : 0 .. IdleTTL - 1, off : Offsets]
    BY <1>3 DEF Bucket
  <2>2. /\ x.held \in Nat /\ x.idle \in Nat /\ x.off = 0 /\ IdleTTL = Window * 2
        /\ x.held <= Capacity(Rate[b])
    BY <1>1, <2>1 DEF IdleTTL
  <2> DEFINE paid == x.idle * Rate[b]
             more == (x.idle + 1) * Rate[b]
  <2>3. paid \in Nat /\ more = paid + Rate[b]
    BY <1>1, <2>2, TimesNat, TimesStep
  <2>4. Elapsed(x, 0) = x.idle
    BY <2>2 DEF Elapsed, AtLeast
  <2>5. Level(x, Rate[b], 0) = AtMost(Capacity(Rate[b]), x.held + paid)
    BY <1>3, <2>4 DEF Level
  <2>6. CASE x.idle + 1 >= IdleTTL
    <3>1. Level(Aged(x), Rate[b], 0) = Capacity(Rate[b])
      BY <2>6 DEF Aged, Level
    <3>2. x.idle + 1 >= Window /\ x.idle + 1 \in Nat
      BY <1>1, <2>2, <2>6
    <3>3. more >= Window * Rate[b]
      BY <1>1, <3>2, TimesMonotone
    <3>4. Window * Rate[b] = Capacity(Rate[b])
      BY <1>1, SMT DEF Capacity
    <3> HIDE DEF paid, more
    <3>5. QED
      BY <1>1, <2>2, <2>3, <2>5, <3>1, <3>3, <3>4 DEF AtMost
  <2>7. CASE ~(x.idle + 1 >= IdleTTL)
    <3> DEFINE y == [x EXCEPT !.idle = x.idle + 1]
    <3>1. Aged(x) = y /\ y.held = x.held /\ y.idle = x.idle + 1 /\ y.off = 0
      BY <1>3, <2>1, <2>2, <2>7 DEF Aged
    <3>2. y # Absent
      <4>1. y \in [held : Nat, idle : Nat, off : Int]
        BY <1>1, <2>1, <2>2
      <4>2. QED
        BY <4>1, LimiterAssumption
    <3>3. Elapsed(y, 0) = x.idle + 1
      BY <2>2, <3>1 DEF Elapsed, AtLeast
    <3>4. Level(Aged(x), Rate[b], 0) = AtMost(Capacity(Rate[b]), x.held + more)
      BY <3>1, <3>2, <3>3 DEF Level
    <3> HIDE DEF paid, more, y
    <3>5. QED
      BY <1>1, <2>2, <2>3, <2>5, <3>4 DEF AtMost
  <2>8. QED
    BY <2>6, <2>7
<1>4. QED
  BY <1>2, <1>3

\* A reservation is what was really debited for it: one that was not enforced
\* claims nothing, so its settlement refunds nothing.
HoldsCounted == \A r \in Requests : hold[r] # NoHold => counted[r] = hold[r]

LEMMA HoldsCountedAlways == Spec => []HoldsCounted
<1>1. Init => HoldsCounted
  BY DEF Init, HoldsCounted
<1>2. TypeOK /\ HoldsCounted /\ [Next]_vars => HoldsCounted'
  BY DEF TypeOK, HoldsCounted, Next, vars, Tick, Admitted, Rejected, FailsOpen, Reconcile, KeepHold
<1>3. QED
  BY <1>1, <1>2, TypeCorrect, PTL DEF Spec

LEMMA TickCovers ==
  ASSUME Offsets = {0}, TypeOK, LevelCoversBurst, Tick
  PROVE  LevelCoversBurst'
<1> SUFFICES ASSUME NEW b \in Configured
             PROVE  Level(bucket'[b], Rate[b], 0) + burst'[b] <= Capacity(Rate[b])
  BY DEF LevelCoversBurst, LevelOf
<1>1. /\ b \in Buckets /\ Rate[b] \in Nat /\ Capacity(Rate[b]) \in Nat
      /\ bucket[b] \in Bucket(b) /\ burst[b] \in Nat /\ 0 \in Offsets
  BY RateFacts DEF TypeOK
<1>2. bucket'[b] = Aged(bucket[b]) /\ burst'[b] = AtLeast(0, burst[b] - Rate[b])
  BY <1>1 DEF Tick
<1>3. Level(bucket'[b], Rate[b], 0) <= Level(bucket[b], Rate[b], 0) + Rate[b]
  BY <1>1, <1>2, AgedLevel
<1>4. /\ Level(bucket'[b], Rate[b], 0) \in 0 .. Capacity(Rate[b])
      /\ Level(bucket[b], Rate[b], 0) \in 0 .. Capacity(Rate[b])
  BY <1>1, <1>2, AgedType, LevelRange
<1>5. Level(bucket[b], Rate[b], 0) + burst[b] <= Capacity(Rate[b])
  BY DEF LevelCoversBurst, LevelOf
<1>6. QED
  BY <1>1, <1>2, <1>3, <1>4, <1>5 DEF AtLeast

LEMMA ScriptLevels ==
  ASSUME Offsets = {0}, TypeOK, NEW e \in Estimates, AdmitScript(e, 0), NEW b \in Configured
  PROVE  /\ Level(bucket'[b], Rate[b], 0) = LevelOf(b, 0) - (IF Fits(e, 0) THEN Cost(b, e) ELSE 0)
         /\ LevelOf(b, 0) \in Nat /\ Capacity(Rate[b]) \in Nat /\ burst[b] \in Nat /\ Cost(b, e) \in Nat
<1>1. 0 \in Offsets /\ b \in Buckets
  BY RateFacts
<1>2. LevelOf(b, 0) \in 0 .. Capacity(Rate[b]) /\ Capacity(Rate[b]) \in Nat
  BY <1>1, RateFacts, LevelRange DEF LevelOf, TypeOK
<1>3. burst[b] \in Nat /\ Cost(b, e) \in Nat
  BY <1>1, LimiterAssumption DEF TypeOK, Cost
<1>4. QED
  BY <1>1, <1>2, <1>3, AdmitScriptType

LEMMA ReconcileCovers ==
  ASSUME Offsets = {0}, TypeOK, HoldsCounted, LevelCoversBurst,
         NEW r \in Requests, NEW actual \in Usages \cup {0}, Reconcile(r, actual, 0)
  PROVE  LevelCoversBurst'
<1> SUFFICES ASSUME NEW b \in Configured
             PROVE  Level(bucket'[b], Rate[b], 0) + burst'[b] <= Capacity(Rate[b])
  BY DEF LevelCoversBurst, LevelOf
<1>1. /\ b \in Buckets /\ Rate[b] \in Nat /\ Capacity(Rate[b]) \in Nat
      /\ bucket[b] \in Bucket(b) /\ burst[b] \in Nat /\ 0 \in Offsets
  BY RateFacts DEF TypeOK
<1>2. Level(bucket[b], Rate[b], 0) \in 0 .. Capacity(Rate[b])
  BY <1>1, LevelRange
<1>3. Level(bucket[b], Rate[b], 0) + burst[b] <= Capacity(Rate[b])
  BY DEF LevelCoversBurst, LevelOf
<1>4. CASE b = "requests"
  BY <1>1, <1>3, <1>4 DEF Reconcile, TypeOK
<1>5. CASE b = "tokens"
  <2> DEFINE delta == hold[r] - actual
  <2>1. delta \in Int
    <3>1. hold[r] \in Nat /\ actual \in Nat
      BY <1>1, HeldIsNat, Zenon
    <3>2. QED
      BY <3>1
  <2>2. Tpm > 0 /\ Rate[b] = Tpm
    BY <1>5, RateFacts DEF Configured
  <2>3. bucket'[b] = Settled(bucket[b], Tpm, 0, delta)
    BY <1>1, <1>5 DEF Reconcile, TypeOK
  <2>4. burst'[b] = Corrected(burst[b], delta)
    <3>1. counted[r] = hold[r]
      BY DEF HoldsCounted, Reconcile
    <3>2. QED
      BY <1>1, <1>5, <2>2, <3>1, LimiterAssumption DEF Reconcile, TypeOK
  <2> HIDE DEF delta
  <2>5. Level(bucket'[b], Tpm, 0) = AtLeast(0, AtMost(Capacity(Tpm), Level(bucket[b], Tpm, 0) + delta))
    BY <1>1, <1>5, <2>1, <2>2, <2>3, SettledFacts
  <2>6. QED
    BY <1>1, <1>2, <1>3, <2>1, <2>2, <2>4, <2>5 DEF Corrected, AtLeast, AtMost
<1>6. QED
  BY <1>1, <1>4, <1>5 DEF Buckets

LEMMA CoversStep ==
  ASSUME Offsets = {0}
  PROVE  TypeOK /\ HoldsCounted /\ LevelCoversBurst /\ [Next]_vars => LevelCoversBurst'
<1> SUFFICES ASSUME TypeOK, HoldsCounted, LevelCoversBurst, [Next]_vars PROVE LevelCoversBurst'
  OBVIOUS
<1>1. CASE Tick
  BY <1>1, TickCovers
<1>2. ASSUME NEW r \in Requests, NEW e \in Estimates, NEW off \in Offsets, Admitted(r, e, off)
      PROVE  LevelCoversBurst'
  <2>1. off = 0 /\ AdmitScript(e, 0) /\ Fits(e, 0)
    BY <1>2 DEF Admitted
  <2>2. \A b \in Configured : burst'[b] = burst[b] + Cost(b, e)
    BY <1>2, RateFacts DEF Admitted
  <2>3. QED
    BY <2>1, <2>2, ScriptLevels DEF LevelCoversBurst, LevelOf
<1>3. ASSUME NEW r \in Requests, NEW e \in Estimates, NEW off \in Offsets, Rejected(r, e, off)
      PROVE  LevelCoversBurst'
  <2>1. off = 0 /\ AdmitScript(e, 0) /\ ~Fits(e, 0) /\ burst' = burst
    BY <1>3 DEF Rejected
  <2>2. QED
    BY <2>1, ScriptLevels DEF LevelCoversBurst, LevelOf
<1>4. ASSUME NEW r \in Requests, NEW e \in Estimates, NEW off \in Offsets, FailsOpen(r, e, off)
      PROVE  LevelCoversBurst'
  <2>1. off = 0 /\ burst' = burst
    BY <1>4 DEF FailsOpen
  <2>2. CASE AdmitScript(e, 0)
    BY <2>1, <2>2, ScriptLevels DEF LevelCoversBurst, LevelOf
  <2>3. CASE UNCHANGED bucket
    BY <2>1, <2>3 DEF LevelCoversBurst, LevelOf
  <2>4. QED
    BY <1>4, <2>1, <2>2, <2>3 DEF FailsOpen
<1>5. ASSUME NEW r \in Requests, NEW actual \in Usages \cup {0}, NEW off \in Offsets,
             Reconcile(r, actual, off)
      PROVE  LevelCoversBurst'
  BY <1>5, ReconcileCovers
<1>6. ASSUME NEW r \in Requests, KeepHold(r) PROVE LevelCoversBurst'
  BY <1>6 DEF KeepHold, LevelCoversBurst, LevelOf
<1>7. CASE UNCHANGED vars
  BY <1>7 DEF vars, LevelCoversBurst, LevelOf
<1>8. QED
  BY <1>1, <1>2, <1>3, <1>4, <1>5, <1>6, <1>7 DEF Next

\* What a bucket would admit now and what it has admitted and not been paid
\* back for stay within one capacity, when the workers' clocks agree.
THEOREM LevelsCoverBursts ==
  ASSUME Offsets = {0}
  PROVE  Spec => []LevelCoversBurst
<1>1. Init => LevelCoversBurst
  BY RateFacts DEF Init, LevelCoversBurst, LevelOf, Level
<1>2. QED
  BY <1>1, TypeCorrect, HoldsCountedAlways, CoversStep, PTL DEF Spec

\* No stretch of time admits more than a capacity plus its refill, for any
\* rates, estimates, usages and number of requests, when the clocks agree.
THEOREM AllowanceHolds ==
  ASSUME Offsets = {0}
  PROVE  Spec => []AdmittedWithinAllowance
<1>1. TypeOK /\ LevelCoversBurst => AdmittedWithinAllowance
  <2> SUFFICES ASSUME TypeOK, LevelCoversBurst, NEW b \in Configured
               PROVE  burst[b] <= Capacity(Rate[b])
    BY DEF AdmittedWithinAllowance
  <2>1. b \in Buckets /\ bucket[b] \in Bucket(b) /\ burst[b] \in Nat /\ 0 \in Offsets
    BY RateFacts DEF TypeOK
  <2>2. LevelOf(b, 0) \in 0 .. Capacity(Rate[b]) /\ Capacity(Rate[b]) \in Nat
    BY <2>1, LevelRange, RateFacts DEF LevelOf
  <2>3. QED
    BY <2>1, <2>2 DEF LevelCoversBurst
<1>2. QED
  BY <1>1, TypeCorrect, LevelsCoverBursts, PTL

-----------------------------------------------------------------------------
(* Refusals: what one costs, and how long its caller is told to wait.       *)

\* A refused request leaves both allowances as its script measured them, for
\* any clocks (ADR-021): the bucket that had room is not debited.
THEOREM RefusalsAreFree == Spec => RefusalCostsNothing
<1> DEFINE Free == \A r \in Requests, e \in Estimates, off \in Offsets :
                      Rejected(r, e, off)
                      => \A b \in Configured : LevelOf(b, off)' = LevelOf(b, off)
<1>1. ASSUME TypeOK PROVE Free
  <2> SUFFICES ASSUME NEW r \in Requests, NEW e \in Estimates, NEW off \in Offsets,
                      Rejected(r, e, off), NEW b \in Configured
               PROVE  Level(bucket'[b], Rate[b], off) = LevelOf(b, off)
    BY DEF LevelOf
  <2>1. LevelOf(b, off) \in 0 .. Capacity(Rate[b]) /\ Capacity(Rate[b]) \in Nat
    BY <1>1, RateFacts, LevelRange DEF LevelOf, TypeOK
  <2>2. Level(bucket'[b], Rate[b], off) = LevelOf(b, off) - 0
    BY <1>1, AdmitScriptType DEF Rejected
  <2>3. QED
    BY <2>1, <2>2
<1>2. QED
  BY <1>1, TypeCorrect, PTL DEF Spec, RefusalCostsNothing

\* Division rounded up: the least multiple of n that reaches s.
LEMMA RoundedUp ==
  ASSUME NEW s \in Nat, NEW n \in Nat, s > 0, n > 0
  PROVE  /\ (s + n - 1) \div n \in Nat
         /\ (s + n - 1) \div n >= 1
         /\ ((s + n - 1) \div n) * n >= s
         /\ ((s + n - 1) \div n - 1) * n < s
<1>1. PICK m \in Nat : m = s + n - 1
  BY s + n - 1 \in Nat
<1>2. PICK q : q = m \div n
  OBVIOUS
<1>3. q \in Nat /\ q * n <= m /\ m < (q + 1) * n
  BY <1>1, <1>2
<1>4. q * n \in Nat /\ (q + 1) * n = q * n + n /\ (q - 1) * n = q * n - n
  BY <1>3, SMT
<1>5. q # 0
  <2>1. m >= n
    BY <1>1
  <2>2. q = 0 => m < n
    BY <1>3, <1>4
  <2>3. QED
    BY <1>1, <2>1, <2>2
<1>6. q * n >= s /\ (q - 1) * n < s /\ q >= 1
  BY <1>1, <1>3, <1>4, <1>5
<1>7. QED
  BY <1>1, <1>2, <1>3, <1>6

\* A bucket t ticks from now, with nobody asking in between.
After(x, t) == IF x = Absent THEN Absent ELSE [x EXCEPT !.idle = @ + t]

\* Left alone, a bucket gains its rate a tick up to its capacity.
LEMMA LevelsLater ==
  ASSUME Offsets = {0}, NEW b \in Buckets, NEW x \in Bucket(b), NEW t \in Nat
  PROVE  /\ t * Rate[b] \in Nat
         /\ Level(After(x, t), Rate[b], 0)
            = AtMost(Capacity(Rate[b]), Level(x, Rate[b], 0) + t * Rate[b])
<1>1. Rate[b] \in Nat /\ Capacity(Rate[b]) \in Nat /\ Window \in Nat
  BY RateFacts, LimiterAssumption
<1>2. t * Rate[b] \in Nat
  BY <1>1, TimesNat
<1>3. CASE x = Absent
  BY <1>1, <1>2, <1>3 DEF After, Level, AtMost
<1>4. CASE x # Absent
  <2>1. x \in [held : 0 .. Capacity(Rate[b]), idle : 0 .. IdleTTL - 1, off : Offsets]
    BY <1>4 DEF Bucket
  <2>2. x.held \in Nat /\ x.idle \in Nat /\ x.off = 0 /\ IdleTTL \in Nat
    BY <1>1, <2>1 DEF IdleTTL
  <2> DEFINE y == [x EXCEPT !.idle = x.idle + t]
  <2>3. After(x, t) = y /\ y.held = x.held /\ y.idle = x.idle + t /\ y.off = 0
    BY <1>4, <2>1, <2>2 DEF After
  <2>4. y # Absent
    <3>1. y \in [held : Nat, idle : Nat, off : Int]
      BY <1>1, <2>1, <2>2
    <3>2. QED
      BY <3>1, LimiterAssumption
  <2>5. Elapsed(x, 0) = x.idle /\ Elapsed(y, 0) = x.idle + t
    BY <2>2, <2>3 DEF Elapsed, AtLeast
  <2> DEFINE paid == x.idle * Rate[b]
             more == (x.idle + t) * Rate[b]
             gain == t * Rate[b]
  <2>6. paid \in Nat /\ gain \in Nat /\ more = paid + gain
    BY <1>1, <1>2, <2>2, TimesNat, SMT
  <2>7. Level(x, Rate[b], 0) = AtMost(Capacity(Rate[b]), x.held + paid)
    BY <1>4, <2>5 DEF Level
  <2>8. Level(After(x, t), Rate[b], 0) = AtMost(Capacity(Rate[b]), x.held + more)
    BY <2>3, <2>4, <2>5 DEF Level
  <2> HIDE DEF paid, more, gain
  <2>9. Level(After(x, t), Rate[b], 0)
        = AtMost(Capacity(Rate[b]), Level(x, Rate[b], 0) + gain)
    BY <1>1, <2>2, <2>6, <2>7, <2>8 DEF AtMost
  <2>10. QED
    BY <1>2, <2>9 DEF gain
<1>5. QED
  BY <1>3, <1>4

\* A bucket's wait is the first moment at which it would fit the cost, and
\* what could ever fit does within a window.
LEMMA WaitIsExact ==
  ASSUME Offsets = {0}, NEW b \in Configured, NEW x \in Bucket(b),
         NEW cost \in Nat, cost <= Capacity(Rate[b])
  PROVE  LET w == Wait(x, Rate[b], 0, cost)
         IN /\ w \in 0 .. Window
            /\ \A t \in Nat : t >= w => Level(After(x, t), Rate[b], 0) >= cost
            /\ \A t \in Nat : t < w => Level(After(x, t), Rate[b], 0) < cost
            /\ Level(x, Rate[b], 0) < cost => w >= 1
<1> DEFINE w == Wait(x, Rate[b], 0, cost)
<1>1. PICK n \in Nat : n = Rate[b] /\ n > 0
  BY RateFacts DEF Configured
<1>2. PICK cap \in Nat : cap = Capacity(Rate[b])
  BY RateFacts DEF Configured
<1>3. PICK level \in Nat : level = Level(x, Rate[b], 0) /\ level <= cap
  BY <1>2, LevelRange, RateFacts
<1>4. ASSUME NEW t \in Nat
      PROVE  t * n \in Nat /\ Level(After(x, t), Rate[b], 0) = AtMost(cap, level + t * n)
  BY <1>1, <1>2, <1>3, LevelsLater, RateFacts
<1>5. CASE level >= cost
  <2>1. w = 0
    BY <1>3, <1>5 DEF Wait
  <2>2. ASSUME NEW t \in Nat PROVE Level(After(x, t), Rate[b], 0) >= cost
    BY <1>2, <1>4, <1>5 DEF AtMost
  <2>3. Window \in Nat
    BY LimiterAssumption
  <2>4. QED
    BY <1>3, <1>5, <2>1, <2>2, <2>3
<1>6. CASE level < cost
  <2>1. PICK s \in Nat : s = cost - level /\ s > 0
    <3>1. cost - level \in Nat /\ cost - level > 0
      BY <1>6
    <3>2. QED
      BY <3>1
  <2>2. w = (s + n - 1) \div n
    BY <1>1, <1>3, <2>1 DEF Wait
  <2>3. w \in Nat /\ w >= 1 /\ w * n >= s /\ (w - 1) * n < s
    BY <1>1, <2>1, <2>2, RoundedUp
  <2> HIDE DEF w
  <2>4. w <= Window
    <3>1. Window \in Nat /\ cap = Window * n
      BY <1>1, <1>2, LimiterAssumption, SMT DEF Capacity
    <3>2. ASSUME w - 1 >= Window PROVE FALSE
      <4>1. (w - 1) * n >= Window * n
        BY <1>1, <2>3, <3>1, <3>2, TimesMonotone
      <4>2. w - 1 \in Nat /\ (w - 1) * n \in Nat
        BY <1>1, <2>3, TimesNat
      <4>3. QED
        BY <1>2, <2>1, <2>3, <3>1, <4>1, <4>2
    <3>3. QED
      BY <2>3, <3>1, <3>2
  <2>5. ASSUME NEW t \in Nat, t >= w PROVE Level(After(x, t), Rate[b], 0) >= cost
    <3>1. t * n >= w * n /\ w * n \in Nat
      BY <1>1, <2>3, <2>5, TimesMonotone, TimesNat
    <3>2. level + t * n >= cost
      BY <1>4, <2>1, <2>3, <3>1
    <3>3. QED
      BY <1>2, <1>4, <3>2 DEF AtMost
  <2>6. ASSUME NEW t \in Nat, t < w PROVE Level(After(x, t), Rate[b], 0) < cost
    <3>1. w - 1 \in Nat /\ w - 1 >= t
      BY <2>3, <2>6
    <3>2. (w - 1) * n >= t * n /\ (w - 1) * n \in Nat
      BY <1>1, <3>1, TimesMonotone, TimesNat
    <3>3. level + t * n < cost
      BY <1>4, <2>1, <2>3, <3>2
    <3>4. QED
      BY <1>2, <1>4, <3>3 DEF AtMost
  <2>7. w \in 0 .. Window
    BY <2>3, <2>4, LimiterAssumption
  <2>8. QED
    BY <2>3, <2>5, <2>6, <2>7 DEF w
<1>7. QED
  BY <1>5, <1>6

\* Retry-After is exact for any rates, window and estimates when the clocks
\* agree: obeyed it is enough, a tick less is not, and it is within a window.
THEOREM RetryAfterHolds ==
  ASSUME Offsets = {0}
  PROVE  Spec => []RetryAfterIsExact
<1>1. TypeOK => RetryAfterIsExact
  <2> SUFFICES ASSUME TypeOK, NEW e \in Estimates, ~TooLarge(e), ~Fits(e, 0)
               PROVE  LET t == RetryTicks(e)
                      IN /\ t \in 1 .. Window
                         /\ \A b \in Configured : LevelAfter(b, t) >= Cost(b, e)
                         /\ \E b \in Configured : LevelAfter(b, t - 1) < Cost(b, e)
    BY DEF RetryAfterIsExact
  <2> DEFINE wait(b) == Wait(bucket[b], Rate[b], 0, Cost(b, e))
  <2>1. Window \in Nat /\ Window >= 1 /\ e \in Nat /\ e >= 1
    BY LimiterAssumption
  <2>2. ASSUME NEW b \in Configured
        PROVE  /\ b \in Buckets /\ bucket[b] \in Bucket(b)
               /\ Cost(b, e) \in Nat /\ Cost(b, e) <= Capacity(Rate[b])
    <3>1. b \in Buckets /\ bucket[b] \in Bucket(b) /\ Rate[b] \in Nat /\ Rate[b] >= 1
      BY RateFacts DEF TypeOK, Configured
    <3>2. CASE b = "requests"
      <4>1. 1 <= Rate[b] * Window
        BY <2>1, <3>1, SMT
      <4>2. QED
        BY <3>1, <3>2, <4>1 DEF Cost, Capacity
    <3>3. CASE b = "tokens"
      <4>1. Rate[b] = Tpm /\ Capacity(Tpm) \in Nat
        BY <3>3, RateFacts
      <4>2. e <= Capacity(Tpm)
        BY <2>1, <3>1, <4>1 DEF TooLarge
      <4>3. QED
        BY <2>1, <3>1, <3>3, <4>1, <4>2 DEF Cost
    <3>4. QED
      BY <3>1, <3>2, <3>3 DEF Buckets
  <2>3. ASSUME NEW b \in Configured
        PROVE  /\ wait(b) \in 0 .. Window
               /\ \A t \in Nat : t >= wait(b) => LevelAfter(b, t) >= Cost(b, e)
               /\ \A t \in Nat : t < wait(b) => LevelAfter(b, t) < Cost(b, e)
               /\ LevelOf(b, 0) < Cost(b, e) => wait(b) >= 1
    BY <2>2, WaitIsExact, Zenon DEF LevelAfter, After, LevelOf
  <2>4. PICK c \in Configured : ~(LevelOf(c, 0) >= Cost(c, e))
    BY DEF Fits
  <2>5. wait(c) >= 1
    <3>1. LevelOf(c, 0) \in Nat /\ Cost(c, e) \in Nat
      BY <2>2, <2>4, LevelRange, RateFacts DEF LevelOf
    <3>2. QED
      BY <2>3, <2>4, <3>1
  <2> HIDE DEF wait
  \* The longest of at most two waits.
  <2>6. PICK d \in Configured : \A b \in Configured : wait(b) <= wait(d)
    <3>1. Configured \subseteq {"requests", "tokens"}
      BY DEF Configured, Buckets
    <3>2. \A b \in Configured : wait(b) \in Int
      BY <2>3
    <3>3. ASSUME NEW b \in Configured, NEW a \in Configured
          PROVE  wait(a) <= wait(b) \/ wait(b) <= wait(a)
      BY <3>2
    <3>4. QED
      BY <2>4, <3>1, <3>2, <3>3
  <2>7. RetryTicks(e) = wait(d)
    <3> DEFINE waits == {Wait(bucket[b], Rate[b], 0, Cost(b, e)) : b \in Configured}
    <3>1. \A v \in waits : v \in Int
      BY <2>3 DEF wait
    <3>2. wait(d) \in waits /\ \A v \in waits : v <= wait(d)
      BY <2>6 DEF wait
    <3>3. RetryTicks(e) = CHOOSE v \in waits : \A u \in waits : u <= v
      BY DEF RetryTicks
    <3> HIDE DEF waits
    <3>4. RetryTicks(e) \in waits /\ \A u \in waits : u <= RetryTicks(e)
      BY <3>2, <3>3
    <3>5. QED
      BY <3>1, <3>2, <3>4
  <2>8. wait(d) \in 1 .. Window
    BY <2>3, <2>4, <2>5, <2>6
  <2>9. ASSUME NEW b \in Configured PROVE LevelAfter(b, wait(d)) >= Cost(b, e)
    BY <2>3, <2>6, <2>8
  <2>10. LevelAfter(d, wait(d) - 1) < Cost(d, e)
    <3>1. wait(d) - 1 \in Nat /\ wait(d) - 1 < wait(d)
      BY <2>8
    <3>2. QED
      BY <2>3, <2>6, <3>1
  <2>11. QED
    BY <2>6, <2>7, <2>8, <2>9, <2>10
<1>2. QED
  BY <1>1, TypeCorrect, PTL

=============================================================================
