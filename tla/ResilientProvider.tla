-------------------------- MODULE ResilientProvider --------------------------
(***************************************************************************)
(* One adapter behind its retry loop and its own breaker                   *)
(* (providers/resilience_wrapper.py, class ResilientProvider), called by   *)
(* many tasks at once.  A caller's steps are the stretches of _call()      *)
(* between two awaits that really suspend: the upstream attempt and the    *)
(* backoff sleep.  Everything in between (allow, the verdict, the release  *)
(* in the `finally`, the budget) runs without yielding, so it is one step. *)
(*                                                                         *)
(* `complete` and `stream` share the loop; a stream's attempt is the wait  *)
(* for its first chunk, so both are the same behaviour here.               *)
(***************************************************************************)
EXTENDS CircuitBreaker

CONSTANTS MaxAttempts,    \* RetryPolicy.max_attempts
          BackoffBase,    \* RetryPolicy.backoff_base
          MaxBackoff,     \* RetryPolicy.max_backoff
          Deadline,       \* RetryPolicy.deadline_seconds
          RetryAfters,    \* waits a provider may ask for in Retry-After
          BudgetEnabled,  \* whether build_policy made a RetryBudget
          BudgetCapacity, \* RetryBudget.capacity
          BudgetRefill    \* RetryBudget.refill_per_second

ASSUME PolicyAssumption ==
    /\ MaxAttempts \in Nat \ {0}
    /\ BackoffBase \in Nat /\ MaxBackoff \in Nat
    /\ Deadline \in Nat
    /\ RetryAfters \subseteq Nat
    /\ BudgetEnabled \in BOOLEAN
    /\ BudgetCapacity \in Nat \ {0} /\ BudgetRefill \in Nat \ {0}

VARIABLES brk,      \* the breaker
          tokens,   \* RetryBudget._tokens, refilled up to the present
          pc,       \* where each caller's request is, or how its last one ended
          attempt,  \* the zero-based attempt it is on
          permit,   \* the permit that attempt was admitted with
          timer,    \* what is left of its backoff sleep
          elapsed,  \* now() - started, up to one tick past the deadline
          verdicts, \* record_success / record_failure calls it has made
          reports   \* _report_give_up calls it has made

locals == <<attempt, permit, timer, elapsed>>
vars == <<brk, tokens, pc, attempt, permit, timer, elapsed, verdicts, reports>>

Running == {"calling", "sleeping"}
Ended == {"idle", "served", "refused", "unjudged", "gave_up"}

-----------------------------------------------------------------------------

\* backoff_seconds(attempt): exponential, capped.
BackoffSeconds(n) == Lesser(MaxBackoff, BackoffBase * 2^n)

\* sleep_for: the provider's own Retry-After if it named one, else full
\* jitter, which may be any length up to the backoff.
Sleeps(n) == RetryAfters \cup 0 .. BackoffSeconds(n)

LastAttempt(c) == attempt[c] >= MaxAttempts - 1
BudgetAllows == BudgetEnabled => tokens >= 1
SpendToken == IF BudgetEnabled THEN tokens - 1 ELSE tokens

\* What a tick adds to the budget.
Refilled(n) == Lesser(BudgetCapacity, n + BudgetRefill)

\* permit.trial
OnTrial(c) == permit[c] = c

PastDeadline(c, sleep) == elapsed[c] >= Deadline \/ sleep > Deadline - elapsed[c]

Init == /\ brk = NewBreaker
        /\ tokens = BudgetCapacity
        /\ pc = [c \in Callers |-> "idle"]
        /\ attempt = [c \in Callers |-> 0]
        /\ permit = [c \in Callers |-> NoPermit]
        /\ timer = [c \in Callers |-> 0]
        /\ elapsed = [c \in Callers |-> 0]
        /\ verdicts = [c \in Callers |-> 0]
        /\ reports = [c \in Callers |-> 0]

\* The call returns or raises: its locals go out of scope.
Finish(c, how) == /\ pc' = [pc EXCEPT ![c] = how]
                  /\ attempt' = [attempt EXCEPT ![c] = 0]
                  /\ permit' = [permit EXCEPT ![c] = NoPermit]
                  /\ timer' = [timer EXCEPT ![c] = 0]
                  /\ elapsed' = [elapsed EXCEPT ![c] = 0]

\* permit = await self.breaker.allow(), on the way into attempt n, the
\* attempt before it having handed its own permit back.
Attempt(c, n) ==
    LET free == ReleaseTrial(brk, permit[c])
    IN /\ Admits(free)
       /\ brk' = Allow(free, c)
       /\ permit' = [permit EXCEPT ![c] = PermitFor(free, c)]
       /\ pc' = [pc EXCEPT ![c] = "calling"]
       /\ attempt' = [attempt EXCEPT ![c] = n]
       /\ UNCHANGED <<tokens, timer>>

\* raise await self._refuse(): no verdict and no report, whichever attempt.
Refused(c) ==
    LET free == ReleaseTrial(brk, permit[c])
    IN /\ ~Admits(free)
       /\ brk' = free
       /\ Finish(c, "refused")
       /\ UNCHANGED tokens

\* _call() starts: `started = now()` and the first consultation.
Start(c) == /\ pc[c] \in Ended
            /\ verdicts' = [verdicts EXCEPT ![c] = 0]
            /\ reports' = [reports EXCEPT ![c] = 0]
            /\ \/ /\ Attempt(c, 0)
                  /\ elapsed' = [elapsed EXCEPT ![c] = 0]
               \/ Refused(c)

\* Mutant: a retry the breaker refuses waits for leave.
WakeWaits(c) == /\ pc[c] = "sleeping"
                /\ timer[c] = 0
                /\ Attempt(c, attempt[c] + 1)
                /\ UNCHANGED <<elapsed, verdicts, reports>>

\* The backoff sleep is over: round the loop to the next attempt.
Wake(c) == /\ pc[c] = "sleeping"
           /\ timer[c] = 0
           /\ \/ /\ Attempt(c, attempt[c] + 1)
                 /\ UNCHANGED elapsed
              \/ Refused(c)
           /\ UNCHANGED <<verdicts, reports>>

\* The attempt returned: the else branch of the try, then its finally.
Succeed(c) == /\ pc[c] = "calling"
              /\ brk' = ReleaseTrial(RecordSuccess(brk), permit[c])
              /\ verdicts' = [verdicts EXCEPT ![c] = @ + 1]
              /\ Finish(c, "served")
              /\ UNCHANGED <<tokens, reports>>

\* A non-retryable ProviderError, an exception that is not one, or the
\* caller's cancellation, during the attempt or the backoff sleep.
EndUnjudged(c) == /\ pc[c] \in Running
                  /\ brk' = ReleaseTrial(brk, permit[c])
                  /\ Finish(c, "unjudged")
                  /\ UNCHANGED <<tokens, verdicts, reports>>

\* record_failure, one report, and the provider's error to the caller.
GiveUp(c) == /\ brk' = ReleaseTrial(RecordFailure(brk), permit[c])
             /\ verdicts' = [verdicts EXCEPT ![c] = @ + 1]
             /\ reports' = [reports EXCEPT ![c] = @ + 1]
             /\ Finish(c, "gave_up")

\* A retryable failure of the trial: one call, never a retry sequence.
FailTrial(c) == /\ pc[c] = "calling"
                /\ OnTrial(c)
                /\ GiveUp(c)
                /\ UNCHANGED tokens

\* _backoff_or_give_up returns a reason.  The deadline is looked at after
\* the budget, so giving up on it has already spent the token.
FailForGood(c) == /\ pc[c] = "calling"
                  /\ ~OnTrial(c)
                  /\ \/ LastAttempt(c) /\ UNCHANGED tokens
                     \/ ~LastAttempt(c) /\ ~BudgetAllows /\ UNCHANGED tokens
                     \/ /\ ~LastAttempt(c) /\ BudgetAllows
                        /\ \E sleep \in Sleeps(attempt[c]) : PastDeadline(c, sleep)
                        /\ tokens' = SpendToken
                  /\ GiveUp(c)

\* _backoff_or_give_up sleeps; the permit is held until it has.
Backoff(c) == /\ pc[c] = "calling"
              /\ ~OnTrial(c)
              /\ ~LastAttempt(c)
              /\ BudgetAllows
              /\ \E sleep \in Sleeps(attempt[c]) :
                    /\ ~PastDeadline(c, sleep)
                    /\ timer' = [timer EXCEPT ![c] = sleep]
              /\ tokens' = SpendToken
              /\ pc' = [pc EXCEPT ![c] = "sleeping"]
              /\ UNCHANGED <<brk, attempt, permit, elapsed, verdicts, reports>>

\* A tick of time.monotonic, as every duration here sees it.  Refilling on
\* each tick is what consume() does on demand: the cap makes both the same.
Tick == /\ brk' = Elapse(brk)
        /\ tokens' = Refilled(tokens)
        /\ timer' = [c \in Callers |-> IF timer[c] > 0 THEN timer[c] - 1 ELSE 0]
        /\ elapsed' = [c \in Callers |-> IF pc[c] \in Running
                                         THEN Lesser(elapsed[c] + 1, Deadline + 1)
                                         ELSE elapsed[c]]
        /\ UNCHANGED <<pc, attempt, permit, verdicts, reports>>

AttemptEnds(c) == Succeed(c) \/ EndUnjudged(c) \/ FailTrial(c) \/ FailForGood(c) \/ Backoff(c)

Next == Tick \/ \E c \in Callers : Start(c) \/ Wake(c) \/ AttemptEnds(c)

Spec == Init /\ [][Next]_vars

\* The adapters bound every attempt with request_timeout_seconds, the event
\* loop runs what is due, and time passes.  Nothing makes a client call.
Fairness == /\ WF_vars(Tick)
            /\ \A c \in Callers : /\ WF_vars(Wake(c))
                                  /\ WF_vars(pc[c] = "calling" /\ AttemptEnds(c))

FairSpec == Spec /\ Fairness

\* Traffic keeps coming, which recovery needs: nothing but a request probes.
TrafficSpec == FairSpec /\ \A c \in Callers : WF_vars(Start(c))

-----------------------------------------------------------------------------

TypeOK == /\ brk \in Breaker
          /\ tokens \in 0 .. BudgetCapacity
          /\ pc \in [Callers -> Running \cup Ended]
          /\ attempt \in [Callers -> 0 .. MaxAttempts - 1]
          /\ permit \in [Callers -> Permits]
          /\ timer \in [Callers -> Nat]
          /\ elapsed \in [Callers -> 0 .. Deadline + 1]
          /\ verdicts \in [Callers -> Nat]
          /\ reports \in [Callers -> Nat]

\* The half-open slot always has a live owner: whoever it names is inside an
\* attempt and holds the very permit that will free it, so no ending of any
\* call leaves the breaker refusing everybody with nobody left to report
\* (resilience.py:167-173, the wedge ADR-030 describes).
TrialSlotOwned ==
    brk.trial # NoPermit => /\ brk.state = "half_open"
                            /\ pc[brk.trial] = "calling"
                            /\ permit[brk.trial] = brk.trial

\* A closed breaker is always short of its threshold: no interleaving of
\* verdicts from calls admitted in different eras leaves it closed with the
\* failures that should have opened it (record_failure).
ClosedBelowThreshold == brk.state = "closed" => brk.failures < Threshold

\* Whatever the order of reopenings and stray successes, and though nobody
\* checks that the maximum is at least the first window (_open applies it to
\* escalations only): the next window is the first one or within the maximum,
\* and never below the lesser of the two; a refusal longer than the maximum is
\* the first one's of an outage, no longer than that, with its escalation next.
WindowBounded == /\ brk.window = BaseOpen \/ brk.window <= MaxOpen
                 /\ Lesser(BaseOpen, MaxOpen) <= brk.window
                 /\ brk.left > MaxOpen => /\ brk.left <= BaseOpen
                                         /\ brk.window = Escalated(BaseOpen)
                 /\ brk.left > 0 => brk.state = "open"

\* Failures are counted per request, not per attempt, and a give-up is
\* reported once (ADR-002, _report_give_up): a request in flight has judged
\* nothing; one that was served judged once; one that gave up judged once and
\* reported once; one refused or unjudged, at whichever attempt, did neither.
OneVerdictPerRequest ==
    \A c \in Callers :
        /\ verdicts[c] = IF pc[c] \in {"served", "gave_up"} THEN 1 ELSE 0
        /\ reports[c] = IF pc[c] = "gave_up" THEN 1 ELSE 0

\* Nobody sleeps through a backoff on the trial's permit: a sleeping caller
\* was admitted while the breaker was closed, so the one slot is never held
\* across a wait (resilience_wrapper.py:206-213).
NobodySleepsOnTrial ==
    \A c \in Callers : pc[c] = "sleeping" => permit[c] = Admitted

\* While the breaker stays half-open the slot is emptied only by its owner:
\* a call admitted while closed, or a trial of an earlier window, hands back
\* nothing that is not its own (Permit's identity, ADR-030).
SlotFreedByOwner ==
    [][(/\ brk.state = "half_open" /\ brk'.state = "half_open"
        /\ brk.trial # NoPermit /\ brk'.trial # brk.trial)
       => pc'[brk.trial] \in Ended]_vars

\* Once the provider answers every call, steady traffic closes the breaker
\* for good: no combination of stragglers, stale trials and lost slots keeps
\* it refusing (the reason the slot must always be handed back).
UnhelpfulStep == \E c \in Callers : pc[c] = "calling" /\ pc'[c] \in {"unjudged", "gave_up", "sleeping"}
Recovers == <>[][~UnhelpfulStep]_vars => <>[](brk.state = "closed")

\* Every request comes to an end, however long the provider asks it to wait.
EveryRequestEnds == \A c \in Callers : pc[c] \in Running ~> pc[c] \in Ended

-----------------------------------------------------------------------------
\* The retry loop keeps the breaker's promise: seen as the set of callers
\* with a call upstream, every step is a step of UpstreamGate or a stutter.
Gate == INSTANCE UpstreamGate
        WITH Nobody <- NoPermit,
             state <- brk.state,
             shut <- brk.left > 0,
             probe <- brk.trial,
             upstream <- {c \in Callers : pc[c] = "calling"}

KeepsGate == Gate!Spec

=============================================================================
