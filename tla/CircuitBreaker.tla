--------------------------- MODULE CircuitBreaker ---------------------------
(***************************************************************************)
(* One provider's circuit breaker (resilience.py, class CircuitBreaker) as *)
(* a record and the operators its methods are.  No method holds the lock   *)
(* across an await, so each is one indivisible step; the modules that own  *)
(* a breaker variable apply these operators inside their own actions.      *)
(*                                                                         *)
(* Time is a count of ticks.  `left` is what the code computes from        *)
(* _opened_until and the monotonic clock: the ticks until the open window  *)
(* has elapsed, zero when it has.                                          *)
(*                                                                         *)
(* A trial permit is named by the caller it was handed to.  That is the    *)
(* identity of Permit(trial=True): a caller makes one attempt at a time    *)
(* and gives its permit up, in a `finally`, before it asks for another.    *)
(***************************************************************************)
EXTENDS Naturals

CONSTANTS Callers,    \* tasks that may ask this breaker for leave
          Threshold,  \* failure_threshold
          BaseOpen,   \* open_seconds: the first open window
          Multiplier, \* backoff_multiplier
          MaxOpen,    \* max_open_seconds
          NoPermit,   \* None: no leave to call, and nobody on trial
          Admitted    \* _ADMITTED, the permit shared while closed

ASSUME BreakerAssumption ==
    /\ Threshold \in Nat \ {0}
    /\ BaseOpen \in Nat \ {0}
    /\ Multiplier \in Nat \ {0}
    /\ MaxOpen \in Nat \ {0}
    /\ NoPermit \notin Callers /\ Admitted \notin Callers /\ NoPermit # Admitted

Permits == Callers \cup {NoPermit, Admitted}

Breaker == [state : {"closed", "open", "half_open"}, failures : Nat,
            left : Nat, window : Nat, trial : Callers \cup {NoPermit}]

NewBreaker == [state |-> "closed", failures |-> 0, left |-> 0,
               window |-> BaseOpen, trial |-> NoPermit]

-----------------------------------------------------------------------------

Lesser(m, n) == IF m <= n THEN m ELSE n

\* Mutant: every caller of a half-open window is let through.
AdmitsAllHalfOpen(b) == b.state # "open" \/ b.left = 0

\* allow() would hand out a permit, and the one it would hand to caller c.
Admits(b) == \/ b.state = "closed"
             \/ b.state = "open" /\ b.left = 0
             \/ b.state = "half_open" /\ b.trial = NoPermit

PermitFor(b, c) == IF b.state = "closed" THEN Admitted ELSE c

\* What allow() leaves behind when it admits c: a trial reserves the slot.
Allow(b, c) == IF b.state = "closed"
               THEN b
               ELSE [b EXCEPT !.state = "half_open", !.trial = c]

Escalated(window) == Lesser(window * Multiplier, MaxOpen)

\* _open(): count the window down from here, escalate the next one.
Opened(b) == [b EXCEPT !.state = "open",
                       !.failures = 0,
                       !.left = b.window,
                       !.window = Escalated(b.window)]

\* record_success(), which asks neither the state nor who is reporting.
RecordSuccess(b) == NewBreaker

\* Mutant: one failure too many.
TripsLate(failures) == failures > Threshold

Trips(failures) == failures >= Threshold

\* record_failure(): a verdict on a whole request, or on the trial.
RecordFailure(b) ==
    LET counted == [b EXCEPT !.failures = @ + 1]
    IN IF b.state = "half_open" THEN Opened([counted EXCEPT !.trial = NoPermit])
       ELSE IF b.state = "closed" /\ Trips(counted.failures) THEN Opened(counted)
       ELSE counted

\* Mutants: a slot never handed back, and one that anybody hands back.
ReleaseTrialNever(b, permit) == b
ReleaseTrialAnybodys(b, permit) ==
    IF permit # NoPermit THEN [b EXCEPT !.trial = NoPermit] ELSE b

\* release_trial(permit): only the permit that holds the slot frees it.
ReleaseTrial(b, permit) ==
    IF b.trial = permit THEN [b EXCEPT !.trial = NoPermit] ELSE b

\* One tick of the clock as the open window sees it.
Elapse(b) == [b EXCEPT !.left = IF @ > 0 THEN @ - 1 ELSE 0]

=============================================================================
