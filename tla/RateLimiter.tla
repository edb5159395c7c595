----------------------------- MODULE RateLimiter -----------------------------
(***************************************************************************)
(* One API key's two allowances, shared in Redis by every worker           *)
(* (ratelimit.py), as Meter.admit, Meter.discard and Meter.settle use them *)
(* (metering.py).  A script is one Redis command, so it is one step; what  *)
(* can come between are the other requests, time, Redis being out of       *)
(* reach, and a reply that never arrives.  Redis itself is external: it    *)
(* runs a script at most once per call and loses no acknowledged write.    *)
(***************************************************************************)
EXTENDS TokenBucket

CONSTANTS Requests,   \* requests in flight on any worker
          Rpm, Tpm,   \* refill per tick of each bucket; 0: not configured
          Estimates,  \* what estimate_tokens may return
          Usages,     \* total_tokens a provider may report
          Offsets,    \* (clock read by the worker) - (Redis's moment of running it)
          NoHold      \* the request holds no reservation: not admitted, or settled

ASSUME LimiterAssumption ==
    /\ Window \in Nat \ {0}
    /\ Rpm \in Nat /\ Tpm \in Nat
    /\ Estimates \subseteq Nat \ {0} /\ Usages \subseteq Nat
    /\ Offsets \subseteq Int
    /\ Absent \notin [held : Nat, idle : Nat, off : Int]
    /\ NoHold \notin Nat

Buckets == {"requests", "tokens"}
Rate == [b \in Buckets |-> IF b = "requests" THEN Rpm ELSE Tpm]
Configured == {b \in Buckets : Rate[b] > 0}

VARIABLES bucket,  \* the two Redis hashes
          hold,    \* Decision.reserved_tokens of each admitted request
          counted, \* history: what each request's admission added to `burst`
          burst    \* history: enforced admissions not yet paid for by time

vars == <<bucket, hold, counted, burst>>

Bucket(b) == [held : 0 .. Capacity(Rate[b]), idle : 0 .. IdleTTL - 1, off : Offsets] \cup {Absent}

Init == /\ bucket = [b \in Buckets |-> Absent]
        /\ hold = [r \in Requests |-> NoHold]
        /\ counted = [r \in Requests |-> 0]
        /\ burst = [b \in Buckets |-> 0]

-----------------------------------------------------------------------------

Cost(b, estimate) == IF b = "requests" THEN 1 ELSE estimate

LevelOf(b, off) == Level(bucket[b], Rate[b], off)

Fits(estimate, off) == \A b \in Configured : LevelOf(b, off) >= Cost(b, estimate)

\* Mutant: each bucket debited for itself, whatever the other one says.
AdmitScriptEach(estimate, off) ==
    bucket' = [b \in Buckets |->
                 IF b \in Configured
                 THEN Written(LevelOf(b, off) - (IF LevelOf(b, off) >= Cost(b, estimate)
                                                 THEN Cost(b, estimate) ELSE 0), off)
                 ELSE bucket[b]]

\* ADMIT_SCRIPT: measure both, then debit both or neither; either way both
\* are written back with this caller's clock.
AdmitScript(estimate, off) ==
    bucket' = [b \in Buckets |->
                 IF b \in Configured
                 THEN Written(LevelOf(b, off) - (IF Fits(estimate, off)
                                                 THEN Cost(b, estimate) ELSE 0), off)
                 ELSE bucket[b]]

\* Meter.admit turns away a request larger than the whole allowance before
\* Redis is asked; everything below is for the others.
TooLarge(estimate) == Tpm > 0 /\ estimate > Capacity(Tpm)

Asks(r, estimate) == /\ hold[r] = NoHold
                     /\ Configured # {}
                     /\ ~TooLarge(estimate)

\* The history is a leaky bucket: it fills by what is admitted and drains at
\* the configured rate, so it never exceeds a capacity exactly when no
\* stretch of time admits more than a capacity plus what the rate allows.
Admitted(r, estimate, off) ==
    /\ Asks(r, estimate)
    /\ Fits(estimate, off)
    /\ AdmitScript(estimate, off)
    /\ hold' = [hold EXCEPT ![r] = estimate]
    /\ counted' = [counted EXCEPT ![r] = estimate]
    /\ burst' = [b \in Buckets |-> IF b \in Configured THEN burst[b] + Cost(b, estimate)
                                                       ELSE burst[b]]

\* RateLimitedError: a 429, with nothing reserved.
Rejected(r, estimate, off) ==
    /\ Asks(r, estimate)
    /\ ~Fits(estimate, off)
    /\ AdmitScript(estimate, off)
    /\ UNCHANGED <<hold, counted, burst>>

\* RedisError or OSError: admitted unlimited, reserving nothing; the script
\* may or may not have run before the reply was lost.
FailsOpen(r, estimate, off) ==
    /\ Asks(r, estimate)
    /\ \/ AdmitScript(estimate, off)
       \/ UNCHANGED bucket
    /\ hold' = [hold EXCEPT ![r] = 0]
    /\ counted' = [counted EXCEPT ![r] = 0]
    /\ UNCHANGED burst

Corrected(n, refund) ==
    AtLeast(0, IF refund < 0 THEN AtLeast(n, AtMost(Capacity(Tpm), n - refund)) ELSE n - refund)

\* discard (actual 0) or settle with a known usage: reconcile the hold.
\* The history takes back what it counted, and forgives what the script's
\* clamp at zero forgives.
Reconcile(r, actual, off) ==
    /\ hold[r] # NoHold
    /\ bucket' = [bucket EXCEPT !["tokens"] = Settled(@, Tpm, off, hold[r] - actual)]
    /\ burst' = IF Tpm = 0 THEN burst
                ELSE [burst EXCEPT !["tokens"] = Corrected(@, counted[r] - actual)]
    /\ hold' = [hold EXCEPT ![r] = NoHold]
    /\ counted' = [counted EXCEPT ![r] = 0]

\* The same with Redis out of reach, or usage nobody knows: the hold stays
\* debited and the rest of the window pays it back.
KeepHold(r) == /\ hold[r] # NoHold
               /\ hold' = [hold EXCEPT ![r] = NoHold]
               /\ counted' = [counted EXCEPT ![r] = 0]
               /\ UNCHANGED <<bucket, burst>>

Tick == /\ bucket' = [b \in Buckets |-> Aged(bucket[b])]
        /\ burst' = [b \in Buckets |-> AtLeast(0, burst[b] - Rate[b])]
        /\ UNCHANGED <<hold, counted>>

Next == \/ Tick
        \/ \E r \in Requests :
              \/ \E estimate \in Estimates, off \in Offsets :
                    \/ Admitted(r, estimate, off)
                    \/ Rejected(r, estimate, off)
                    \/ FailsOpen(r, estimate, off)
              \/ \E actual \in Usages \cup {0}, off \in Offsets : Reconcile(r, actual, off)
              \/ KeepHold(r)

Spec == Init /\ [][Next]_vars

-----------------------------------------------------------------------------

TypeOK == /\ DOMAIN bucket = Buckets /\ \A b \in Buckets : bucket[b] \in Bucket(b)
          /\ hold \in [Requests -> Estimates \cup {0, NoHold}]
         /\ counted \in [Requests -> Nat]
          /\ burst \in [Buckets -> Nat]

\* Over no stretch of time, however it straddles a minute and however often
\* the bucket expired in between, is a key admitted more than one capacity
\* plus what its rate refilled meanwhile (ratelimit.py:12-15, 69-72): lost
\* replies, refunds and idle expiry never hand an allowance out twice.
AdmittedWithinAllowance == \A b \in Configured : burst[b] <= Capacity(Rate[b])

\* What makes it so: the level Redis would compute now, plus what has been
\* admitted and not yet paid for, never exceeds the capacity.
LevelCoversBurst == \A b \in Configured : LevelOf(b, 0) + burst[b] <= Capacity(Rate[b])

\* A refused request leaves both allowances as it found them: the bucket
\* that had room is not debited for the one that had not (ADR-021).
RefusalCostsNothing ==
    [][\A r \in Requests, e \in Estimates, off \in Offsets :
          Rejected(r, e, off)
          => \A b \in Configured : LevelOf(b, off)' = LevelOf(b, off)]_vars

\* Obeying Retry-After works: once the longer of the two waits is over both
\* buckets fit the request, a tick earlier they do not, and the wait is never
\* longer than a window (the retry_ms of ADMIT_SCRIPT, in any reachable level).
RetryTicks(e) == LET waits == {Wait(bucket[b], Rate[b], 0, Cost(b, e)) : b \in Configured}
                 IN CHOOSE w \in waits : \A v \in waits : v <= w
LevelAfter(b, t) == Level(IF bucket[b] = Absent THEN Absent ELSE [bucket[b] EXCEPT !.idle = @ + t],
                          Rate[b], 0)
RetryAfterIsExact ==
    \A e \in Estimates :
        (~TooLarge(e) /\ ~Fits(e, 0)) =>
            LET t == RetryTicks(e)
            IN /\ t \in 1 .. Window
               /\ \A b \in Configured : LevelAfter(b, t) >= Cost(b, e)
               /\ \E b \in Configured : LevelAfter(b, t - 1) < Cost(b, e)

\* Whatever the clocks of the workers do, an admission takes its cost from
\* what was there and a refusal nothing: an NTP step backwards never drains a
\* bucket (ratelimit.py:30).
ClocksNeverDrain ==
    [][\A r \in Requests, e \in Estimates, off \in Offsets, b \in Configured :
          bucket[b] # Absent =>
             /\ Admitted(r, e, off) => bucket'[b].held >= bucket[b].held - Cost(b, e)
             /\ Rejected(r, e, off) => bucket'[b].held >= bucket[b].held]_vars

=============================================================================
