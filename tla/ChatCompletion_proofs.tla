------------------------ MODULE ChatCompletion_proofs ------------------------
(***************************************************************************)
(* For any number of requests: no request is settled twice, every ending   *)
(* nothing cut short is accounted for, what the caches hold was paid for,  *)
(* and the whole implements Accounts.                                      *)
(*                                                                         *)
(* Almost all of the argument is about one request's record: LocalInv says *)
(* what it holds at each await, and every handler takes a record that      *)
(* satisfies it to one that does.  What relates two requests is that a hit *)
(* copies from a request whose row is written, and rows are never erased.  *)
(***************************************************************************)
EXTENDS ChatCompletion, TLAPS

-----------------------------------------------------------------------------
(* The inductive invariant. *)

\* The reservations a ledger row of this kind may stand beside.
Beside(usage) == CASE usage = "zero"    -> {"none", "returned", "kept"}
                   [] usage = "known"   -> {"none", "charged", "kept"}
                   [] usage = "unknown" -> {"none", "held"}

Undecided(x) == x.entry = "none" /\ x.hold \in {"none", "held"}
Decided(x) == x.entry = "none" /\ x.hold \in Beside(x.usage)
Billed(x) == x.entry \in {x.usage, "lost"} /\ x.hold \in Beside(x.usage)

Waiting == {"new", "admitting", "exact", "near", "calling", "waiting", "starting",
            "pulling"} \cup Relaying
Settling == {"discarding", "reconciling", "recording", "storing"}

\* What is settled, by stage and by the spawned task.
AccountInv(x) ==
    /\ x.at \in Waiting => x.settlements = 0 /\ x.spawned = "none" /\ Undecided(x)
    /\ x.at \in {"new", "admitting"} => x.hold = "none"
    /\ x.at \in Settling => x.settlements = 1 /\ x.spawned = "none"
    /\ x.at \in {"discarding", "reconciling"} => Undecided(x)
    /\ x.at = "reconciling" => x.usage # "unknown"
    /\ x.at = "recording" => Decided(x)
    /\ x.at = "storing" => Billed(x)
    /\ x.at = "closing" /\ x.spawned = "none" => x.settlements = 1 /\ Billed(x)
    /\ x.spawned # "none" => /\ x.at \in {"closing", "done"} /\ x.settlements = 1
                             /\ x.ask = "stream" /\ ~x.cut /\ x.status # "error"
    /\ x.spawned = "reconciling" => Undecided(x) /\ x.usage = "known"
    /\ x.spawned = "recording" => Decided(x)
    /\ x.spawned = "done" => Billed(x)
    /\ (x.entry # "none" \/ x.hold \in {"returned", "charged", "kept"}) => x.settlements = 1
    /\ x.cut => x.at = "done"

\* What a request that is over, and was not cut short, came to.
OverInv(x) ==
    x.at = "done" /\ x.spawned = "none" /\ ~x.cut =>
        \/ x.settlements = 0 /\ x.hold = "none" /\ x.entry = "none" /\ x.status = "error"
        \/ /\ x.status = "error" /\ x.outcome = "failed"
           /\ x.entry = "none" /\ x.hold \in {"none", "returned", "kept"}
        \/ Billed(x) /\ (x.outcome = "failed" => x.error)

\* Whose completion, and what its usage counts as.
AnswerInv(r, x) ==
    /\ x.usage = "zero" <=> x.answer \notin {r, Nobody}
    /\ x.answer # Nobody => x.at \in Settling \cup {"done"} /\ x.ask # "stream"
    /\ x.at \in {"new", "admitting", "exact", "near", "calling", "waiting", "starting", "discarding"} =>
          x.usage = "unknown" /\ x.status = "none"
    /\ x.at = "storing" => x.answer # Nobody
    /\ x.at \in {"exact", "near", "calling", "storing"} => x.ask # "stream"
    /\ x.at \in {"waiting", "starting", "pulling", "closing"} \cup Relaying => x.ask = "stream"
    /\ x.at \in {"reconciling", "recording"} /\ x.ask # "stream" => x.answer # Nobody

\* The stream, its upstream and what its client was sent.
StreamInv(x) ==
    /\ x.at \in {"new", "admitting", "exact", "near", "calling", "waiting", "starting", "pulling",
                 "sending"} =>
          x.outcome = "completed" /\ ~x.error /\ ~x.sentinel
    /\ x.at = "discarding" => x.outcome = "failed" /\ ~x.error /\ ~x.sentinel
    /\ x.at = "failing" => x.error /\ ~x.sentinel
    /\ x.at = "sentinel" => x.sentinel
    /\ x.error => x.outcome = "failed"
    /\ x.outcome = "failed" => \/ x.error \/ x.at = "discarding"
                               \/ x.at = "done" /\ (x.cut \/ x.status = "error")
    /\ x.sentinel => x.outcome = IF x.error THEN "failed" ELSE "completed"
    /\ x.ask = "stream" /\ x.at \in {"reconciling", "recording", "closing"} =>
          x.sentinel \/ x.error \/ x.outcome = "abandoned"
    /\ x.ask = "stream" /\ x.at = "done" /\ x.status = "ok" =>
          x.sentinel \/ x.error \/ x.outcome = "abandoned"
    /\ x.status = "error" => x.at = "done"
    /\ x.at = "done" => x.upstream # "open"
    /\ x.upstream = "open" => x.at \in {"calling", "waiting", "starting", "pulling", "sending", "closing"}
    /\ x.upstream = "open" /\ x.at = "closing" => x.spawned # "none"

LocalInv(r, x) == /\ x \in Request
                  /\ AccountInv(x)
                  /\ OverInv(x)
                  /\ AnswerInv(r, x)
                  /\ StreamInv(x)

\* What relates two requests.
PaidInv == /\ CachesHoldWhatWasPaid
           /\ \A r \in Requests : req[r].answer \notin {r, Nobody} => Paid(req[r].answer)

IInv == /\ TypeOK
        /\ \A r \in Requests : LocalInv(r, req[r])
        /\ PaidInv

-----------------------------------------------------------------------------
(* Each handler on one record: x is the request before it, y after it.      *)

\* What a step may do to the accounts, which is what Accounts allows.
AccountStep(x, y) ==
    \/ y.hold = x.hold /\ y.entry = x.entry
    \/ x.hold = "none" /\ y.hold = "held" /\ x.entry = "none" /\ y.entry = "none"
    \/ /\ x.hold = "held" /\ y.hold \in {"returned", "charged", "kept"}
       /\ x.entry = "none" /\ y.entry = "none"
    \/ /\ x.entry = "none" /\ y.entry \in {x.usage, "lost"}
       /\ x.hold \in Beside(x.usage) /\ y.hold = x.hold

LocalStep(r, x, y) == LocalInv(r, y) /\ AccountStep(x, y)

LEMMA Edits ==
  ASSUME NEW x \in Request
  PROVE  /\ \A v \in Stages : [x EXCEPT !.at = v] \in Request
         /\ \A v \in Asks : [x EXCEPT !.ask = v] \in Request
         /\ \A v \in SUBSET {"exact", "near"} : [x EXCEPT !.tiers = v] \in Request
         /\ \A v \in Requests \cup {Nobody} : [x EXCEPT !.answer = v] \in Request
         /\ \A v \in {"unknown", "known", "zero"} : [x EXCEPT !.usage = v] \in Request
         /\ \A v \in {"completed", "failed", "abandoned"} : [x EXCEPT !.outcome = v] \in Request
         /\ \A v \in {"none", "held", "returned", "charged", "kept"} : [x EXCEPT !.hold = v] \in Request
         /\ \A v \in {"none", "zero", "known", "unknown", "lost"} : [x EXCEPT !.entry = v] \in Request
         /\ \A v \in 0 .. 1 : [x EXCEPT !.settlements = v] \in Request
         /\ \A v \in {"none", "reconciling", "recording", "done"} : [x EXCEPT !.spawned = v] \in Request
         /\ \A v \in {"none", "ok", "error"} : [x EXCEPT !.status = v] \in Request
         /\ \A v \in BOOLEAN : [x EXCEPT !.error = v] \in Request
         /\ \A v \in BOOLEAN : [x EXCEPT !.sentinel = v] \in Request
         /\ \A v \in {"none", "open", "closed"} : [x EXCEPT !.upstream = v] \in Request
         /\ \A v \in BOOLEAN : [x EXCEPT !.orphan = v] \in Request
         /\ \A v \in BOOLEAN : [x EXCEPT !.cut = v] \in Request
<1>1. \A v \in Stages : [x EXCEPT !.at = v] \in Request
  BY DEF Request
<1>2. \A v \in Asks : [x EXCEPT !.ask = v] \in Request
  BY DEF Request
<1>3. \A v \in SUBSET {"exact", "near"} : [x EXCEPT !.tiers = v] \in Request
  BY DEF Request
<1>4. \A v \in Requests \cup {Nobody} : [x EXCEPT !.answer = v] \in Request
  BY DEF Request
<1>5. \A v \in {"unknown", "known", "zero"} : [x EXCEPT !.usage = v] \in Request
  BY DEF Request
<1>6. \A v \in {"completed", "failed", "abandoned"} : [x EXCEPT !.outcome = v] \in Request
  BY DEF Request
<1>7. \A v \in {"none", "held", "returned", "charged", "kept"} : [x EXCEPT !.hold = v] \in Request
  BY DEF Request
<1>8. \A v \in {"none", "zero", "known", "unknown", "lost"} : [x EXCEPT !.entry = v] \in Request
  BY DEF Request
<1>9. \A v \in 0 .. 1 : [x EXCEPT !.settlements = v] \in Request
  BY DEF Request
<1>10. \A v \in {"none", "reconciling", "recording", "done"} : [x EXCEPT !.spawned = v] \in Request
  BY DEF Request
<1>11. \A v \in {"none", "ok", "error"} : [x EXCEPT !.status = v] \in Request
  BY DEF Request
<1>12. \A v \in BOOLEAN : [x EXCEPT !.error = v] \in Request
  BY DEF Request
<1>13. \A v \in BOOLEAN : [x EXCEPT !.sentinel = v] \in Request
  BY DEF Request
<1>14. \A v \in {"none", "open", "closed"} : [x EXCEPT !.upstream = v] \in Request
  BY DEF Request
<1>15. \A v \in BOOLEAN : [x EXCEPT !.orphan = v] \in Request
  BY DEF Request
<1>16. \A v \in BOOLEAN : [x EXCEPT !.cut = v] \in Request
  BY DEF Request
<1>17. QED
  BY <1>1, <1>2, <1>3, <1>4, <1>5, <1>6, <1>7, <1>8, <1>9, <1>10, <1>11, <1>12, <1>13, <1>14, <1>15, <1>16

\* A request that is about to be settled, wherever it comes from.
Ready(r, x) ==
    /\ x.settlements = 0 /\ x.spawned = "none" /\ Undecided(x) /\ ~x.cut
    /\ x.status # "error" /\ x.upstream \in {"none", "closed"}
    /\ x.usage = "zero" <=> x.answer \notin {r, Nobody}
    /\ x.answer = Nobody <=> x.ask = "stream"
    /\ x.error <=> x.outcome = "failed"
    /\ x.sentinel => x.outcome = IF x.error THEN "failed" ELSE "completed"
    /\ x.ask = "stream" => x.sentinel \/ x.error

\* A stream that is about to be settled by a task of its own.
Abandoned(x) ==
    /\ x.settlements = 0 /\ x.spawned = "none" /\ Undecided(x) /\ ~x.cut
    /\ x.status # "error" /\ x.ask = "stream" /\ x.answer = Nobody /\ x.usage # "zero"
    /\ x.outcome = "abandoned" /\ ~x.error /\ ~x.sentinel

\* What a cancellation before the provider has answered leaves.
UnsettledRecord(x, hold) ==
    Gone([x EXCEPT !.hold = hold, !.cut = TRUE,
                   !.upstream = IF x.at \in {"calling", "starting"} THEN "closed" ELSE x.upstream])


LEMMA ArriveLocal ==
  ASSUME NEW r \in Requests, NEW x \in Request, LocalInv(r, x),
         NEW ask \in Asks,
         x.at = "new"
  PROVE  LocalStep(r, x, [x EXCEPT !.at = "admitting", !.ask = ask])
<1> DEFINE y == [x EXCEPT !.at = "admitting", !.ask = ask]
<1>1. x.settlements = 0 /\ x.spawned = "none" /\ Undecided(x)
  BY DEF LocalInv, AccountInv, AnswerInv, StreamInv, Undecided, Decided, Billed, Beside, Waiting,
     Settling, Relaying
<1>2. y \in Request
  <2>1. "admitting" \in Stages
    BY <1>1 DEF Stages, Relaying
  <2>2. QED
    BY <1>1, <2>1, Edits
<1>3. /\ y.at = "admitting" /\ y.ask = ask
      /\ y.tiers = x.tiers /\ y.answer = x.answer /\ y.usage = x.usage
      /\ y.outcome = x.outcome /\ y.hold = x.hold /\ y.entry = x.entry
      /\ y.settlements = x.settlements /\ y.spawned = x.spawned /\ y.status = x.status
      /\ y.error = x.error /\ y.sentinel = x.sentinel /\ y.upstream = x.upstream
      /\ y.orphan = x.orphan /\ y.cut = x.cut
  BY <1>1 DEF Request
<1> HIDE DEF y
<1>4. AccountInv(y) /\ AccountStep(x, y)
  BY <1>1, <1>3 DEF LocalInv, AccountInv, AccountStep, Undecided, Decided, Billed, Beside,
     Waiting, Settling, Relaying
<1>5. OverInv(y)
  BY <1>1, <1>3 DEF LocalInv, AccountInv, OverInv, StreamInv, Undecided, Decided, Billed, Beside,
     Waiting, Settling, Relaying
<1>6. AnswerInv(r, y)
  BY <1>1, <1>3 DEF LocalInv, AnswerInv, Settling, Relaying
<1>7. StreamInv(y)
  BY <1>1, <1>3 DEF LocalInv, AccountInv, AnswerInv, StreamInv, Relaying
<1>8. QED
  BY <1>2, <1>4, <1>5, <1>6, <1>7 DEF LocalStep, LocalInv, y

LEMMA TurnAwayLocal ==
  ASSUME NEW r \in Requests, NEW x \in Request, LocalInv(r, x),
         x.at = "admitting"
  PROVE  LocalStep(r, x, [x EXCEPT !.at = "done", !.status = "error"])
<1> DEFINE y == [x EXCEPT !.at = "done", !.status = "error"]
<1>1. /\ x.settlements = 0 /\ x.spawned = "none" /\ Undecided(x)
      /\ x.hold = "none" /\ x.usage = "unknown" /\ x.answer = Nobody /\ x.upstream # "open"
  BY DEF LocalInv, AccountInv, AnswerInv, StreamInv, Undecided, Decided, Billed, Beside, Waiting,
     Settling, Relaying
<1>2. y \in Request
  <2>1. "done" \in Stages
    BY <1>1 DEF Stages, Relaying
  <2>2. QED
    BY <1>1, <2>1, Edits
<1>3. /\ y.at = "done" /\ y.status = "error"
      /\ y.ask = x.ask /\ y.tiers = x.tiers /\ y.answer = x.answer /\ y.usage = x.usage
      /\ y.outcome = x.outcome /\ y.hold = x.hold /\ y.entry = x.entry
      /\ y.settlements = x.settlements /\ y.spawned = x.spawned /\ y.error = x.error
      /\ y.sentinel = x.sentinel /\ y.upstream = x.upstream /\ y.orphan = x.orphan
      /\ y.cut = x.cut
  BY <1>1 DEF Request
<1> HIDE DEF y
<1>4. AccountInv(y) /\ AccountStep(x, y)
  BY <1>1, <1>3 DEF LocalInv, AccountInv, AccountStep, Undecided, Decided, Billed, Beside,
     Waiting, Settling, Relaying
<1>5. OverInv(y)
  BY <1>1, <1>3 DEF LocalInv, AccountInv, OverInv, StreamInv, Undecided, Decided, Billed, Beside,
     Waiting, Settling, Relaying
<1>6. AnswerInv(r, y)
  BY <1>1, <1>3 DEF LocalInv, AnswerInv, Settling, Relaying
<1>7. StreamInv(y)
  BY <1>1, <1>3 DEF LocalInv, AccountInv, AnswerInv, StreamInv, Relaying
<1>8. QED
  BY <1>2, <1>4, <1>5, <1>6, <1>7 DEF LocalStep, LocalInv, y

LEMMA AdmitLookupLocal ==
  ASSUME NEW r \in Requests, NEW x \in Request, LocalInv(r, x),
         NEW hold \in {"held", "none"},
         x.at = "admitting",
         x.ask = "buffered"
  PROVE  LocalStep(r, x, [[x EXCEPT !.hold = hold] EXCEPT !.at = "exact"])
<1> DEFINE y == [[x EXCEPT !.hold = hold] EXCEPT !.at = "exact"]
<1>1. /\ x.settlements = 0 /\ x.spawned = "none" /\ Undecided(x)
      /\ x.hold = "none"
  BY DEF LocalInv, AccountInv, AnswerInv, StreamInv, Undecided, Decided, Billed, Beside, Waiting,
     Settling, Relaying
<1>2. y \in Request
  <2>1. "exact" \in Stages /\ hold \in {"none", "held", "returned", "charged", "kept"}
    BY <1>1 DEF Stages, Relaying
  <2>2. QED
    BY <1>1, <2>1, Edits
<1>3. /\ y.at = "exact" /\ y.hold = hold
      /\ y.ask = x.ask /\ y.tiers = x.tiers /\ y.answer = x.answer /\ y.usage = x.usage
      /\ y.outcome = x.outcome /\ y.entry = x.entry /\ y.settlements = x.settlements
      /\ y.spawned = x.spawned /\ y.status = x.status /\ y.error = x.error
      /\ y.sentinel = x.sentinel /\ y.upstream = x.upstream /\ y.orphan = x.orphan
      /\ y.cut = x.cut
  BY <1>1 DEF Request
<1> HIDE DEF y
<1>4. AccountInv(y) /\ AccountStep(x, y)
  BY <1>1, <1>3 DEF LocalInv, AccountInv, AccountStep, Undecided, Decided, Billed, Beside,
     Waiting, Settling, Relaying
<1>5. OverInv(y)
  BY <1>1, <1>3 DEF LocalInv, AccountInv, OverInv, StreamInv, Undecided, Decided, Billed, Beside,
     Waiting, Settling, Relaying
<1>6. AnswerInv(r, y)
  BY <1>1, <1>3 DEF LocalInv, AnswerInv, Settling, Relaying
<1>7. StreamInv(y)
  BY <1>1, <1>3 DEF LocalInv, AccountInv, AnswerInv, StreamInv, Relaying
<1>8. QED
  BY <1>2, <1>4, <1>5, <1>6, <1>7 DEF LocalStep, LocalInv, y

LEMMA AdmitCallLocal ==
  ASSUME NEW r \in Requests, NEW x \in Request, LocalInv(r, x),
         NEW hold \in {"held", "none"},
         NEW at,
         x.at = "admitting",
         \/ at = "waiting" /\ x.ask = "stream"
         \/ at = "calling" /\ x.ask = "bypass"
  PROVE  LocalStep(r, x, [[x EXCEPT !.hold = hold] EXCEPT !.at = at, !.upstream = "open"])
<1> DEFINE y == [[x EXCEPT !.hold = hold] EXCEPT !.at = at, !.upstream = "open"]
<1>1. /\ x.settlements = 0 /\ x.spawned = "none" /\ Undecided(x)
      /\ x.hold = "none" /\ at \in {"waiting", "calling"}
  BY DEF LocalInv, AccountInv, AnswerInv, StreamInv, Undecided, Decided, Billed, Beside, Waiting,
     Settling, Relaying
<1>2. y \in Request
  <2>1. at \in Stages /\ hold \in {"none", "held", "returned", "charged", "kept"}
    BY <1>1 DEF Stages, Relaying
  <2>2. QED
    BY <1>1, <2>1, Edits
<1>3. /\ y.at = at /\ y.hold = hold /\ y.upstream = "open"
      /\ y.ask = x.ask /\ y.tiers = x.tiers /\ y.answer = x.answer /\ y.usage = x.usage
      /\ y.outcome = x.outcome /\ y.entry = x.entry /\ y.settlements = x.settlements
      /\ y.spawned = x.spawned /\ y.status = x.status /\ y.error = x.error
      /\ y.sentinel = x.sentinel /\ y.orphan = x.orphan /\ y.cut = x.cut
  BY <1>1 DEF Request
<1> HIDE DEF y
<1>4. AccountInv(y) /\ AccountStep(x, y)
  BY <1>1, <1>3 DEF LocalInv, AccountInv, AccountStep, Undecided, Decided, Billed, Beside,
     Waiting, Settling, Relaying
<1>5. OverInv(y)
  BY <1>1, <1>3 DEF LocalInv, AccountInv, OverInv, StreamInv, Undecided, Decided, Billed, Beside,
     Waiting, Settling, Relaying
<1>6. AnswerInv(r, y)
  BY <1>1, <1>3 DEF LocalInv, AnswerInv, Settling, Relaying
<1>7. StreamInv(y)
  BY <1>1, <1>3 DEF LocalInv, AccountInv, AnswerInv, StreamInv, Relaying
<1>8. QED
  BY <1>2, <1>4, <1>5, <1>6, <1>7 DEF LocalStep, LocalInv, y

LEMMA MissLocal ==
  ASSUME NEW r \in Requests, NEW x \in Request, LocalInv(r, x),
         NEW tiers \in SUBSET {"exact", "near"},
         NEW at,
         NEW upstream,
         \/ x.at = "exact" /\ at = "near" /\ upstream = x.upstream
         \/ x.at = "near" /\ at = "calling" /\ upstream = "open"
  PROVE  LocalStep(r, x, [x EXCEPT !.at = at, !.upstream = upstream, !.tiers = tiers])
<1> DEFINE y == [x EXCEPT !.at = at, !.upstream = upstream, !.tiers = tiers]
<1>1. /\ x.settlements = 0 /\ x.spawned = "none" /\ Undecided(x)
      /\ x.at \in {"exact", "near"} /\ at \in {"near", "calling"}
      /\ upstream \in {"none", "open", "closed"}
      /\ at = "near" => upstream # "open"
  BY DEF LocalInv, AccountInv, AnswerInv, StreamInv, Undecided, Decided, Billed, Beside, Waiting,
     Settling, Relaying, Request
<1>2. y \in Request
  <2>1. at \in Stages
    BY <1>1 DEF Stages, Relaying
  <2>2. QED
    BY <1>1, <2>1, Edits
<1>3. /\ y.at = at /\ y.tiers = tiers /\ y.upstream = upstream
      /\ y.ask = x.ask /\ y.answer = x.answer /\ y.usage = x.usage /\ y.outcome = x.outcome
      /\ y.hold = x.hold /\ y.entry = x.entry /\ y.settlements = x.settlements
      /\ y.spawned = x.spawned /\ y.status = x.status /\ y.error = x.error
      /\ y.sentinel = x.sentinel /\ y.orphan = x.orphan /\ y.cut = x.cut
  BY <1>1 DEF Request
<1> HIDE DEF y
<1>4. AccountInv(y) /\ AccountStep(x, y)
  BY <1>1, <1>3 DEF LocalInv, AccountInv, AccountStep, Undecided, Decided, Billed, Beside,
     Waiting, Settling, Relaying
<1>5. OverInv(y)
  BY <1>1, <1>3 DEF LocalInv, AccountInv, OverInv, StreamInv, Undecided, Decided, Billed, Beside,
     Waiting, Settling, Relaying
<1>6. AnswerInv(r, y)
  BY <1>1, <1>3 DEF LocalInv, AnswerInv, Settling, Relaying
<1>7. StreamInv(y)
  BY <1>1, <1>3 DEF LocalInv, AccountInv, AnswerInv, StreamInv, Relaying
<1>8. QED
  BY <1>2, <1>4, <1>5, <1>6, <1>7 DEF LocalStep, LocalInv, y

LEMMA CallFailsLocal ==
  ASSUME NEW r \in Requests, NEW x \in Request, LocalInv(r, x),
         x.at \in {"calling", "waiting"}
  PROVE  LocalStep(r, x, [x EXCEPT !.at = "discarding", !.outcome = "failed",
                                   !.upstream = "closed",
                                 !.settlements = x.settlements + 1])
<1> DEFINE y == [x EXCEPT !.at = "discarding", !.outcome = "failed", !.upstream = "closed",
                                 !.settlements = x.settlements + 1]
<1>1. x.settlements = 0 /\ x.spawned = "none" /\ Undecided(x)
  BY DEF LocalInv, AccountInv, AnswerInv, StreamInv, Undecided, Decided, Billed, Beside, Waiting,
     Settling, Relaying
<1>2. y \in Request
  <2>1. "discarding" \in Stages /\ x.settlements + 1 \in 0 .. 1
    BY <1>1 DEF Stages, Relaying
  <2>2. QED
    BY <1>1, <2>1, Edits
<1>3. /\ y.at = "discarding" /\ y.outcome = "failed" /\ y.upstream = "closed"
      /\ y.settlements = 1
      /\ y.ask = x.ask /\ y.tiers = x.tiers /\ y.answer = x.answer /\ y.usage = x.usage
      /\ y.hold = x.hold /\ y.entry = x.entry /\ y.spawned = x.spawned /\ y.status = x.status
      /\ y.error = x.error /\ y.sentinel = x.sentinel /\ y.orphan = x.orphan /\ y.cut = x.cut
  BY <1>1 DEF Request
<1> HIDE DEF y
<1>4. AccountInv(y) /\ AccountStep(x, y)
  BY <1>1, <1>3 DEF LocalInv, AccountInv, AccountStep, Undecided, Decided, Billed, Beside,
     Waiting, Settling, Relaying
<1>5. OverInv(y)
  BY <1>1, <1>3 DEF LocalInv, AccountInv, OverInv, StreamInv, Undecided, Decided, Billed, Beside,
     Waiting, Settling, Relaying
<1>6. AnswerInv(r, y)
  BY <1>1, <1>3 DEF LocalInv, AnswerInv, Settling, Relaying
<1>7. StreamInv(y)
  BY <1>1, <1>3 DEF LocalInv, AccountInv, AnswerInv, StreamInv, Relaying
<1>8. QED
  BY <1>2, <1>4, <1>5, <1>6, <1>7 DEF LocalStep, LocalInv, y

LEMMA DiscardLocal ==
  ASSUME NEW r \in Requests, NEW x \in Request, LocalInv(r, x),
         NEW hold \in Reconciled(x),
         x.at = "discarding"
  PROVE  LocalStep(r, x, [x EXCEPT !.at = "done", !.hold = hold, !.status = "error"])
<1> DEFINE y == [x EXCEPT !.at = "done", !.hold = hold, !.status = "error"]
<1>1. /\ x.settlements = 1 /\ x.spawned = "none" /\ Undecided(x)
      /\ x.usage = "unknown" /\ x.outcome = "failed" /\ x.upstream # "open"
      /\ (hold = "none" /\ x.hold = "none") \/ (hold \in {"returned", "kept"} /\ x.hold = "held")
  BY DEF LocalInv, AccountInv, AnswerInv, StreamInv, Undecided, Decided, Billed, Beside, Waiting,
     Settling, Relaying, Reconciled
<1>2. y \in Request
  <2>1. "done" \in Stages /\ hold \in {"none", "held", "returned", "charged", "kept"}
    BY <1>1 DEF Stages, Relaying
  <2>2. QED
    BY <1>1, <2>1, Edits
<1>3. /\ y.at = "done" /\ y.hold = hold /\ y.status = "error"
      /\ y.ask = x.ask /\ y.tiers = x.tiers /\ y.answer = x.answer /\ y.usage = x.usage
      /\ y.outcome = x.outcome /\ y.entry = x.entry /\ y.settlements = x.settlements
      /\ y.spawned = x.spawned /\ y.error = x.error /\ y.sentinel = x.sentinel
      /\ y.upstream = x.upstream /\ y.orphan = x.orphan /\ y.cut = x.cut
  BY <1>1 DEF Request
<1> HIDE DEF y
<1>4. AccountInv(y) /\ AccountStep(x, y)
  BY <1>1, <1>3 DEF LocalInv, AccountInv, AccountStep, Undecided, Decided, Billed, Beside,
     Waiting, Settling, Relaying
<1>5. OverInv(y)
  BY <1>1, <1>3 DEF LocalInv, AccountInv, OverInv, StreamInv, Undecided, Decided, Billed, Beside,
     Waiting, Settling, Relaying
<1>6. AnswerInv(r, y)
  BY <1>1, <1>3 DEF LocalInv, AnswerInv, Settling, Relaying
<1>7. StreamInv(y)
  BY <1>1, <1>3 DEF LocalInv, AccountInv, AnswerInv, StreamInv, Relaying
<1>8. QED
  BY <1>2, <1>4, <1>5, <1>6, <1>7 DEF LocalStep, LocalInv, y

LEMMA ReconcileLocal ==
  ASSUME NEW r \in Requests, NEW x \in Request, LocalInv(r, x),
         NEW hold \in Reconciled(x),
         x.at = "reconciling"
  PROVE  LocalStep(r, x, [x EXCEPT !.at = "recording", !.hold = hold])
<1> DEFINE y == [x EXCEPT !.at = "recording", !.hold = hold]
<1>1. /\ x.settlements = 1 /\ x.spawned = "none" /\ Undecided(x) /\ x.usage \in {"known", "zero"}
      /\ (hold = "none" /\ x.hold = "none") \/ (hold \in {"returned", "charged", "kept"} /\ x.hold = "held")
      /\ hold \in Beside(x.usage)
  BY DEF LocalInv, AccountInv, AnswerInv, StreamInv, Undecided, Decided, Billed, Beside, Waiting,
     Settling, Relaying, Reconciled, Request
<1>2. y \in Request
  <2>1. "recording" \in Stages /\ hold \in {"none", "held", "returned", "charged", "kept"}
    BY <1>1 DEF Stages, Relaying
  <2>2. QED
    BY <1>1, <2>1, Edits
<1>3. /\ y.at = "recording" /\ y.hold = hold
      /\ y.ask = x.ask /\ y.tiers = x.tiers /\ y.answer = x.answer /\ y.usage = x.usage
      /\ y.outcome = x.outcome /\ y.entry = x.entry /\ y.settlements = x.settlements
      /\ y.spawned = x.spawned /\ y.status = x.status /\ y.error = x.error
      /\ y.sentinel = x.sentinel /\ y.upstream = x.upstream /\ y.orphan = x.orphan
      /\ y.cut = x.cut
  BY <1>1 DEF Request
<1> HIDE DEF y
<1>4. AccountInv(y) /\ AccountStep(x, y)
  BY <1>1, <1>3 DEF LocalInv, AccountInv, AccountStep, Undecided, Decided, Billed, Beside,
     Waiting, Settling, Relaying
<1>5. OverInv(y)
  BY <1>1, <1>3 DEF LocalInv, AccountInv, OverInv, StreamInv, Undecided, Decided, Billed, Beside,
     Waiting, Settling, Relaying
<1>6. AnswerInv(r, y)
  BY <1>1, <1>3 DEF LocalInv, AnswerInv, Settling, Relaying
<1>7. StreamInv(y)
  BY <1>1, <1>3 DEF LocalInv, AccountInv, AnswerInv, StreamInv, Relaying
<1>8. QED
  BY <1>2, <1>4, <1>5, <1>6, <1>7 DEF LocalStep, LocalInv, y

LEMMA RecordLocal ==
  ASSUME NEW r \in Requests, NEW x \in Request, LocalInv(r, x),
         NEW entry \in Recorded(x),
         NEW at,
         x.at = "recording",
         at = IF x.ask = "stream" THEN "closing" ELSE "storing"
  PROVE  LocalStep(r, x, [x EXCEPT !.entry = entry, !.at = at])
<1> DEFINE y == [x EXCEPT !.entry = entry, !.at = at]
<1>1. /\ x.settlements = 1 /\ x.spawned = "none" /\ Decided(x) /\ entry \in {x.usage, "lost"}
      /\ x.usage \in {"zero", "known", "unknown"}
  BY DEF LocalInv, AccountInv, AnswerInv, StreamInv, Undecided, Decided, Billed, Beside, Waiting,
     Settling, Relaying, Recorded, Request
<1>2. y \in Request
  <2>1. at \in Stages /\ entry \in {"none", "zero", "known", "unknown", "lost"}
    BY <1>1 DEF Stages, Relaying
  <2>2. QED
    BY <1>1, <2>1, Edits
<1>3. /\ y.at = at /\ y.entry = entry
      /\ y.ask = x.ask /\ y.tiers = x.tiers /\ y.answer = x.answer /\ y.usage = x.usage
      /\ y.outcome = x.outcome /\ y.hold = x.hold /\ y.settlements = x.settlements
      /\ y.spawned = x.spawned /\ y.status = x.status /\ y.error = x.error
      /\ y.sentinel = x.sentinel /\ y.upstream = x.upstream /\ y.orphan = x.orphan
      /\ y.cut = x.cut
  BY <1>1 DEF Request
<1> HIDE DEF y
<1>4. AccountInv(y) /\ AccountStep(x, y)
  BY <1>1, <1>3 DEF LocalInv, AccountInv, AccountStep, Undecided, Decided, Billed, Beside,
     Waiting, Settling, Relaying
<1>5. OverInv(y)
  BY <1>1, <1>3 DEF LocalInv, AccountInv, OverInv, StreamInv, Undecided, Decided, Billed, Beside,
     Waiting, Settling, Relaying
<1>6. AnswerInv(r, y)
  BY <1>1, <1>3 DEF LocalInv, AnswerInv, Settling, Relaying
<1>7. StreamInv(y)
  BY <1>1, <1>3 DEF LocalInv, AccountInv, AnswerInv, StreamInv, Relaying
<1>8. QED
  BY <1>2, <1>4, <1>5, <1>6, <1>7 DEF LocalStep, LocalInv, y

LEMMA StoreLocal ==
  ASSUME NEW r \in Requests, NEW x \in Request, LocalInv(r, x),
         x.at = "storing"
  PROVE  LocalStep(r, x, [x EXCEPT !.at = "done", !.status = "ok"])
<1> DEFINE y == [x EXCEPT !.at = "done", !.status = "ok"]
<1>1. x.settlements = 1 /\ x.spawned = "none" /\ Billed(x) /\ x.ask # "stream" /\ x.upstream # "open"
  BY DEF LocalInv, AccountInv, AnswerInv, StreamInv, Undecided, Decided, Billed, Beside, Waiting,
     Settling, Relaying
<1>2. y \in Request
  <2>1. "done" \in Stages
    BY <1>1 DEF Stages, Relaying
  <2>2. QED
    BY <1>1, <2>1, Edits
<1>3. /\ y.at = "done" /\ y.status = "ok"
      /\ y.ask = x.ask /\ y.tiers = x.tiers /\ y.answer = x.answer /\ y.usage = x.usage
      /\ y.outcome = x.outcome /\ y.hold = x.hold /\ y.entry = x.entry
      /\ y.settlements = x.settlements /\ y.spawned = x.spawned /\ y.error = x.error
      /\ y.sentinel = x.sentinel /\ y.upstream = x.upstream /\ y.orphan = x.orphan
      /\ y.cut = x.cut
  BY <1>1 DEF Request
<1> HIDE DEF y
<1>4. AccountInv(y) /\ AccountStep(x, y)
  BY <1>1, <1>3 DEF LocalInv, AccountInv, AccountStep, Undecided, Decided, Billed, Beside,
     Waiting, Settling, Relaying
<1>5. OverInv(y)
  BY <1>1, <1>3 DEF LocalInv, AccountInv, OverInv, StreamInv, Undecided, Decided, Billed, Beside,
     Waiting, Settling, Relaying
<1>6. AnswerInv(r, y)
  BY <1>1, <1>3 DEF LocalInv, AnswerInv, Settling, Relaying
<1>7. StreamInv(y)
  BY <1>1, <1>3 DEF LocalInv, AccountInv, AnswerInv, StreamInv, Relaying
<1>8. QED
  BY <1>2, <1>4, <1>5, <1>6, <1>7 DEF LocalStep, LocalInv, y

LEMMA SettleLocal ==
  ASSUME NEW r \in Requests, NEW x \in Request, Ready(r, x)
  PROVE  LocalStep(r, x, Settle(x))
<1> DEFINE y == Settle(x)
<1>1. /\ x.settlements = 0 /\ x.spawned = "none" /\ Undecided(x)
      /\ x.usage \in {"zero", "known", "unknown"}
      /\ (x.usage = "unknown" /\ FirstStep(x.usage) = "recording")
         \/ (x.usage # "unknown" /\ FirstStep(x.usage) = "reconciling")
  BY DEF Ready, Undecided, Decided, Billed, Beside, Waiting, Settling, Relaying, Request,
     FirstStep
<1>2. y \in Request
  <2>1. FirstStep(x.usage) \in Stages /\ x.settlements + 1 \in 0 .. 1
    BY <1>1 DEF Stages
  <2>2. QED
    BY <1>1, <2>1, Edits DEF Settle
<1>3. /\ y.at = FirstStep(x.usage) /\ y.settlements = 1
      /\ y.ask = x.ask /\ y.tiers = x.tiers /\ y.answer = x.answer /\ y.usage = x.usage
      /\ y.outcome = x.outcome /\ y.hold = x.hold /\ y.entry = x.entry
      /\ y.spawned = x.spawned /\ y.status = x.status /\ y.error = x.error
      /\ y.sentinel = x.sentinel /\ y.upstream = x.upstream /\ y.orphan = x.orphan
      /\ y.cut = x.cut
  BY <1>1 DEF Request, Settle
<1> HIDE DEF y
<1>4. AccountInv(y) /\ AccountStep(x, y)
  BY <1>1, <1>3 DEF Ready, AccountInv, AccountStep, Undecided, Decided, Billed, Beside, Waiting,
     Settling, Relaying
<1>5. OverInv(y)
  BY <1>1, <1>3 DEF Ready, AccountInv, OverInv, StreamInv, Undecided, Decided, Billed, Beside,
     Waiting, Settling, Relaying
<1>6. AnswerInv(r, y)
  BY <1>1, <1>3 DEF Ready, AnswerInv, Settling, Relaying
<1>7. StreamInv(y)
  BY <1>1, <1>3 DEF Ready, AccountInv, AnswerInv, StreamInv, Relaying
<1>8. QED
  BY <1>2, <1>4, <1>5, <1>6, <1>7 DEF LocalStep, LocalInv, y

LEMMA SpawnLocal ==
  ASSUME NEW r \in Requests, NEW x \in Request, Abandoned(x),
         NEW at,
         at = "closing" \/ (at = "done" /\ x.upstream # "open")
  PROVE  LocalStep(r, x, [Spawn(x) EXCEPT !.at = at])
<1> DEFINE y == [Spawn(x) EXCEPT !.at = at]
<1>1. /\ x.settlements = 0 /\ x.spawned = "none" /\ Undecided(x) /\ at \in {"closing", "done"}
      /\ (x.usage = "unknown" /\ FirstStep(x.usage) = "recording")
         \/ (x.usage = "known" /\ FirstStep(x.usage) = "reconciling")
  BY DEF Abandoned, Undecided, Decided, Billed, Beside, Waiting, Settling, Relaying, Request,
     FirstStep
<1>2. y \in Request
  <2>1. /\ FirstStep(x.usage) \in {"none", "reconciling", "recording", "done"}
        /\ at \in Stages /\ x.settlements + 1 \in 0 .. 1
    BY <1>1 DEF Stages
  <2>2. QED
    BY <1>1, <2>1, Edits DEF Spawn
<1>3. /\ y.at = at /\ y.spawned = FirstStep(x.usage) /\ y.settlements = 1
      /\ y.ask = x.ask /\ y.tiers = x.tiers /\ y.answer = x.answer /\ y.usage = x.usage
      /\ y.outcome = x.outcome /\ y.hold = x.hold /\ y.entry = x.entry /\ y.status = x.status
      /\ y.error = x.error /\ y.sentinel = x.sentinel /\ y.upstream = x.upstream
      /\ y.orphan = x.orphan /\ y.cut = x.cut
  BY <1>1 DEF Request, Spawn
<1> HIDE DEF y
<1>4. AccountInv(y) /\ AccountStep(x, y)
  BY <1>1, <1>3 DEF Abandoned, AccountInv, AccountStep, Undecided, Decided, Billed, Beside,
     Waiting, Settling, Relaying
<1>5. OverInv(y)
  BY <1>1, <1>3 DEF Abandoned, AccountInv, OverInv, StreamInv, Undecided, Decided, Billed, Beside,
     Waiting, Settling, Relaying
<1>6. AnswerInv(r, y)
  BY <1>1, <1>3 DEF Abandoned, AnswerInv, Settling, Relaying
<1>7. StreamInv(y)
  BY <1>1, <1>3 DEF Abandoned, AccountInv, AnswerInv, StreamInv, Relaying
<1>8. QED
  BY <1>2, <1>4, <1>5, <1>6, <1>7 DEF LocalStep, LocalInv, y

LEMMA FirstChunkLocal ==
  ASSUME NEW r \in Requests, NEW x \in Request, LocalInv(r, x),
         NEW upstream \in {"open", "closed"},
         x.at = "waiting"
  PROVE  LocalStep(r, x, [x EXCEPT !.at = "starting", !.upstream = upstream])
<1> DEFINE y == [x EXCEPT !.at = "starting", !.upstream = upstream]
<1>1. x.settlements = 0 /\ x.spawned = "none" /\ Undecided(x)
  BY DEF LocalInv, AccountInv, AnswerInv, StreamInv, Undecided, Decided, Billed, Beside, Waiting,
     Settling, Relaying
<1>2. y \in Request
  <2>1. "starting" \in Stages /\ upstream \in {"none", "open", "closed"}
    BY <1>1 DEF Stages, Relaying
  <2>2. QED
    BY <1>1, <2>1, Edits
<1>3. /\ y.at = "starting" /\ y.upstream = upstream
      /\ y.ask = x.ask /\ y.tiers = x.tiers /\ y.answer = x.answer /\ y.usage = x.usage
      /\ y.outcome = x.outcome /\ y.hold = x.hold /\ y.entry = x.entry
      /\ y.settlements = x.settlements /\ y.spawned = x.spawned /\ y.status = x.status
      /\ y.error = x.error /\ y.sentinel = x.sentinel /\ y.orphan = x.orphan /\ y.cut = x.cut
  BY <1>1 DEF Request
<1> HIDE DEF y
<1>4. AccountInv(y) /\ AccountStep(x, y)
  BY <1>1, <1>3 DEF LocalInv, AccountInv, AccountStep, Undecided, Decided, Billed, Beside,
     Waiting, Settling, Relaying
<1>5. OverInv(y)
  BY <1>1, <1>3 DEF LocalInv, AccountInv, OverInv, StreamInv, Undecided, Decided, Billed, Beside,
     Waiting, Settling, Relaying
<1>6. AnswerInv(r, y)
  BY <1>1, <1>3 DEF LocalInv, AnswerInv, Settling, Relaying
<1>7. StreamInv(y)
  BY <1>1, <1>3 DEF LocalInv, AccountInv, AnswerInv, StreamInv, Relaying
<1>8. QED
  BY <1>2, <1>4, <1>5, <1>6, <1>7 DEF LocalStep, LocalInv, y

LEMMA ChunkLocal ==
  ASSUME NEW r \in Requests, NEW x \in Request, LocalInv(r, x),
         NEW at \in {"sending", "pulling"},
         NEW usage \in {x.usage, "known"},
         x.at \in {"starting", "pulling"}
  PROVE  LocalStep(r, x, [[x EXCEPT !.status = "ok"] EXCEPT !.at = at, !.usage = usage])
<1> DEFINE y == [[x EXCEPT !.status = "ok"] EXCEPT !.at = at, !.usage = usage]
<1>1. /\ x.settlements = 0 /\ x.spawned = "none" /\ Undecided(x)
      /\ usage \in {"known", "unknown"} /\ x.answer = Nobody
  BY DEF LocalInv, AccountInv, AnswerInv, StreamInv, Undecided, Decided, Billed, Beside, Waiting,
     Settling, Relaying, Request
<1>2. y \in Request
  <2>1. at \in Stages /\ usage \in {"unknown", "known", "zero"}
    BY <1>1 DEF Stages, Relaying
  <2>2. QED
    BY <1>1, <2>1, Edits
<1>3. /\ y.at = at /\ y.status = "ok" /\ y.usage = usage
      /\ y.ask = x.ask /\ y.tiers = x.tiers /\ y.answer = x.answer /\ y.outcome = x.outcome
      /\ y.hold = x.hold /\ y.entry = x.entry /\ y.settlements = x.settlements
      /\ y.spawned = x.spawned /\ y.error = x.error /\ y.sentinel = x.sentinel
      /\ y.upstream = x.upstream /\ y.orphan = x.orphan /\ y.cut = x.cut
  BY <1>1 DEF Request
<1> HIDE DEF y
<1>4. AccountInv(y) /\ AccountStep(x, y)
  BY <1>1, <1>3 DEF LocalInv, AccountInv, AccountStep, Undecided, Decided, Billed, Beside,
     Waiting, Settling, Relaying
<1>5. OverInv(y)
  BY <1>1, <1>3 DEF LocalInv, AccountInv, OverInv, StreamInv, Undecided, Decided, Billed, Beside,
     Waiting, Settling, Relaying
<1>6. AnswerInv(r, y)
  BY <1>1, <1>3 DEF LocalInv, AnswerInv, Settling, Relaying
<1>7. StreamInv(y)
  BY <1>1, <1>3 DEF LocalInv, AccountInv, AnswerInv, StreamInv, Relaying
<1>8. QED
  BY <1>2, <1>4, <1>5, <1>6, <1>7 DEF LocalStep, LocalInv, y

LEMMA StreamEndsLocal ==
  ASSUME NEW r \in Requests, NEW x \in Request, LocalInv(r, x),
         x.at \in {"starting", "pulling"}
  PROVE  LocalStep(r, x, [x EXCEPT !.at = "sentinel", !.sentinel = TRUE, !.status = "ok",
                                   !.upstream = "closed"])
<1> DEFINE y == [x EXCEPT !.at = "sentinel", !.sentinel = TRUE, !.status = "ok",
                          !.upstream = "closed"]
<1>1. /\ x.settlements = 0 /\ x.spawned = "none" /\ Undecided(x)
      /\ x.outcome = "completed" /\ ~x.error
  BY DEF LocalInv, AccountInv, AnswerInv, StreamInv, Undecided, Decided, Billed, Beside, Waiting,
     Settling, Relaying
<1>2. y \in Request
  <2>1. "sentinel" \in Stages /\ TRUE \in BOOLEAN
    BY <1>1 DEF Stages, Relaying
  <2>2. QED
    BY <1>1, <2>1, Edits
<1>3. /\ y.at = "sentinel" /\ y.status = "ok" /\ y.sentinel = TRUE /\ y.upstream = "closed"
      /\ y.ask = x.ask /\ y.tiers = x.tiers /\ y.answer = x.answer /\ y.usage = x.usage
      /\ y.outcome = x.outcome /\ y.hold = x.hold /\ y.entry = x.entry
      /\ y.settlements = x.settlements /\ y.spawned = x.spawned /\ y.error = x.error
      /\ y.orphan = x.orphan /\ y.cut = x.cut
  BY <1>1 DEF Request
<1> HIDE DEF y
<1>4. AccountInv(y) /\ AccountStep(x, y)
  BY <1>1, <1>3 DEF LocalInv, AccountInv, AccountStep, Undecided, Decided, Billed, Beside,
     Waiting, Settling, Relaying
<1>5. OverInv(y)
  BY <1>1, <1>3 DEF LocalInv, AccountInv, OverInv, StreamInv, Undecided, Decided, Billed, Beside,
     Waiting, Settling, Relaying
<1>6. AnswerInv(r, y)
  BY <1>1, <1>3 DEF LocalInv, AnswerInv, Settling, Relaying
<1>7. StreamInv(y)
  BY <1>1, <1>3 DEF LocalInv, AccountInv, AnswerInv, StreamInv, Relaying
<1>8. QED
  BY <1>2, <1>4, <1>5, <1>6, <1>7 DEF LocalStep, LocalInv, y

LEMMA StreamBreaksLocal ==
  ASSUME NEW r \in Requests, NEW x \in Request, LocalInv(r, x),
         x.at = "pulling"
  PROVE  LocalStep(r, x, [x EXCEPT !.at = "failing", !.error = TRUE, !.outcome = "failed",
                                   !.upstream = "closed"])
<1> DEFINE y == [x EXCEPT !.at = "failing", !.error = TRUE, !.outcome = "failed",
                          !.upstream = "closed"]
<1>1. /\ x.settlements = 0 /\ x.spawned = "none" /\ Undecided(x)
      /\ ~x.sentinel
  BY DEF LocalInv, AccountInv, AnswerInv, StreamInv, Undecided, Decided, Billed, Beside, Waiting,
     Settling, Relaying
<1>2. y \in Request
  <2>1. "failing" \in Stages /\ TRUE \in BOOLEAN
    BY <1>1 DEF Stages, Relaying
  <2>2. QED
    BY <1>1, <2>1, Edits
<1>3. /\ y.at = "failing" /\ y.error = TRUE /\ y.outcome = "failed" /\ y.upstream = "closed"
      /\ y.ask = x.ask /\ y.tiers = x.tiers /\ y.answer = x.answer /\ y.usage = x.usage
      /\ y.hold = x.hold /\ y.entry = x.entry /\ y.settlements = x.settlements
      /\ y.spawned = x.spawned /\ y.status = x.status /\ y.sentinel = x.sentinel
      /\ y.orphan = x.orphan /\ y.cut = x.cut
  BY <1>1 DEF Request
<1> HIDE DEF y
<1>4. AccountInv(y) /\ AccountStep(x, y)
  BY <1>1, <1>3 DEF LocalInv, AccountInv, AccountStep, Undecided, Decided, Billed, Beside,
     Waiting, Settling, Relaying
<1>5. OverInv(y)
  BY <1>1, <1>3 DEF LocalInv, AccountInv, OverInv, StreamInv, Undecided, Decided, Billed, Beside,
     Waiting, Settling, Relaying
<1>6. AnswerInv(r, y)
  BY <1>1, <1>3 DEF LocalInv, AnswerInv, Settling, Relaying
<1>7. StreamInv(y)
  BY <1>1, <1>3 DEF LocalInv, AccountInv, AnswerInv, StreamInv, Relaying
<1>8. QED
  BY <1>2, <1>4, <1>5, <1>6, <1>7 DEF LocalStep, LocalInv, y

LEMMA PullLocal ==
  ASSUME NEW r \in Requests, NEW x \in Request, LocalInv(r, x),
         x.at = "sending"
  PROVE  LocalStep(r, x, [x EXCEPT !.at = "pulling"])
<1> DEFINE y == [x EXCEPT !.at = "pulling"]
<1>1. x.settlements = 0 /\ x.spawned = "none" /\ Undecided(x)
  BY DEF LocalInv, AccountInv, AnswerInv, StreamInv, Undecided, Decided, Billed, Beside, Waiting,
     Settling, Relaying
<1>2. y \in Request
  <2>1. "pulling" \in Stages
    BY <1>1 DEF Stages, Relaying
  <2>2. QED
    BY <1>1, <2>1, Edits
<1>3. /\ y.at = "pulling"
      /\ y.ask = x.ask /\ y.tiers = x.tiers /\ y.answer = x.answer /\ y.usage = x.usage
      /\ y.outcome = x.outcome /\ y.hold = x.hold /\ y.entry = x.entry
      /\ y.settlements = x.settlements /\ y.spawned = x.spawned /\ y.status = x.status
      /\ y.error = x.error /\ y.sentinel = x.sentinel /\ y.upstream = x.upstream
      /\ y.orphan = x.orphan /\ y.cut = x.cut
  BY <1>1 DEF Request
<1> HIDE DEF y
<1>4. AccountInv(y) /\ AccountStep(x, y)
  BY <1>1, <1>3 DEF LocalInv, AccountInv, AccountStep, Undecided, Decided, Billed, Beside,
     Waiting, Settling, Relaying
<1>5. OverInv(y)
  BY <1>1, <1>3 DEF LocalInv, AccountInv, OverInv, StreamInv, Undecided, Decided, Billed, Beside,
     Waiting, Settling, Relaying
<1>6. AnswerInv(r, y)
  BY <1>1, <1>3 DEF LocalInv, AnswerInv, Settling, Relaying
<1>7. StreamInv(y)
  BY <1>1, <1>3 DEF LocalInv, AccountInv, AnswerInv, StreamInv, Relaying
<1>8. QED
  BY <1>2, <1>4, <1>5, <1>6, <1>7 DEF LocalStep, LocalInv, y

LEMMA FailLocal ==
  ASSUME NEW r \in Requests, NEW x \in Request, LocalInv(r, x),
         x.at = "failing"
  PROVE  LocalStep(r, x, [x EXCEPT !.at = "sentinel", !.sentinel = TRUE])
<1> DEFINE y == [x EXCEPT !.at = "sentinel", !.sentinel = TRUE]
<1>1. /\ x.settlements = 0 /\ x.spawned = "none" /\ Undecided(x)
      /\ x.error /\ x.outcome = "failed"
  BY DEF LocalInv, AccountInv, AnswerInv, StreamInv, Undecided, Decided, Billed, Beside, Waiting,
     Settling, Relaying
<1>2. y \in Request
  <2>1. "sentinel" \in Stages /\ TRUE \in BOOLEAN
    BY <1>1 DEF Stages, Relaying
  <2>2. QED
    BY <1>1, <2>1, Edits
<1>3. /\ y.at = "sentinel" /\ y.sentinel = TRUE
      /\ y.ask = x.ask /\ y.tiers = x.tiers /\ y.answer = x.answer /\ y.usage = x.usage
      /\ y.outcome = x.outcome /\ y.hold = x.hold /\ y.entry = x.entry
      /\ y.settlements = x.settlements /\ y.spawned = x.spawned /\ y.status = x.status
      /\ y.error = x.error /\ y.upstream = x.upstream /\ y.orphan = x.orphan /\ y.cut = x.cut
  BY <1>1 DEF Request
<1> HIDE DEF y
<1>4. AccountInv(y) /\ AccountStep(x, y)
  BY <1>1, <1>3 DEF LocalInv, AccountInv, AccountStep, Undecided, Decided, Billed, Beside,
     Waiting, Settling, Relaying
<1>5. OverInv(y)
  BY <1>1, <1>3 DEF LocalInv, AccountInv, OverInv, StreamInv, Undecided, Decided, Billed, Beside,
     Waiting, Settling, Relaying
<1>6. AnswerInv(r, y)
  BY <1>1, <1>3 DEF LocalInv, AnswerInv, Settling, Relaying
<1>7. StreamInv(y)
  BY <1>1, <1>3 DEF LocalInv, AccountInv, AnswerInv, StreamInv, Relaying
<1>8. QED
  BY <1>2, <1>4, <1>5, <1>6, <1>7 DEF LocalStep, LocalInv, y

LEMMA CloseLocal ==
  ASSUME NEW r \in Requests, NEW x \in Request, LocalInv(r, x),
         x.at = "closing"
  PROVE  LocalStep(r, x, [x EXCEPT !.at = "done", !.upstream = "closed"])
<1> DEFINE y == [x EXCEPT !.at = "done", !.upstream = "closed"]
<1>1. /\ x.settlements = 1 /\ (x.spawned = "none" => Billed(x)) /\ x.ask = "stream" /\ ~x.cut
      /\ x.usage # "zero" => x.answer = Nobody
  BY DEF LocalInv, AccountInv, AnswerInv, StreamInv, Undecided, Decided, Billed, Beside, Waiting,
     Settling, Relaying, Request
<1>2. y \in Request
  <2>1. "done" \in Stages
    BY <1>1 DEF Stages, Relaying
  <2>2. QED
    BY <1>1, <2>1, Edits
<1>3. /\ y.at = "done" /\ y.upstream = "closed"
      /\ y.ask = x.ask /\ y.tiers = x.tiers /\ y.answer = x.answer /\ y.usage = x.usage
      /\ y.outcome = x.outcome /\ y.hold = x.hold /\ y.entry = x.entry
      /\ y.settlements = x.settlements /\ y.spawned = x.spawned /\ y.status = x.status
      /\ y.error = x.error /\ y.sentinel = x.sentinel /\ y.orphan = x.orphan /\ y.cut = x.cut
  BY <1>1 DEF Request
<1> HIDE DEF y
<1>4. AccountInv(y) /\ AccountStep(x, y)
  BY <1>1, <1>3 DEF LocalInv, AccountInv, AccountStep, Undecided, Decided, Billed, Beside,
     Waiting, Settling, Relaying
<1>5. OverInv(y)
  BY <1>1, <1>3 DEF LocalInv, AccountInv, OverInv, StreamInv, Undecided, Decided, Billed, Beside,
     Waiting, Settling, Relaying
<1>6. AnswerInv(r, y)
  BY <1>1, <1>3 DEF LocalInv, AnswerInv, Settling, Relaying
<1>7. StreamInv(y)
  BY <1>1, <1>3 DEF LocalInv, AccountInv, AnswerInv, StreamInv, Relaying
<1>8. QED
  BY <1>2, <1>4, <1>5, <1>6, <1>7 DEF LocalStep, LocalInv, y

LEMMA SpawnedReconcileLocal ==
  ASSUME NEW r \in Requests, NEW x \in Request, LocalInv(r, x),
         NEW hold \in Reconciled(x),
         x.spawned = "reconciling"
  PROVE  LocalStep(r, x, [x EXCEPT !.spawned = "recording", !.hold = hold])
<1> DEFINE y == [x EXCEPT !.spawned = "recording", !.hold = hold]
<1>1. /\ x.settlements = 1 /\ Undecided(x) /\ x.usage = "known" /\ x.at \in {"closing", "done"}
      /\ (hold = "none" /\ x.hold = "none") \/ (hold \in {"charged", "kept"} /\ x.hold = "held")
  BY DEF LocalInv, AccountInv, AnswerInv, StreamInv, Undecided, Decided, Billed, Beside, Waiting,
     Settling, Relaying, Reconciled
<1>2. y \in Request
  <2>1. hold \in {"none", "held", "returned", "charged", "kept"}
    BY <1>1 DEF Stages, Relaying
  <2>2. QED
    BY <1>1, <2>1, Edits
<1>3. /\ y.spawned = "recording" /\ y.hold = hold
      /\ y.at = x.at /\ y.ask = x.ask /\ y.tiers = x.tiers /\ y.answer = x.answer
      /\ y.usage = x.usage /\ y.outcome = x.outcome /\ y.entry = x.entry
      /\ y.settlements = x.settlements /\ y.status = x.status /\ y.error = x.error
      /\ y.sentinel = x.sentinel /\ y.upstream = x.upstream /\ y.orphan = x.orphan
      /\ y.cut = x.cut
  BY <1>1 DEF Request
<1> HIDE DEF y
<1>4. AccountInv(y) /\ AccountStep(x, y)
  BY <1>1, <1>3 DEF LocalInv, AccountInv, AccountStep, Undecided, Decided, Billed, Beside,
     Waiting, Settling, Relaying
<1>5. OverInv(y)
  BY <1>1, <1>3 DEF LocalInv, AccountInv, OverInv, StreamInv, Undecided, Decided, Billed, Beside,
     Waiting, Settling, Relaying
<1>6. AnswerInv(r, y)
  BY <1>1, <1>3 DEF LocalInv, AnswerInv, Settling, Relaying
<1>7. StreamInv(y)
  BY <1>1, <1>3 DEF LocalInv, AccountInv, AnswerInv, StreamInv, Relaying
<1>8. QED
  BY <1>2, <1>4, <1>5, <1>6, <1>7 DEF LocalStep, LocalInv, y

LEMMA SpawnedRecordLocal ==
  ASSUME NEW r \in Requests, NEW x \in Request, LocalInv(r, x),
         NEW entry \in Recorded(x),
         x.spawned = "recording"
  PROVE  LocalStep(r, x, [x EXCEPT !.spawned = "done", !.entry = entry])
<1> DEFINE y == [x EXCEPT !.spawned = "done", !.entry = entry]
<1>1. /\ x.settlements = 1 /\ Decided(x) /\ x.at \in {"closing", "done"}
      /\ entry \in {x.usage, "lost"}
      /\ x.usage \in {"zero", "known", "unknown"}
  BY DEF LocalInv, AccountInv, AnswerInv, StreamInv, Undecided, Decided, Billed, Beside, Waiting,
     Settling, Relaying, Recorded, Request
<1>2. y \in Request
  <2>1. entry \in {"none", "zero", "known", "unknown", "lost"}
    BY <1>1 DEF Stages, Relaying
  <2>2. QED
    BY <1>1, <2>1, Edits
<1>3. /\ y.spawned = "done" /\ y.entry = entry
      /\ y.at = x.at /\ y.ask = x.ask /\ y.tiers = x.tiers /\ y.answer = x.answer
      /\ y.usage = x.usage /\ y.outcome = x.outcome /\ y.hold = x.hold
      /\ y.settlements = x.settlements /\ y.status = x.status /\ y.error = x.error
      /\ y.sentinel = x.sentinel /\ y.upstream = x.upstream /\ y.orphan = x.orphan
      /\ y.cut = x.cut
  BY <1>1 DEF Request
<1> HIDE DEF y
<1>4. AccountInv(y) /\ AccountStep(x, y)
  BY <1>1, <1>3 DEF LocalInv, AccountInv, AccountStep, Undecided, Decided, Billed, Beside,
     Waiting, Settling, Relaying
<1>5. OverInv(y)
  BY <1>1, <1>3 DEF LocalInv, AccountInv, OverInv, StreamInv, Undecided, Decided, Billed, Beside,
     Waiting, Settling, Relaying
<1>6. AnswerInv(r, y)
  BY <1>1, <1>3 DEF LocalInv, AnswerInv, Settling, Relaying
<1>7. StreamInv(y)
  BY <1>1, <1>3 DEF LocalInv, AccountInv, AnswerInv, StreamInv, Relaying
<1>8. QED
  BY <1>2, <1>4, <1>5, <1>6, <1>7 DEF LocalStep, LocalInv, y

LEMMA CancelSendLocal ==
  ASSUME NEW r \in Requests, NEW x \in Request, LocalInv(r, x),
         x.at \in Relaying
  PROVE  LocalStep(r, x, [x EXCEPT !.orphan = TRUE])
<1> DEFINE y == [x EXCEPT !.orphan = TRUE]
<1>1. x.settlements = 0 /\ x.spawned = "none" /\ Undecided(x)
  BY DEF LocalInv, AccountInv, AnswerInv, StreamInv, Undecided, Decided, Billed, Beside, Waiting,
     Settling, Relaying
<1>2. y \in Request
  <2>1. TRUE \in BOOLEAN
    BY <1>1 DEF Stages, Relaying
  <2>2. QED
    BY <1>1, <2>1, Edits
<1>3. /\ y.orphan = TRUE
      /\ y.at = x.at /\ y.ask = x.ask /\ y.tiers = x.tiers /\ y.answer = x.answer
      /\ y.usage = x.usage /\ y.outcome = x.outcome /\ y.hold = x.hold /\ y.entry = x.entry
      /\ y.settlements = x.settlements /\ y.spawned = x.spawned /\ y.status = x.status
      /\ y.error = x.error /\ y.sentinel = x.sentinel /\ y.upstream = x.upstream
      /\ y.cut = x.cut
  BY <1>1 DEF Request
<1> HIDE DEF y
<1>4. AccountInv(y) /\ AccountStep(x, y)
  BY <1>1, <1>3 DEF LocalInv, AccountInv, AccountStep, Undecided, Decided, Billed, Beside,
     Waiting, Settling, Relaying
<1>5. OverInv(y)
  BY <1>1, <1>3 DEF LocalInv, AccountInv, OverInv, StreamInv, Undecided, Decided, Billed, Beside,
     Waiting, Settling, Relaying
<1>6. AnswerInv(r, y)
  BY <1>1, <1>3 DEF LocalInv, AnswerInv, Settling, Relaying
<1>7. StreamInv(y)
  BY <1>1, <1>3 DEF LocalInv, AccountInv, AnswerInv, StreamInv, Relaying
<1>8. QED
  BY <1>2, <1>4, <1>5, <1>6, <1>7 DEF LocalStep, LocalInv, y

LEMMA CancelUnsettledLocal ==
  ASSUME NEW r \in Requests, NEW x \in Request, LocalInv(r, x),
         NEW hold,
         x.at \in {"admitting", "exact", "near", "calling", "starting"},
         hold \in IF x.at = "admitting" THEN {"none", "held"} ELSE {x.hold}
  PROVE  LocalStep(r, x, UnsettledRecord(x, hold))
<1> DEFINE y == UnsettledRecord(x, hold)
<1>1. /\ x.settlements = 0 /\ x.spawned = "none" /\ Undecided(x)
      /\ x.upstream \in {"none", "open", "closed"} /\ hold \in {"none", "held"}
      /\ hold = x.hold \/ (hold = "held" /\ x.hold = "none")
      /\ x.upstream = "open" => x.at \in {"calling", "starting"}
  BY DEF LocalInv, AccountInv, AnswerInv, StreamInv, Undecided, Decided, Billed, Beside, Waiting,
     Settling, Relaying, Request
<1>2. y \in Request
  <2>1. "done" \in Stages /\ TRUE \in BOOLEAN /\ (IF x.at \in {"calling", "starting"} THEN "closed" ELSE x.upstream) \in {"none", "open", "closed"}
      /\ hold \in {"none", "held", "returned", "charged", "kept"}
    BY <1>1 DEF Stages, Relaying
  <2>2. QED
    BY <1>1, <2>1, Edits DEF UnsettledRecord, Gone
<1>3. /\ y.at = "done" /\ y.hold = hold /\ y.cut = TRUE
      /\ y.upstream = (IF x.at \in {"calling", "starting"} THEN "closed" ELSE x.upstream)
      /\ y.ask = x.ask /\ y.tiers = x.tiers /\ y.answer = x.answer /\ y.usage = x.usage
      /\ y.outcome = x.outcome /\ y.entry = x.entry /\ y.settlements = x.settlements
      /\ y.spawned = x.spawned /\ y.status = x.status /\ y.error = x.error
      /\ y.sentinel = x.sentinel /\ y.orphan = x.orphan
  BY <1>1 DEF Request, UnsettledRecord, Gone
<1> HIDE DEF y
<1>4. AccountInv(y) /\ AccountStep(x, y)
  BY <1>1, <1>3 DEF LocalInv, AccountInv, AccountStep, Undecided, Decided, Billed, Beside,
     Waiting, Settling, Relaying
<1>5. OverInv(y)
  BY <1>1, <1>3 DEF LocalInv, AccountInv, OverInv, StreamInv, Undecided, Decided, Billed, Beside,
     Waiting, Settling, Relaying
<1>6. AnswerInv(r, y)
  BY <1>1, <1>3 DEF LocalInv, AnswerInv, Settling, Relaying
<1>7. StreamInv(y)
  BY <1>1, <1>3 DEF LocalInv, AccountInv, AnswerInv, StreamInv, Relaying
<1>8. QED
  BY <1>2, <1>4, <1>5, <1>6, <1>7 DEF LocalStep, LocalInv, y

LEMMA CancelReconcileLocal ==
  ASSUME NEW r \in Requests, NEW x \in Request, LocalInv(r, x),
         NEW hold \in Reconciled(x) \cup {x.hold},
         x.at \in {"reconciling", "discarding"}
  PROVE  LocalStep(r, x, Gone([x EXCEPT !.hold = hold, !.cut = TRUE]))
<1> DEFINE y == Gone([x EXCEPT !.hold = hold, !.cut = TRUE])
<1>1. /\ x.settlements = 1 /\ x.spawned = "none" /\ Undecided(x) /\ x.upstream # "open"
      /\ hold = x.hold \/ (hold \in {"returned", "charged", "kept"} /\ x.hold = "held")
      /\ hold \in {"none", "held", "returned", "charged", "kept"}
  BY DEF LocalInv, AccountInv, AnswerInv, StreamInv, Undecided, Decided, Billed, Beside, Waiting,
     Settling, Relaying, Reconciled
<1>2. y \in Request
  <2>1. "done" \in Stages
    BY <1>1 DEF Stages, Relaying
  <2>2. QED
    BY <1>1, <2>1, Edits DEF Gone
<1>3. /\ y.at = "done" /\ y.hold = hold /\ y.cut = TRUE
      /\ y.ask = x.ask /\ y.tiers = x.tiers /\ y.answer = x.answer /\ y.usage = x.usage
      /\ y.outcome = x.outcome /\ y.entry = x.entry /\ y.settlements = x.settlements
      /\ y.spawned = x.spawned /\ y.status = x.status /\ y.error = x.error
      /\ y.sentinel = x.sentinel /\ y.upstream = x.upstream /\ y.orphan = x.orphan
  BY <1>1 DEF Request, Gone
<1> HIDE DEF y
<1>4. AccountInv(y) /\ AccountStep(x, y)
  BY <1>1, <1>3 DEF LocalInv, AccountInv, AccountStep, Undecided, Decided, Billed, Beside,
     Waiting, Settling, Relaying
<1>5. OverInv(y)
  BY <1>1, <1>3 DEF LocalInv, AccountInv, OverInv, StreamInv, Undecided, Decided, Billed, Beside,
     Waiting, Settling, Relaying
<1>6. AnswerInv(r, y)
  BY <1>1, <1>3 DEF LocalInv, AnswerInv, Settling, Relaying
<1>7. StreamInv(y)
  BY <1>1, <1>3 DEF LocalInv, AccountInv, AnswerInv, StreamInv, Relaying
<1>8. QED
  BY <1>2, <1>4, <1>5, <1>6, <1>7 DEF LocalStep, LocalInv, y

LEMMA CancelRecordLocal ==
  ASSUME NEW r \in Requests, NEW x \in Request, LocalInv(r, x),
         NEW entry \in Recorded(x) \cup {"none"},
         x.at = "recording"
  PROVE  LocalStep(r, x, Gone([x EXCEPT !.entry = entry, !.cut = TRUE]))
<1> DEFINE y == Gone([x EXCEPT !.entry = entry, !.cut = TRUE])
<1>1. /\ x.settlements = 1 /\ x.spawned = "none" /\ Decided(x) /\ x.upstream # "open"
      /\ entry \in {x.usage, "lost", "none"} /\ x.usage \in {"zero", "known", "unknown"}
  BY DEF LocalInv, AccountInv, AnswerInv, StreamInv, Undecided, Decided, Billed, Beside, Waiting,
     Settling, Relaying, Recorded, Request
<1>2. y \in Request
  <2>1. "done" \in Stages /\ entry \in {"none", "zero", "known", "unknown", "lost"}
    BY <1>1 DEF Stages, Relaying
  <2>2. QED
    BY <1>1, <2>1, Edits DEF Gone
<1>3. /\ y.at = "done" /\ y.entry = entry /\ y.cut = TRUE
      /\ y.ask = x.ask /\ y.tiers = x.tiers /\ y.answer = x.answer /\ y.usage = x.usage
      /\ y.outcome = x.outcome /\ y.hold = x.hold /\ y.settlements = x.settlements
      /\ y.spawned = x.spawned /\ y.status = x.status /\ y.error = x.error
      /\ y.sentinel = x.sentinel /\ y.upstream = x.upstream /\ y.orphan = x.orphan
  BY <1>1 DEF Request, Gone
<1> HIDE DEF y
<1>4. AccountInv(y) /\ AccountStep(x, y)
  BY <1>1, <1>3 DEF LocalInv, AccountInv, AccountStep, Undecided, Decided, Billed, Beside,
     Waiting, Settling, Relaying
<1>5. OverInv(y)
  BY <1>1, <1>3 DEF LocalInv, AccountInv, OverInv, StreamInv, Undecided, Decided, Billed, Beside,
     Waiting, Settling, Relaying
<1>6. AnswerInv(r, y)
  BY <1>1, <1>3 DEF LocalInv, AnswerInv, Settling, Relaying
<1>7. StreamInv(y)
  BY <1>1, <1>3 DEF LocalInv, AccountInv, AnswerInv, StreamInv, Relaying
<1>8. QED
  BY <1>2, <1>4, <1>5, <1>6, <1>7 DEF LocalStep, LocalInv, y

LEMMA CancelCloseLocal ==
  ASSUME NEW r \in Requests, NEW x \in Request, LocalInv(r, x),
         x.at = "closing"
  PROVE  LocalStep(r, x, Gone([x EXCEPT !.upstream = "closed"]))
<1> DEFINE y == Gone([x EXCEPT !.upstream = "closed"])
<1>1. /\ x.settlements = 1 /\ (x.spawned = "none" => Billed(x)) /\ x.ask = "stream" /\ ~x.cut
      /\ x.usage # "zero" => x.answer = Nobody
  BY DEF LocalInv, AccountInv, AnswerInv, StreamInv, Undecided, Decided, Billed, Beside, Waiting,
     Settling, Relaying, Request
<1>2. y \in Request
  <2>1. "done" \in Stages
    BY <1>1 DEF Stages, Relaying
  <2>2. QED
    BY <1>1, <2>1, Edits DEF Gone
<1>3. /\ y.at = "done" /\ y.upstream = "closed"
      /\ y.ask = x.ask /\ y.tiers = x.tiers /\ y.answer = x.answer /\ y.usage = x.usage
      /\ y.outcome = x.outcome /\ y.hold = x.hold /\ y.entry = x.entry
      /\ y.settlements = x.settlements /\ y.spawned = x.spawned /\ y.status = x.status
      /\ y.error = x.error /\ y.sentinel = x.sentinel /\ y.orphan = x.orphan /\ y.cut = x.cut
  BY <1>1 DEF Request, Gone
<1> HIDE DEF y
<1>4. AccountInv(y) /\ AccountStep(x, y)
  BY <1>1, <1>3 DEF LocalInv, AccountInv, AccountStep, Undecided, Decided, Billed, Beside,
     Waiting, Settling, Relaying
<1>5. OverInv(y)
  BY <1>1, <1>3 DEF LocalInv, AccountInv, OverInv, StreamInv, Undecided, Decided, Billed, Beside,
     Waiting, Settling, Relaying
<1>6. AnswerInv(r, y)
  BY <1>1, <1>3 DEF LocalInv, AnswerInv, Settling, Relaying
<1>7. StreamInv(y)
  BY <1>1, <1>3 DEF LocalInv, AccountInv, AnswerInv, StreamInv, Relaying
<1>8. QED
  BY <1>2, <1>4, <1>5, <1>6, <1>7 DEF LocalStep, LocalInv, y

LEMMA CancelStoreLocal ==
  ASSUME NEW r \in Requests, NEW x \in Request, LocalInv(r, x),
         x.at = "storing"
  PROVE  LocalStep(r, x, Gone(x))
<1> DEFINE y == Gone(x)
<1>1. x.settlements = 1 /\ x.spawned = "none" /\ Billed(x) /\ x.ask # "stream" /\ x.upstream # "open"
  BY DEF LocalInv, AccountInv, AnswerInv, StreamInv, Undecided, Decided, Billed, Beside, Waiting,
     Settling, Relaying
<1>2. y \in Request
  <2>1. "done" \in Stages
    BY <1>1 DEF Stages, Relaying
  <2>2. QED
    BY <1>1, <2>1, Edits DEF Gone
<1>3. /\ y.at = "done"
      /\ y.ask = x.ask /\ y.tiers = x.tiers /\ y.answer = x.answer /\ y.usage = x.usage
      /\ y.outcome = x.outcome /\ y.hold = x.hold /\ y.entry = x.entry
      /\ y.settlements = x.settlements /\ y.spawned = x.spawned /\ y.status = x.status
      /\ y.error = x.error /\ y.sentinel = x.sentinel /\ y.upstream = x.upstream
      /\ y.orphan = x.orphan /\ y.cut = x.cut
  BY <1>1 DEF Request, Gone
<1> HIDE DEF y
<1>4. AccountInv(y) /\ AccountStep(x, y)
  BY <1>1, <1>3 DEF LocalInv, AccountInv, AccountStep, Undecided, Decided, Billed, Beside,
     Waiting, Settling, Relaying
<1>5. OverInv(y)
  BY <1>1, <1>3 DEF LocalInv, AccountInv, OverInv, StreamInv, Undecided, Decided, Billed, Beside,
     Waiting, Settling, Relaying
<1>6. AnswerInv(r, y)
  BY <1>1, <1>3 DEF LocalInv, AnswerInv, Settling, Relaying
<1>7. StreamInv(y)
  BY <1>1, <1>3 DEF LocalInv, AccountInv, AnswerInv, StreamInv, Relaying
<1>8. QED
  BY <1>2, <1>4, <1>5, <1>6, <1>7 DEF LocalStep, LocalInv, y

-----------------------------------------------------------------------------
(* Settlements begun from a record the handler has just edited.             *)

LEMMA SettledFrom ==
  ASSUME NEW r \in Requests, NEW x \in Request, NEW z \in Request, Ready(r, z),
         z.hold = x.hold, z.entry = x.entry
  PROVE  LocalStep(r, x, Settle(z)) /\ Settle(z).answer = z.answer
<1>1. LocalInv(r, Settle(z))
  BY SettleLocal DEF LocalStep
<1>2. Settle(z).hold = z.hold /\ Settle(z).entry = z.entry /\ Settle(z).answer = z.answer
  BY DEF Settle, Request
<1>3. QED
  BY <1>1, <1>2 DEF LocalStep, AccountStep

LEMMA SpawnedFrom ==
  ASSUME NEW r \in Requests, NEW x \in Request, NEW z \in Request, Abandoned(z), NEW at,
         at = "closing" \/ (at = "done" /\ z.upstream # "open"),
         z.hold = x.hold, z.entry = x.entry
  PROVE  /\ LocalStep(r, x, [Spawn(z) EXCEPT !.at = at])
         /\ [Spawn(z) EXCEPT !.at = at].answer = z.answer
<1> DEFINE y == [Spawn(z) EXCEPT !.at = at]
<1>1. LocalInv(r, y)
  BY SpawnLocal DEF LocalStep
<1>2. y.hold = z.hold /\ y.entry = z.entry /\ y.answer = z.answer
  BY DEF Spawn, Request
<1>3. QED
  BY <1>1, <1>2 DEF LocalStep, AccountStep

HitRecord(x, origin) == Settle([x EXCEPT !.answer = origin, !.usage = "zero"])

LEMMA HitLocal ==
  ASSUME NEW r \in Requests, NEW x \in Request, LocalInv(r, x), x.at \in {"exact", "near"},
         NEW origin \in Requests, origin # r
  PROVE  LocalStep(r, x, HitRecord(x, origin)) /\ HitRecord(x, origin).answer = origin
<1> DEFINE z == [x EXCEPT !.answer = origin, !.usage = "zero"]
<1>1. z \in Request
  <2>1. "zero" \in {"unknown", "known", "zero"} /\ origin \in Requests \cup {Nobody}
    OBVIOUS
  <2>2. QED
    BY <2>1, Edits
<1>2. /\ z.answer = origin /\ z.usage = "zero"
      /\ z.settlements = x.settlements /\ z.spawned = x.spawned /\ z.hold = x.hold
      /\ z.entry = x.entry /\ z.cut = x.cut /\ z.status = x.status /\ z.upstream = x.upstream
      /\ z.ask = x.ask /\ z.error = x.error /\ z.sentinel = x.sentinel /\ z.outcome = x.outcome
  BY DEF Request
<1>3. origin # Nobody
  BY ChatAssumption
<1> HIDE DEF z
<1>4. /\ x.settlements = 0 /\ x.spawned = "none" /\ Undecided(x) /\ ~x.cut /\ x.status = "none"
      /\ x.upstream \in {"none", "closed"} /\ x.ask # "stream" /\ ~x.error /\ ~x.sentinel
      /\ x.outcome = "completed"
  BY DEF LocalInv, AccountInv, AnswerInv, StreamInv, Waiting, Request
<1>5. Ready(r, z)
  BY <1>2, <1>3, <1>4 DEF Ready, Undecided
<1>6. LocalStep(r, x, Settle(z)) /\ Settle(z).answer = origin
  BY <1>1, <1>2, <1>5, SettledFrom
<1>7. QED
  BY <1>6 DEF z, HitRecord

LEMMA CallReturnsLocal ==
  ASSUME NEW r \in Requests, NEW x \in Request, LocalInv(r, x), x.at = "calling",
         NEW usage \in {"known", "unknown"}
  PROVE  LET y == Settle([x EXCEPT !.answer = r, !.usage = usage, !.upstream = "closed"])
         IN LocalStep(r, x, y) /\ y.answer = r
<1> DEFINE z == [x EXCEPT !.answer = r, !.usage = usage, !.upstream = "closed"]
<1>1. z \in Request
  <2>1. usage \in {"unknown", "known", "zero"} /\ r \in Requests \cup {Nobody}
    OBVIOUS
  <2>2. QED
    BY <2>1, Edits
<1>2. /\ z.answer = r /\ z.usage = usage /\ z.upstream = "closed"
      /\ z.settlements = x.settlements /\ z.spawned = x.spawned /\ z.hold = x.hold
      /\ z.entry = x.entry /\ z.cut = x.cut /\ z.status = x.status
      /\ z.ask = x.ask /\ z.error = x.error /\ z.sentinel = x.sentinel /\ z.outcome = x.outcome
  BY DEF Request
<1>3. r # Nobody
  BY ChatAssumption
<1> HIDE DEF z
<1>4. /\ x.settlements = 0 /\ x.spawned = "none" /\ Undecided(x) /\ ~x.cut /\ x.status = "none"
      /\ x.ask # "stream" /\ ~x.error /\ ~x.sentinel /\ x.outcome = "completed"
  BY DEF LocalInv, AccountInv, AnswerInv, StreamInv, Waiting
<1>5. Ready(r, z)
  BY <1>2, <1>3, <1>4 DEF Ready, Undecided
<1>6. LocalStep(r, x, Settle(z)) /\ Settle(z).answer = r
  BY <1>1, <1>2, <1>5, SettledFrom
<1>7. QED
  BY <1>6 DEF z

\* The relay after its sentinel, or closed after its error event.
LEMMA RelayLocal ==
  ASSUME NEW r \in Requests, NEW x \in Request, LocalInv(r, x), x.at \in {"failing", "sentinel"}
  PROVE  LocalStep(r, x, Settle(x)) /\ Settle(x).answer = x.answer
<1>1. /\ x.settlements = 0 /\ x.spawned = "none" /\ Undecided(x) /\ ~x.cut /\ x.ask = "stream"
  BY DEF LocalInv, AccountInv, AnswerInv, Waiting, Relaying
<1>2. /\ x.status # "error" /\ x.upstream \in {"none", "closed"}
      /\ x.answer = Nobody /\ (x.usage = "zero" <=> x.answer \notin {r, Nobody})
  BY <1>1 DEF LocalInv, AccountInv, AnswerInv, StreamInv, Request
<1>3. /\ x.error <=> x.outcome = "failed"
      /\ x.sentinel => x.outcome = IF x.error THEN "failed" ELSE "completed"
      /\ x.sentinel \/ x.error
  BY DEF LocalInv, StreamInv
<1>4. Ready(r, x)
  BY <1>1, <1>2, <1>3 DEF Ready
<1>5. QED
  BY <1>4, SettledFrom

\* A stream given up on between two chunks, by whoever notices.
AbandonRecord(x, upstream, at) ==
    [Spawn([x EXCEPT !.outcome = "abandoned", !.upstream = upstream]) EXCEPT !.at = at]

LEMMA AbandonLocal ==
  ASSUME NEW r \in Requests, NEW x \in Request, LocalInv(r, x),
         x.at \in {"waiting", "pulling", "sending"},
         NEW upstream \in {"none", "open", "closed"}, NEW at,
         at = "closing" \/ (at = "done" /\ upstream # "open")
  PROVE  /\ LocalStep(r, x, AbandonRecord(x, upstream, at))
         /\ AbandonRecord(x, upstream, at).answer = x.answer
<1> DEFINE z == [x EXCEPT !.outcome = "abandoned", !.upstream = upstream]
<1>1. z \in Request
  <2>1. "abandoned" \in {"completed", "failed", "abandoned"}
    OBVIOUS
  <2>2. QED
    BY <2>1, Edits
<1>2. /\ z.outcome = "abandoned" /\ z.upstream = upstream
      /\ z.answer = x.answer /\ z.usage = x.usage
      /\ z.settlements = x.settlements /\ z.spawned = x.spawned /\ z.hold = x.hold
      /\ z.entry = x.entry /\ z.cut = x.cut /\ z.status = x.status
      /\ z.ask = x.ask /\ z.error = x.error /\ z.sentinel = x.sentinel
  BY DEF Request
<1> HIDE DEF z
<1>3. /\ x.settlements = 0 /\ x.spawned = "none" /\ Undecided(x) /\ ~x.cut /\ x.ask = "stream"
      /\ ~x.error /\ ~x.sentinel
  BY DEF LocalInv, AccountInv, AnswerInv, StreamInv, Waiting, Relaying
<1>4. x.status # "error" /\ x.answer = Nobody /\ x.usage # "zero"
  BY <1>3 DEF LocalInv, AnswerInv, StreamInv
<1>5. Abandoned(z)
  BY <1>2, <1>3, <1>4 DEF Abandoned, Undecided
<1>6. LocalStep(r, x, [Spawn(z) EXCEPT !.at = at]) /\ [Spawn(z) EXCEPT !.at = at].answer = x.answer
  BY <1>1, <1>2, <1>5, SpawnedFrom
<1>7. QED
  BY <1>6 DEF z, AbandonRecord

-----------------------------------------------------------------------------
(* Each handler on the whole state.                                         *)

\* One record changes as it may, an answer it gains was paid for or is its
\* own, and so was whatever the caches gain.
Safely(r, y) ==
    /\ Becomes(r, y)
    /\ LocalStep(r, req[r], y)
    /\ \/ y.answer \in {req[r].answer, r}
       \/ y.answer \in Requests /\ Paid(y.answer)
    /\ exact' # exact => exact' \in Requests /\ Paid(exact')
    /\ \A q \in near' \ near : q \in Requests /\ Paid(q)

LEMMA StoredWasPaid ==
  ASSUME IInv, NEW r \in Requests, req[r].at = "storing"
  PROVE  req[r].answer \in Requests /\ Paid(req[r].answer)
<1> DEFINE x == req[r]
<1>1. x \in Request /\ LocalInv(r, x)
  BY DEF IInv, TypeOK
<1>2. Billed(x) /\ x.answer # Nobody /\ x.answer \in Requests \cup {Nobody}
  BY <1>1 DEF LocalInv, AccountInv, AnswerInv, Request
<1>3. CASE x.answer = r
  <2>1. x.usage # "zero"
    BY <1>1, <1>3 DEF LocalInv, AnswerInv
  <2>2. QED
    BY <1>1, <1>2, <1>3, <2>1 DEF Billed, Paid, Request
<1>4. CASE x.answer # r
  BY <1>2, <1>4 DEF IInv, PaidInv
<1>5. QED
  BY <1>3, <1>4

LEMMA ArriveSafe ==
  ASSUME IInv, NEW r \in Requests, Arrive(r)
  PROVE  \E y : Safely(r, y)
<1> DEFINE x == req[r]
<1>1. x \in Request /\ LocalInv(r, x)
  BY DEF IInv, TypeOK
<1>2. PICK ask \in Asks : Becomes(r, [x EXCEPT !.at = "admitting", !.ask = ask])
  BY <1>1 DEF Arrive, Caches
<1> DEFINE y == [x EXCEPT !.at = "admitting", !.ask = ask]
<1>3. x.at = "new" /\ exact' = exact /\ near' = near
  BY <1>1 DEF Arrive, Caches
<1>4. LocalStep(r, x, y)
  BY <1>1, <1>2, <1>3, ArriveLocal
<1>5. y.answer = x.answer
  BY <1>1 DEF Request
<1> HIDE DEF y
<1>6. QED
  BY <1>2, <1>3, <1>4, <1>5 DEF Safely, y

LEMMA TurnAwaySafe ==
  ASSUME IInv, NEW r \in Requests, TurnAway(r)
  PROVE  \E y : Safely(r, y)
<1> DEFINE x == req[r]
<1>1. x \in Request /\ LocalInv(r, x)
  BY DEF IInv, TypeOK
<1>2. Becomes(r, [x EXCEPT !.at = "done", !.status = "error"])
  BY <1>1 DEF TurnAway, Caches
<1> DEFINE y == [x EXCEPT !.at = "done", !.status = "error"]
<1>3. x.at = "admitting" /\ exact' = exact /\ near' = near
  BY <1>1 DEF TurnAway, Caches
<1>4. LocalStep(r, x, y)
  BY <1>1, <1>2, <1>3, TurnAwayLocal
<1>5. y.answer = x.answer
  BY <1>1 DEF Request
<1> HIDE DEF y
<1>6. QED
  BY <1>2, <1>3, <1>4, <1>5 DEF Safely, y

LEMMA AdmitSafe ==
  ASSUME IInv, NEW r \in Requests, Admit(r)
  PROVE  \E y : Safely(r, y)
<1> DEFINE x == req[r]
<1>1. x \in Request /\ LocalInv(r, x)
  BY DEF IInv, TypeOK
<1>2. CASE x.ask = "buffered"
  <2>1. PICK hold \in {"held", "none"} :
          Becomes(r, [[x EXCEPT !.hold = hold] EXCEPT !.at = "exact"])
    BY <1>1, <1>2 DEF Admit, Caches, Request
  <2> DEFINE y == [[x EXCEPT !.hold = hold] EXCEPT !.at = "exact"]
  <2>2. x.at = "admitting" /\ exact' = exact /\ near' = near
    BY <1>1, <1>2 DEF Admit, Caches, Request
  <2>3. LocalStep(r, x, y)
    BY <1>1, <2>1, <2>2, <1>2, AdmitLookupLocal
  <2>4. y.answer = x.answer
    BY <1>1 DEF Request
  <2> HIDE DEF y
  <2>5. QED
    BY <2>1, <2>2, <2>3, <2>4 DEF Safely, y
<1>3. CASE x.ask = "stream"
  <2>1. PICK hold \in {"held", "none"} :
          Becomes(r, [[x EXCEPT !.hold = hold] EXCEPT !.at = "waiting", !.upstream = "open"])
    BY <1>1, <1>3 DEF Admit, Caches, Request
  <2> DEFINE y == [[x EXCEPT !.hold = hold] EXCEPT !.at = "waiting", !.upstream = "open"]
  <2>2. x.at = "admitting" /\ exact' = exact /\ near' = near
    BY <1>1, <1>3 DEF Admit, Caches, Request
  <2>3. LocalStep(r, x, y)
    BY <1>1, <2>1, <2>2, <1>3, AdmitCallLocal
  <2>4. y.answer = x.answer
    BY <1>1 DEF Request
  <2> HIDE DEF y
  <2>5. QED
    BY <2>1, <2>2, <2>3, <2>4 DEF Safely, y
<1>4. CASE x.ask = "bypass"
  <2>1. PICK hold \in {"held", "none"} :
          Becomes(r, [[x EXCEPT !.hold = hold] EXCEPT !.at = "calling", !.upstream = "open"])
    BY <1>1, <1>4 DEF Admit, Caches, Request
  <2> DEFINE y == [[x EXCEPT !.hold = hold] EXCEPT !.at = "calling", !.upstream = "open"]
  <2>2. x.at = "admitting" /\ exact' = exact /\ near' = near
    BY <1>1, <1>4 DEF Admit, Caches, Request
  <2>3. LocalStep(r, x, y)
    BY <1>1, <2>1, <2>2, <1>4, AdmitCallLocal
  <2>4. y.answer = x.answer
    BY <1>1 DEF Request
  <2> HIDE DEF y
  <2>5. QED
    BY <2>1, <2>2, <2>3, <2>4 DEF Safely, y
<1>5. QED
  BY <1>1, <1>2, <1>3, <1>4 DEF Request, Asks

LEMMA LookupExactSafe ==
  ASSUME IInv, NEW r \in Requests, LookupExact(r)
  PROVE  \E y : Safely(r, y)
<1> DEFINE x == req[r]
<1>1. x \in Request /\ LocalInv(r, x)
  BY DEF IInv, TypeOK
<1>2. CASE Hit(r, exact)
  <2>1. Becomes(r, HitRecord(x, exact))
    BY <1>1, <1>2 DEF LookupExact, Caches, Hit, HitRecord, IInv, PaidInv, CachesHoldWhatWasPaid,
       Paid, TypeOK, LocalInv, AccountInv, Waiting, Undecided
  <2> DEFINE y == HitRecord(x, exact)
  <2>2. x.at = "exact" /\ exact # r /\ exact \in Requests /\ Paid(exact) /\ exact' = exact /\ near' = near
    BY <1>1, <1>2 DEF LookupExact, Caches, Hit, HitRecord, IInv, PaidInv, CachesHoldWhatWasPaid,
       Paid, TypeOK, LocalInv, AccountInv, Waiting, Undecided
  <2>3. LocalStep(r, x, y) /\ y.answer = exact
    BY <1>1, <2>1, <2>2, HitLocal
  <2> HIDE DEF y
  <2>4. QED
    BY <2>1, <2>2, <2>3, <2>3 DEF Safely, y
<1>3. CASE ~Hit(r, exact)
  <2>1. PICK tiers \in {{}, {"exact"}} : Becomes(r, [x EXCEPT !.at = "near",
                                                            !.upstream = x.upstream,
                                                            !.tiers = tiers])
    BY <1>1, <1>3 DEF LookupExact, Caches
  <2> DEFINE y == [x EXCEPT !.at = "near", !.upstream = x.upstream, !.tiers = tiers]
  <2>2. x.at = "exact" /\ exact' = exact /\ near' = near
    BY <1>1, <1>3 DEF LookupExact, Caches
  <2>3. LocalStep(r, x, y)
    BY <1>1, <2>1, <2>2, MissLocal
  <2>4. y.answer = x.answer
    BY <1>1 DEF Request
  <2> HIDE DEF y
  <2>5. QED
    BY <2>1, <2>2, <2>3, <2>4 DEF Safely, y
<1>4. QED
  BY <1>2, <1>3 DEF LookupExact

LEMMA LookupNearSafe ==
  ASSUME IInv, NEW r \in Requests, LookupNear(r)
  PROVE  \E y : Safely(r, y)
<1> DEFINE x == req[r]
<1>1. x \in Request /\ LocalInv(r, x)
  BY DEF IInv, TypeOK
<1>2. CASE \E origin \in near : Hit(r, origin)
  <2>1. PICK origin \in near : Becomes(r, HitRecord(x, origin))
    BY <1>1, <1>2 DEF LookupNear, Caches, Hit, HitRecord, IInv, PaidInv, CachesHoldWhatWasPaid,
       Paid, TypeOK, LocalInv, AccountInv, Waiting, Undecided
  <2> DEFINE y == HitRecord(x, origin)
  <2>2. x.at = "near" /\ origin # r /\ origin \in Requests /\ Paid(origin) /\ exact' = exact /\ near' = near
    BY <1>1, <1>2 DEF LookupNear, Caches, Hit, HitRecord, IInv, PaidInv, CachesHoldWhatWasPaid,
       Paid, TypeOK, LocalInv, AccountInv, Waiting, Undecided
  <2>3. LocalStep(r, x, y) /\ y.answer = origin
    BY <1>1, <2>1, <2>2, HitLocal
  <2> HIDE DEF y
  <2>4. QED
    BY <2>1, <2>2, <2>3, <2>3 DEF Safely, y
<1>3. CASE ~\E origin \in near : Hit(r, origin)
  <2>1. PICK tiers \in {{}, {"near"}} : Becomes(r, [x EXCEPT !.at = "calling",
                                                            !.upstream = "open",
                                                            !.tiers = x.tiers \cup tiers])
    BY <1>1, <1>3 DEF LookupNear, Caches, Request
  <2> DEFINE y == [x EXCEPT !.at = "calling", !.upstream = "open", !.tiers = x.tiers \cup tiers]
  <2>2. x.at = "near" /\ (x.tiers \cup tiers) \in SUBSET {"exact", "near"} /\ exact' = exact /\ near' = near
    BY <1>1, <1>3 DEF LookupNear, Caches, Request
  <2>3. LocalStep(r, x, y)
    BY <1>1, <2>1, <2>2, MissLocal
  <2>4. y.answer = x.answer
    BY <1>1 DEF Request
  <2> HIDE DEF y
  <2>5. QED
    BY <2>1, <2>2, <2>3, <2>4 DEF Safely, y
<1>4. QED
  BY <1>2, <1>3 DEF LookupNear

LEMMA CallReturnsSafe ==
  ASSUME IInv, NEW r \in Requests, CallReturns(r)
  PROVE  \E y : Safely(r, y)
<1> DEFINE x == req[r]
<1>1. x \in Request /\ LocalInv(r, x)
  BY DEF IInv, TypeOK
<1>2. PICK usage \in {"known", "unknown"} : Becomes(r, Settle([x EXCEPT !.answer = r,
                                                            !.usage = usage,
                                                            !.upstream = "closed"]))
  BY <1>1 DEF CallReturns, Caches
<1> DEFINE y == Settle([x EXCEPT !.answer = r, !.usage = usage, !.upstream = "closed"])
<1>3. x.at = "calling" /\ exact' = exact /\ near' = near
  BY <1>1 DEF CallReturns, Caches
<1>4. LocalStep(r, x, y) /\ y.answer = r
  BY <1>1, <1>2, <1>3, CallReturnsLocal
<1> HIDE DEF y
<1>5. QED
  BY <1>2, <1>3, <1>4, <1>4 DEF Safely, y

LEMMA CallFailsSafe ==
  ASSUME IInv, NEW r \in Requests, CallFails(r)
  PROVE  \E y : Safely(r, y)
<1> DEFINE x == req[r]
<1>1. x \in Request /\ LocalInv(r, x)
  BY DEF IInv, TypeOK
<1>2. Becomes(r, [x EXCEPT !.at = "discarding", !.outcome = "failed", !.upstream = "closed",
                           !.settlements = x.settlements + 1])
  BY <1>1 DEF CallFails, Caches
<1> DEFINE y == [x EXCEPT !.at = "discarding", !.outcome = "failed", !.upstream = "closed",
                          !.settlements = x.settlements + 1]
<1>3. x.at \in {"calling", "waiting"} /\ exact' = exact /\ near' = near
  BY <1>1 DEF CallFails, Caches
<1>4. LocalStep(r, x, y)
  BY <1>1, <1>2, <1>3, CallFailsLocal
<1>5. y.answer = x.answer
  BY <1>1 DEF Request
<1> HIDE DEF y
<1>6. QED
  BY <1>2, <1>3, <1>4, <1>5 DEF Safely, y

LEMMA DiscardSafe ==
  ASSUME IInv, NEW r \in Requests, Discard(r)
  PROVE  \E y : Safely(r, y)
<1> DEFINE x == req[r]
<1>1. x \in Request /\ LocalInv(r, x)
  BY DEF IInv, TypeOK
<1>2. PICK hold \in Reconciled(x) : Becomes(r, [x EXCEPT !.at = "done", !.hold = hold,
                                                         !.status = "error"])
  BY <1>1 DEF Discard, Caches
<1> DEFINE y == [x EXCEPT !.at = "done", !.hold = hold, !.status = "error"]
<1>3. x.at = "discarding" /\ exact' = exact /\ near' = near
  BY <1>1 DEF Discard, Caches
<1>4. LocalStep(r, x, y)
  BY <1>1, <1>2, <1>3, DiscardLocal
<1>5. y.answer = x.answer
  BY <1>1 DEF Request
<1> HIDE DEF y
<1>6. QED
  BY <1>2, <1>3, <1>4, <1>5 DEF Safely, y

LEMMA ReconcileSafe ==
  ASSUME IInv, NEW r \in Requests, Reconcile(r)
  PROVE  \E y : Safely(r, y)
<1> DEFINE x == req[r]
<1>1. x \in Request /\ LocalInv(r, x)
  BY DEF IInv, TypeOK
<1>2. PICK hold \in Reconciled(x) : Becomes(r, [x EXCEPT !.at = "recording", !.hold = hold])
  BY <1>1 DEF Reconcile, Caches
<1> DEFINE y == [x EXCEPT !.at = "recording", !.hold = hold]
<1>3. x.at = "reconciling" /\ exact' = exact /\ near' = near
  BY <1>1 DEF Reconcile, Caches
<1>4. LocalStep(r, x, y)
  BY <1>1, <1>2, <1>3, ReconcileLocal
<1>5. y.answer = x.answer
  BY <1>1 DEF Request
<1> HIDE DEF y
<1>6. QED
  BY <1>2, <1>3, <1>4, <1>5 DEF Safely, y

LEMMA RecordSafe ==
  ASSUME IInv, NEW r \in Requests, Record(r)
  PROVE  \E y : Safely(r, y)
<1> DEFINE x == req[r]
<1>1. x \in Request /\ LocalInv(r, x)
  BY DEF IInv, TypeOK
<1>2. PICK entry \in Recorded(x) : Becomes(r, [x EXCEPT !.entry = entry,
                                                        !.at = IF x.ask = "stream" THEN "closing" ELSE "storing"])
  BY <1>1 DEF Record, Caches
<1> DEFINE y == [x EXCEPT !.entry = entry,
                          !.at = IF x.ask = "stream" THEN "closing" ELSE "storing"]
<1>3. x.at = "recording" /\ exact' = exact /\ near' = near
  BY <1>1 DEF Record, Caches
<1>4. LocalStep(r, x, y)
  BY <1>1, <1>2, <1>3, RecordLocal
<1>5. y.answer = x.answer
  BY <1>1 DEF Request
<1> HIDE DEF y
<1>6. QED
  BY <1>2, <1>3, <1>4, <1>5 DEF Safely, y

LEMMA FirstChunkSafe ==
  ASSUME IInv, NEW r \in Requests, FirstChunk(r)
  PROVE  \E y : Safely(r, y)
<1> DEFINE x == req[r]
<1>1. x \in Request /\ LocalInv(r, x)
  BY DEF IInv, TypeOK
<1>2. PICK upstream \in {"open", "closed"} : Becomes(r, [x EXCEPT !.at = "starting",
                                                            !.upstream = upstream])
  BY <1>1 DEF FirstChunk, Caches
<1> DEFINE y == [x EXCEPT !.at = "starting", !.upstream = upstream]
<1>3. x.at = "waiting" /\ exact' = exact /\ near' = near
  BY <1>1 DEF FirstChunk, Caches
<1>4. LocalStep(r, x, y)
  BY <1>1, <1>2, <1>3, FirstChunkLocal
<1>5. y.answer = x.answer
  BY <1>1 DEF Request
<1> HIDE DEF y
<1>6. QED
  BY <1>2, <1>3, <1>4, <1>5 DEF Safely, y

LEMMA ChunkSafe ==
  ASSUME IInv, NEW r \in Requests, Chunk(r)
  PROVE  \E y : Safely(r, y)
<1> DEFINE x == req[r]
<1>1. x \in Request /\ LocalInv(r, x)
  BY DEF IInv, TypeOK
<1>2. CASE Becomes(r, [[x EXCEPT !.status = "ok"] EXCEPT !.at = "sending", !.usage = x.usage])
  <2>1. Becomes(r, [[x EXCEPT !.status = "ok"] EXCEPT !.at = "sending", !.usage = x.usage])
    BY <1>1, <1>2 DEF Chunk, Caches, InHand
  <2> DEFINE y == [[x EXCEPT !.status = "ok"] EXCEPT !.at = "sending", !.usage = x.usage]
  <2>2. x.at \in {"starting", "pulling"} /\ exact' = exact /\ near' = near
    BY <1>1, <1>2 DEF Chunk, Caches, InHand
  <2>3. LocalStep(r, x, y)
    BY <1>1, <2>1, <2>2, ChunkLocal
  <2>4. y.answer = x.answer
    BY <1>1 DEF Request
  <2> HIDE DEF y
  <2>5. QED
    BY <2>1, <2>2, <2>3, <2>4 DEF Safely, y
<1>3. CASE \E at \in {"sending", "pulling"} :
        Becomes(r, [[x EXCEPT !.status = "ok"] EXCEPT !.at = at, !.usage = "known"])
  <2>1. PICK at \in {"sending", "pulling"} :
          Becomes(r, [[x EXCEPT !.status = "ok"] EXCEPT !.at = at, !.usage = "known"])
    BY <1>1, <1>3 DEF Chunk, Caches, InHand
  <2> DEFINE y == [[x EXCEPT !.status = "ok"] EXCEPT !.at = at, !.usage = "known"]
  <2>2. x.at \in {"starting", "pulling"} /\ exact' = exact /\ near' = near
    BY <1>1, <1>3 DEF Chunk, Caches, InHand
  <2>3. LocalStep(r, x, y)
    BY <1>1, <2>1, <2>2, ChunkLocal
  <2>4. y.answer = x.answer
    BY <1>1 DEF Request
  <2> HIDE DEF y
  <2>5. QED
    BY <2>1, <2>2, <2>3, <2>4 DEF Safely, y
<1>4. QED
  BY <1>2, <1>3 DEF Chunk

LEMMA StreamEndsSafe ==
  ASSUME IInv, NEW r \in Requests, StreamEnds(r)
  PROVE  \E y : Safely(r, y)
<1> DEFINE x == req[r]
<1>1. x \in Request /\ LocalInv(r, x)
  BY DEF IInv, TypeOK
<1>2. Becomes(r, [x EXCEPT !.at = "sentinel", !.sentinel = TRUE, !.status = "ok",
                           !.upstream = "closed"])
  BY <1>1 DEF StreamEnds, Caches, InHand
<1> DEFINE y == [x EXCEPT !.at = "sentinel", !.sentinel = TRUE, !.status = "ok",
                          !.upstream = "closed"]
<1>3. x.at \in {"starting", "pulling"} /\ exact' = exact /\ near' = near
  BY <1>1 DEF StreamEnds, Caches, InHand
<1>4. LocalStep(r, x, y)
  BY <1>1, <1>2, <1>3, StreamEndsLocal
<1>5. y.answer = x.answer
  BY <1>1 DEF Request
<1> HIDE DEF y
<1>6. QED
  BY <1>2, <1>3, <1>4, <1>5 DEF Safely, y

LEMMA StreamBreaksSafe ==
  ASSUME IInv, NEW r \in Requests, StreamBreaks(r)
  PROVE  \E y : Safely(r, y)
<1> DEFINE x == req[r]
<1>1. x \in Request /\ LocalInv(r, x)
  BY DEF IInv, TypeOK
<1>2. Becomes(r, [x EXCEPT !.at = "failing", !.error = TRUE, !.outcome = "failed",
                           !.upstream = "closed"])
  BY <1>1 DEF StreamBreaks, Caches
<1> DEFINE y == [x EXCEPT !.at = "failing", !.error = TRUE, !.outcome = "failed",
                          !.upstream = "closed"]
<1>3. x.at = "pulling" /\ exact' = exact /\ near' = near
  BY <1>1 DEF StreamBreaks, Caches
<1>4. LocalStep(r, x, y)
  BY <1>1, <1>2, <1>3, StreamBreaksLocal
<1>5. y.answer = x.answer
  BY <1>1 DEF Request
<1> HIDE DEF y
<1>6. QED
  BY <1>2, <1>3, <1>4, <1>5 DEF Safely, y

LEMMA ResumeSafe ==
  ASSUME IInv, NEW r \in Requests, Resume(r)
  PROVE  \E y : Safely(r, y)
<1> DEFINE x == req[r]
<1>1. x \in Request /\ LocalInv(r, x)
  BY DEF IInv, TypeOK
<1>2. CASE x.at = "sending"
  <2>1. Becomes(r, [x EXCEPT !.at = "pulling"])
    BY <1>1, <1>2 DEF Resume, Caches
  <2> DEFINE y == [x EXCEPT !.at = "pulling"]
  <2>2. x.at = "sending" /\ exact' = exact /\ near' = near
    BY <1>1, <1>2 DEF Resume, Caches
  <2>3. LocalStep(r, x, y)
    BY <1>1, <2>1, <2>2, PullLocal
  <2>4. y.answer = x.answer
    BY <1>1 DEF Request
  <2> HIDE DEF y
  <2>5. QED
    BY <2>1, <2>2, <2>3, <2>4 DEF Safely, y
<1>3. CASE x.at = "failing"
  <2>1. Becomes(r, [x EXCEPT !.at = "sentinel", !.sentinel = TRUE])
    BY <1>1, <1>3 DEF Resume, Caches
  <2> DEFINE y == [x EXCEPT !.at = "sentinel", !.sentinel = TRUE]
  <2>2. x.at = "failing" /\ exact' = exact /\ near' = near
    BY <1>1, <1>3 DEF Resume, Caches
  <2>3. LocalStep(r, x, y)
    BY <1>1, <2>1, <2>2, FailLocal
  <2>4. y.answer = x.answer
    BY <1>1 DEF Request
  <2> HIDE DEF y
  <2>5. QED
    BY <2>1, <2>2, <2>3, <2>4 DEF Safely, y
<1>4. CASE x.at = "sentinel"
  <2>1. Becomes(r, Settle(x))
    BY <1>1, <1>4 DEF Resume, Caches
  <2> DEFINE y == Settle(x)
  <2>2. x.at = "sentinel" /\ exact' = exact /\ near' = near
    BY <1>1, <1>4 DEF Resume, Caches
  <2>3. LocalStep(r, x, y) /\ y.answer = x.answer
    BY <1>1, <2>1, <2>2, RelayLocal
  <2> HIDE DEF y
  <2>4. QED
    BY <2>1, <2>2, <2>3, <2>3 DEF Safely, y
<1>5. QED
  BY <1>2, <1>3, <1>4 DEF Resume, Relaying

LEMMA CloseSafe ==
  ASSUME IInv, NEW r \in Requests, Close(r)
  PROVE  \E y : Safely(r, y)
<1> DEFINE x == req[r]
<1>1. x \in Request /\ LocalInv(r, x)
  BY DEF IInv, TypeOK
<1>2. Becomes(r, [x EXCEPT !.at = "done", !.upstream = "closed"])
  BY <1>1 DEF Close, Caches
<1> DEFINE y == [x EXCEPT !.at = "done", !.upstream = "closed"]
<1>3. x.at = "closing" /\ exact' = exact /\ near' = near
  BY <1>1 DEF Close, Caches
<1>4. LocalStep(r, x, y)
  BY <1>1, <1>2, <1>3, CloseLocal
<1>5. y.answer = x.answer
  BY <1>1 DEF Request
<1> HIDE DEF y
<1>6. QED
  BY <1>2, <1>3, <1>4, <1>5 DEF Safely, y

LEMMA FinalizeSafe ==
  ASSUME IInv, NEW r \in Requests, Finalize(r)
  PROVE  \E y : Safely(r, y)
<1> DEFINE x == req[r]
<1>1. x \in Request /\ LocalInv(r, x)
  BY DEF IInv, TypeOK
<1>2. CASE x.at = "sending"
  <2>1. Becomes(r, AbandonRecord(x, x.upstream, "closing"))
    BY <1>1, <1>2 DEF Finalize, Caches, Request, AbandonRecord
  <2> DEFINE y == AbandonRecord(x, x.upstream, "closing")
  <2>2. x.at = "sending" /\ x.upstream \in {"none", "open", "closed"} /\ exact' = exact /\ near' = near
    BY <1>1, <1>2 DEF Finalize, Caches, Request, AbandonRecord
  <2>3. LocalStep(r, x, y) /\ y.answer = x.answer
    BY <1>1, <2>1, <2>2, AbandonLocal
  <2> HIDE DEF y
  <2>4. QED
    BY <2>1, <2>2, <2>3, <2>3 DEF Safely, y
<1>3. CASE x.at # "sending"
  <2>1. Becomes(r, Settle(x))
    BY <1>1, <1>3 DEF Finalize, Caches, Relaying
  <2> DEFINE y == Settle(x)
  <2>2. x.at \in {"failing", "sentinel"} /\ exact' = exact /\ near' = near
    BY <1>1, <1>3 DEF Finalize, Caches, Relaying
  <2>3. LocalStep(r, x, y) /\ y.answer = x.answer
    BY <1>1, <2>1, <2>2, RelayLocal
  <2> HIDE DEF y
  <2>4. QED
    BY <2>1, <2>2, <2>3, <2>3 DEF Safely, y
<1>4. QED
  BY <1>2, <1>3 DEF Finalize

LEMMA SpawnedReconcileSafe ==
  ASSUME IInv, NEW r \in Requests, SpawnedReconcile(r)
  PROVE  \E y : Safely(r, y)
<1> DEFINE x == req[r]
<1>1. x \in Request /\ LocalInv(r, x)
  BY DEF IInv, TypeOK
<1>2. PICK hold \in Reconciled(x) : Becomes(r, [x EXCEPT !.spawned = "recording", !.hold = hold])
  BY <1>1 DEF SpawnedReconcile, Caches
<1> DEFINE y == [x EXCEPT !.spawned = "recording", !.hold = hold]
<1>3. x.spawned = "reconciling" /\ exact' = exact /\ near' = near
  BY <1>1 DEF SpawnedReconcile, Caches
<1>4. LocalStep(r, x, y)
  BY <1>1, <1>2, <1>3, SpawnedReconcileLocal
<1>5. y.answer = x.answer
  BY <1>1 DEF Request
<1> HIDE DEF y
<1>6. QED
  BY <1>2, <1>3, <1>4, <1>5 DEF Safely, y

LEMMA SpawnedRecordSafe ==
  ASSUME IInv, NEW r \in Requests, SpawnedRecord(r)
  PROVE  \E y : Safely(r, y)
<1> DEFINE x == req[r]
<1>1. x \in Request /\ LocalInv(r, x)
  BY DEF IInv, TypeOK
<1>2. PICK entry \in Recorded(x) : Becomes(r, [x EXCEPT !.spawned = "done", !.entry = entry])
  BY <1>1 DEF SpawnedRecord, Caches
<1> DEFINE y == [x EXCEPT !.spawned = "done", !.entry = entry]
<1>3. x.spawned = "recording" /\ exact' = exact /\ near' = near
  BY <1>1 DEF SpawnedRecord, Caches
<1>4. LocalStep(r, x, y)
  BY <1>1, <1>2, <1>3, SpawnedRecordLocal
<1>5. y.answer = x.answer
  BY <1>1 DEF Request
<1> HIDE DEF y
<1>6. QED
  BY <1>2, <1>3, <1>4, <1>5 DEF Safely, y

LEMMA CancelStreamSafe ==
  ASSUME IInv, NEW r \in Requests, CancelStream(r)
  PROVE  \E y : Safely(r, y)
<1> DEFINE x == req[r]
<1>1. x \in Request /\ LocalInv(r, x)
  BY DEF IInv, TypeOK
<1>2. Becomes(r, AbandonRecord(x, "closed", "done"))
  BY <1>1 DEF CancelStream, Caches, AbandonRecord, Gone
<1> DEFINE y == AbandonRecord(x, "closed", "done")
<1>3. x.at \in {"waiting", "pulling"} /\ exact' = exact /\ near' = near
  BY <1>1 DEF CancelStream, Caches, AbandonRecord, Gone
<1>4. LocalStep(r, x, y) /\ y.answer = x.answer
  BY <1>1, <1>2, <1>3, AbandonLocal
<1> HIDE DEF y
<1>5. QED
  BY <1>2, <1>3, <1>4, <1>4 DEF Safely, y

LEMMA CancelSendSafe ==
  ASSUME IInv, NEW r \in Requests, CancelSend(r)
  PROVE  \E y : Safely(r, y)
<1> DEFINE x == req[r]
<1>1. x \in Request /\ LocalInv(r, x)
  BY DEF IInv, TypeOK
<1>2. Becomes(r, [x EXCEPT !.orphan = TRUE])
  BY <1>1 DEF CancelSend, Caches
<1> DEFINE y == [x EXCEPT !.orphan = TRUE]
<1>3. x.at \in Relaying /\ exact' = exact /\ near' = near
  BY <1>1 DEF CancelSend, Caches
<1>4. LocalStep(r, x, y)
  BY <1>1, <1>2, <1>3, CancelSendLocal
<1>5. y.answer = x.answer
  BY <1>1 DEF Request
<1> HIDE DEF y
<1>6. QED
  BY <1>2, <1>3, <1>4, <1>5 DEF Safely, y

LEMMA CancelUnsettledSafe ==
  ASSUME IInv, NEW r \in Requests, CancelUnsettled(r)
  PROVE  \E y : Safely(r, y)
<1> DEFINE x == req[r]
<1>1. x \in Request /\ LocalInv(r, x)
  BY DEF IInv, TypeOK
<1>2. PICK hold \in IF x.at = "admitting" THEN {"none", "held"} ELSE {x.hold} :
        Becomes(r, UnsettledRecord(x, hold))
  BY <1>1 DEF CancelUnsettled, Caches, UnsettledRecord
<1> DEFINE y == UnsettledRecord(x, hold)
<1>3. x.at \in {"admitting", "exact", "near", "calling", "starting"} /\ exact' = exact /\ near' = near
  BY <1>1 DEF CancelUnsettled, Caches, UnsettledRecord
<1>4. LocalStep(r, x, y)
  BY <1>1, <1>2, <1>3, CancelUnsettledLocal
<1>5. y.answer = x.answer
  BY <1>1 DEF Request, UnsettledRecord, Gone
<1> HIDE DEF y
<1>6. QED
  BY <1>2, <1>3, <1>4, <1>5 DEF Safely, y

LEMMA CancelSettlingSafe ==
  ASSUME IInv, NEW r \in Requests, CancelSettling(r)
  PROVE  \E y : Safely(r, y)
<1> DEFINE x == req[r]
<1>1. x \in Request /\ LocalInv(r, x)
  BY DEF IInv, TypeOK
<1>2. CASE x.at \in {"reconciling", "discarding"}
  <2>1. PICK hold \in Reconciled(x) \cup {x.hold} : Becomes(r, Gone([x EXCEPT !.hold = hold,
                                                            !.cut = TRUE]))
    BY <1>1, <1>2 DEF CancelSettling, Caches
  <2> DEFINE y == Gone([x EXCEPT !.hold = hold, !.cut = TRUE])
  <2>2. x.at \in {"reconciling", "discarding"} /\ exact' = exact /\ near' = near
    BY <1>1, <1>2 DEF CancelSettling, Caches
  <2>3. LocalStep(r, x, y)
    BY <1>1, <2>1, <2>2, CancelReconcileLocal
  <2>4. y.answer = x.answer
    BY <1>1 DEF Request, Gone
  <2> HIDE DEF y
  <2>5. QED
    BY <2>1, <2>2, <2>3, <2>4 DEF Safely, y
<1>3. CASE x.at = "recording"
  <2>1. PICK entry \in Recorded(x) \cup {"none"} : Becomes(r, Gone([x EXCEPT !.entry = entry,
                                                            !.cut = TRUE]))
    BY <1>1, <1>3 DEF CancelSettling, Caches
  <2> DEFINE y == Gone([x EXCEPT !.entry = entry, !.cut = TRUE])
  <2>2. x.at = "recording" /\ exact' = exact /\ near' = near
    BY <1>1, <1>3 DEF CancelSettling, Caches
  <2>3. LocalStep(r, x, y)
    BY <1>1, <2>1, <2>2, CancelRecordLocal
  <2>4. y.answer = x.answer
    BY <1>1 DEF Request, Gone
  <2> HIDE DEF y
  <2>5. QED
    BY <2>1, <2>2, <2>3, <2>4 DEF Safely, y
<1>4. QED
  BY <1>2, <1>3 DEF CancelSettling

LEMMA CancelLateSafe ==
  ASSUME IInv, NEW r \in Requests, CancelLate(r)
  PROVE  \E y : Safely(r, y)
<1> DEFINE x == req[r]
<1>1. x \in Request /\ LocalInv(r, x)
  BY DEF IInv, TypeOK
<1>2. CASE x.at = "closing"
  <2>1. Becomes(r, Gone([x EXCEPT !.upstream = "closed"]))
    BY <1>1, <1>2 DEF CancelLate, Caches
  <2> DEFINE y == Gone([x EXCEPT !.upstream = "closed"])
  <2>2. x.at = "closing" /\ exact' = exact /\ near' = near
    BY <1>1, <1>2 DEF CancelLate, Caches
  <2>3. LocalStep(r, x, y)
    BY <1>1, <2>1, <2>2, CancelCloseLocal
  <2>4. y.answer = x.answer
    BY <1>1 DEF Request, Gone
  <2> HIDE DEF y
  <2>5. QED
    BY <2>1, <2>2, <2>3, <2>4 DEF Safely, y
<1>3. CASE x.at = "storing"
  <2>1. Becomes(r, Gone(x))
    BY <1>1, <1>3 DEF CancelLate, Caches
  <2> DEFINE y == Gone(x)
  <2>2. x.at = "storing" /\ near' = near /\ exact' \in {exact, x.answer}
    BY <1>1, <1>3 DEF CancelLate, Caches
  <2>3. LocalStep(r, x, y)
    BY <1>1, <2>1, <2>2, CancelStoreLocal
  <2>4. y.answer = x.answer
    BY <1>1 DEF Request, Gone
  <2>5. x.answer \in Requests /\ Paid(x.answer)
    BY <1>1, <2>1, <2>2, <2>4 , StoredWasPaid
  <2> HIDE DEF y
  <2>6. QED
    BY <2>1, <2>2, <2>3, <2>4, <2>5 DEF Safely, y
<1>4. QED
  BY <1>2, <1>3 DEF CancelLate

LEMMA StoreSafe ==
  ASSUME IInv, NEW r \in Requests, Store(r)
  PROVE  \E y : Safely(r, y)
<1> DEFINE x == req[r]
<1>1. x \in Request /\ LocalInv(r, x)
  BY DEF IInv, TypeOK
<1>2. Becomes(r, [x EXCEPT !.at = "done", !.status = "ok"])
  BY <1>1 DEF Store, Caches
<1> DEFINE y == [x EXCEPT !.at = "done", !.status = "ok"]
<1>3. x.at = "storing" /\ near' \in {near, near \cup {x.answer}} /\ exact' \in {exact, x.answer}
  BY <1>1 DEF Store, Caches
<1>4. LocalStep(r, x, y)
  BY <1>1, <1>2, <1>3, StoreLocal
<1>5. y.answer = x.answer
  BY <1>1 DEF Request
<1>6. x.answer \in Requests /\ Paid(x.answer)
  BY <1>1, <1>2, <1>3, <1>5 , StoredWasPaid
<1> HIDE DEF y
<1>7. QED
  BY <1>2, <1>3, <1>4, <1>5, <1>6 DEF Safely, y

-----------------------------------------------------------------------------
(* Every step.                                                              *)

\* Every handler changes one record, safely.
LEMMA HandlersAreSafe ==
  ASSUME IInv, NEW r \in Requests,
         Arrive(r) \/ Answers(r) \/ Collected(r) \/ Background(r) \/ Cancel(r)
  PROVE  \E y : Safely(r, y)
<1>1. CASE Arrive(r) \/ Collected(r) \/ Background(r)
  BY <1>1, ArriveSafe, FinalizeSafe, SpawnedReconcileSafe, SpawnedRecordSafe
  DEF Collected, Background
<1>2. CASE Cancel(r)
  BY <1>2, CancelStreamSafe, CancelSendSafe, CancelUnsettledSafe, CancelSettlingSafe, CancelLateSafe
  DEF Cancel
<1>3. CASE Answers(r)
  BY <1>3, TurnAwaySafe, AdmitSafe, LookupExactSafe, LookupNearSafe, CallReturnsSafe, CallFailsSafe,
     DiscardSafe, ReconcileSafe, RecordSafe, StoreSafe, FirstChunkSafe, ChunkSafe, StreamEndsSafe,
     StreamBreaksSafe, ResumeSafe, CloseSafe
  DEF Answers
<1>4. QED
  BY <1>1, <1>2, <1>3

\* Rows are never erased.
LEMMA PaidStays ==
  ASSUME IInv, NEW r \in Requests, NEW y, Safely(r, y)
  PROVE  \A q \in Requests : Paid(q) => req'[q].entry \in {"known", "unknown", "lost"}
<1> SUFFICES ASSUME NEW q \in Requests, Paid(q)
             PROVE  req'[q].entry \in {"known", "unknown", "lost"}
  OBVIOUS
<1>1. req \in [Requests -> Request] /\ req' = [req EXCEPT ![r] = y]
  BY DEF IInv, TypeOK, Safely, Becomes
<1>2. CASE q = r
  <2>1. AccountStep(req[r], y) /\ req'[r] = y
    BY <1>1 DEF Safely, LocalStep
  <2>2. y.entry = req[r].entry
    BY <2>1, <1>2 DEF AccountStep, Paid
  <2>3. QED
    BY <2>1, <2>2, <1>2 DEF Paid
<1>3. CASE q # r
  BY <1>1, <1>3 DEF Paid
<1>4. QED
  BY <1>2, <1>3

LEMMA SafelyKeepsIInv ==
  ASSUME IInv, NEW r \in Requests, NEW y, Safely(r, y)
  PROVE  IInv'
<1>1. /\ req \in [Requests -> Request] /\ req' = [req EXCEPT ![r] = y]
      /\ exact \in Requests \cup {Nobody} /\ near \subseteq Requests
  BY DEF IInv, TypeOK, Safely, Becomes
<1>2. LocalInv(r, y) /\ y \in Request
  BY DEF Safely, LocalStep, LocalInv
<1>3. req'[r] = y /\ \A q \in Requests \ {r} : req'[q] = req[q]
  BY <1>1
<1>4. TypeOK'
  <2>1. req' \in [Requests -> Request]
    BY <1>1, <1>2
  <2>2. exact' \in Requests \cup {Nobody}
    BY <1>1 DEF Safely
  <2>3. near' \subseteq Requests
    BY <1>1 DEF Safely
  <2>4. QED
    BY <2>1, <2>2, <2>3 DEF TypeOK
<1>5. \A q \in Requests : LocalInv(q, req'[q])
  BY <1>2, <1>3 DEF IInv
<1>6. CachesHoldWhatWasPaid'
  <2>1. exact' # Nobody => req'[exact'].entry \in {"known", "unknown", "lost"}
    <3>1. SUFFICES ASSUME exact' # Nobody
                   PROVE  req'[exact'].entry \in {"known", "unknown", "lost"}
      OBVIOUS
    <3>2. exact' \in Requests /\ Paid(exact')
      BY <1>1, <3>1 DEF Safely, IInv, PaidInv, CachesHoldWhatWasPaid
    <3>3. QED
      BY <3>2, PaidStays
  <2>2. \A q \in near' : req'[q].entry \in {"known", "unknown", "lost"}
    <3>1. SUFFICES ASSUME NEW q \in near'
                   PROVE  req'[q].entry \in {"known", "unknown", "lost"}
      OBVIOUS
    <3>2. q \in Requests /\ Paid(q)
      BY <1>1, <3>1 DEF Safely, IInv, PaidInv, CachesHoldWhatWasPaid
    <3>3. QED
      BY <3>2, PaidStays
  <2>3. QED
    BY <2>1, <2>2 DEF CachesHoldWhatWasPaid, Paid
<1>7. ASSUME NEW q \in Requests, req'[q].answer \notin {q, Nobody}
      PROVE  req'[req'[q].answer].entry \in {"known", "unknown", "lost"}
  <2>1. req'[q].answer \in Requests /\ Paid(req'[q].answer)
    <3>1. CASE q # r
      BY <1>1, <1>3, <1>7, <3>1 DEF IInv, PaidInv, Request
    <3>2. CASE q = r
      BY <1>1, <1>2, <1>3, <1>7, <3>2 DEF Safely, IInv, PaidInv, Request
    <3>3. QED
      BY <3>1, <3>2
  <2>2. QED
    BY <2>1, PaidStays
<1>8. PaidInv'
  BY <1>6, <1>7 DEF PaidInv, Paid
<1>9. QED
  BY <1>4, <1>5, <1>8 DEF IInv

\* Seen as a reservation and a row, it is one step of Accounts or none.
LEMMA SafelyMaps ==
  ASSUME IInv, NEW r \in Requests, NEW y, Safely(r, y)
  PROVE  Metering!Next \/ UNCHANGED Metering!vars
<1> DEFINE x == req[r]
           reserve == [q \in Requests |-> req[q].hold]
           bill == [q \in Requests |-> req[q].entry]
<1>1. req \in [Requests -> Request] /\ req' = [req EXCEPT ![r] = y] /\ y \in Request /\ x \in Request
  BY DEF IInv, TypeOK, Safely, Becomes, LocalStep, LocalInv
<1>2. reserve' = [reserve EXCEPT ![r] = y.hold] /\ bill' = [bill EXCEPT ![r] = y.entry]
  BY <1>1
<1>3. reserve[r] = x.hold /\ bill[r] = x.entry
  OBVIOUS
<1>4. AccountStep(x, y)
  BY DEF Safely, LocalStep
<1>5. CASE y.hold = x.hold /\ y.entry = x.entry
  <2>1. reserve' = reserve /\ bill' = bill
    BY <1>2, <1>3, <1>5
  <2>2. QED
    BY <2>1 DEF Metering!vars
<1>6. CASE x.hold = "none" /\ y.hold = "held" /\ x.entry = "none" /\ y.entry = "none"
  <2>1. bill' = bill
    BY <1>2, <1>3, <1>6
  <2>2. Metering!Take(r)
    BY <2>1, <1>2, <1>3, <1>6 DEF Metering!Take
  <2>3. QED
    BY <2>2 DEF Metering!Next
<1>7. CASE /\ x.hold = "held" /\ y.hold \in {"returned", "charged", "kept"}
           /\ x.entry = "none" /\ y.entry = "none"
  <2>1. bill' = bill
    BY <1>2, <1>3, <1>7
  <2>2. Metering!Decide(r, y.hold)
    BY <2>1, <1>2, <1>3, <1>7 DEF Metering!Decide
  <2>3. QED
    BY <2>2, <1>7 DEF Metering!Next
<1>8. CASE /\ x.entry = "none" /\ y.entry \in {x.usage, "lost"}
           /\ x.hold \in Beside(x.usage) /\ y.hold = x.hold
  <2>1. reserve' = reserve
    BY <1>2, <1>3, <1>8
  <2>2. x.usage \in {"unknown", "known", "zero"}
    BY <1>1 DEF Request
  <2>3. x.hold \in Metering!Agrees(y.entry)
    BY <1>8, <2>2 DEF Beside, Metering!Agrees
  <2>4. Metering!Bill(r, y.entry)
    BY <2>1, <2>3, <1>2, <1>3, <1>8 DEF Metering!Bill
  <2>5. y.entry \in {"zero", "known", "unknown", "lost"}
    BY <1>8, <2>2
  <2>6. QED
    BY <2>4, <2>5 DEF Metering!Next
<1>9. QED
  BY <1>4, <1>5, <1>6, <1>7, <1>8 DEF AccountStep

LEMMA ExpireKeeps ==
  ASSUME IInv, Expire
  PROVE  IInv' /\ UNCHANGED Metering!vars
<1>1. req' = req
  BY DEF Expire
<1>2. exact' \in {exact, Nobody} /\ near' \subseteq near
  BY DEF Expire
<1>3. TypeOK'
  BY <1>1, <1>2 DEF IInv, TypeOK
<1>4. CachesHoldWhatWasPaid'
  BY <1>1, <1>2 DEF IInv, PaidInv, CachesHoldWhatWasPaid, Paid
<1>5. \A q \in Requests : req'[q].answer \notin {q, Nobody}
                            => req'[req'[q].answer].entry \in {"known", "unknown", "lost"}
  BY <1>1 DEF IInv, PaidInv, Paid
<1>6. IInv'
  <2>1. PaidInv'
    BY <1>4, <1>5 DEF PaidInv, Paid
  <2>2. QED
    BY <1>1, <1>3, <2>1 DEF IInv
<1>7. UNCHANGED Metering!vars
  BY <1>1 DEF Metering!vars
<1>8. QED
  BY <1>6, <1>7

LEMMA InitKeeps ==
  ASSUME Init
  PROVE  IInv /\ Metering!Init
<1>1. Fresh \in Request
  BY DEF Fresh, Request, Stages, Asks
<1>2. req \in [Requests -> Request] /\ \A r \in Requests : req[r] = Fresh
  BY <1>1 DEF Init
<1>3. TypeOK
  BY <1>2 DEF Init, TypeOK
<1>4. \A r \in Requests : LocalInv(r, Fresh)
  <2>1. SUFFICES ASSUME NEW r \in Requests PROVE LocalInv(r, Fresh)
    OBVIOUS
  <2>2. AccountInv(Fresh) /\ OverInv(Fresh)
    BY DEF AccountInv, OverInv, Fresh, Undecided, Waiting, Settling, Relaying
  <2>3. AnswerInv(r, Fresh) /\ StreamInv(Fresh)
    BY DEF AnswerInv, StreamInv, Fresh, Settling, Relaying
  <2>4. QED
    BY <1>1, <2>2, <2>3 DEF LocalInv
<1>5. PaidInv
  BY <1>2 DEF PaidInv, CachesHoldWhatWasPaid, Init, Fresh
<1>6. Metering!Init
  BY <1>2 DEF Metering!Init, Fresh
<1>7. QED
  BY <1>2, <1>3, <1>4, <1>5, <1>6 DEF IInv

LEMMA NextKeeps ==
  ASSUME IInv, [Next]_vars
  PROVE  IInv' /\ (Metering!Next \/ UNCHANGED Metering!vars)
<1>1. CASE Expire
  BY <1>1, ExpireKeeps
<1>2. CASE \E r \in Requests : Arrive(r) \/ Answers(r) \/ Collected(r) \/ Background(r) \/ Cancel(r)
  <2>1. PICK r \in Requests : Arrive(r) \/ Answers(r) \/ Collected(r) \/ Background(r) \/ Cancel(r)
    BY <1>2
  <2>2. PICK y : Safely(r, y)
    BY <2>1, HandlersAreSafe
  <2>3. QED
    BY <2>2, SafelyKeepsIInv, SafelyMaps
<1>3. CASE UNCHANGED vars
  <2>1. req' = req /\ exact' = exact /\ near' = near
    BY <1>3 DEF vars
  <2>2. IInv'
    BY <2>1 DEF IInv, TypeOK, PaidInv, CachesHoldWhatWasPaid, Paid
  <2>3. UNCHANGED Metering!vars
    BY <2>1 DEF Metering!vars
  <2>4. QED
    BY <2>2, <2>3
<1>4. QED
  BY <1>1, <1>2, <1>3 DEF Next

-----------------------------------------------------------------------------
(* The theorems.                                                            *)

\* For any number of requests, every reachable state satisfies IInv.
THEOREM Invariant == Spec => []IInv
<1>1. Init => IInv
  BY InitKeeps
<1>2. IInv /\ [Next]_vars => IInv'
  BY NextKeeps
<1>3. QED
  BY <1>1, <1>2, PTL DEF Spec

\* Records and caches keep their types.
THEOREM TypeCorrect == Spec => []TypeOK
<1>1. IInv => TypeOK
  BY DEF IInv
<1>2. QED
  BY <1>1, Invariant, PTL

\* No interleaving of route, relay, finalizer and spawned task settles a
\* request twice.
THEOREM NothingSettlesTwice == Spec => []SettledOnce
<1>1. IInv => SettledOnce
  BY DEF IInv, LocalInv, AccountInv, SettledOnce, Settling
<1>2. QED
  BY <1>1, Invariant, PTL

\* Whatever ending a request comes to, its reservation and its row tell it.
THEOREM EveryEndingAccounted == Spec => []EndingsAccounted
<1>1. ASSUME IInv PROVE EndingsAccounted
  <2> SUFFICES ASSUME NEW r \in Requests, Over(req[r])
               PROVE  LET x == req[r] IN
            \/ x.settlements = 0 /\ x.hold = "none" /\ x.entry = "none" /\ x.status = "error"
            \/ /\ x.status = "error" /\ x.outcome = "failed"
               /\ x.entry = "none" /\ x.hold \in {"none", "returned", "kept"}
            \/ /\ x.answer \notin {r, Nobody}
               /\ x.entry \in {"zero", "lost"} /\ x.hold \in {"none", "returned", "kept"}
            \/ /\ x.answer \in {r, Nobody} /\ x.usage = "known" /\ (x.outcome = "failed" => x.error)
               /\ x.entry \in {"known", "lost"} /\ x.hold \in {"none", "charged", "kept"}
            \/ /\ x.answer \in {r, Nobody} /\ x.usage = "unknown" /\ (x.outcome = "failed" => x.error)
               /\ x.entry \in {"unknown", "lost"} /\ x.hold \in {"none", "held"}
    BY DEF EndingsAccounted
  <2> DEFINE x == req[r]
  <2>1. x \in Request /\ LocalInv(r, x)
    BY <1>1 DEF IInv, TypeOK
  <2> HIDE DEF x
  <2>2. x.at = "done" /\ x.spawned \in {"none", "done"} /\ ~x.cut
    BY DEF Over, x
  <2>3. x.usage \in {"unknown", "known", "zero"} /\ (x.usage = "zero" <=> x.answer \notin {r, Nobody})
    BY <2>1 DEF LocalInv, AnswerInv, Request
  <2>4. \/ x.settlements = 0 /\ x.hold = "none" /\ x.entry = "none" /\ x.status = "error"
        \/ /\ x.status = "error" /\ x.outcome = "failed"
           /\ x.entry = "none" /\ x.hold \in {"none", "returned", "kept"}
        \/ Billed(x) /\ (x.outcome = "failed" => x.error)
    BY <2>1, <2>2 DEF LocalInv, OverInv, AccountInv, StreamInv
  <2>5. QED
    BY <2>3, <2>4 DEF Billed, Beside, x
<1>2. QED
  BY <1>1, Invariant, PTL

\* What a cache serves for free, a settled request paid for.
THEOREM CachedWasPaidFor == Spec => []CachesHoldWhatWasPaid
<1>1. IInv => CachesHoldWhatWasPaid
  BY DEF IInv, PaidInv
<1>2. QED
  BY <1>1, Invariant, PTL

\* The record of a stream is what its client was sent.
THEOREM RecordsAreTrue == Spec => []RecordMatchesDelivery
<1>1. IInv => RecordMatchesDelivery
  BY DEF IInv, LocalInv, StreamInv, RecordMatchesDelivery, Over
<1>2. QED
  BY <1>1, Invariant, PTL

\* No request that is over has an upstream call open.
THEOREM UpstreamsAreReleased == Spec => []NoUpstreamLeft
<1>1. IInv => NoUpstreamLeft
  BY DEF IInv, LocalInv, StreamInv, NoUpstreamLeft
<1>2. QED
  BY <1>1, Invariant, PTL

\* The routes, relays and tasks implement Accounts.
THEOREM AccountsKept == Spec => KeepsAccounts
<1>1. Init => Metering!Init
  BY InitKeeps
<1>2. IInv /\ [Next]_vars => [Metering!Next]_(Metering!vars)
  BY NextKeeps
<1>3. QED
  BY <1>1, <1>2, Invariant, PTL DEF Spec, KeepsAccounts, Metering!Spec

=============================================================================
