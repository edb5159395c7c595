---------------------------- MODULE ChatCompletion ----------------------------
(***************************************************************************)
(* POST /v1/chat/completions from admission to the last byte (routes.py,   *)
(* metering.py, streaming.py): many requests for one prompt, each a task   *)
(* that may be cancelled wherever it awaits.  `at` names the await a       *)
(* request is suspended in; what the code does between two awaits is one   *)
(* step.  Redis may be unreachable at any call and the provider may fail   *)
(* at any chunk; what the provider does inside a call is                   *)
(* ResilientProvider's subject, and how a bucket counts is RateLimiter's.  *)
(***************************************************************************)
EXTENDS Naturals

CONSTANTS Requests, \* requests with the same prompt, key and route
          Nobody

ASSUME ChatAssumption == Nobody \notin Requests

VARIABLES req,   \* each request's locals, reservation, ledger row and response
          exact, \* whose completion the exact cache holds
          near   \* whose completions the semantic cache holds for it

vars == <<req, exact, near>>

Asks == {"buffered", "bypass", "stream"}
Relaying == {"sending", "failing", "sentinel"}  \* suspended at a `yield`
Stages == {"new", "admitting", "exact", "near", "calling", "waiting", "starting",
           "pulling", "discarding", "reconciling", "recording", "storing", "closing", "done"} \cup Relaying

Request ==
    [at : Stages,
     ask : Asks,                                \* stream, Cache-Control: no-cache, or neither
     tiers : SUBSET {"exact", "near"},          \* the stores that will not be no-ops
     answer : Requests \cup {Nobody},           \* whose completion it answers with
     usage : {"unknown", "known", "zero"},      \* zero: CACHED_USAGE
     outcome : {"completed", "failed", "abandoned"},
     hold : {"none", "held", "returned", "charged", "kept"},
     entry : {"none", "zero", "known", "unknown", "lost"},
     settlements : 0 .. 1,                      \* settle and discard calls begun
     spawned : {"none", "reconciling", "recording", "done"}, \* _PENDING_SETTLEMENTS
     status : {"none", "ok", "error"},
     error : BOOLEAN, sentinel : BOOLEAN,       \* events the relay has yielded
     upstream : {"none", "open", "closed"},
     orphan : BOOLEAN,                          \* the relay outlived its response
     cut : BOOLEAN]                             \* history: cancelled where nothing settles it

Fresh == [at |-> "new", ask |-> "buffered", tiers |-> {}, answer |-> Nobody,
          usage |-> "unknown", outcome |-> "completed", hold |-> "none", entry |-> "none",
          settlements |-> 0, spawned |-> "none", status |-> "none", error |-> FALSE,
          sentinel |-> FALSE, upstream |-> "none", orphan |-> FALSE, cut |-> FALSE]

Init == /\ req = [r \in Requests |-> Fresh]
        /\ exact = Nobody
        /\ near = {}

-----------------------------------------------------------------------------
(* The pieces the handlers share, on one request's record.                  *)

Becomes(r, x) == req' = [req EXCEPT ![r] = x]
Caches == <<exact, near>>

\* Mutant: a usage nobody knows is reconciled as if it were a number.
FirstStepAlways(usage) == "reconciling"

\* Meter.settle reconciles only what somebody knows, then records.
FirstStep(usage) == IF usage = "unknown" THEN "recording" ELSE "reconciling"

Settle(x) == [x EXCEPT !.at = FirstStep(x.usage), !.settlements = x.settlements + 1]

\* Mutant: the task is collected before it has written anything.
SpawnCollected(x) == [x EXCEPT !.settlements = x.settlements + 1, !.spawned = "done"]

\* _settle_stream for an abandoned stream: a task of its own.
Spawn(x) == [x EXCEPT !.spawned = FirstStep(x.usage), !.settlements = x.settlements + 1]

\* What reconcile may leave of the reservation: all of it back, the usage
\* charged, or as it was because Redis did not answer.
Reconciled(x) == IF x.hold = "held"
                 THEN {IF x.usage = "known" THEN "charged" ELSE "returned", "kept"}
                 ELSE {x.hold}

\* What record may leave in the ledger.
Recorded(x) == {x.usage, "lost"}

-----------------------------------------------------------------------------
(* Admission and the two caches. *)

Arrive(r) == /\ req[r].at = "new"
             /\ \E ask \in Asks : Becomes(r, [req[r] EXCEPT !.at = "admitting", !.ask = ask])
             /\ UNCHANGED Caches

\* 429 or 400: no reservation was made.
TurnAway(r) == /\ req[r].at = "admitting"
               /\ Becomes(r, [req[r] EXCEPT !.at = "done", !.status = "error"])
               /\ UNCHANGED Caches

\* Admitted, with a reservation or (no limits, Redis down) without one.  A
\* stream or a bypass is looked up in neither tier.
Admit(r) == /\ req[r].at = "admitting"
            /\ \E hold \in {"held", "none"} :
                  LET x == [req[r] EXCEPT !.hold = hold]
                  IN Becomes(r, IF x.ask = "buffered" THEN [x EXCEPT !.at = "exact"]
                                ELSE [x EXCEPT !.at = IF x.ask = "stream" THEN "waiting" ELSE "calling",
                                               !.upstream = "open"])
            /\ UNCHANGED Caches

\* Served by a cache: settled at zero rather than discarded.
Hit(r, origin) == /\ origin # Nobody
                  /\ Becomes(r, Settle([req[r] EXCEPT !.answer = origin, !.usage = "zero"]))

\* A miss gives a key to store under, unless there is no exact cache.
LookupExact(r) == /\ req[r].at = "exact"
                  /\ \/ Hit(r, exact)
                     \/ \E tiers \in {{}, {"exact"}} :
                           Becomes(r, [req[r] EXCEPT !.at = "near", !.tiers = tiers])
                  /\ UNCHANGED Caches

\* Likewise; an embedder that failed leaves nothing to store under.
LookupNear(r) == /\ req[r].at = "near"
                 /\ \/ \E origin \in near : Hit(r, origin)
                    \/ \E tiers \in {{}, {"near"}} :
                          Becomes(r, [req[r] EXCEPT !.at = "calling", !.upstream = "open",
                                                    !.tiers = req[r].tiers \cup tiers])
                 /\ UNCHANGED Caches

\* A TTL, or the eviction of the oldest row.
Expire == \/ exact # Nobody /\ exact' = Nobody /\ UNCHANGED <<req, near>>
          \/ \E origin \in near : near' = near \ {origin} /\ UNCHANGED <<req, exact>>

-----------------------------------------------------------------------------
(* The buffered path, and a failure before the status line on either path.  *)

\* Mutant: stored before the response has been paid for.
CallReturnsStored(r) ==
    /\ req[r].at = "calling"
    /\ \E usage \in {"known", "unknown"} :
          Becomes(r, Settle([req[r] EXCEPT !.answer = r, !.usage = usage, !.upstream = "closed"]))
    /\ exact' = r
    /\ UNCHANGED near

\* The completion is in hand; settle it, with or without a usage.
CallReturns(r) ==
    /\ req[r].at = "calling"
    /\ \E usage \in {"known", "unknown"} :
          Becomes(r, Settle([req[r] EXCEPT !.answer = r, !.usage = usage, !.upstream = "closed"]))
    /\ UNCHANGED Caches

\* Mutant: a failure settled like an abandoned stream.
CallFailsSettled(r) ==
    /\ req[r].at \in {"calling", "waiting"}
    /\ Becomes(r, Settle([req[r] EXCEPT !.outcome = "failed", !.upstream = "closed"]))
    /\ UNCHANGED Caches

\* _failed: the hold comes back in full and the ledger stays silent.
CallFails(r) ==
    /\ req[r].at \in {"calling", "waiting"}
    /\ Becomes(r, [req[r] EXCEPT !.at = "discarding", !.outcome = "failed",
                                 !.upstream = "closed",
                                 !.settlements = req[r].settlements + 1])
    /\ UNCHANGED Caches

Discard(r) == /\ req[r].at = "discarding"
              /\ \E hold \in Reconciled(req[r]) :
                    Becomes(r, [req[r] EXCEPT !.at = "done", !.hold = hold, !.status = "error"])
              /\ UNCHANGED Caches

\* The two awaits of Meter.settle, wherever it is awaited.
Reconcile(r) == /\ req[r].at = "reconciling"
                /\ \E hold \in Reconciled(req[r]) :
                      Becomes(r, [req[r] EXCEPT !.at = "recording", !.hold = hold])
                /\ UNCHANGED Caches

Record(r) == /\ req[r].at = "recording"
             /\ \E entry \in Recorded(req[r]) :
                   Becomes(r, [req[r] EXCEPT !.entry = entry,
                                             !.at = IF req[r].ask = "stream" THEN "closing" ELSE "storing"])
             /\ UNCHANGED Caches

\* cache.store, which may fail and is how a near hit is promoted, then
\* semantic_cache.store, which does not suspend; then the response.
Store(r) == /\ req[r].at = "storing"
            /\ Becomes(r, [req[r] EXCEPT !.at = "done", !.status = "ok"])
            /\ exact' \in IF "exact" \in req[r].tiers THEN {exact, req[r].answer} ELSE {exact}
            /\ near' = IF "near" \in req[r].tiers THEN near \cup {req[r].answer} ELSE near

-----------------------------------------------------------------------------
(* The stream.  The route awaits the first chunk ("waiting") and returns the *)
(* response that commits the 200; until its status line is sent the relay    *)
(* has not run ("starting"), and from then on it is either awaiting a chunk  *)
(* ("pulling") or suspended at a yield.                                      *)

\* anext(stream, None): a first chunk, or a stream that ended without one.
FirstChunk(r) == /\ req[r].at = "waiting"
                 /\ \E upstream \in {"open", "closed"} :
                       Becomes(r, [req[r] EXCEPT !.at = "starting", !.upstream = upstream])
                 /\ UNCHANGED Caches

InHand(x) == x.at = "starting" /\ x.upstream = "open"

\* A chunk is relayed, or withheld when usage is all it carries; whichever,
\* the last usage seen is the bill.  The first is the one the route awaited.
Chunk(r) == /\ req[r].at = "pulling" \/ InHand(req[r])
            /\ LET x == [req[r] EXCEPT !.status = "ok"]
               IN \/ Becomes(r, [x EXCEPT !.at = "sending"])
                  \/ \E at \in {"sending", "pulling"} :
                        Becomes(r, [x EXCEPT !.at = at, !.usage = "known"])
            /\ UNCHANGED Caches

\* The provider ran out of chunks, perhaps before the first.
StreamEnds(r) == /\ req[r].at = "pulling" \/ (req[r].at = "starting" /\ ~InHand(req[r]))
                 /\ Becomes(r, [req[r] EXCEPT !.at = "sentinel", !.sentinel = TRUE,
                                              !.status = "ok", !.upstream = "closed"])
                 /\ UNCHANGED Caches

\* Mutant: a stream cut short ends like one that finished.
StreamBreaksSilently(r) ==
    /\ req[r].at = "pulling"
    /\ Becomes(r, [req[r] EXCEPT !.at = "sentinel", !.sentinel = TRUE,
                                 !.outcome = "failed", !.upstream = "closed"])
    /\ UNCHANGED Caches

\* It failed after the 200: one error event, then the sentinel.
StreamBreaks(r) == /\ req[r].at = "pulling"
                   /\ Becomes(r, [req[r] EXCEPT !.at = "failing", !.error = TRUE,
                                                !.outcome = "failed", !.upstream = "closed"])
                   /\ UNCHANGED Caches

\* The event is on its way to the client and the relay goes on; after the
\* sentinel it settles, awaited in place.
Resume(r) == /\ req[r].at \in Relaying
             /\ ~req[r].orphan
             /\ Becomes(r, CASE req[r].at = "sending"  -> [req[r] EXCEPT !.at = "pulling"]
                             [] req[r].at = "failing"  -> [req[r] EXCEPT !.at = "sentinel",
                                                                         !.sentinel = TRUE]
                             [] req[r].at = "sentinel" -> Settle(req[r]))
             /\ UNCHANGED Caches

\* aclose_stream, the last thing the relay does.
Close(r) == /\ req[r].at = "closing"
            /\ Becomes(r, [req[r] EXCEPT !.at = "done", !.upstream = "closed"])
            /\ UNCHANGED Caches

\* Mutant: the upstream is left to whoever collects it.
FinalizeUnclosed(r) ==
    /\ req[r].orphan /\ req[r].at \in Relaying
    /\ Becomes(r, IF req[r].at = "sending"
                  THEN [Spawn([req[r] EXCEPT !.outcome = "abandoned"]) EXCEPT !.at = "done"]
                  ELSE Settle(req[r]))
    /\ UNCHANGED Caches

\* GeneratorExit at the yield of a relay whose response was cancelled: the
\* event loop closes the generator in a task of its own.  Between two chunks
\* that is an abandonment; after the error or the sentinel it is not.
Finalize(r) ==
    /\ req[r].orphan /\ req[r].at \in Relaying
    /\ Becomes(r, IF req[r].at = "sending"
                  THEN [Spawn([req[r] EXCEPT !.outcome = "abandoned"]) EXCEPT !.at = "closing"]
                  ELSE Settle(req[r]))
    /\ UNCHANGED Caches

\* The spawned settlement, which nothing here cancels.
SpawnedReconcile(r) == /\ req[r].spawned = "reconciling"
                       /\ \E hold \in Reconciled(req[r]) :
                             Becomes(r, [req[r] EXCEPT !.spawned = "recording", !.hold = hold])
                       /\ UNCHANGED Caches

SpawnedRecord(r) == /\ req[r].spawned = "recording"
                    /\ \E entry \in Recorded(req[r]) :
                          Becomes(r, [req[r] EXCEPT !.spawned = "done", !.entry = entry])
                    /\ UNCHANGED Caches

-----------------------------------------------------------------------------
(* Cancellation: the client hangs up on a stream, or the server is shutting  *)
(* down on anything, at whatever await the request is suspended in.          *)

Gone(x) == [x EXCEPT !.at = "done"]

\* Waiting for a chunk: recorded as abandoned and settled by a task.
CancelStream(r) ==
    /\ req[r].at \in {"waiting", "pulling"}
    /\ Becomes(r, Gone(Spawn([req[r] EXCEPT !.outcome = "abandoned", !.upstream = "closed"])))
    /\ UNCHANGED Caches

\* The response is cancelled in send(): the relay stays at its yield.
CancelSend(r) == /\ req[r].at \in Relaying
                 /\ ~req[r].orphan
                 /\ Becomes(r, [req[r] EXCEPT !.orphan = TRUE])
                 /\ UNCHANGED Caches

\* Before or during a buffered call, or with the status line of a stream on
\* its way: nothing catches it, and a relay that never ran runs no `finally`;
\* the provider's generator is closed by whoever collects it.  The admission
\* script may have run.
CancelUnsettled(r) ==
    /\ req[r].at \in {"admitting", "exact", "near", "calling", "starting"}
    /\ \E hold \in IF req[r].at = "admitting" THEN {"none", "held"} ELSE {req[r].hold} :
          Becomes(r, Gone([req[r] EXCEPT !.hold = hold, !.cut = TRUE,
                                         !.upstream = IF req[r].at \in {"calling", "starting"}
                                                      THEN "closed" ELSE req[r].upstream]))
    /\ UNCHANGED Caches

\* During a settlement awaited in place: the call in flight may have taken
\* effect, the rest of it does not.
CancelSettling(r) ==
    /\ \/ /\ req[r].at \in {"reconciling", "discarding"}
          /\ \E hold \in Reconciled(req[r]) \cup {req[r].hold} :
                Becomes(r, Gone([req[r] EXCEPT !.hold = hold, !.cut = TRUE]))
       \/ /\ req[r].at = "recording"
          /\ \E entry \in Recorded(req[r]) \cup {"none"} :
                Becomes(r, Gone([req[r] EXCEPT !.entry = entry, !.cut = TRUE]))
    /\ UNCHANGED Caches

\* After it: the exact store may have taken effect, the near one does not.
CancelLate(r) ==
    /\ \/ /\ req[r].at = "closing"
          /\ Becomes(r, Gone([req[r] EXCEPT !.upstream = "closed"]))
          /\ UNCHANGED exact
       \/ /\ req[r].at = "storing"
          /\ Becomes(r, Gone(req[r]))
          /\ exact' \in IF "exact" \in req[r].tiers THEN {exact, req[r].answer} ELSE {exact}
    /\ UNCHANGED near

Cancel(r) == CancelStream(r) \/ CancelSend(r) \/ CancelUnsettled(r) \/ CancelSettling(r) \/ CancelLate(r)

Answers(r) == \/ TurnAway(r) \/ Admit(r) \/ LookupExact(r) \/ LookupNear(r)
              \/ CallReturns(r) \/ CallFails(r) \/ Discard(r) \/ Reconcile(r) \/ Record(r) \/ Store(r)
              \/ FirstChunk(r) \/ Chunk(r) \/ StreamEnds(r) \/ StreamBreaks(r) \/ Resume(r) \/ Close(r)

Collected(r) == Finalize(r)
Background(r) == SpawnedReconcile(r) \/ SpawnedRecord(r)

Next == \/ Expire
        \/ \E r \in Requests : Arrive(r) \/ Answers(r) \/ Collected(r) \/ Background(r) \/ Cancel(r)

Spec == Init /\ [][Next]_vars

\* Every Redis call is bounded (ADR-033) and so is every read from a provider;
\* the event loop runs ready tasks and closes generators nobody holds.
Fairness == \A r \in Requests : /\ WF_vars(Answers(r))
                                /\ WF_vars(Collected(r))
                                /\ WF_vars(Background(r))

FairSpec == Spec /\ Fairness

-----------------------------------------------------------------------------

TypeOK == /\ req \in [Requests -> Request]
          /\ exact \in Requests \cup {Nobody}
          /\ near \subseteq Requests

\* No interleaving of the route, the relay, the task that closes an orphaned
\* relay and the spawned settlement settles or discards a request twice:
\* while a spawned settlement exists nothing else is settling.
SettledOnce ==
    \A r \in Requests :
        /\ req[r].at \in {"discarding", "reconciling", "recording"} => req[r].spawned = "none"
        /\ (req[r].entry # "none" \/ req[r].spawned # "none"
            \/ req[r].hold \in {"returned", "charged", "kept"}) => req[r].settlements = 1

\* However a request ends that no cancellation cut short, the accounts tell
\* what happened: a failure is free and silent unless its client had been
\* promised a stream and was told of it, a hit is a row at zero, a known
\* usage is charged and recorded, and an unknown one keeps its whole
\* reservation and is recorded as unmetered (metering.py:14-26,
\* routes.py:148-153).
Over(x) == x.at = "done" /\ x.spawned \in {"none", "done"} /\ ~x.cut
EndingsAccounted ==
    \A r \in Requests : LET x == req[r] IN
        Over(x) =>
            \/ x.settlements = 0 /\ x.hold = "none" /\ x.entry = "none" /\ x.status = "error"
            \/ /\ x.status = "error" /\ x.outcome = "failed"
               /\ x.entry = "none" /\ x.hold \in {"none", "returned", "kept"}
            \/ /\ x.answer \notin {r, Nobody}
               /\ x.entry \in {"zero", "lost"} /\ x.hold \in {"none", "returned", "kept"}
            \/ /\ x.answer \in {r, Nobody} /\ x.usage = "known" /\ (x.outcome = "failed" => x.error)
               /\ x.entry \in {"known", "lost"} /\ x.hold \in {"none", "charged", "kept"}
            \/ /\ x.answer \in {r, Nobody} /\ x.usage = "unknown" /\ (x.outcome = "failed" => x.error)
               /\ x.entry \in {"unknown", "lost"} /\ x.hold \in {"none", "held"}

\* Whatever either cache serves for free, somebody's settled request paid
\* for: nothing is stored before its settlement, and a promotion only copies
\* what was paid for already (routes.py:255-259, 316-321).
Paid(r) == req[r].entry \in {"known", "unknown", "lost"}
CachesHoldWhatWasPaid == (exact # Nobody => Paid(exact)) /\ \A r \in near : Paid(r)

\* What the record says of a stream is what its client was sent: [DONE] with
\* no error event is a stream that finished, [DONE] after one is a stream
\* that failed, and one recorded as abandoned never got its [DONE].
RecordMatchesDelivery ==
    \A r \in Requests : LET x == req[r] IN
        x.ask = "stream" =>
            /\ x.error => x.outcome = "failed"
            /\ x.sentinel => x.outcome = IF x.error THEN "failed" ELSE "completed"
            /\ (Over(x) /\ x.status = "ok" /\ ~x.sentinel) => x.outcome = "abandoned" \/ x.error

\* No request that is over leaves its upstream call running, whether it was
\* served, failed, cancelled or orphaned at a yield (ADR-019).
NoUpstreamLeft ==
    \A r \in Requests : req[r].upstream = "open" =>
                           req[r].at \in {"calling", "waiting", "starting", "pulling", "sending", "closing"}

\* A relay left behind by a cancelled response is still closed, and with it
\* the upstream that is generating for nobody.
OrphansReleased == \A r \in Requests : req[r].orphan ~> req[r].upstream = "closed"

\* An abandoned stream reaches the ledger although everything around it is
\* being cancelled (docs/notes/day-07.md).
AbandonedIsRecorded ==
    \A r \in Requests : req[r].outcome = "abandoned" ~> req[r].entry # "none"

-----------------------------------------------------------------------------
\* Seen as reservations and ledger rows, every step is a step of Accounts.
Metering == INSTANCE Accounts WITH reserve <- [r \in Requests |-> req[r].hold],
                                   bill <- [r \in Requests |-> req[r].entry]

KeepsAccounts == Metering!Spec

-----------------------------------------------------------------------------
(* What the documentation says and the code does not do. *)

\* "Settlement runs on *every* ending, including the failures"
\* (metering.py:19): a request that got as far as the provider was settled or
\* discarded.
EveryEndingSettles ==
    \A r \in Requests : (req[r].at = "done" /\ req[r].upstream # "none") => req[r].settlements = 1

=============================================================================
