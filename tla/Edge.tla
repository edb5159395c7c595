-------------------------------- MODULE Edge --------------------------------
(***************************************************************************)
(* What every request passes on its way to a handler and back: the request *)
(* id, the telemetry and the body limit (middleware.py), authentication    *)
(* (auth.py) against the key database (keys.py), and the handlers that turn *)
(* a failure into an answer (error_handling.py), mounted in the order      *)
(* create_app gives them (gateway.py):                                     *)
(*                                                                         *)
(*    ServerErrorMiddleware > RequestID > Telemetry > BodyLimit > the app  *)
(*                                                                         *)
(* The operator mints and revokes keys from another process (cli.py) while *)
(* requests are looked up in a thread.  What a handler does is left to the *)
(* other modules: here it answers, streams, raises or is cancelled.        *)
(***************************************************************************)
EXTENDS Integers, Sequences, FiniteSets, SequencesExt

CONSTANTS Requests,    \* requests being served at one time
          Keys,        \* key ids of the database
          Models,      \* the models requests name
          Nobody,      \* no key, no principal, no model, no answer
          InboundIds,  \* X-Request-ID values callers send
          MaxBody,     \* max_request_body_bytes
          LabelLimit,  \* metrics_label_budget
          MaxChunk,    \* bound: bytes in one message of a body
          MaxMessages  \* bound: messages of a chunked body

ASSUME EdgeAssumption ==
    /\ MaxBody \in Nat \ {0} /\ LabelLimit \in Nat \ {0}
    /\ MaxChunk \in Nat /\ MaxMessages \in Nat \ {0}
    /\ Nobody \notin Keys \cup Models \cup InboundIds \cup Requests
    /\ Requests \cap InboundIds = {}

VARIABLES config,  \* what the process was started with
          keys,    \* keys[k]: the row of key k in the database
          seen,    \* the model names the label budget has admitted
          req

vars == <<config, keys, seen, req>>

-----------------------------------------------------------------------------
(* Keys.                                                                   *)

Configs == [guarded: BOOLEAN, db: BOOLEAN, list: BOOLEAN]

\* create_app builds nothing in staging or prod without a source of keys.
Boots(c) == c.guarded => c.db \/ c.list

\* One source and no merging: a database is the only one where it is set.
Source == IF config.db THEN "db" ELSE IF config.list THEN "list" ELSE "open"

\* What an Authorization header may say: nothing that reads as a bearer token,
\* a key of the database with its secret or with another, a token of the
\* environment's list, or any other token.
Headers == {<<"unreadable">>, <<"listed">>, <<"stray">>} \cup ({"genuine", "forged"} \X Keys)

Token(h) == h[1] # "unreadable"

\* Mutant: a row that was revoked still matches its token.
VerifiedRevoked(h) == IF h[1] = "genuine" /\ keys[h[2]] # "absent" THEN h[2] ELSE Nobody

\* KeyStore.verify, one SELECT: a row, the right secret, and no revocation.
Verified(h) == IF h[1] = "genuine" /\ keys[h[2]] = "live" THEN h[2] ELSE Nobody

\* The identity of a token with no row behind it: its digest.
Digest(h) == <<"digest", h>>

-----------------------------------------------------------------------------
(* Bodies.  A message carries bytes and says whether more follow, or says  *)
(* the client has gone.                                                    *)

Gone == [size |-> 0, more |-> FALSE, gone |-> TRUE]
Messages == [size: 0 .. MaxChunk, more: BOOLEAN, gone: {FALSE}] \cup {Gone}

Chunked == -1    \* no declared length
Declared == {Chunked} \cup 0 .. MaxBody + 1

\* The bytes of a body up to each of its messages, and of all of it.
Upto(body) == LET bytes[i \in 0 .. Len(body)] == IF i = 0 THEN 0 ELSE bytes[i - 1] + body[i].size
              IN bytes
Size(body) == Upto(body)[Len(body)]

\* What the server lets through: a declared body is as long as it was declared.
Arrives(x, m) ==
    \/ m.gone
    \/ IF x.declared = Chunked THEN m.more => Len(x.sent) + 1 < MaxMessages
       ELSE /\ x.held + m.size <= x.declared
            /\ m.more <=> x.held + m.size < x.declared
            /\ m.more => m.size > 0

-----------------------------------------------------------------------------
(* Requests.                                                               *)

Idle == [at |-> "idle", id |-> Nobody, path |-> "probe", header |-> <<"unreadable">>,
         late |-> FALSE, declared |-> Chunked, sent |-> <<>>, held |-> 0, read |-> <<>>,
         found |-> Nobody, principal |-> Nobody, model |-> Nobody,
         status |-> 500, got |-> Nobody, counted |-> <<>>, logged |-> "none"]

Init == /\ config \in {c \in Configs : Boots(c)}
        /\ keys = [k \in Keys |-> "absent"]
        /\ seen = {}
        /\ req = [r \in Requests |-> Idle]

Becomes(r, x) == req' = [req EXCEPT ![r] = x]

\* The id a caller sent, else a fresh one (here the request's own name).
IdOf(r, inbound) == IF inbound = Nobody THEN r ELSE inbound

\* The response's first message, on its way out: Telemetry reads the status,
\* RequestID stamps its id.
Started(x, status) == [x EXCEPT !.status = status, !.got = [status |-> status, id |-> x.id]]

\* Nobody is neither an answer nor the identity of a token.
ASSUME NobodyAssumption ==
    /\ Nobody \notin {Digest(h) : h \in Headers}
    /\ Nobody \notin [status: Nat, id: Requests \cup InboundIds]

\* Mutant: the budget has room for one name more than its limit.
AdmittedOneMore(model) ==
    IF model = Nobody \/ Cardinality(seen) > LabelLimit THEN seen ELSE seen \cup {model}

\* LabelBudget: the first names are admitted for good, the rest are `other`.
Admitted(model) ==
    IF model = Nobody \/ Cardinality(seen) >= LabelLimit THEN seen ELSE seen \cup {model}

\* The app returned or raised, however: Telemetry counts in its `finally`, and
\* RequestID logs unless it was cancelled.
Counted(x, logged) == [x EXCEPT !.counted = Append(@, x.status), !.logged = logged]

\* A response sent whole, from wherever it is sent.
Answers(r, x, status) ==
    /\ Becomes(r, [Counted(Started(x, status), "completed") EXCEPT !.at = "done"])
    /\ seen' = Admitted(x.model)
    /\ UNCHANGED <<config, keys>>

Moves(r, x) == Becomes(r, x) /\ UNCHANGED <<config, keys, seen>>

-----------------------------------------------------------------------------

\* `late` is history: the key it presents had been revoked when it arrived.
Arrive(r, inbound, path, h, length) ==
    /\ req[r].at = "idle"
    /\ path # "chat" => length = 0
    /\ Moves(r, [Idle EXCEPT !.at = "body", !.id = IdOf(r, inbound), !.path = path,
                             !.header = h, !.declared = length,
                             !.late = h[1] = "genuine" /\ keys[h[2]] = "revoked"])

TooLong(x) == x.declared > MaxBody

\* A declared length over the limit is refused before a byte is read.
RefuseDeclared(r) == /\ req[r].at = "body" /\ TooLong(req[r])
                     /\ Answers(r, req[r], 413)

\* Mutant: each message is measured alone.
TakenAlone(x, m) == [x EXCEPT !.sent = Append(@, m), !.held = m.size]

Taken(x, m) == [x EXCEPT !.sent = Append(@, m), !.held = @ + m.size]

\* Every message is kept as it arrives and counted, whatever was declared.
Receive(r, m) ==
    /\ req[r].at = "body" /\ ~TooLong(req[r])
    /\ Arrives(req[r], m)
    /\ LET x == Taken(req[r], m)
       IN IF x.held > MaxBody THEN Answers(r, x, 413)
          ELSE Moves(r, [x EXCEPT !.at = IF m.more THEN "body" ELSE "routing"])

\* Outside /v1 no key is asked for: a path no route has, and the probes, whose
\* answer depends on their checks.
Unguarded(r) == /\ req[r].at = "routing" /\ req[r].path \in {"unknown", "probe"}
                /\ \E status \in IF req[r].path = "unknown" THEN {404} ELSE {200, 503} :
                      Answers(r, req[r], status)

\* The framework reads the whole body a route asks for, replayed as it arrived,
\* before the route's dependencies run.
ReadBody(r) == /\ req[r].at = "routing" /\ req[r].path \in {"chat", "usage"}
               /\ Moves(r, [req[r] EXCEPT !.at = "parsing",
                                          !.read = IF req[r].path = "chat" THEN req[r].sent ELSE <<>>])

\* A body that stops short or is no JSON is the caller's mistake, told before
\* the key is looked at.
Unreadable(r) == /\ req[r].at = "parsing" /\ req[r].path = "chat"
                 /\ Answers(r, req[r], 400)

Forgotten(x) == [x EXCEPT !.sent = <<>>, !.held = 0, !.read = <<>>, !.declared = Chunked]

\* require_api_key, as far as it goes without leaving the event loop.
Authenticate(r) ==
    /\ req[r].at = "parsing" /\ (req[r].path = "chat" => ~Last(req[r].read).gone)
    /\ LET x == Forgotten(req[r])
           known == CASE Source = "list" -> x.header = <<"listed">>
                      [] Source = "open" -> TRUE
                      [] OTHER -> FALSE
       IN IF ~Token(x.header) THEN Answers(r, x, 401)
          ELSE IF Source = "db" THEN Moves(r, [x EXCEPT !.at = "looking"])
          ELSE IF known THEN Moves(r, [x EXCEPT !.at = "handling", !.principal = Digest(x.header)])
          ELSE Answers(r, x, 401)

\* The SELECT, in a worker thread.
LookUp(r) == /\ req[r].at = "looking"
             /\ Moves(r, [req[r] EXCEPT !.at = "looked", !.found = Verified(req[r].header)])

\* Back on the event loop, with what the row said then.
Resume(r) ==
    /\ req[r].at = "looked"
    /\ IF req[r].found = Nobody THEN Answers(r, req[r], 401)
       ELSE Moves(r, [req[r] EXCEPT !.at = "handling", !.principal = req[r].found,
                                    !.found = Nobody])

\* The chat handler leaves the model on the request's state for the telemetry.
Named(x, m) == IF x.path = "chat" THEN [x EXCEPT !.model = m] ELSE x

\* A contract violation, told before the handler runs: it names no model.
Violates(r) == /\ req[r].at = "handling"
               /\ Answers(r, req[r], 400)

\* A failure the handler lets through or renders at its status: a GatewayError
\* or an upstream's.
Decline(r, status) == /\ req[r].at = "handling"
                      /\ \E m \in Models : Answers(r, Named(req[r], m), status)

Serve(r) == /\ req[r].at = "handling"
            /\ \E m \in Models : Answers(r, Named(req[r], m), 200)

StartStream(r) ==
    /\ req[r].at = "handling" /\ req[r].path = "chat"
    /\ \E m \in Models : Moves(r, [Started(Named(req[r], m), 200) EXCEPT !.at = "streaming"])

Leaves(r, logged, at) ==
    /\ Becomes(r, [Counted(req[r], logged) EXCEPT !.at = at])
    /\ seen' = Admitted(req[r].model)
    /\ UNCHANGED <<config, keys>>

StreamEnds(r) == req[r].at = "streaming" /\ Leaves(r, "completed", "done")

\* An exception nobody meant, the database's in the lookup's thread among them:
\* logged and counted on its way out, and answered outside every middleware
\* unless an answer has begun.
Fails(r) == /\ req[r].at \in {"looking", "handling", "streaming"}
            /\ Leaves(r, "failed", IF req[r].got = Nobody THEN "failed" ELSE "done")

\* Mutant: the answer to a bug is left to the middlewares it never passes.
InternalErrorUnnamed(r) ==
    /\ req[r].at = "failed"
    /\ Moves(r, [req[r] EXCEPT !.at = "done", !.got = [status |-> 500, id |-> Nobody]])

\* handle_unexpected_error, which sets the id by itself.
InternalError(r) ==
    /\ req[r].at = "failed"
    /\ Moves(r, [req[r] EXCEPT !.at = "done", !.got = [status |-> 500, id |-> req[r].id]])

\* The server cancels the task, at any of its awaits: counted, never logged.
Cancel(r) == /\ req[r].at \in {"body", "looking", "looked", "handling", "streaming"}
             /\ Leaves(r, "none", "done")

Leave(r) == /\ req[r].at = "done"
            /\ Moves(r, Idle)

\* vortex-keys, from a process of its own.  A revoked key keeps its row.
Create(k) == /\ keys[k] = "absent"
             /\ keys' = [keys EXCEPT ![k] = "live"]
             /\ UNCHANGED <<config, seen, req>>

Revoke(k) == /\ keys[k] = "live"
             /\ keys' = [keys EXCEPT ![k] = "revoked"]
             /\ UNCHANGED <<config, seen, req>>

Paths == {"chat", "usage", "probe", "unknown"}

Next ==
    \/ \E k \in Keys : Create(k) \/ Revoke(k)
    \/ \E r \in Requests :
          \/ \E inbound \in InboundIds \cup {Nobody}, path \in Paths, h \in Headers,
                length \in Declared : Arrive(r, inbound, path, h, length)
          \/ RefuseDeclared(r)
          \/ \E m \in Messages : Receive(r, m)
          \/ Unguarded(r) \/ ReadBody(r) \/ Unreadable(r)
          \/ Authenticate(r) \/ LookUp(r) \/ Resume(r)
          \/ Violates(r) \/ \E status \in {400, 429, 503} : Decline(r, status)
          \/ Serve(r) \/ StartStream(r) \/ StreamEnds(r)
          \/ Fails(r) \/ InternalError(r) \/ Cancel(r) \/ Leave(r)

Spec == Init /\ [][Next]_vars

-----------------------------------------------------------------------------

Stages == {"idle", "body", "routing", "parsing", "looking", "looked", "handling", "streaming",
           "failed", "done"}

\* The type invariant, and the label budget's bound: whatever models callers
\* make up, no more than LabelLimit of them become time series.
TypeOK ==
    /\ config \in Configs
    /\ keys \in [Keys -> {"absent", "live", "revoked"}]
    /\ seen \subseteq Models /\ Cardinality(seen) <= LabelLimit
    /\ \A r \in Requests :
          LET x == req[r]
          IN /\ x.at \in Stages /\ x.path \in Paths /\ x.header \in Headers
             /\ x.id \in Requests \cup InboundIds \cup {Nobody}
             /\ x.declared \in Declared /\ x.held \in 0 .. MaxBody + MaxChunk
             /\ x.found \in Keys \cup {Nobody} /\ x.model \in Models \cup {Nobody}
             /\ x.sent \in Seq(Messages) /\ x.read \in Seq(Messages)

\* A caller reaches a handler under /v1 only as somebody the one active source
\* of keys knows: with a database, the key whose secret it presented, whose row
\* exists and had not been revoked when the request arrived, however the lookup
\* in its thread and the operator's revocation interleave (keys.py:192-197) and
\* whatever the environment's list says (config.py:79-82); in staging and prod,
\* never just anybody (auth.py:57-71).
OnlyKeysAreServed ==
    \A r \in Requests :
        LET x == req[r]
        IN /\ x.principal # Nobody =>
                 CASE Source = "db" -> /\ x.header = <<"genuine", x.principal>>
                                       /\ keys[x.principal] # "absent"
                                       /\ ~x.late
                   [] Source = "list" -> x.header = <<"listed">>
                   [] OTHER -> ~config.guarded /\ Token(x.header)
           /\ (x.path \in {"chat", "usage"} /\ x.got # Nobody /\ x.got.status \in {200, 429, 503})
                 => x.principal # Nobody

\* Whatever becomes of a request, from the body limit's refusal to a bug
\* answered outside the middlewares, it is counted once, at the status its
\* caller saw, and the answer carries its own id, whose log line it is found
\* by; only a cancelled one is counted without an answer, as a 500
\* (middleware.py, error_handling.py:130-161).
AnsweredAndCounted ==
    \A r \in Requests :
        LET x == req[r]
        IN x.at = "done" =>
              /\ Len(x.counted) = 1
              /\ IF x.got = Nobody THEN x.logged = "none" /\ x.counted = <<500>>
                 ELSE x.got = [status |-> x.counted[1], id |-> x.id]

\* A body over the limit is refused with a 413, with or without a declared
\* length and wherever it is cut into messages, and none of it reaches the app;
\* a body within it is never refused, and the app reads what arrived, in order,
\* a disconnect included (ADR-034, middleware.py:374-390).
BodyIntact ==
    \A r \in Requests :
        LET x == req[r]
            over == TooLong(x) \/ Size(x.sent) > MaxBody
        IN /\ (x.got # Nobody /\ x.got.status = 413) => over
           /\ over => x.at \in {"body", "done"} /\ x.read = <<>>
           /\ x.read # <<>> => x.read = x.sent
           /\ x.sent # <<>> /\ x.at = "done" /\ over => x.got.status = 413

=============================================================================
