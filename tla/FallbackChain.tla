---------------------------- MODULE FallbackChain ----------------------------
(***************************************************************************)
(* From a model's name to the provider that serves it: the routing table   *)
(* (routing.py) picks a provider or the chain it heads, and the chain      *)
(* (resilience_wrapper.py, class FallbackProvider) tries its members in    *)
(* order, each behind its own retry loop and its own breaker.  A breaker   *)
(* belongs to its provider, so requests that arrive by different chains    *)
(* meet in it.                                                             *)
(*                                                                         *)
(* A member's retry loop is ResilientProvider's with the clock left out:   *)
(* how long a sleep is, and whether it is the attempts, the budget or the  *)
(* deadline that ends a sequence, are any of what they could be.           *)
(***************************************************************************)
EXTENDS CircuitBreaker, Failures, Sequences

CONSTANTS Providers, Models,
          Routes,      \* the ordered rules: [claims : SUBSET Models, provider : Providers]
          Default,     \* default_provider, or NoProvider
          NoProvider,
          Chains,      \* parsed VORTEX_FALLBACK_CHAINS: head |-> its members
          MaxAttempts, \* RetryPolicy.max_attempts
          Failings     \* the causes an attempt may fail for

Routed == {Routes[i].provider : i \in DOMAIN Routes} \cup ({Default} \ {NoProvider})

\* What parse_routes, parse_fallback_chains and build_router let a gateway
\* start with: two members or more, none twice, under the head a rule names.
ASSUME RoutingAssumption ==
    /\ NoProvider \notin Providers /\ Default \in Providers \cup {NoProvider}
    /\ Routes \in Seq([claims : SUBSET Models, provider : Providers])
    /\ DOMAIN Chains \subseteq Routed
    /\ \A head \in DOMAIN Chains :
          /\ Chains[head] \in Seq(Providers)
          /\ Len(Chains[head]) >= 2 /\ Chains[head][1] = head
          /\ \A i, j \in DOMAIN Chains[head] : Chains[head][i] = Chains[head][j] => i = j
    /\ MaxAttempts \in Nat \ {0}
    /\ Failings \subseteq Causes

VARIABLES brk, \* the breaker of each provider
          req  \* each request's way along its chain

vars == <<brk, req>>

Ended == {"new", "done"}
Stages == {"calling", "backoff", "relaying"} \cup Ended
Fates == {"untried", "refused", "failed", "rejected", "served"}

-----------------------------------------------------------------------------
(* Routing: fixed at start-up. *)

\* provider_for: the first rule that claims the model, else the default.
ProviderFor(model) ==
    LET claiming == {i \in DOMAIN Routes : model \in Routes[i].claims}
    IN IF claiming = {} THEN Default
       ELSE Routes[CHOOSE i \in claiming : \A j \in claiming : i <= j].provider

\* build_router: a head stands for its chain, anything else for itself; the
\* members of a chain are bare providers, whatever chains they head.
Members(head) == IF head \in DOMAIN Chains THEN Chains[head] ELSE <<head>>

Request ==
    [at : Stages, stream : BOOLEAN,
     chain : Seq(Providers), position : Nat,
     attempt : 0 .. MaxAttempts - 1, permit : Permits,
     open : SUBSET Providers,       \* providers with a call of this request's open
     source : SUBSET Providers,     \* whose output its client is sent
     error : Failings \cup OwnCauses,  \* why the call ended as it did
     fate : [Providers -> Fates]]   \* history: what came of it at each provider

Fresh == [at |-> "new", stream |-> FALSE, chain |-> <<>>, position |-> 0, attempt |-> 0,
          permit |-> NoPermit, open |-> {}, source |-> {}, error |-> Own("none"),
          fate |-> [p \in Providers |-> "untried"]]

Init == /\ brk = [p \in Providers |-> NewBreaker]
        /\ req = [r \in Callers |-> Fresh]

-----------------------------------------------------------------------------

Becomes(r, x) == req' = [req EXCEPT ![r] = x]

At(x) == x.chain[x.position]

\* The attempt at the current member is over: whatever it was, its stream is
\* closed and its permit handed back (the `finally` of _call, _open's except).
Left(x, fate) == [x EXCEPT !.open = {}, !.permit = NoPermit, !.fate[At(x)] = fate]

\* release_trial in the `finally` of the attempt.
Freed(r, b) == ReleaseTrial(b, req[r].permit)

Over(x, error) == [x EXCEPT !.at = "done", !.stream = FALSE, !.attempt = 0, !.error = error]

\* Mutant: a throttled provider is waited for, not passed over.
HoppableUnthrottled(kind) == kind = "circuit_open" \/ kind \in {"timeout", "unavailable"}

\* _is_hoppable
Hoppable(kind) == kind = "circuit_open" \/ Retryable(kind)

Refuses(bs, x, i) == ~Admits(bs[x.chain[i]])

SkippedTo(x, i) ==
    [x EXCEPT !.fate = [p \in Providers |->
                           IF \E j \in x.position + 1 .. i - 1 : x.chain[j] = p
                           THEN "refused" ELSE x.fate[p]]]

\* Attempt number `attempt` at the member in position i, which admits it.
Attempt(r, bs, x, i, attempt) ==
    LET p == x.chain[i]
    IN /\ Admits(bs[p])
       /\ brk' = [bs EXCEPT ![p] = Allow(@, r)]
       /\ Becomes(r, [x EXCEPT !.at = "calling", !.position = i, !.attempt = attempt,
                               !.permit = PermitFor(bs[p], r), !.open = {p}])

\* The next member that admits it, the ones in between having refused; with
\* none left, the last failure is what the caller gets.  A refusal is always
\* hoppable and suspends nothing, so all of it is one step.
Hop(r, bs, x, error) ==
    \/ \E i \in x.position + 1 .. Len(x.chain) :
          /\ \A j \in x.position + 1 .. i - 1 : Refuses(bs, x, j)
          /\ Attempt(r, bs, SkippedTo(x, i), i, 0)
    \/ /\ \A j \in x.position + 1 .. Len(x.chain) : Refuses(bs, x, j)
       /\ brk' = bs
       /\ Becomes(r, Over(SkippedTo(x, Len(x.chain) + 1),
                          IF x.position < Len(x.chain) THEN Own("circuit_open") ELSE error))

\* The member it was at raised `error`, leaving the breakers as `bs`.
Raise(r, bs, x, error) ==
    \/ /\ Hoppable(KindOf(error))
       /\ Hop(r, bs, x, error)
    \/ /\ ~Hoppable(KindOf(error))
       /\ brk' = bs
       /\ Becomes(r, Over(x, error))

\* A request is made, the first by this task or the next one.  The router
\* resolves the model; unroutable is refused before any provider.
Arrive(r) ==
    /\ req[r].at \in Ended
    /\ \E model \in Models, stream \in BOOLEAN :
          LET head == ProviderFor(model)
          IN \/ /\ head = NoProvider
                /\ Becomes(r, Over(Fresh, Own("unroutable")))
                /\ UNCHANGED brk
             \/ /\ head # NoProvider
                /\ Hop(r, brk, [Fresh EXCEPT !.stream = stream, !.chain = Members(head)], Own("none"))

\* A completion, or a first chunk: this member's, and nobody else is asked.
Serve(r) ==
    /\ req[r].at = "calling"
    /\ LET p == At(req[r])
           x == [req[r] EXCEPT !.permit = NoPermit, !.source = {p}, !.fate[p] = "served"]
       IN /\ brk' = [brk EXCEPT ![p] = Freed(r, RecordSuccess(@))]
          /\ Becomes(r, IF x.stream THEN [x EXCEPT !.at = "relaying"]
                        ELSE Over([x EXCEPT !.open = {}], Own("none")))

\* A failure that says nothing of the provider's health moves no breaker.
Reject(r) ==
    /\ req[r].at = "calling"
    /\ \E cause \in Failings :
          /\ ~Retryable(KindOf(cause))
          /\ Raise(r, [brk EXCEPT ![At(req[r])] = Freed(r, @)], Left(req[r], "rejected"), cause)

\* Mutant: one retry too many.
BackoffPastLast(r) ==
    /\ req[r].at = "calling"
    /\ req[r].permit # r
    /\ Becomes(r, [req[r] EXCEPT !.at = "backoff", !.open = {}])
    /\ UNCHANGED brk

\* One more attempt at this member, after a sleep.
Backoff(r) ==
    /\ req[r].at = "calling"
    /\ req[r].permit # r
    /\ req[r].attempt < MaxAttempts - 1
    /\ Becomes(r, [req[r] EXCEPT !.at = "backoff", !.open = {}])
    /\ UNCHANGED brk

\* The breaker is asked again; its refusal ends the sequence with no verdict.
Wake(r) ==
    /\ req[r].at = "backoff"
    /\ \/ Attempt(r, brk, req[r], req[r].position, req[r].attempt + 1)
       \/ /\ ~Admits(brk[At(req[r])])
          /\ Raise(r, brk, Left(req[r], "refused"), Own("circuit_open"))

\* Mutant: the verdict goes to the breaker of the chain's head.
GiveUpBlamesHead(r) ==
    /\ req[r].at = "calling"
    /\ LET p == req[r].chain[1]
           bs == [brk EXCEPT ![p] = Freed(r, RecordFailure(@))]
       IN \E cause \in Failings :
             Retryable(KindOf(cause)) /\ Raise(r, bs, Left(req[r], "failed"), cause)

\* The trial failed, or the attempts, the budget or the deadline are spent.
GiveUp(r) ==
    /\ req[r].at = "calling"
    /\ LET p == At(req[r])
           bs == [brk EXCEPT ![p] = Freed(r, RecordFailure(@))]
       IN \E cause \in Failings :
             Retryable(KindOf(cause)) /\ Raise(r, bs, Left(req[r], "failed"), cause)

\* Mutant: a stream that breaks goes on at the next member.
BreakOffHops(r) ==
    /\ req[r].at = "relaying"
    /\ \E cause \in Failings :
          Retryable(KindOf(cause)) /\ Hop(r, brk, Left(req[r], "failed"), cause)

\* A failure after the first chunk moves nothing and is never hopped: it is
\* the client's, as an event, whatever it was.
BreakOff(r) == /\ req[r].at = "relaying"
               /\ Becomes(r, Over([req[r] EXCEPT !.open = {}], Own("broken")))
               /\ UNCHANGED brk

StreamEnds(r) == /\ req[r].at = "relaying"
                 /\ Becomes(r, Over([req[r] EXCEPT !.open = {}], Own("none")))
                 /\ UNCHANGED brk

\* Mutant: the members' generators are left to whoever collects them.
CancelUnclosed(r) ==
    /\ req[r].at \in {"calling", "backoff", "relaying"}
    /\ Becomes(r, Over([req[r] EXCEPT !.permit = NoPermit], Own("cancelled")))
    /\ brk' = [brk EXCEPT ![At(req[r])] = Freed(r, @)]

\* The caller goes away: every layer's `finally` closes the stream it holds.
Cancel(r) ==
    /\ req[r].at \in {"calling", "backoff", "relaying"}
    /\ Becomes(r, Over([req[r] EXCEPT !.permit = NoPermit, !.open = {}], Own("cancelled")))
    /\ brk' = [brk EXCEPT ![At(req[r])] = Freed(r, @)]

Tick == /\ brk' = [p \in Providers |-> Elapse(brk[p])]
        /\ UNCHANGED req

Next == Tick \/ \E r \in Callers : \/ Arrive(r) \/ Serve(r) \/ Reject(r) \/ Backoff(r) \/ Wake(r)
                                   \/ GiveUp(r) \/ BreakOff(r) \/ StreamEnds(r) \/ Cancel(r)

Spec == Init /\ [][Next]_vars

-----------------------------------------------------------------------------

TypeOK == /\ brk \in [Providers -> Breaker]
          /\ \A r \in Callers :
                LET x == req[r]
                IN /\ x \in Request
                   /\ x.chain = <<>> \/ \E head \in Routed : x.chain = Members(head)
                   /\ x.at \in Stages \ Ended => x.position \in DOMAIN x.chain

\* A member is asked only when every one before it has refused or has failed
\* in a way another may not: a request the first provider rejects, or one it
\* has begun to answer, costs no second provider's quota
\* (resilience_wrapper.py:320-325, ADR-020).  And a caller told to come back
\* later, or that its upstream is broken, was really out of providers: every
\* member of its chain refused it or gave up, and what it is told is what the
\* last one said (_first_to_serve).
TriedInOrder ==
    \A r \in Callers :
        LET x == req[r]
            kind == KindOf(x.error)
            passed(i) == x.fate[x.chain[i]] \in {"refused", "failed"}
        IN /\ \A i, j \in DOMAIN x.chain :
                 (i < j /\ (j <= x.position \/ x.fate[x.chain[j]] # "untried")) => passed(i)
           /\ (x.at = "done" /\ x.source = {} /\ (Retryable(kind) \/ kind = "circuit_open")) =>
                 /\ \A i \in DOMAIN x.chain : passed(i)
                 /\ x.fate[x.chain[Len(x.chain)]] = IF kind = "circuit_open" THEN "refused" ELSE "failed"

\* A body is one provider's: once a chunk of it is out, no other provider is
\* called for this request, whatever becomes of the stream (ADR-032).
NoSplice == \A r \in Callers :
               req[r].source # {} => \E p \in Providers : /\ req[r].source = {p}
                                                         /\ req[r].open \subseteq {p}
                                                         /\ At(req[r]) = p

\* The caller is told it is at fault (400, 404) only for a request no rule
\* routes, no dialect expresses or a vendor found wrong.  A vendor's 401 is
\* our key, its 408 our upstream's slowness (routes.py:91-97).
CallerNotBlamed ==
    \A r \in Callers :
        LET why == req[r].error
        IN (/\ req[r].at = "done" /\ req[r].source = {}
            /\ why.what \notin {"none", "cancelled"}
            /\ FailureStatus(KindOf(why)) \in {400, 404})
           => \/ why.what \in {"unroutable", "inexpressible"}
              \/ why.status \in 400 .. 499 \ {401, 403, 408, 429}

\* Whatever way a request ends, and while it sleeps between attempts, it has
\* no call open with any provider of its chain (ADR-019).
NoCallLeftOpen == \A r \in Callers : req[r].at \in Ended \cup {"backoff"} => req[r].open = {}

\* One vendor's outage opens no other vendor's circuit (routing.py:240-243):
\* a breaker counts, opens or closes only in a step in which a request that
\* was calling its provider was served by it or gave up on it, whichever
\* chains brought the requests there.
VerdictsStayHome ==
    [][\A p \in Providers :
          (\/ brk'[p].failures # brk[p].failures
           \/ brk'[p].window # brk[p].window
           \/ brk'[p].state # brk[p].state /\ brk'[p].state # "half_open")
          => \E r \in Callers : /\ req[r].at = "calling" /\ At(req[r]) = p
                                /\ req'[r].fate[p] \in {"served", "failed"}]_vars

\* Every member's breaker keeps its promise, with requests coming and going
\* by several chains at once: seen from one provider, a step of any request
\* is a step of UpstreamGate or a stutter.
Gate(p) == INSTANCE UpstreamGate
           WITH Nobody <- NoPermit,
                state <- brk[p].state,
                shut <- brk[p].left > 0,
                probe <- brk[p].trial,
                upstream <- {r \in Callers : req[r].at = "calling" /\ At(req[r]) = p}

KeepsGates == /\ \A p \in Providers : Gate(p)!Init
              /\ [][\A p \in Providers : Gate(p)!Next \/ UNCHANGED Gate(p)!vars]_vars

=============================================================================
