------------------------------- MODULE Caches -------------------------------
(***************************************************************************)
(* The two cache tiers behind POST /v1/chat/completions: the exact one in  *)
(* Redis (cache.py) and the semantic one in this process (semantic.py),    *)
(* consulted, filled and promoted into one another by the route            *)
(* (routes.py:231-324).  One action per stretch of code between awaits, so *)
(* any number of requests of several tenants interleave with each other,   *)
(* with expiry, with an embedder that changes its dimension, with Redis    *)
(* failing at any call and with a restart of the process.                  *)
(*                                                                         *)
(* Settlement and cancellation of the route are ChatCompletion's subject:  *)
(* here a request may leave at any await.                                  *)
(***************************************************************************)
EXTENDS Integers, Sequences

CONSTANTS
    Requests,       \* the tasks that serve requests, one request at a time
    Tenants,        \* key ids
    Paths,          \* routes
    Shapes,         \* everything in a request but its words
    Prompts,        \* message lists
    Texts, NoText,
    Text,           \* prompt_text: the one string embedded, or NoText
    Score,          \* similarity of two texts under one embedder
    Threshold,      \* the least similarity that is the same question
    Asks,           \* the requests that may arrive
    Ttls,           \* VORTEX_CACHE_TTLS
    DefaultTtl,     \* VORTEX_CACHE_TTL_SECONDS
    Scope,          \* VORTEX_CACHE_SCOPE
    HasRedis,       \* the exact tier is configured
    HasEmbedder,    \* the semantic tier is configured
    Dims,           \* the dimensions the embedding server may answer with
    InitialCapacity,
    Everyone, Absent, NoKey, NoIndex, NoDim, NoAnswer,
    MaxCalls        \* bound: answers generated

VARIABLES
    exact,          \* Redis: [Keys -> Entry or Absent]
    near,           \* this process: [Namespaces -> Index]
    dim,            \* the dimension the embedding server answers with now
    req,            \* each task's request
    calls           \* answers generated so far

vars == <<exact, near, dim, req, calls>>

-----------------------------------------------------------------------------
Ask == [tenant : Tenants, path : Paths, shape : Shapes, prompt : Prompts,
        stream : BOOLEAN, bypass : BOOLEAN]

\* What parse_cache_ttls can return: a table of some paths, never negative.
ParsedTtls(table) == DOMAIN table \subseteq Paths /\ \A path \in DOMAIN table : table[path] \in Nat

ASSUME CachesAssumption ==
    /\ Asks \subseteq Ask
    /\ NoText \notin Texts /\ Text \in [Prompts -> Texts \cup {NoText}]
    /\ Score \in [Texts -> [Texts -> Int]]
    /\ NoDim \notin Dims
    /\ ParsedTtls(Ttls) /\ DefaultTtl \in Int
    /\ Scope \in {"key", "global"}
    /\ HasRedis \in BOOLEAN /\ HasEmbedder \in BOOLEAN
    /\ InitialCapacity \in Nat \ {0}
    /\ Everyone \notin Tenants
    /\ MaxCalls \in Nat

\* A threshold that is not a similarity two prompts can reach is refused.
ASSUME ThresholdAssumption == Threshold \in Int /\ \A t \in Texts : Score[t][t] >= Threshold

TtlFor(path) == IF path \in DOMAIN Ttls THEN Ttls[path] ELSE DefaultTtl

\* The caller's namespace, in both tiers.
Space(a) == IF Scope = "global" THEN Everyone ELSE a.tenant
Spaces == IF Scope = "global" THEN {Everyone} ELSE Tenants

\* canonical_payload drops the fields that cannot change a token; what is
\* left, in canonical form, is the shape and the words.
Digest(a) == <<a.shape, a.prompt>>
KeyFor(a) == <<Space(a), a.path, Digest(a)>>
Keys == {KeyFor(a) : a \in Asks}

\* Mutant: one index for every model and every parameter.
NamespaceForShapeless(a) == <<Space(a), a.path, CHOOSE s \in Shapes : TRUE>>

\* Two vectors are compared only inside one namespace.
NamespaceFor(a) == <<Space(a), a.path, a.shape>>
Namespaces == {<<space, path, shape>> : space \in Spaces, path \in Paths, shape \in Shapes}

OptedOut(a) == a.stream \/ TtlFor(a.path) <= 0 \/ a.bypass
Incomparable(a) == a.stream \/ Text[a.prompt] = NoText \/ a.bypass

-----------------------------------------------------------------------------
(* VectorIndex: rows of one dimension in a block that doubles when full. *)
EmptyIndex == [dim |-> NoDim, capacity |-> 0, rows |-> <<>>]

\* Mutant: a vector of any dimension is taken.
FittingAnything(index, vector) == TRUE

\* Of the index's dimension, or the first.
Fitting(index, vector) == index.dim \in {NoDim, vector.dim}

\* add: only for a vector that fits; otherwise it raises.
Add(index, vector, answer) ==
    LET block == IF index.dim = NoDim THEN InitialCapacity ELSE index.capacity
    IN [dim |-> IF index.dim = NoDim THEN vector.dim ELSE index.dim,
        capacity |-> IF Len(index.rows) = block THEN 2 * block ELSE block,
        rows |-> Append(index.rows, [vector |-> vector, answer |-> answer])]

ScoreAt(index, i, vector) == Score[index.rows[i].vector.text][vector.text]

\* nearest: the first of the rows with the highest score.
Nearest(index, vector) ==
    CHOOSE i \in DOMAIN index.rows :
        \A j \in DOMAIN index.rows :
            \/ ScoreAt(index, i, vector) > ScoreAt(index, j, vector)
            \/ ScoreAt(index, i, vector) = ScoreAt(index, j, vector) /\ i <= j

Found(index, vector) ==
    /\ index.rows # <<>>
    /\ ScoreAt(index, Nearest(index, vector), vector) >= Threshold

-----------------------------------------------------------------------------
(* A request.  Lookup and SemanticLookup are carried from the lookup to the *)
(* store: a key or an index is what makes the store more than a no-op.      *)
NotLooked == [outcome |-> "none", key |-> NoKey, index |-> NoIndex, vector |-> NoIndex, answer |-> NoAnswer]
Bypassed == [NotLooked EXCEPT !.outcome = "BYPASS"]
Missed(key) == [NotLooked EXCEPT !.outcome = "MISS", !.key = key]

Idle == [at |-> "idle", ask |-> NoAnswer, first |-> NotLooked, second |-> NotLooked,
         answer |-> NoAnswer]

\* An answer remembers the request it was generated for.
Fresh(a) == [to |-> a]

\* Mutant: the semantic tier decides for itself whom it serves.
OnwardRedecides(x, first) ==
    IF first.answer # NoAnswer THEN Idle
    ELSE [x EXCEPT !.at = IF HasEmbedder /\ ~Incomparable(x.ask) THEN "embedding" ELSE "calling",
                   !.first = first]

\* What the route does once the exact tier has been asked, up to the next
\* await: a hit is served, a bypass goes straight to the provider, and the
\* semantic tier is asked only when the exact one looked and missed, or when
\* there is none.
Onward(x, first) ==
    IF first.answer # NoAnswer
    THEN Idle
    ELSE [x EXCEPT !.at = IF HasEmbedder /\ first.outcome # "BYPASS" /\ ~Incomparable(x.ask)
                          THEN "embedding" ELSE "calling",
                   !.first = first,
                   !.second = IF HasEmbedder /\ (first.outcome = "BYPASS" \/ Incomparable(x.ask))
                              THEN Bypassed ELSE NotLooked]

\* ResponseCache.lookup, taken at the moment Redis answers its GET.  An entry
\* another build wrote in another contract is a miss like any other, and so
\* is a Redis that is down, with a key all the same.
Looked(a, up) ==
    LET entry == exact[KeyFor(a)]
        hit == up /\ entry # Absent /\ entry.readable
    IN IF ~HasRedis THEN NotLooked
       ELSE IF OptedOut(a) THEN Bypassed
       ELSE IF hit THEN [Missed(KeyFor(a)) EXCEPT !.outcome = "HIT", !.answer = entry.answer]
       ELSE Missed(KeyFor(a))

Arrive(r, a, up) ==
    /\ req[r].at = "idle"
    /\ req' = [req EXCEPT ![r] = Onward([Idle EXCEPT !.ask = a], Looked(a, up))]
    /\ UNCHANGED <<exact, near, dim, calls>>

\* The embedder answers and the index is searched, without an await between.
Search(r) ==
    /\ req[r].at = "embedding"
    /\ LET x == req[r]
           ns == NamespaceFor(x.ask)
           vector == [text |-> Text[x.ask.prompt], dim |-> dim]
       IN req' = [req EXCEPT ![r] =
            IF near[ns].rows # <<>> /\ ~Fitting(near[ns], vector)
            THEN [x EXCEPT !.at = "calling", !.second = Missed(NoKey)]
            ELSE IF Found(near[ns], vector)
            THEN [x EXCEPT !.at = "promoting",
                           !.second.outcome = "HIT",
                           !.answer = near[ns].rows[Nearest(near[ns], vector)].answer]
            ELSE [x EXCEPT !.at = "calling",
                           !.second = [Missed(NoKey) EXCEPT !.index = ns, !.vector = vector]]]
    /\ UNCHANGED <<exact, near, dim, calls>>

\* The embedder fails, or gives back no vector or one without a direction.
EmbedFails(r) ==
    /\ req[r].at = "embedding"
    /\ req' = [req EXCEPT ![r].at = "calling", ![r].second = Missed(NoKey)]
    /\ UNCHANGED <<exact, near, dim, calls>>

\* SET key answer EX ttl: none for a request without a key.  `done' says
\* whether Redis did it, which the caller need not learn.
Put(x, answer, done) ==
    exact' = IF x.first.key = NoKey \/ ~done THEN exact
             ELSE [exact EXCEPT ![x.first.key] =
                     [answer |-> answer, left |-> TtlFor(x.ask.path), readable |-> TRUE]]

\* Mutant: a promotion writes the index too.
PromoteIndexes(r, done) ==
    /\ req[r].at = "promoting"
    /\ Put(req[r], req[r].answer, done)
    /\ near' = LET vector == [text |-> Text[req[r].ask.prompt], dim |-> dim]
                   ns == NamespaceFor(req[r].ask)
               IN IF Fitting(near[ns], vector)
                  THEN [near EXCEPT ![ns] = Add(@, vector, req[r].answer)] ELSE near
    /\ req' = [req EXCEPT ![r] = Idle]
    /\ UNCHANGED <<dim, calls>>

\* A semantic hit: settled at zero, then written under the exact key.
Promote(r, done) ==
    /\ req[r].at = "promoting"
    /\ Put(req[r], req[r].answer, done)
    /\ req' = [req EXCEPT ![r] = Idle]
    /\ UNCHANGED <<near, dim, calls>>

\* The provider answers; a stream is relayed and never stored, anything else
\* is settled and then kept under the exact key, if there is one, ...
Call(r, done) ==
    /\ req[r].at = "calling"
    /\ calls < MaxCalls
    /\ calls' = calls + 1
    /\ LET x == [req[r] EXCEPT !.at = "indexing", !.answer = Fresh(req[r].ask)]
       IN IF x.ask.stream
          THEN req' = [req EXCEPT ![r] = Idle] /\ UNCHANGED exact
          ELSE req' = [req EXCEPT ![r] = x] /\ Put(x, x.answer, done)
    /\ UNCHANGED <<near, dim>>

\* ... and then in the index that was searched.  Nothing checks since the
\* lookup that the index still takes a vector of this dimension: if it does
\* not, add raises and an answer that is paid for becomes a 500.
Index(r) ==
    /\ req[r].at = "indexing"
    /\ LET x == req[r]
           kept == x.second.index # NoIndex
           fits == kept /\ Fitting(near[x.second.index], x.second.vector)
       IN /\ near' = IF fits THEN [near EXCEPT ![x.second.index] = Add(@, x.second.vector, x.answer)]
                     ELSE near
          /\ req' = [req EXCEPT ![r] = Idle]
    /\ UNCHANGED <<exact, dim, calls>>

\* A request that fails upstream, or is cancelled at any await.
Leave(r) ==
    /\ req[r].at # "idle"
    /\ req' = [req EXCEPT ![r] = Idle]
    /\ UNCHANGED <<exact, near, dim, calls>>

-----------------------------------------------------------------------------
\* A second passes: Redis drops what has outlived its EX, vectors never go.
Tick ==
    /\ exact' = [k \in Keys |-> IF exact[k] = Absent \/ exact[k].left = 1 THEN Absent
                                ELSE [exact[k] EXCEPT !.left = @ - 1]]
    /\ UNCHANGED <<near, dim, req, calls>>

\* The model behind the embedding server is replaced.
Reembed == /\ dim' \in Dims \ {dim}
           /\ UNCHANGED <<exact, near, req, calls>>

\* The process goes away with its requests and its vectors; Redis stays. If
\* it comes back as another build, what Redis holds may no longer parse.
Restart ==
    /\ near' = [n \in Namespaces |-> EmptyIndex]
    /\ req' = [r \in Requests |-> Idle]
    /\ \/ exact' = exact
       \/ exact' = [k \in Keys |-> IF exact[k] = Absent THEN Absent
                                   ELSE [exact[k] EXCEPT !.readable = FALSE]]
    /\ UNCHANGED <<dim, calls>>

-----------------------------------------------------------------------------
Init == /\ exact = [k \in Keys |-> Absent]
        /\ near = [n \in Namespaces |-> EmptyIndex]
        /\ dim \in Dims
        /\ req = [r \in Requests |-> Idle]
        /\ calls = 0

Step(r) ==
    \/ \E a \in Asks, up \in BOOLEAN : Arrive(r, a, up)
    \/ Search(r) \/ EmbedFails(r)
    \/ \E done \in BOOLEAN : Promote(r, done) \/ Call(r, done)
    \/ Index(r)
    \/ Leave(r)

Next == (\E r \in Requests : Step(r)) \/ Tick \/ Reembed \/ Restart

Spec == Init /\ [][Next]_vars

-----------------------------------------------------------------------------
Answers == [to : Ask]
Vector == [text : Texts, dim : Dims]

\* An index holds vectors of one dimension, each beside the answer to its own
\* words, in the namespace that is searched for them, and no more than its block
\* has rows for.
Coherent(n) ==
    LET index == near[n]
    IN /\ Len(index.rows) <= index.capacity
       /\ \A i \in DOMAIN index.rows :
             LET row == index.rows[i]
             IN /\ row.vector.dim = index.dim
                /\ row.vector.text = Text[row.answer.to.prompt]
                /\ NamespaceFor(row.answer.to) = n

\* The type invariant, with the shape an index keeps however the lookups and
\* stores of several requests interleave with a change of embedder
\* (semantic.py:209-225, 403-413).
TypeOK ==
    /\ exact \in [Keys -> [answer : Answers, left : Nat \ {0}, readable : BOOLEAN] \cup {Absent}]
    /\ \A n \in Namespaces :
          /\ near[n].dim \in Dims \cup {NoDim} /\ near[n].capacity \in Nat
          /\ near[n].rows \in Seq([vector : Vector, answer : Answers])
          /\ Coherent(n)
    /\ dim \in Dims /\ calls \in 0 .. MaxCalls
    /\ \A r \in Requests :
          /\ req[r].at \in {"idle", "embedding", "promoting", "calling", "indexing"}
          /\ req[r].ask \in Asks \cup {NoAnswer}
          /\ req[r].answer \in Answers \cup {NoAnswer}

\* What the caches would serve a request now, or are serving it.
ExactOffers(a) == IF ~HasRedis \/ OptedOut(a) \/ exact[KeyFor(a)] = Absent THEN {}
                  ELSE {exact[KeyFor(a)].answer}
NearOffers(a) ==
    LET index == near[NamespaceFor(a)]
        vector == [text |-> Text[a.prompt], dim |-> index.dim]
    IN IF index.rows = <<>> \/ Incomparable(a) \/ ~Found(index, vector) THEN {}
       ELSE {index.rows[Nearest(index, vector)].answer}
Offers(a) == ExactOffers(a) \cup NearOffers(a)
             \cup {req[r].answer : r \in {r \in Requests : req[r].at = "promoting" /\ req[r].ask = a}}

\* Whatever else is shared, an answer a cache serves was generated for the
\* same route and the same model, parameters and tools, and, unless the
\* deployment says otherwise, under the caller's own key (cache.py:24-29,
\* semantic.py:9-17), by whichever tier and promotion it came.
AnswersStayHome ==
    \A a \in Asks : \A answer \in Offers(a) :
        /\ a.path = answer.to.path /\ a.shape = answer.to.shape
        /\ Scope = "key" => a.tenant = answer.to.tenant

\* Promotion does not make nearness transitive: an answer is only ever
\* served for the very prompt it was generated for or for one the embedder
\* puts within the threshold of it, not for one near to one near to it
\* (routes.py:255-259, ADR-024).
NoDrift ==
    \A a \in Asks : \A answer \in Offers(a) :
        LET there == answer.to.prompt
        IN \/ a.prompt = there
           \/ /\ NoText \notin {Text[a.prompt], Text[there]}
              /\ Score[Text[there]][Text[a.prompt]] >= Threshold

\* With an exact tier, a stream, a caller who opts out and a route that is
\* never cached neither read a cache nor leave anything in one, however the
\* tiers hand the request on (ADR-004, ADR-024, semantic.py:326-329).
Kept == {exact[k].answer : k \in {k \in Keys : exact[k] # Absent}}
        \cup UNION {{near[n].rows[i].answer : i \in DOMAIN near[n].rows} : n \in Namespaces}
OptOutsLeaveNoTrace ==
    HasRedis =>
        /\ \A answer \in Kept : ~OptedOut(answer.to)
        /\ \A r \in Requests : req[r].at \in {"embedding", "promoting"} => ~OptedOut(req[r].ask)

=============================================================================
