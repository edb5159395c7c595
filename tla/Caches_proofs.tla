---------------------------- MODULE Caches_proofs ----------------------------
(***************************************************************************)
(* For any tenants, routes, prompts and embedder, any number of requests   *)
(* and any settings of the two tiers: the types and the shape of every     *)
(* index, that an answer is served only where it belongs and only to a     *)
(* prompt near its own, and that whoever opts out leaves nothing behind.   *)
(***************************************************************************)
EXTENDS Caches, FiniteSetTheorems, TLAPS

Entry == [answer : Answers, left : Nat \ {0}, readable : BOOLEAN]
Row == [vector : Vector, answer : Answers]
VectorIndex == [dim : Dims \cup {NoDim}, capacity : Nat, rows : Seq(Row)]
Lookup == [outcome : {"none", "BYPASS", "MISS", "HIT"}, key : Keys \cup {NoKey},
           index : Namespaces \cup {NoIndex}, vector : Vector \cup {NoIndex},
           answer : Answers \cup {NoAnswer}]
Request == [at : {"idle", "embedding", "promoting", "calling", "indexing"},
            ask : Asks \cup {NoAnswer}, first : Lookup, second : Lookup,
            answer : Answers \cup {NoAnswer}]

Similar(prompt, there) == /\ NoText \notin {Text[prompt], Text[there]}
                          /\ Score[Text[there]][Text[prompt]] >= Threshold

\* What every answer a cache serves must be to the request it is served to.
Serves(a, answer) ==
    /\ Space(a) = Space(answer.to) /\ a.path = answer.to.path /\ a.shape = answer.to.shape
    /\ a.prompt = answer.to.prompt \/ Similar(a.prompt, answer.to.prompt)

\* With an exact tier, whoever got past it had not opted out.
Storable(a) == HasRedis => ~OptedOut(a)

EntryInv(k, entry) ==
    /\ HasRedis /\ ~OptedOut(entry.answer.to)
    /\ \A a \in Asks : KeyFor(a) = k => Serves(a, entry.answer)

IndexInv(n, index) ==
    /\ index.dim = NoDim => index.rows = <<>>
    /\ index.dim # NoDim => index.capacity >= 1
    /\ Len(index.rows) <= index.capacity
    /\ \A i \in DOMAIN index.rows :
          LET row == index.rows[i]
          IN /\ row.vector.dim = index.dim
             /\ row.vector.text = Text[row.answer.to.prompt]
             /\ NamespaceFor(row.answer.to) = n
             /\ Storable(row.answer.to)

\* What a request carries from its lookup to its store: its own key, and its
\* own namespace with its own words, or nothing.
ReqInv(x) ==
    /\ x \in Request
    /\ x.at # "idle" =>
          /\ x.ask \in Asks
          /\ x.first.key \in {NoKey, KeyFor(x.ask)}
          /\ x.first.key # NoKey => HasRedis /\ ~OptedOut(x.ask)
          /\ x.second.index \in {NoIndex, NamespaceFor(x.ask)}
          /\ x.second.index # NoIndex =>
                /\ Storable(x.ask)
                /\ x.second.vector \in Vector /\ x.second.vector.text = Text[x.ask.prompt]
    /\ x.at = "embedding" => ~Incomparable(x.ask) /\ Storable(x.ask)
    /\ x.at = "promoting" => /\ x.answer \in Answers /\ Serves(x.ask, x.answer)
                             /\ Storable(x.ask) /\ Storable(x.answer.to)
    /\ x.at = "indexing" => x.answer = Fresh(x.ask)

IInv ==
    /\ exact \in [Keys -> Entry \cup {Absent}]
    /\ near \in [Namespaces -> VectorIndex]
    /\ dim \in Dims /\ calls \in 0 .. MaxCalls
    /\ req \in [Requests -> Request]
    /\ \A k \in Keys : exact[k] # Absent => EntryInv(k, exact[k])
    /\ \A n \in Namespaces : IndexInv(n, near[n])
    /\ \A r \in Requests : ReqInv(req[r])

-----------------------------------------------------------------------------
(* Names and scores. *)

LEMMA AskFacts ==
  ASSUME NEW a \in Asks
  PROVE  /\ a \in Ask /\ KeyFor(a) \in Keys /\ NamespaceFor(a) \in Namespaces
         /\ TtlFor(a.path) \in Int /\ Text[a.prompt] \in Texts \cup {NoText}
<1>1. a \in Ask
  BY CachesAssumption
<1>2. Space(a) \in Spaces /\ a.path \in Paths /\ a.shape \in Shapes /\ a.prompt \in Prompts
  BY <1>1 DEF Ask, Space, Spaces
<1>3. TtlFor(a.path) \in Int
  BY <1>2, CachesAssumption DEF TtlFor, ParsedTtls
<1>4. QED
  BY <1>1, <1>2, <1>3, CachesAssumption DEF Keys, NamespaceFor, Namespaces

\* A key says all that decides what may be served under it.
LEMMA SameKey ==
  ASSUME NEW a, NEW b, KeyFor(a) = KeyFor(b), NEW answer, Serves(a, answer)
  PROVE  Serves(b, answer)
  BY DEF KeyFor, Digest, Serves

\* Among finitely many rows one is the first of those with the best score.
LEMMA BestRow ==
  ASSUME NEW n \in Nat, n >= 1, NEW score \in [1 .. n -> Int]
  PROVE  \E i \in 1 .. n : \A j \in 1 .. n :
            score[i] > score[j] \/ (score[i] = score[j] /\ i <= j)
<1> DEFINE S == 1 .. n
           Better(i) == {j \in S : score[j] > score[i] \/ (score[j] = score[i] /\ j < i)}
           F == {Better(i) : i \in S}
<1>1. IsWellFoundedOn(StrictSubsetOrdering(S), SUBSET S)
  <2>1. IsFiniteSet(S)
    BY FS_Interval
  <2>2. QED
    BY <2>1, FS_StrictSubsetOrderingWellFounded, FS_FiniteSubsetsOfFinite
<1>2. F \subseteq SUBSET S /\ F # {}
  <2>1. \A i \in S : Better(i) \subseteq S
    OBVIOUS
  <2>2. 1 \in S
    OBVIOUS
  <2> HIDE DEF Better
  <2>3. F \subseteq SUBSET S
    BY <2>1
  <2>4. Better(1) \in F
    BY <2>2
  <2>5. QED
    BY <2>3, <2>4
<1> HIDE DEF F
<1>3. PICK least \in F : \A other \in F : <<other, least>> \notin StrictSubsetOrdering(S)
  BY <1>1, <1>2, WFMin
<1>4. PICK i \in S : least = Better(i)
  BY DEF F
<1>5. ASSUME NEW j \in Better(i) PROVE FALSE
  <2>1. j \in S /\ j \notin Better(j)
    OBVIOUS
  <2>2. Better(j) \subseteq Better(i)
    BY <1>5, <2>1
  <2>3. Better(j) \in F
    BY <2>1 DEF F
  <2>4. Better(j) # Better(i)
    BY <1>5, <2>1
  <2>5. <<Better(j), Better(i)>> \in StrictSubsetOrdering(S)
    BY <2>2, <2>4, <1>2, <2>3, <1>4 DEF StrictSubsetOrdering
  <2>6. QED
    BY <1>3, <1>4, <2>3, <2>5
<1>6. ASSUME NEW j \in 1 .. n
      PROVE  score[i] > score[j] \/ (score[i] = score[j] /\ i <= j)
  <2>1. ~(score[j] > score[i]) /\ ~(score[j] = score[i] /\ j < i)
    BY <1>5
  <2>2. score[i] \in Int /\ score[j] \in Int /\ i \in Int /\ j \in Int
    OBVIOUS
  <2>3. QED
    BY <2>1, <2>2
<1>7. QED
  BY <1>6

\* nearest finds a row, and no row scores better.
LEMMA NearestFacts ==
  ASSUME NEW index \in VectorIndex, index.rows # <<>>, NEW vector, vector.text \in Texts
  PROVE  Nearest(index, vector) \in DOMAIN index.rows
<1>1. /\ index.rows \in Seq(Row) /\ Len(index.rows) \in Nat /\ Len(index.rows) >= 1
      /\ DOMAIN index.rows = 1 .. Len(index.rows)
  BY DEF VectorIndex
<1>2. PICK score : score = [i \in 1 .. Len(index.rows) |-> ScoreAt(index, i, vector)]
  OBVIOUS
<1>3. score \in [1 .. Len(index.rows) -> Int]
  <2>1. \A i \in 1 .. Len(index.rows) : index.rows[i] \in Row
    BY <1>1
  <2>2. \A i \in 1 .. Len(index.rows) : index.rows[i].vector.text \in Texts
    BY <2>1 DEF Row, Vector
  <2>3. QED
    BY <1>2, <2>2, CachesAssumption DEF ScoreAt
<1>4. PICK i \in 1 .. Len(index.rows) : \A j \in 1 .. Len(index.rows) :
         score[i] > score[j] \/ (score[i] = score[j] /\ i <= j)
  BY <1>1, <1>3, BestRow
<1>5. \E k \in DOMAIN index.rows : \A j \in DOMAIN index.rows :
         \/ ScoreAt(index, k, vector) > ScoreAt(index, j, vector)
         \/ ScoreAt(index, k, vector) = ScoreAt(index, j, vector) /\ k <= j
  BY <1>1, <1>2, <1>4
<1>6. QED
  BY <1>5 DEF Nearest

\* What a search of the asker's own namespace finds may be served to it.
LEMMA FoundServes ==
  ASSUME NEW a \in Asks, Text[a.prompt] # NoText, NEW index \in VectorIndex,
         IndexInv(NamespaceFor(a), index), NEW vector, vector.text = Text[a.prompt],
         Found(index, vector)
  PROVE  LET answer == index.rows[Nearest(index, vector)].answer
         IN answer \in Answers /\ Serves(a, answer) /\ Storable(answer.to)
<1>1. Text[a.prompt] \in Texts
  BY AskFacts
<1>2. PICK i : i = Nearest(index, vector)
  OBVIOUS
<1>3. i \in DOMAIN index.rows /\ ScoreAt(index, i, vector) >= Threshold
  BY <1>1, <1>2, NearestFacts DEF Found
<1>4. PICK row : row = index.rows[i]
  OBVIOUS
<1>5. row \in Row
  BY <1>3, <1>4 DEF VectorIndex
<1>6. /\ row.answer \in Answers /\ row.vector.text \in Texts
  BY <1>5 DEF Row, Vector
<1>7. /\ row.vector.text = Text[row.answer.to.prompt]
      /\ NamespaceFor(row.answer.to) = NamespaceFor(a)
      /\ Storable(row.answer.to)
  BY <1>3, <1>4 DEF IndexInv
<1>8. Score[Text[row.answer.to.prompt]][Text[a.prompt]] >= Threshold
  BY <1>3, <1>4, <1>7 DEF ScoreAt
<1>9. Similar(a.prompt, row.answer.to.prompt)
  BY <1>1, <1>6, <1>7, <1>8, CachesAssumption DEF Similar
<1>10. Serves(a, row.answer)
  BY <1>7, <1>9 DEF Serves, NamespaceFor
<1>11. QED
  BY <1>2, <1>4, <1>6, <1>7, <1>10

-----------------------------------------------------------------------------
(* One request's step: the others keep what they carry. *)

LEMMA ReqStep ==
  ASSUME IInv, NEW r \in Requests, NEW x, ReqInv(x), req' = [req EXCEPT ![r] = x]
  PROVE  req' \in [Requests -> Request] /\ \A s \in Requests : ReqInv(req'[s])
  BY DEF IInv, ReqInv

LEMMA IdleFacts == ReqInv(Idle) /\ NotLooked \in Lookup /\ Bypassed \in Lookup
                   /\ Missed(NoKey) \in Lookup
<1>1. NotLooked \in Lookup
  BY DEF NotLooked, Lookup
<1>2. Bypassed \in Lookup /\ Missed(NoKey) \in Lookup
  BY DEF Bypassed, Missed, NotLooked, Lookup
<1>3. QED
  BY <1>1, <1>2 DEF Idle, ReqInv, Request

\* A lookup in the exact tier: nothing at all, a bypass, or the asker's key.
LEMMA LookedFacts ==
  ASSUME IInv, NEW a \in Asks, NEW up \in BOOLEAN
  PROVE  LET first == Looked(a, up)
         IN /\ first \in Lookup /\ first.key \in {NoKey, KeyFor(a)}
            /\ first.key # NoKey => HasRedis /\ ~OptedOut(a)
            /\ first.outcome # "BYPASS" => Storable(a)
<1>1. KeyFor(a) \in Keys
  BY AskFacts
<1>2. CASE ~HasRedis
  BY <1>2, IdleFacts DEF Looked, NotLooked, Storable
<1>3. CASE HasRedis /\ OptedOut(a)
  BY <1>3, IdleFacts DEF Looked, Bypassed, NotLooked
<1>4. CASE HasRedis /\ ~OptedOut(a)
  <2>1. PICK entry : entry = exact[KeyFor(a)]
    OBVIOUS
  <2>2. /\ Missed(KeyFor(a)) \in Lookup /\ Missed(KeyFor(a)).key = KeyFor(a)
    BY <1>1 DEF Missed, NotLooked, Lookup
  <2>3. CASE up /\ entry # Absent /\ entry.readable
    <3>1. entry.answer \in Answers
      BY <1>1, <2>1, <2>3 DEF IInv, Entry
    <3>2. Looked(a, up) = [Missed(KeyFor(a)) EXCEPT !.outcome = "HIT", !.answer = entry.answer]
      BY <1>4, <2>1, <2>3 DEF Looked
    <3>3. QED
      BY <1>4, <2>2, <3>1, <3>2 DEF Lookup, Storable
  <2>4. CASE ~(up /\ entry # Absent /\ entry.readable)
    <3>1. Looked(a, up) = Missed(KeyFor(a))
      BY <1>4, <2>1, <2>4 DEF Looked
    <3>2. QED
      BY <1>4, <2>2, <3>1 DEF Storable
  <2>5. QED
    BY <2>3, <2>4
<1>5. QED
  BY <1>2, <1>3, <1>4

\* The semantic tier is asked only for a request the exact one let through.
LEMMA OnwardFacts ==
  ASSUME NEW a \in Asks, NEW first \in Lookup, first.key \in {NoKey, KeyFor(a)},
         first.key # NoKey => HasRedis /\ ~OptedOut(a),
         first.outcome # "BYPASS" => Storable(a)
  PROVE  ReqInv(Onward([Idle EXCEPT !.ask = a], first))
<1>1. CASE first.answer # NoAnswer
  BY <1>1, IdleFacts DEF Onward
<1>2. CASE first.answer = NoAnswer
  <2>1. PICK at \in {"embedding", "calling"}, second \in {Bypassed, NotLooked} :
           /\ Onward([Idle EXCEPT !.ask = a], first)
                 = [[Idle EXCEPT !.ask = a] EXCEPT !.at = at, !.first = first, !.second = second]
           /\ at = "embedding" => first.outcome # "BYPASS" /\ ~Incomparable(a)
    BY <1>2 DEF Onward, Idle
  <2>2. PICK x : x = [[Idle EXCEPT !.ask = a] EXCEPT !.at = at, !.first = first, !.second = second]
    OBVIOUS
  <2>3. second \in Lookup /\ second.index = NoIndex
    BY IdleFacts DEF Bypassed, NotLooked
  <2>4. /\ x \in Request /\ x.at = at /\ x.ask = a /\ x.first = first /\ x.second = second
    BY <2>2, <2>3, IdleFacts DEF Idle, Request
  <2>5. ReqInv(x)
    BY <2>1, <2>3, <2>4 DEF ReqInv
  <2>6. QED
    BY <2>1, <2>2, <2>5
<1>3. QED
  BY <1>1, <1>2

LEMMA ArriveInv ==
  ASSUME IInv, NEW r \in Requests, NEW a \in Asks, NEW up \in BOOLEAN, Arrive(r, a, up)
  PROVE  IInv'
<1>1. PICK x : x = Onward([Idle EXCEPT !.ask = a], Looked(a, up))
  OBVIOUS
<1>2. ReqInv(x)
  BY <1>1, LookedFacts, OnwardFacts
<1>3. req' = [req EXCEPT ![r] = x]
  BY <1>1 DEF Arrive
<1>4. QED
  BY <1>2, <1>3, ReqStep DEF Arrive, IInv

\* A search ends in a miss with or without a place to store, or in a find.
LEMMA SearchInv ==
  ASSUME IInv, NEW r \in Requests, Search(r)
  PROVE  IInv'
<1>1. PICK x : x = req[r]
  OBVIOUS
<1>2. ReqInv(x) /\ x.at = "embedding" /\ x \in Request /\ x.ask \in Asks
      /\ ~Incomparable(x.ask) /\ Storable(x.ask)
  BY <1>1 DEF IInv, Search, ReqInv
<1>3. PICK ns \in Namespaces : ns = NamespaceFor(x.ask)
  BY <1>2, AskFacts
<1>4. PICK vector : vector = [text |-> Text[x.ask.prompt], dim |-> dim]
  OBVIOUS
<1>5. vector \in Vector /\ vector.text = Text[x.ask.prompt] /\ Text[x.ask.prompt] # NoText
  BY <1>2, <1>4, AskFacts DEF Vector, IInv, Incomparable
<1>6. near[ns] \in VectorIndex /\ IndexInv(ns, near[ns])
  BY DEF IInv
<1>7. PICK y : /\ req' = [req EXCEPT ![r] = y]
               /\ \/ y = [x EXCEPT !.at = "calling", !.second = Missed(NoKey)]
                  \/ /\ Found(near[ns], vector)
                     /\ y = [x EXCEPT !.at = "promoting", !.second.outcome = "HIT",
                                      !.answer = near[ns].rows[Nearest(near[ns], vector)].answer]
                  \/ y = [x EXCEPT !.at = "calling",
                                   !.second = [Missed(NoKey) EXCEPT !.index = ns, !.vector = vector]]
  BY <1>1, <1>3, <1>4 DEF Search
<1>8. CASE y = [x EXCEPT !.at = "calling", !.second = Missed(NoKey)]
  <2>1. /\ y \in Request /\ y.at = "calling" /\ y.ask = x.ask /\ y.first = x.first
        /\ y.second = Missed(NoKey)
    BY <1>2, <1>8, IdleFacts DEF Request
  <2>2. Missed(NoKey).index = NoIndex
    BY DEF Missed, NotLooked
  <2>3. ReqInv(y)
    BY <1>2, <2>1, <2>2 DEF ReqInv
  <2>4. QED
    BY <1>7, <2>3, ReqStep DEF Search, IInv
<1>9. CASE /\ Found(near[ns], vector)
           /\ y = [x EXCEPT !.at = "promoting", !.second.outcome = "HIT",
                            !.answer = near[ns].rows[Nearest(near[ns], vector)].answer]
  <2>1. PICK answer : answer = near[ns].rows[Nearest(near[ns], vector)].answer
    OBVIOUS
  <2>2. answer \in Answers /\ Serves(x.ask, answer) /\ Storable(answer.to)
    BY <1>2, <1>3, <1>5, <1>6, <1>9, <2>1, FoundServes
  <2>3. PICK second : second = [x.second EXCEPT !.outcome = "HIT"]
    OBVIOUS
  <2>4. second \in Lookup /\ second.index = x.second.index /\ second.vector = x.second.vector
    <3>1. x.second \in Lookup
      BY <1>2 DEF Request
    <3>2. QED
      BY <2>3, <3>1 DEF Lookup
  <2>5. y = [x EXCEPT !.at = "promoting", !.second = second, !.answer = answer]
    BY <1>2, <1>9, <2>1, <2>3 DEF Request
  <2>6. /\ y \in Request /\ y.at = "promoting" /\ y.ask = x.ask /\ y.first = x.first
        /\ y.second = second /\ y.answer = answer
    BY <1>2, <2>2, <2>4, <2>5 DEF Request
  <2>7. ReqInv(y)
    BY <1>2, <2>2, <2>4, <2>6 DEF ReqInv
  <2>8. QED
    BY <1>7, <2>7, ReqStep DEF Search, IInv
<1>10. CASE y = [x EXCEPT !.at = "calling",
                          !.second = [Missed(NoKey) EXCEPT !.index = ns, !.vector = vector]]
  <2>1. PICK second : second = [Missed(NoKey) EXCEPT !.index = ns, !.vector = vector]
    OBVIOUS
  <2>2. second \in Lookup /\ second.index = ns /\ second.vector = vector
    BY <1>5, <2>1, IdleFacts DEF Lookup
  <2>3. y \in Request /\ y.at = "calling" /\ y.ask = x.ask /\ y.first = x.first /\ y.second = second
    BY <1>2, <1>10, <2>1, <2>2 DEF Request
  <2>4. ReqInv(y)
    BY <1>2, <1>3, <1>5, <2>2, <2>3 DEF ReqInv
  <2>5. QED
    BY <1>7, <2>4, ReqStep DEF Search, IInv
<1>11. QED
  BY <1>7, <1>8, <1>9, <1>10

LEMMA EmbedFailsInv ==
  ASSUME IInv, NEW r \in Requests, EmbedFails(r)
  PROVE  IInv'
<1>1. PICK x : x = req[r]
  OBVIOUS
<1>2. ReqInv(x) /\ x \in Request /\ x.at = "embedding"
  BY <1>1 DEF IInv, EmbedFails, ReqInv
<1>3. PICK y : y = [x EXCEPT !.at = "calling", !.second = Missed(NoKey)]
  OBVIOUS
<1>4. /\ y \in Request /\ y.at = "calling" /\ y.ask = x.ask /\ y.first = x.first
      /\ y.second = Missed(NoKey) /\ Missed(NoKey).index = NoIndex
  BY <1>2, <1>3, IdleFacts DEF Request, Missed, NotLooked
<1>5. ReqInv(y)
  BY <1>2, <1>4 DEF ReqInv
<1>6. req' = [req EXCEPT ![r] = y]
  BY <1>1, <1>2, <1>3 DEF EmbedFails, IInv, Request
<1>7. QED
  BY <1>5, <1>6, ReqStep DEF EmbedFails, IInv

-----------------------------------------------------------------------------
(* The stores. *)

\* An answer that may be served to whoever asks is put under that ask's key.
LEMMA PutInv ==
  ASSUME IInv, NEW x, x.ask \in Asks, x.first.key \in {NoKey, KeyFor(x.ask)},
         x.first.key # NoKey => HasRedis /\ ~OptedOut(x.ask),
         NEW answer \in Answers, Serves(x.ask, answer), Storable(answer.to),
         NEW done \in BOOLEAN, Put(x, answer, done)
  PROVE  /\ exact' \in [Keys -> Entry \cup {Absent}]
         /\ \A k \in Keys : exact'[k] # Absent => EntryInv(k, exact'[k])
<1>1. CASE x.first.key = NoKey \/ ~done
  BY <1>1 DEF Put, IInv
<1>2. CASE x.first.key # NoKey /\ done
  <2>1. PICK entry : entry = [answer |-> answer, left |-> TtlFor(x.ask.path), readable |-> TRUE]
    OBVIOUS
  <2>2. PICK key : key = KeyFor(x.ask)
    OBVIOUS
  <2>3. exact' = [exact EXCEPT ![key] = entry]
    BY <1>2, <2>1, <2>2 DEF Put
  <2>4. TtlFor(x.ask.path) \in Nat \ {0}
    BY <1>2, AskFacts DEF OptedOut
  <2>5. entry \in Entry /\ entry.answer = answer
    BY <2>1, <2>4 DEF Entry
  <2>6. \A a \in Asks : KeyFor(a) = key => Serves(a, answer)
    BY <2>2, SameKey
  <2>7. EntryInv(key, entry)
    BY <1>2, <2>5, <2>6 DEF EntryInv, Storable
  <2>8. key \in Keys
    BY <2>2, AskFacts
  <2>9. exact \in [Keys -> Entry \cup {Absent}]
        /\ \A k \in Keys : exact[k] # Absent => EntryInv(k, exact[k])
    BY DEF IInv
  <2>10. QED
    BY <2>3, <2>5, <2>7, <2>8, <2>9
<1>3. QED
  BY <1>1, <1>2

LEMMA PromoteInv ==
  ASSUME IInv, NEW r \in Requests, NEW done \in BOOLEAN, Promote(r, done)
  PROVE  IInv'
<1>1. PICK x : x = req[r]
  OBVIOUS
<1>2. ReqInv(x) /\ x.at = "promoting"
  BY <1>1 DEF IInv, Promote
<1>3. Put(x, x.answer, done)
  BY <1>1 DEF Promote
<1>4. /\ exact' \in [Keys -> Entry \cup {Absent}]
      /\ \A k \in Keys : exact'[k] # Absent => EntryInv(k, exact'[k])
  BY <1>2, <1>3, PutInv DEF ReqInv
<1>5. req' \in [Requests -> Request] /\ \A s \in Requests : ReqInv(req'[s])
  BY IdleFacts, ReqStep DEF Promote
<1>6. QED
  BY <1>4, <1>5 DEF Promote, IInv

\* A fresh answer may be served to whoever asked for it.
LEMMA FreshServes ==
  ASSUME NEW a \in Asks
  PROVE  Fresh(a) \in Answers /\ Fresh(a).to = a /\ Serves(a, Fresh(a))
  BY AskFacts DEF Fresh, Answers, Serves

LEMMA CallInv ==
  ASSUME IInv, NEW r \in Requests, NEW done \in BOOLEAN, Call(r, done)
  PROVE  IInv'
<1>1. PICK old : old = req[r]
  OBVIOUS
<1>2. ReqInv(old) /\ old.at = "calling" /\ old \in Request /\ old.ask \in Asks
  BY <1>1 DEF IInv, Call, ReqInv
<1>3. PICK x : x = [old EXCEPT !.at = "indexing", !.answer = Fresh(old.ask)]
  OBVIOUS
<1>4. /\ x \in Request /\ x.at = "indexing" /\ x.ask = old.ask /\ x.first = old.first
      /\ x.second = old.second /\ x.answer = Fresh(x.ask)
  BY <1>2, <1>3, FreshServes DEF Request
<1>5. ReqInv(x)
  BY <1>2, <1>4 DEF ReqInv
<1>6. calls' \in 0 .. MaxCalls
  BY CachesAssumption DEF Call, IInv
<1>7. near' = near /\ dim' = dim
  BY DEF Call
<1>8. CASE x.ask.stream
  <2>1. req' = [req EXCEPT ![r] = Idle] /\ exact' = exact
    BY <1>1, <1>3, <1>8 DEF Call
  <2>2. QED
    BY <1>6, <1>7, <2>1, IdleFacts, ReqStep DEF IInv
<1>9. CASE ~x.ask.stream
  <2>1. req' = [req EXCEPT ![r] = x] /\ Put(x, x.answer, done)
    BY <1>1, <1>3, <1>9 DEF Call
  <2>2. x.answer \in Answers /\ Serves(x.ask, x.answer) /\ x.answer.to = x.ask
    BY <1>2, <1>4, FreshServes
  <2>3. /\ exact' \in [Keys -> Entry \cup {Absent}]
        /\ \A k \in Keys : exact'[k] # Absent => EntryInv(k, exact'[k])
    <3>1. CASE x.first.key = NoKey
      BY <2>1, <3>1 DEF Put, IInv
    <3>2. CASE x.first.key # NoKey
      <4>1. Storable(x.answer.to)
        BY <1>4, <1>5, <2>2, <3>2 DEF ReqInv, Storable
      <4>2. QED
        BY <1>4, <1>5, <2>1, <2>2, <4>1, PutInv DEF ReqInv
    <3>3. QED
      BY <3>1, <3>2
  <2>4. QED
    BY <1>5, <1>6, <1>7, <2>1, <2>3, ReqStep DEF IInv
<1>10. QED
  BY <1>8, <1>9

\* An index that takes a vector has room for it, and its rows one dimension.
LEMMA AddInv ==
  ASSUME NEW n, NEW index \in VectorIndex, IndexInv(n, index), NEW vector \in Vector,
         Fitting(index, vector), NEW answer \in Answers,
         vector.text = Text[answer.to.prompt], NamespaceFor(answer.to) = n, Storable(answer.to)
  PROVE  Add(index, vector, answer) \in VectorIndex /\ IndexInv(n, Add(index, vector, answer))
<1>1. PICK block : block = IF index.dim = NoDim THEN InitialCapacity ELSE index.capacity
  OBVIOUS
<1>2. PICK row : row = [vector |-> vector, answer |-> answer]
  OBVIOUS
<1>3. PICK rows : rows = Append(index.rows, row)
  OBVIOUS
<1>4. PICK capacity : capacity = IF Len(index.rows) = block THEN 2 * block ELSE block
  OBVIOUS
<1>5. PICK y : y = Add(index, vector, answer)
  OBVIOUS
<1>6. vector.dim \in Dims /\ vector.dim # NoDim
  BY CachesAssumption DEF Vector
<1>7. y = [dim |-> vector.dim, capacity |-> capacity, rows |-> rows]
  <2>1. vector.dim = IF index.dim = NoDim THEN vector.dim ELSE index.dim
    BY <1>6 DEF Fitting
  <2>2. QED
    BY <1>1, <1>2, <1>3, <1>4, <1>5, <2>1 DEF Add
<1>8. /\ index.rows \in Seq(Row) /\ Len(index.rows) \in Nat /\ index.capacity \in Nat
      /\ row \in Row /\ row.vector = vector /\ row.answer = answer
  BY <1>2 DEF VectorIndex, Row
<1>9. /\ rows \in Seq(Row) /\ Len(rows) = Len(index.rows) + 1
      /\ DOMAIN rows = 1 .. Len(index.rows) + 1 /\ DOMAIN index.rows = 1 .. Len(index.rows)
      /\ rows[Len(index.rows) + 1] = row
      /\ \A i \in 1 .. Len(index.rows) : rows[i] = index.rows[i]
  BY <1>3, <1>8
<1>10. block \in Nat /\ block >= 1 /\ Len(index.rows) <= block
  BY <1>1, <1>8, CachesAssumption DEF IndexInv
<1>11. capacity \in Nat /\ capacity >= 1 /\ Len(rows) <= capacity
  BY <1>4, <1>8, <1>9, <1>10
<1>12. /\ y \in VectorIndex /\ y.dim = vector.dim /\ y.capacity = capacity /\ y.rows = rows
  BY <1>6, <1>7, <1>9, <1>11 DEF VectorIndex
<1>13. ASSUME NEW i \in DOMAIN rows
       PROVE  /\ rows[i].vector.dim = vector.dim
              /\ rows[i].vector.text = Text[rows[i].answer.to.prompt]
              /\ NamespaceFor(rows[i].answer.to) = n
              /\ Storable(rows[i].answer.to)
  <2>1. CASE i = Len(index.rows) + 1
    BY <1>8, <1>9, <2>1
  <2>2. CASE i \in 1 .. Len(index.rows)
    <3>1. index.dim # NoDim
      BY <1>8, <1>9, <2>2 DEF IndexInv
    <3>2. index.dim = vector.dim
      BY <3>1 DEF Fitting
    <3>3. QED
      BY <1>9, <2>2, <3>2 DEF IndexInv
  <2>3. QED
    BY <1>8, <1>9, <2>1, <2>2
<1>14. IndexInv(n, y)
  BY <1>6, <1>11, <1>12, <1>13 DEF IndexInv
<1>15. QED
  BY <1>5, <1>12, <1>14

LEMMA IndexStoreInv ==
  ASSUME IInv, NEW r \in Requests, Index(r)
  PROVE  IInv'
<1>1. PICK x : x = req[r]
  OBVIOUS
<1>2. ReqInv(x) /\ x.at = "indexing" /\ x.ask \in Asks
  BY <1>1 DEF IInv, Index, ReqInv
<1>3. req' \in [Requests -> Request] /\ \A s \in Requests : ReqInv(req'[s])
  BY IdleFacts, ReqStep DEF Index
<1>4. CASE near' = near
  BY <1>3, <1>4 DEF Index, IInv
<1>5. CASE /\ x.second.index # NoIndex /\ Fitting(near[x.second.index], x.second.vector)
           /\ near' = [near EXCEPT ![x.second.index] = Add(@, x.second.vector, x.answer)]
  <2>1. PICK n : n = NamespaceFor(x.ask)
    OBVIOUS
  <2>2. n \in Namespaces /\ x.second.index = n
    BY <1>2, <1>5, <2>1, AskFacts DEF ReqInv
  <2>3. /\ x.second.vector \in Vector /\ x.second.vector.text = Text[x.ask.prompt]
        /\ Storable(x.ask) /\ x.answer = Fresh(x.ask)
    BY <1>2, <1>5 DEF ReqInv
  <2>4. x.answer \in Answers /\ x.answer.to = x.ask
    BY <1>2, <2>3, FreshServes
  <2>5. near \in [Namespaces -> VectorIndex] /\ \A m \in Namespaces : IndexInv(m, near[m])
    BY DEF IInv
  <2>6. PICK index : index = Add(near[n], x.second.vector, x.answer)
    OBVIOUS
  <2>7. index \in VectorIndex /\ IndexInv(n, index)
    BY <1>5, <2>1, <2>2, <2>3, <2>4, <2>5, <2>6, AddInv
  <2>8. near' = [near EXCEPT ![n] = index]
    BY <1>5, <2>2, <2>6
  <2>9. near' \in [Namespaces -> VectorIndex] /\ \A m \in Namespaces : IndexInv(m, near'[m])
    BY <2>2, <2>5, <2>7, <2>8
  <2>10. QED
    BY <1>3, <2>9 DEF Index, IInv
<1>6. QED
  BY <1>1, <1>4, <1>5 DEF Index

LEMMA LeaveInv ==
  ASSUME IInv, NEW r \in Requests, Leave(r)
  PROVE  IInv'
<1>1. req' \in [Requests -> Request] /\ \A s \in Requests : ReqInv(req'[s])
  BY IdleFacts, ReqStep DEF Leave
<1>2. QED
  BY <1>1 DEF Leave, IInv

-----------------------------------------------------------------------------
(* The clock, the embedding server and the process. *)

LEMMA TickInv ==
  ASSUME IInv, Tick
  PROVE  IInv'
<1>1. exact \in [Keys -> Entry \cup {Absent}]
      /\ \A k \in Keys : exact[k] # Absent => EntryInv(k, exact[k])
  BY DEF IInv
<1>2. ASSUME NEW k \in Keys, exact'[k] # Absent
      PROVE  exact'[k] \in Entry /\ EntryInv(k, exact'[k])
  <2>1. PICK entry : entry = exact[k]
    OBVIOUS
  <2>2. /\ entry # Absent /\ entry \in Entry /\ entry.left # 1
        /\ exact'[k] = [entry EXCEPT !.left = @ - 1]
    BY <1>1, <1>2, <2>1 DEF Tick
  <2>3. entry.left - 1 \in Nat \ {0}
    BY <2>2 DEF Entry
  <2>4. exact'[k] \in Entry /\ exact'[k].answer = entry.answer
    BY <2>2, <2>3 DEF Entry
  <2>5. QED
    BY <1>1, <2>1, <2>2, <2>4 DEF EntryInv
<1>3. exact' \in [Keys -> Entry \cup {Absent}]
  BY <1>2 DEF Tick
<1>4. QED
  BY <1>2, <1>3 DEF Tick, IInv

LEMMA EmptyIndexFacts == EmptyIndex \in VectorIndex /\ \A n : IndexInv(n, EmptyIndex)
  BY DEF EmptyIndex, VectorIndex, IndexInv

LEMMA RestartInv ==
  ASSUME IInv, Restart
  PROVE  IInv'
<1>1. exact \in [Keys -> Entry \cup {Absent}]
      /\ \A k \in Keys : exact[k] # Absent => EntryInv(k, exact[k])
  BY DEF IInv
<1>2. ASSUME NEW k \in Keys, exact'[k] # Absent
      PROVE  exact'[k] \in Entry /\ EntryInv(k, exact'[k])
  <2>1. PICK entry : entry = exact[k]
    OBVIOUS
  <2>2. entry # Absent /\ entry \in Entry /\ exact'[k] \in {entry, [entry EXCEPT !.readable = FALSE]}
    BY <1>1, <1>2, <2>1 DEF Restart
  <2>3. exact'[k] \in Entry /\ exact'[k].answer = entry.answer
    BY <2>2 DEF Entry
  <2>4. QED
    BY <1>1, <2>1, <2>2, <2>3 DEF EntryInv
<1>3. exact' \in [Keys -> Entry \cup {Absent}]
  BY <1>1, <1>2 DEF Restart
<1>4. near' \in [Namespaces -> VectorIndex] /\ \A n \in Namespaces : IndexInv(n, near'[n])
  BY EmptyIndexFacts DEF Restart
<1>5. req' \in [Requests -> Request] /\ \A r \in Requests : ReqInv(req'[r])
  BY IdleFacts DEF Restart, ReqInv
<1>6. QED
  BY <1>2, <1>3, <1>4, <1>5 DEF Restart, IInv

LEMMA InitInv ==
  ASSUME Init
  PROVE  IInv
<1>1. near \in [Namespaces -> VectorIndex] /\ \A n \in Namespaces : IndexInv(n, near[n])
  BY EmptyIndexFacts DEF Init
<1>2. req \in [Requests -> Request] /\ \A r \in Requests : ReqInv(req[r])
  BY IdleFacts DEF Init, ReqInv
<1>3. exact \in [Keys -> Entry \cup {Absent}] /\ \A k \in Keys : exact[k] = Absent
  BY DEF Init
<1>4. QED
  BY <1>1, <1>2, <1>3, CachesAssumption DEF Init, IInv

LEMMA NextInv ==
  ASSUME IInv, [Next]_vars
  PROVE  IInv'
<1>1. CASE UNCHANGED vars
  BY <1>1 DEF vars, IInv
<1>2. CASE Reembed
  BY <1>2 DEF Reembed, IInv
<1>3. CASE \E r \in Requests : Step(r)
  BY <1>3, ArriveInv, SearchInv, EmbedFailsInv, PromoteInv, CallInv, IndexStoreInv, LeaveInv DEF Step
<1>4. QED
  BY <1>1, <1>2, <1>3, TickInv, RestartInv DEF Next

\* What every step preserves: what lies under a key or in a namespace may be
\* served to whoever asks there, and a request carries only its own of each.
THEOREM Invariant == Spec => []IInv
<1>1. Init => IInv
  BY InitInv
<1>2. IInv /\ [Next]_vars => IInv'
  BY NextInv
<1>3. QED
  BY <1>1, <1>2, PTL DEF Spec

-----------------------------------------------------------------------------
(* The properties of the two tiers. *)

\* The types, and that every index holds vectors of one dimension, each with
\* the answer to its own words and in its own namespace, within its block,
\* for an embedder that changes its dimension at any time.
THEOREM Types == Spec => []TypeOK
<1>1. ASSUME IInv PROVE TypeOK
  <2>1. exact \in [Keys -> [answer : Answers, left : Nat \ {0}, readable : BOOLEAN] \cup {Absent}]
    BY <1>1 DEF IInv, Entry
  <2>2. ASSUME NEW n \in Namespaces
        PROVE  /\ near[n].dim \in Dims \cup {NoDim} /\ near[n].capacity \in Nat
               /\ near[n].rows \in Seq([vector : Vector, answer : Answers])
               /\ Coherent(n)
    <3>1. near[n] \in VectorIndex /\ IndexInv(n, near[n])
      BY <1>1 DEF IInv
    <3>2. near[n].rows \in Seq([vector : Vector, answer : Answers])
      BY <3>1 DEF VectorIndex, Row
    <3>3. Coherent(n)
      BY <3>1 DEF Coherent, IndexInv
    <3>4. QED
      BY <3>1, <3>2, <3>3 DEF VectorIndex
  <2>3. ASSUME NEW r \in Requests
        PROVE  /\ req[r].at \in {"idle", "embedding", "promoting", "calling", "indexing"}
               /\ req[r].ask \in Asks \cup {NoAnswer}
               /\ req[r].answer \in Answers \cup {NoAnswer}
    BY <1>1 DEF IInv, Request
  <2>4. QED
    BY <1>1, <2>1, <2>2, <2>3 DEF TypeOK, IInv
<1>2. QED
  BY <1>1, Invariant, PTL

\* Whichever tier offers it, an answer may be served to whoever asks.
LEMMA OfferServes ==
  ASSUME IInv, NEW a \in Asks, NEW answer \in Offers(a)
  PROVE  answer \in Answers /\ Serves(a, answer)
<1>1. CASE answer \in ExactOffers(a)
  <2>1. exact[KeyFor(a)] # Absent /\ answer = exact[KeyFor(a)].answer /\ KeyFor(a) \in Keys
    BY <1>1, AskFacts DEF ExactOffers
  <2>2. QED
    BY <2>1 DEF IInv, Entry, EntryInv
<1>2. CASE answer \in NearOffers(a)
  <2>1. PICK index : index = near[NamespaceFor(a)]
    OBVIOUS
  <2>2. PICK vector : vector = [text |-> Text[a.prompt], dim |-> index.dim]
    OBVIOUS
  <2>3. /\ Found(index, vector) /\ ~Incomparable(a)
        /\ answer = index.rows[Nearest(index, vector)].answer
    BY <1>2, <2>1, <2>2 DEF NearOffers
  <2>4. index \in VectorIndex /\ IndexInv(NamespaceFor(a), index)
    BY <2>1, AskFacts DEF IInv
  <2>5. Text[a.prompt] # NoText /\ vector.text = Text[a.prompt]
    BY <2>2, <2>3 DEF Incomparable
  <2>6. QED
    BY <2>3, <2>4, <2>5, FoundServes
<1>3. CASE \E r \in Requests : req[r].at = "promoting" /\ req[r].ask = a /\ answer = req[r].answer
  BY <1>3 DEF IInv, ReqInv
<1>4. QED
  BY <1>1, <1>2, <1>3 DEF Offers

\* No tenant, route, model or parameter is served another's answer, by either
\* tier and by any chain of promotions.
THEOREM Home == Spec => []AnswersStayHome
<1>1. ASSUME IInv, NEW a \in Asks, NEW answer \in Offers(a)
      PROVE  /\ a.path = answer.to.path /\ a.shape = answer.to.shape
             /\ Scope = "key" => a.tenant = answer.to.tenant
  BY <1>1, OfferServes DEF Serves, Space
<1>2. IInv => AnswersStayHome
  BY <1>1 DEF AnswersStayHome
<1>3. QED
  BY <1>2, Invariant, PTL

\* However many promotions lie between, an answer is served for its own
\* prompt or for one within the threshold of it.
THEOREM Near == Spec => []NoDrift
<1>1. IInv => NoDrift
  BY OfferServes DEF Serves, Similar, NoDrift
<1>2. QED
  BY <1>1, Invariant, PTL

\* A request that opted out is in neither tier and was looked up in neither.
THEOREM NoTrace == Spec => []OptOutsLeaveNoTrace
<1>1. ASSUME IInv, HasRedis, NEW answer \in Kept
      PROVE  ~OptedOut(answer.to)
  <2>1. CASE \E k \in Keys : exact[k] # Absent /\ answer = exact[k].answer
    BY <1>1, <2>1 DEF IInv, EntryInv
  <2>2. CASE \E n \in Namespaces : \E i \in DOMAIN near[n].rows : answer = near[n].rows[i].answer
    BY <1>1, <2>2 DEF IInv, IndexInv, Storable
  <2>3. QED
    BY <2>1, <2>2 DEF Kept
<1>2. ASSUME IInv, HasRedis, NEW r \in Requests, req[r].at \in {"embedding", "promoting"}
      PROVE  ~OptedOut(req[r].ask)
  BY <1>2 DEF IInv, ReqInv, Storable
<1>3. IInv => OptOutsLeaveNoTrace
  BY <1>1, <1>2 DEF OptOutsLeaveNoTrace
<1>4. QED
  BY <1>3, Invariant, PTL

=============================================================================
