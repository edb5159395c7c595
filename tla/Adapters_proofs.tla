--------------------------- MODULE Adapters_proofs ---------------------------
(***************************************************************************)
(* For any vendors, scripts, requests and conversations of any length: the *)
(* types, that what is sent is what the vendor takes, that what was handed *)
(* out is taken back, that the client puts together what the vendor said,  *)
(* and that every adapter implements AnswerStream.                         *)
(***************************************************************************)
EXTENDS Adapters, FiniteSetTheorems, SequenceTheorems, TLAPS

Args == {"nothing", "begun", "whole"}
Called == [name : Names, id : Ids, args : Args]
Roles == {"user", "system", "assistant", "tool"}
Written == [role : Roles, parts : SUBSET Parts, calls : Seq(Called), of : Ids \cup {NoId},
            finish : Finishes \cup {"none"}]

\* Calls numbered from zero without gaps.
CallLists == UNION {[0 .. n - 1 -> Called] : n \in Nat}
Count(calls) == Cardinality(DOMAIN calls)
Distinct(calls) == \A m, n \in DOMAIN calls : calls[m].id = calls[n].id => m = n
Whole(calls) == \A at \in DOMAIN calls : calls[at].args # "begun"

Answers == [begun : BOOLEAN, text : Nat, calls : CallLists, finish : Finishes \cup {"none"},
            usage : BOOLEAN, end : {"open", "clean", "failed"}]
Heard == [text : Nat, calls : CallLists, marked : BOOLEAN]
Ordinals == UNION {[B -> Nat] : B \in SUBSET (0 .. MaxBlocks)}
Locals == [started : BOOLEAN, blocks : 0 .. MaxBlocks, calls : 0 .. MaxBlocks,
           open : {"none", "text", "tool_use", "other", "billed"},
           ordinals : Ordinals,
           stop : Reasons \cup {"none"}, done : BOOLEAN]

Pieces == {"nothing", "begun", "rest", "whole"}
Chunks == {Role, Text, Usage} \cup {Finished(reason) : reason \in Finishes}
             \cup [kind : {"call"}, at : Nat, id : Ids, name : Names]
             \cup [kind : {"args"}, at : Nat, fragment : Pieces]

-----------------------------------------------------------------------------
(* The invariant.                                                          *)

\* Why an answer may end: unless for its length, it is whole and says whether
\* it calls.
Ended(reason, calls) ==
    reason # "length" => (reason = "tool_calls") = (calls # <<>>) /\ Whole(calls)

\* An answer that keeps to that, whose calls are told apart by their ids.
Sound(a) == Distinct(a.calls) /\ (a.finish # "none" => Ended(a.finish, a.calls))

\* The chunks that AnswerStream lets follow.
Follows(a, chunk) ==
    \/ chunk = Role /\ a.finish = "none" /\ ~a.begun
    \/ chunk = Text /\ a.finish = "none"
    \/ \E id \in Ids, name \in Names :
          /\ chunk = Opening(Count(a.calls), id, name) /\ a.finish = "none"
          /\ \A at \in DOMAIN a.calls : a.calls[at].id # id
    \/ \E at \in DOMAIN a.calls, fragment \in Pieces :
          /\ chunk = Arguments(at, fragment) /\ a.finish = "none"
          /\ Joined(a.calls[at].args, fragment) # "garbled"
    \/ \E reason \in Finishes :
          chunk = Finished(reason) /\ a.finish = "none" /\ Ended(reason, a.calls)
    \/ chunk = Usage /\ a.finish # "none" /\ ~a.usage

\* Chunks that lead from one answer to another, each where it may follow.
Leads(g, chunks) == \A k \in 1 .. Len(chunks) : /\ Follows(g[k - 1], chunks[k])
                                                /\ g[k] = Assembled(g[k - 1], chunks[k])
Path(a, chunks, b) == \E g : g[0] = a /\ g[Len(chunks)] = b /\ Leads(g, chunks)

Billing(chunks) == \E k \in 1 .. Len(chunks) : chunks[k] = Usage

\* The conversation: only answers call, and what a whole answer calls has
\* whole arguments; until it is cut, a result has its call before it.
Kept(m) ==
    /\ m.role # "assistant" => m.calls = <<>>
    /\ m.role = "assistant" =>
          /\ m.parts \subseteq {"text", "blank"}
          /\ m.finish \notin {"none", "length"} => \A c \in DOMAIN m.calls : m.calls[c].args # "begun"
HistoryInv(h, cut) ==
    /\ h \in Seq(Written) /\ Len(h) <= MaxMessages
    /\ \A i \in DOMAIN h : Kept(h[i])
    /\ ~cut => ResultsHaveCalls(h)

\* Where an adapter stands is where its vendor stands.
AnthropicStands(x, t) ==
    /\ x.open # "billed"
    /\ DOMAIN x.ordinals \subseteq 0 .. x.blocks - 1
    /\ Cardinality(DOMAIN x.ordinals) = Count(t.calls)
    /\ x.open = "tool_use" =>
          /\ x.blocks - 1 \in DOMAIN x.ordinals
          /\ t.calls # <<>> /\ x.ordinals[x.blocks - 1] = Count(t.calls) - 1
    /\ x.open # "none" => x.started /\ x.stop = "none"
    /\ x.stop # "none" => x.started /\ Ended(StopReason(x.stop), t.calls)
    /\ t.marked => x.done

OllamaStands(x, t) ==
    /\ x.open # "billed"
    /\ x.calls = Count(t.calls)
    /\ \A at \in DOMAIN t.calls : /\ t.calls[at].id = ToolCallId(at, t.calls[at].name)
                                  /\ t.calls[at].args = "whole"
    /\ t.marked => x.done

OpenAIStands(x, t) ==
    /\ x.calls = Count(t.calls)
    /\ x.open \in {"none", "billed"}
    /\ x.open = "billed" => x.stop # "none"
    /\ x.stop # "none" => x.started
    /\ t.marked = (x.stop # "none")

Stands(v, x, t) ==
    /\ Dialect[v] = "anthropic" => AnthropicStands(x, t)
    /\ Dialect[v] = "ollama" => OllamaStands(x, t)
    /\ Dialect[v] = "openai" => OpenAIStands(x, t)
    /\ Dialect[v] = "mock" => x.done

Agreed(a, t) == /\ a.text = t.text /\ a.calls = t.calls
                /\ (a.finish # "none") = t.marked

\* What the answer will be once what was yielded is taken.
Becomes(b, v, x, t) ==
    /\ b \in Answers /\ b.end = "open" /\ Agreed(b, t)
    /\ Dialect[v] # "mock" => b.begun = x.started
    /\ ~x.done /\ x.open # "billed" => ~b.usage

Streaming ==
    /\ got.end = "open" /\ Sound(got)
    /\ \E b : Path(got, out, b) /\ Becomes(b, via, local, told)
    /\ Stands(via, local, told)
    /\ told.marked /\ Dialect[via] # "openai" => billed \/ Billing(out)

AtRest == /\ got = NoAnswer /\ told = Silence /\ local = NoLocals /\ out = <<>> /\ ~billed

Over == /\ got.end # "open"
        /\ got.finish # "none" => Ended(got.finish, got.calls)
        /\ got.end = "clean" =>
              /\ Agreed(got, told)
              /\ told.marked /\ Dialect[via] # "openai" => billed

Types ==
    /\ phase \in {"composing", "streaming", "waiting", "over", "refused"}
    /\ trimmed \in BOOLEAN /\ billed \in BOOLEAN
    /\ why \in {"none", "empty", "incoherent", "dangling", "unsupported", "inexpressible"}
    /\ via \in Vendors \cup {Nobody} /\ manner \in Manners \cup {Nobody}
    /\ told \in Heard /\ local \in Locals /\ got \in Answers
    /\ out \in Seq(Chunks)

\* A script has a reply left, or repeats its last.
ScriptInv == /\ served \in [Vendors -> Nat]
             /\ \A v \in Vendors : IF Replies[v] = <<>> THEN served[v] = 0 ELSE served[v] < Len(Replies[v])

Refusals == /\ phase # "refused" => why = "none"
            /\ TurnsComeBack

Exchange ==
    /\ phase \in {"streaming", "waiting"} => via \in Vendors /\ ResultsHaveCalls(history)
    /\ phase \in {"composing", "refused", "waiting"} => AtRest
    /\ phase = "waiting" => Dialect[via] # "mock"
    /\ phase = "streaming" => Streaming
    /\ phase = "over" => Over

IInv == Types /\ HistoryInv(history, trimmed) /\ ScriptInv /\ Refusals /\ Exchange

-----------------------------------------------------------------------------
(* Least and greatest naturals.                                            *)

\* A set of naturals with a member has a least one.
LEMMA LeastNatural ==
  ASSUME NEW T, T \subseteq Nat, T # {}
  PROVE  \E x \in T : \A y \in T : x <= y
<1>1. PICK top \in T : TRUE
  OBVIOUS
<1> DEFINE S == 0 .. top
           Below(y) == 0 .. y
           F == {Below(y) : y \in T \cap S}
<1>2. IsWellFoundedOn(StrictSubsetOrdering(S), SUBSET S)
  <2>1. IsFiniteSet(S)
    BY FS_Interval
  <2>2. QED
    BY <2>1, FS_StrictSubsetOrderingWellFounded, FS_FiniteSubsetsOfFinite
<1>3. F \subseteq SUBSET S /\ F # {}
  BY <1>1
<1> HIDE DEF F
<1>4. PICK least \in F : \A other \in F : <<other, least>> \notin StrictSubsetOrdering(S)
  BY <1>2, <1>3, WFMin
<1>5. PICK x \in T \cap S : least = Below(x)
  BY DEF F
<1>6. ASSUME NEW y \in T, y < x PROVE FALSE
  <2>1. Below(y) \in F /\ Below(y) \subseteq Below(x) /\ x \notin Below(y) /\ x \in Below(x)
    BY <1>5, <1>6 DEF F
  <2>2. <<Below(y), Below(x)>> \in StrictSubsetOrdering(S)
    BY <2>1, <1>3, <1>5 DEF StrictSubsetOrdering
  <2>3. QED
    BY <2>1, <2>2, <1>4, <1>5
<1>7. QED
  BY <1>5, <1>6

\* A finite set of naturals with a member has a greatest one: no other has
\* fewer members of the set at or above it.
LEMMA GreatestNatural ==
  ASSUME NEW S, S \subseteq Nat, S # {}, IsFiniteSet(S)
  PROVE  Max(S) \in S /\ \A y \in S : y <= Max(S)
<1> DEFINE Above(y) == {z \in S : z >= y}
           F == {Above(y) : y \in S}
<1>1. IsWellFoundedOn(StrictSubsetOrdering(S), SUBSET S)
  BY FS_StrictSubsetOrderingWellFounded, FS_FiniteSubsetsOfFinite
<1>2. F \subseteq SUBSET S /\ F # {}
  OBVIOUS
<1> HIDE DEF F
<1>3. PICK greatest \in F : \A other \in F : <<other, greatest>> \notin StrictSubsetOrdering(S)
  BY <1>1, <1>2, WFMin
<1>4. PICK x \in S : greatest = Above(x)
  BY DEF F
<1>5. ASSUME NEW y \in S, y > x PROVE FALSE
  <2>1. Above(y) \in F /\ Above(y) \subseteq Above(x) /\ x \notin Above(y) /\ x \in Above(x)
    <3>1. x \in Nat /\ y \in Nat /\ ~(x >= y) /\ \A z \in S : z \in Nat /\ (z >= y => z >= x)
      BY <1>5
    <3>2. Above(y) \in F
      BY DEF F
    <3>3. Above(y) \subseteq Above(x)
      BY <3>1
    <3>4. x \notin Above(y) /\ x \in Above(x)
      BY <3>1
    <3>5. QED
      BY <3>2, <3>3, <3>4
  <2>2. <<Above(y), Above(x)>> \in StrictSubsetOrdering(S)
    BY <2>1, <1>2, <1>4 DEF StrictSubsetOrdering
  <2>3. QED
    BY <2>1, <2>2, <1>3, <1>4
<1>6. \A y \in S : y <= x
  BY <1>5
<1>7. QED
  BY <1>6 DEF Max

-----------------------------------------------------------------------------
(* Numbered calls.                                                         *)

LEMMA Interval ==
  ASSUME NEW n \in Nat
  PROVE  IsFiniteSet(0 .. n - 1) /\ Cardinality(0 .. n - 1) = n
BY FS_Interval

\* As many as are numbered.
LEMMA Counted ==
  ASSUME NEW calls \in CallLists
  PROVE  /\ Count(calls) \in Nat
         /\ DOMAIN calls = 0 .. Count(calls) - 1
         /\ \A at \in DOMAIN calls : calls[at] \in Called
         /\ (calls # <<>>) = (Count(calls) > 0)
<1>1. PICK n \in Nat : calls \in [0 .. n - 1 -> Called]
  BY DEF CallLists
<1>2. DOMAIN calls = 0 .. n - 1 /\ Count(calls) = n
  BY <1>1, Interval DEF Count
<1>3. calls = <<>> <=> n = 0
  <2>1. n = 0 => calls = <<>>
    BY <1>1, <1>2
  <2>2. calls = <<>> => n = 0
    BY <1>2
  <2>3. QED
    BY <2>1, <2>2
<1>4. QED
  BY <1>1, <1>2, <1>3

LEMMA MadeOf ==
  ASSUME NEW n \in Nat, NEW calls \in [0 .. n - 1 -> Called]
  PROVE  calls \in CallLists /\ Count(calls) = n
BY Interval DEF CallLists, Count

LEMMA NoCalls == <<>> \in CallLists /\ Count(<<>>) = 0
<1>1. <<>> \in [0 .. 0 - 1 -> Called]
  OBVIOUS
<1>2. QED
  BY <1>1, MadeOf

-----------------------------------------------------------------------------
(* Paths of chunks.                                                        *)

LEMMA Stay ==
  ASSUME NEW a
  PROVE  /\ Path(a, <<>>, a)
         /\ \A b : Path(a, <<>>, b) => a = b
<1>1. [i \in {0} |-> a][0] = a /\ Leads([i \in {0} |-> a], <<>>)
  BY DEF Leads
<1>2. Len(<<>>) = 0
  OBVIOUS
<1>3. Path(a, <<>>, a)
  BY <1>1, <1>2 DEF Path
<1>4. QED
  BY <1>2, <1>3 DEF Path

LEMMA OneChunk ==
  ASSUME NEW a, NEW chunk, Follows(a, chunk)
  PROVE  Path(a, <<chunk>>, Assembled(a, chunk))
<1> DEFINE g == [i \in 0 .. 1 |-> IF i = 0 THEN a ELSE Assembled(a, chunk)]
<1>1. Len(<<chunk>>) = 1 /\ <<chunk>>[1] = chunk /\ g[0] = a /\ g[1] = Assembled(a, chunk)
  OBVIOUS
<1> HIDE DEF g
<1>2. Leads(g, <<chunk>>)
  BY <1>1 DEF Leads
<1>3. QED
  BY <1>1, <1>2 DEF Path

LEMMA Joins ==
  ASSUME NEW a, NEW b, NEW c, NEW s \in Seq(Chunks), NEW t \in Seq(Chunks),
         Path(a, s, b), Path(b, t, c)
  PROVE  Path(a, s \o t, c)
<1>1. PICK g : g[0] = a /\ g[Len(s)] = b /\ Leads(g, s)
  BY DEF Path
<1>2. PICK h : h[0] = b /\ h[Len(t)] = c /\ Leads(h, t)
  BY DEF Path
<1> DEFINE f == [k \in 0 .. Len(s) + Len(t) |-> IF k <= Len(s) THEN g[k] ELSE h[k - Len(s)]]
<1>3. Len(s) \in Nat /\ Len(t) \in Nat /\ Len(s \o t) = Len(s) + Len(t)
  OBVIOUS
<1>4. \A k \in 0 .. Len(s) : f[k] = g[k]
  BY <1>3
<1>5. \A k \in 0 .. Len(t) : f[Len(s) + k] = h[k]
  BY <1>1, <1>2, <1>3
<1> HIDE DEF f
<1>6. ASSUME NEW k \in 1 .. Len(s \o t)
      PROVE  Follows(f[k - 1], (s \o t)[k]) /\ f[k] = Assembled(f[k - 1], (s \o t)[k])
  <2>1. CASE k <= Len(s)
    <3>1. (s \o t)[k] = s[k] /\ f[k - 1] = g[k - 1] /\ f[k] = g[k] /\ k \in 1 .. Len(s)
      BY <2>1, <1>3, <1>4
    <3>2. QED
      BY <3>1, <1>1 DEF Leads
  <2>2. CASE k > Len(s)
    <3>1. PICK j \in 1 .. Len(t) : k = Len(s) + j
      BY <2>2, <1>3
    <3>2. (s \o t)[k] = t[j] /\ f[k - 1] = h[j - 1] /\ f[k] = h[j]
      <4>1. k - 1 = Len(s) + (j - 1) /\ j - 1 \in 0 .. Len(t) /\ j \in 0 .. Len(t)
        BY <3>1, <1>3
      <4>2. (s \o t)[k] = t[j]
        BY <3>1, <1>3
      <4>3. QED
        BY <4>1, <4>2, <3>1, <1>5
    <3>3. QED
      BY <3>2, <1>2 DEF Leads
  <2>3. QED
    BY <2>1, <2>2, <1>3
<1>7. Leads(f, s \o t)
  BY <1>6 DEF Leads
<1>8. f[0] = a /\ f[Len(s \o t)] = c
  BY <1>1, <1>2, <1>3, <1>4, <1>5
<1>9. QED
  BY <1>7, <1>8 DEF Path

\* The client takes the first of them.
LEMMA Takes ==
  ASSUME NEW a, NEW b, NEW s \in Seq(Chunks), s # <<>>, Path(a, s, b)
  PROVE  /\ Follows(a, Head(s)) /\ Path(Assembled(a, Head(s)), Tail(s), b)
         /\ Head(s) \in Chunks /\ Tail(s) \in Seq(Chunks)
<1>1. PICK g : g[0] = a /\ g[Len(s)] = b /\ Leads(g, s)
  BY DEF Path
<1>2. /\ Len(s) \in Nat \ {0} /\ Head(s) = s[1] /\ Head(s) \in Chunks /\ Tail(s) \in Seq(Chunks)
      /\ Len(Tail(s)) = Len(s) - 1 /\ \A k \in 1 .. Len(Tail(s)) : Tail(s)[k] = s[k + 1]
  BY HeadTailProperties, EmptySeq
<1> DEFINE h == [k \in 0 .. Len(s) - 1 |-> g[k + 1]]
<1>3. Follows(a, Head(s)) /\ g[1] = Assembled(a, Head(s))
  BY <1>1, <1>2 DEF Leads
<1>4. h[0] = Assembled(a, Head(s)) /\ h[Len(Tail(s))] = b
  BY <1>1, <1>2, <1>3
<1>5. ASSUME NEW k \in 1 .. Len(Tail(s))
      PROVE  Follows(h[k - 1], Tail(s)[k]) /\ h[k] = Assembled(h[k - 1], Tail(s)[k])
  <2>1. h[k - 1] = g[k] /\ h[k] = g[k + 1] /\ Tail(s)[k] = s[k + 1] /\ k + 1 \in 1 .. Len(s) /\ k + 1 - 1 = k
    BY <1>2
  <2> HIDE DEF h
  <2>2. QED
    BY <2>1, <1>1 DEF Leads
<1>6. Leads(h, Tail(s))
  BY <1>5 DEF Leads
<1> HIDE DEF h
<1>7. QED
  BY <1>2, <1>3, <1>4, <1>6 DEF Path

\* Nothing follows the usage.
LEMMA UsageLast ==
  ASSUME NEW a, NEW b, NEW s \in Seq(Chunks), Path(a, s, b), s # <<>>, Head(s) = Usage, a \in Answers
  PROVE  Tail(s) = <<>>
<1>1. Follows(a, Usage) /\ Path(Assembled(a, Usage), Tail(s), b) /\ Tail(s) \in Seq(Chunks)
  BY Takes
<1>2. a.finish # "none"
  BY <1>1 DEF Follows, Usage, Role, Text, Opening, Arguments, Finished
<1>3. Assembled(a, Usage) = [a EXCEPT !.usage = TRUE]
  BY DEF Assembled, Usage
<1>4. ~\E chunk : Follows(Assembled(a, Usage), chunk)
  <2>1. Assembled(a, Usage).finish # "none" /\ Assembled(a, Usage).usage
    BY <1>2, <1>3 DEF Answers
  <2>2. QED
    BY <2>1 DEF Follows
<1>5. QED
  BY <1>1, <1>4, Takes

\* What is completed is where the path leads: if it were not, it would first
\* fail to be at a least chunk.
LEMMA Completes ==
  ASSUME NEW a, NEW b, NEW s \in Seq(Chunks), Path(a, s, b)
  PROVE  Completed(a, s) = b
<1>1. PICK g : g[0] = a /\ g[Len(s)] = b /\ Leads(g, s)
  BY DEF Path
<1> DEFINE D == 0 .. Len(s)
           Fits(f) == f = [n \in D |-> IF n = 0 THEN a ELSE Assembled(f[n - 1], s[n])]
           h == [n \in D |-> g[n]]
<1>2. Len(s) \in Nat
  OBVIOUS
<1>3. Fits(h)
  <2>1. ASSUME NEW n \in D PROVE h[n] = IF n = 0 THEN a ELSE Assembled(h[n - 1], s[n])
    <3>1. CASE n = 0
      BY <3>1, <1>1
    <3>2. CASE n # 0
      <4>1. n \in 1 .. Len(s) /\ n - 1 \in D /\ h[n - 1] = g[n - 1] /\ h[n] = g[n]
        BY <3>2, <1>2
      <4> HIDE DEF h
      <4>2. QED
        BY <4>1, <3>2, <1>1 DEF Leads
    <3>3. QED
      BY <3>1, <3>2
  <2>2. QED
    BY <2>1
<1>4. After(a, s) = CHOOSE f : Fits(f)
  BY DEF After
<1>5. Fits(After(a, s))
  BY <1>3, <1>4
<1> DEFINE f == After(a, s)
           T == {n \in D : f[n] # h[n]}
<1>6. ASSUME T # {} PROVE FALSE
  <2> HIDE DEF f, h
  <2>0. T \subseteq Nat /\ \A n \in T : n \in D /\ f[n] # h[n]
    BY <1>2
  <2> HIDE DEF T
  <2>1. PICK n \in T : \A m \in T : n <= m
    BY <1>6, <2>0, LeastNatural
  <2>2. n \in D /\ f[n] # h[n]
    BY <2>0
  <2>3. n # 0
    BY <2>2, <1>3, <1>5 DEF f
  <2>4. n - 1 \in D /\ f[n - 1] = h[n - 1]
    BY <2>1, <2>2, <2>3, <1>2 DEF T
  <2>5. f[n] = Assembled(f[n - 1], s[n]) /\ h[n] = Assembled(h[n - 1], s[n])
    BY <1>3, <1>5, <2>2, <2>3 DEF f
  <2>6. QED
    BY <2>2, <2>4, <2>5
<1>7. f[Len(s)] = h[Len(s)]
  BY <1>6, <1>2
<1>8. QED
  BY <1>1, <1>2, <1>7 DEF Completed

-----------------------------------------------------------------------------
(* What each chunk does to an answer.                                      *)

LEMMA Kinds ==
  /\ Role.kind = "role" /\ Text.kind = "text" /\ Usage.kind = "usage"
  /\ \A at, id, name : LET c == Opening(at, id, name)
                       IN c.kind = "call" /\ c.at = at /\ c.id = id /\ c.name = name
  /\ \A at, fragment : LET c == Arguments(at, fragment)
                       IN c.kind = "args" /\ c.at = at /\ c.fragment = fragment
  /\ \A reason : Finished(reason).kind = "finish" /\ Finished(reason).reason = reason
BY DEF Role, Text, Usage, Opening, Arguments, Finished

LEMMA Anew ==
  ASSUME NEW calls \in CallLists, NEW call \in Called
  PROVE  LET more == With(calls, Count(calls), call)
         IN /\ more \in CallLists /\ Count(more) = Count(calls) + 1 /\ more # <<>>
            /\ more[Count(calls)] = call
            /\ \A at \in DOMAIN calls : more[at] = calls[at]
<1> DEFINE n == Count(calls)
           more == With(calls, n, call)
<1>1. n \in Nat /\ DOMAIN calls = 0 .. n - 1 /\ \A at \in DOMAIN calls : calls[at] \in Called
  BY Counted
<1> HIDE DEF n
<1>2. DOMAIN calls \cup {n} = 0 .. (n + 1) - 1
  BY <1>1
<1>3. /\ more \in [0 .. (n + 1) - 1 -> Called] /\ more[n] = call
      /\ \A at \in DOMAIN calls : more[at] = calls[at]
  BY <1>1, <1>2 DEF With
<1> HIDE DEF more
<1>4. more \in CallLists /\ Count(more) = n + 1
  BY <1>1, <1>3, MadeOf
<1>5. more # <<>>
  BY <1>1, <1>4, Counted
<1>6. QED
  BY <1>3, <1>4, <1>5 DEF n, more

LEMMA Altered ==
  ASSUME NEW calls \in CallLists, NEW at \in DOMAIN calls, NEW call \in Called
  PROVE  LET other == With(calls, at, call)
         IN /\ other \in CallLists /\ Count(other) = Count(calls) /\ DOMAIN other = DOMAIN calls
            /\ other[at] = call
            /\ \A x \in DOMAIN calls : x # at => other[x] = calls[x]
<1>1. Count(calls) \in Nat /\ DOMAIN calls = 0 .. Count(calls) - 1 /\ \A x \in DOMAIN calls : calls[x] \in Called
  BY Counted
<1>2. calls \in [DOMAIN calls -> Called]
  BY DEF CallLists
<1>3. DOMAIN calls \cup {at} = DOMAIN calls
  OBVIOUS
<1>4. With(calls, at, call) = [calls EXCEPT ![at] = call]
  BY <1>2, <1>3 DEF With
<1>5. With(calls, at, call) \in [0 .. Count(calls) - 1 -> Called]
  BY <1>1, <1>2, <1>4
<1>6. QED
  BY <1>1, <1>2, <1>4, <1>5, MadeOf

LEMMA Rewritten ==
  ASSUME NEW calls \in CallLists, NEW at \in DOMAIN calls, NEW call
  PROVE  With(calls, at, call) = [calls EXCEPT ![at] = call]
<1>1. DOMAIN calls \cup {at} = DOMAIN calls
  OBVIOUS
<1>2. QED
  BY <1>1 DEF With, CallLists

LEMMA JoinedArgs ==
  ASSUME NEW args \in Args, NEW fragment \in Pieces
  PROVE  /\ Joined(args, fragment) # "garbled" => Joined(args, fragment) \in Args
         /\ args = "nothing" /\ fragment # "rest" => Joined(args, fragment) = fragment
BY DEF Joined, Args, Pieces

LEMMA AsRole ==
  ASSUME NEW a \in Answers, a.finish = "none", ~a.begun
  PROVE  /\ Follows(a, Role) /\ Assembled(a, Role) = [a EXCEPT !.begun = TRUE]
         /\ Assembled(a, Role) \in Answers
<1>1. Assembled(a, Role) = [a EXCEPT !.begun = TRUE]
  BY Kinds DEF Assembled
<1>2. QED
  BY <1>1 DEF Follows, Answers

LEMMA AsText ==
  ASSUME NEW a \in Answers, a.finish = "none"
  PROVE  /\ Follows(a, Text) /\ Assembled(a, Text) = [a EXCEPT !.text = a.text + 1]
         /\ Assembled(a, Text) \in Answers
<1>1. Assembled(a, Text) = [a EXCEPT !.text = a.text + 1]
  BY Kinds DEF Assembled
<1>2. QED
  BY <1>1 DEF Follows, Answers

LEMMA AsOpening ==
  ASSUME NEW a \in Answers, a.finish = "none", NEW id \in Ids, NEW name \in Names,
         \A at \in DOMAIN a.calls : a.calls[at].id # id, Distinct(a.calls)
  PROVE  LET n == Count(a.calls)
             chunk == Opening(n, id, name)
             b == Assembled(a, chunk)
         IN /\ Follows(a, chunk) /\ chunk \in Chunks
            /\ b = [a EXCEPT !.calls = With(a.calls, n, Call(id, name, "nothing"))]
            /\ b \in Answers /\ Distinct(b.calls)
<1> DEFINE n == Count(a.calls)
           chunk == Opening(n, id, name)
           call == Call(id, name, "nothing")
<1>1. a.calls \in CallLists /\ n \in Nat /\ DOMAIN a.calls = 0 .. n - 1
  BY Counted DEF Answers
<1>2. call \in Called /\ call.id = id
  BY DEF Call, Called, Args
<1>3. Follows(a, chunk) /\ chunk \in Chunks
  BY <1>1 DEF Follows, Chunks, Opening
<1>4. CallAt(a.calls, n).args = "nothing"
  BY <1>1 DEF CallAt, Call
<1>5. Assembled(a, chunk) = [a EXCEPT !.calls = With(a.calls, n, call)]
  BY <1>4, Kinds DEF Assembled
<1> DEFINE more == With(a.calls, n, call)
<1>6. /\ more \in CallLists /\ Count(more) = n + 1 /\ more[n] = call
      /\ \A at \in DOMAIN a.calls : more[at] = a.calls[at]
  BY <1>1, <1>2, Anew
<1>7. DOMAIN more = 0 .. n
  BY <1>1, <1>6, Counted
<1> HIDE DEF more
<1>8. Distinct(more)
  BY <1>1, <1>2, <1>6, <1>7 DEF Distinct
<1>9. [a EXCEPT !.calls = more] \in Answers /\ [a EXCEPT !.calls = more].calls = more
  BY <1>6 DEF Answers
<1>10. QED
  BY <1>3, <1>5, <1>8, <1>9 DEF more

LEMMA AsArguments ==
  ASSUME NEW a \in Answers, a.finish = "none", NEW at \in DOMAIN a.calls, NEW fragment \in Pieces,
         Joined(a.calls[at].args, fragment) # "garbled", Distinct(a.calls)
  PROVE  LET chunk == Arguments(at, fragment)
             b == Assembled(a, chunk)
             call == [a.calls[at] EXCEPT !.args = Joined(a.calls[at].args, fragment)]
         IN /\ Follows(a, chunk) /\ chunk \in Chunks
            /\ b = [a EXCEPT !.calls = With(a.calls, at, call)]
            /\ b \in Answers /\ Distinct(b.calls)
<1> DEFINE chunk == Arguments(at, fragment)
           call == [a.calls[at] EXCEPT !.args = Joined(a.calls[at].args, fragment)]
           other == With(a.calls, at, call)
<1>1. a.calls \in CallLists /\ at \in Nat /\ a.calls[at] \in Called
  <2>1. a.calls \in CallLists
    BY DEF Answers
  <2>2. QED
    BY <2>1, Counted
<1>2. call \in Called /\ call.id = a.calls[at].id
  <2>1. Joined(a.calls[at].args, fragment) \in Args
    BY <1>1, JoinedArgs DEF Called
  <2>2. QED
    BY <2>1, <1>1 DEF Called
<1>3. Follows(a, chunk) /\ chunk \in Chunks
  BY <1>1 DEF Follows, Chunks, Arguments
<1>4. Assembled(a, chunk) = [a EXCEPT !.calls = other]
  <2>1. chunk.kind = "args" /\ chunk.at = at /\ chunk.fragment = fragment
    BY Kinds
  <2>2. CallAt(a.calls, at) = a.calls[at]
    BY DEF CallAt
  <2> HIDE DEF chunk
  <2>3. Assembled(a, chunk) = [a EXCEPT !.calls = Extended(a.calls, at, fragment)]
    BY <2>1 DEF Assembled
  <2>4. QED
    BY <2>2, <2>3 DEF Extended
<1> HIDE DEF call
<1>5. /\ other \in CallLists /\ DOMAIN other = DOMAIN a.calls
      /\ other[at] = call /\ \A x \in DOMAIN a.calls : x # at => other[x] = a.calls[x]
  BY <1>1, <1>2, Altered
<1> HIDE DEF other
<1>6. Distinct(other)
  BY <1>2, <1>5 DEF Distinct
<1>7. [a EXCEPT !.calls = other] \in Answers /\ [a EXCEPT !.calls = other].calls = other
  BY <1>5 DEF Answers
<1>8. QED
  BY <1>3, <1>4, <1>5, <1>6, <1>7 DEF other, call

LEMMA AsFinished ==
  ASSUME NEW a \in Answers, a.finish = "none", NEW reason \in Finishes, Ended(reason, a.calls)
  PROVE  /\ Follows(a, Finished(reason)) /\ Finished(reason) \in Chunks
         /\ Assembled(a, Finished(reason)) = [a EXCEPT !.finish = reason]
         /\ Assembled(a, Finished(reason)) \in Answers
<1>1. Assembled(a, Finished(reason)) = [a EXCEPT !.finish = reason]
  BY Kinds DEF Assembled
<1>2. QED
  BY <1>1 DEF Follows, Answers, Chunks

LEMMA AsUsage ==
  ASSUME NEW a \in Answers, a.finish # "none", ~a.usage
  PROVE  /\ Follows(a, Usage) /\ Assembled(a, Usage) = [a EXCEPT !.usage = TRUE]
         /\ Assembled(a, Usage) \in Answers
<1>1. Assembled(a, Usage) = [a EXCEPT !.usage = TRUE]
  BY Kinds DEF Assembled
<1>2. QED
  BY <1>1 DEF Follows, Answers

LEMMA PlainChunks == Role \in Chunks /\ Text \in Chunks /\ Usage \in Chunks
BY DEF Chunks

\* A chunk that may follow leaves an answer an answer.
LEMMA Assembling ==
  ASSUME NEW a \in Answers, Sound(a), NEW chunk, Follows(a, chunk)
  PROVE  LET b == Assembled(a, chunk)
         IN b \in Answers /\ Sound(b) /\ b.end = a.end
<1>0. \A calls : LET b == [a EXCEPT !.calls = calls]
                 IN b.finish = a.finish /\ b.end = a.end
  BY DEF Answers
<1>1. CASE chunk = Role /\ a.finish = "none" /\ ~a.begun
  BY <1>1, AsRole DEF Answers, Sound
<1>2. CASE chunk = Text /\ a.finish = "none"
  BY <1>2, AsText DEF Answers, Sound
<1>3. ASSUME NEW id \in Ids, NEW name \in Names,
             chunk = Opening(Count(a.calls), id, name), a.finish = "none",
             \A at \in DOMAIN a.calls : a.calls[at].id # id
      PROVE  LET b == Assembled(a, chunk)
             IN b \in Answers /\ Sound(b) /\ b.end = a.end
  <2>1. LET b == Assembled(a, chunk)
        IN /\ b \in Answers /\ Distinct(b.calls)
           /\ b = [a EXCEPT !.calls = With(a.calls, Count(a.calls), Call(id, name, "nothing"))]
    BY <1>3, AsOpening DEF Sound
  <2>2. QED
    BY <2>1, <1>0, <1>3 DEF Sound
<1>4. ASSUME NEW at \in DOMAIN a.calls, NEW fragment \in Pieces,
             chunk = Arguments(at, fragment), a.finish = "none",
             Joined(a.calls[at].args, fragment) # "garbled"
      PROVE  LET b == Assembled(a, chunk)
             IN b \in Answers /\ Sound(b) /\ b.end = a.end
  <2>1. LET b == Assembled(a, chunk)
            call == [a.calls[at] EXCEPT !.args = Joined(a.calls[at].args, fragment)]
        IN /\ b \in Answers /\ Distinct(b.calls)
           /\ b = [a EXCEPT !.calls = With(a.calls, at, call)]
    BY <1>4, AsArguments DEF Sound
  <2>2. QED
    BY <2>1, <1>0, <1>4 DEF Sound
<1>5. ASSUME NEW reason \in Finishes, chunk = Finished(reason), a.finish = "none", Ended(reason, a.calls)
      PROVE  LET b == Assembled(a, chunk)
             IN b \in Answers /\ Sound(b) /\ b.end = a.end
  BY <1>5, AsFinished DEF Answers, Sound
<1>6. CASE chunk = Usage /\ a.finish # "none" /\ ~a.usage
  BY <1>6, AsUsage DEF Answers, Sound
<1>7. QED
  BY <1>1, <1>2, <1>3, <1>4, <1>5, <1>6 DEF Follows

-----------------------------------------------------------------------------
(* Texts in a row, and calls each opened and then given its arguments.     *)

LEMMA Texts ==
  ASSUME NEW a \in Answers, a.finish = "none", NEW n \in Nat
  PROVE  LET s == [i \in 1 .. n |-> Text]
             b == [a EXCEPT !.text = a.text + n]
         IN s \in Seq(Chunks) /\ b \in Answers /\ Path(a, s, b)
<1> DEFINE s == [i \in 1 .. n |-> Text]
           b == [a EXCEPT !.text = a.text + n]
           g == [k \in 0 .. n |-> [a EXCEPT !.text = a.text + k]]
<1>1. s \in Seq(Chunks) /\ Len(s) = n /\ \A k \in 1 .. n : s[k] = Text
  BY PlainChunks
<1>2. a.text \in Nat /\ b \in Answers
  BY DEF Answers
<1>3. g[0] = a /\ g[Len(s)] = b
  BY <1>1, <1>2 DEF Answers
<1>4. ASSUME NEW k \in 1 .. Len(s)
      PROVE  Follows(g[k - 1], s[k]) /\ g[k] = Assembled(g[k - 1], s[k])
  <2> DEFINE x == [a EXCEPT !.text = a.text + (k - 1)]
  <2>0. k \in 1 .. n /\ k - 1 \in Nat /\ a.text + (k - 1) \in Nat /\ a.text + (k - 1) + 1 = a.text + k
    BY <1>1, <1>2
  <2>1. g[k - 1] = x /\ g[k] = [a EXCEPT !.text = a.text + k] /\ s[k] = Text
    BY <1>1
  <2>2. x \in Answers /\ x.finish = "none" /\ x.text = a.text + (k - 1)
    BY <2>0, <1>2 DEF Answers
  <2>3. [x EXCEPT !.text = x.text + 1] = [a EXCEPT !.text = a.text + k]
    <3>1. [x EXCEPT !.text = x.text + 1] = [a EXCEPT !.text = a.text + (k - 1) + 1]
      BY <2>2 DEF Answers
    <3>2. QED
      BY <3>1, <2>0
  <2> HIDE DEF x, g, s
  <2>4. QED
    BY <2>1, <2>2, <2>3, AsText
<1> HIDE DEF g
<1>5. Leads(g, s)
  BY <1>4 DEF Leads
<1>6. QED
  BY <1>1, <1>2, <1>3, <1>5 DEF Path

LEMMA Halves ==
  ASSUME NEW n \in Nat, NEW k \in 1 .. 2 * n
  PROVE  /\ Half(k) \in 1 .. n /\ Half(k - 1) \in 0 .. n /\ k % 2 \in {0, 1}
         /\ k % 2 = 1 => Half(k - 1) = Half(k) - 1 /\ (k - 1) % 2 = 0
         /\ k % 2 = 0 => Half(k - 1) = Half(k) /\ (k - 1) % 2 = 1
BY DEF Half

\* A list of calls with new ones behind it.
Longer(calls, new) ==
    [at \in 0 .. Count(calls) + Len(new) - 1 |->
        IF at < Count(calls) THEN calls[at] ELSE new[at - Count(calls) + 1]]
Deliveries(n, new) == [k \in 1 .. 2 * Len(new) |-> CallDelta(k, n + Half(k) - 1, new[Half(k)])]

\* Every new call has an id of its own.
Told(calls, new) ==
    /\ \A m, n \in 1 .. Len(new) : new[m].id = new[n].id => m = n
    /\ \A at \in DOMAIN calls : \A n \in 1 .. Len(new) : calls[at].id # new[n].id

\* The calls after so many chunks: the last one may lack its arguments.
Midway(calls, new, k) ==
    [at \in 0 .. Count(calls) + Half(k) - 1 |->
        IF at < Count(calls) THEN calls[at]
        ELSE IF k % 2 = 1 /\ at = Count(calls) + Half(k) - 1
             THEN Call(new[Half(k)].id, new[Half(k)].name, "nothing")
             ELSE new[at - Count(calls) + 1]]

LEMMA MidwayCalls ==
  ASSUME NEW calls \in CallLists, Distinct(calls), NEW new \in Seq(Called), Told(calls, new),
         NEW k \in 0 .. 2 * Len(new)
  PROVE  LET m == Midway(calls, new, k)
         IN /\ m \in CallLists /\ Count(m) = Count(calls) + Half(k) /\ Distinct(m)
            /\ \A at \in 0 .. Count(calls) + Half(k) - 1 :
                  m[at].id = IF at < Count(calls) THEN calls[at].id ELSE new[at - Count(calls) + 1].id
<1> DEFINE n == Count(calls)
           h == Half(k)
           m == Midway(calls, new, k)
           Id(at) == IF at < n THEN calls[at].id ELSE new[at - n + 1].id
<1>1. n \in Nat /\ DOMAIN calls = 0 .. n - 1 /\ \A at \in 0 .. n - 1 : calls[at] \in Called
  BY Counted
<1>2. Len(new) \in Nat /\ h \in 0 .. Len(new) /\ (k % 2 = 1 => h \in 1 .. Len(new))
  BY DEF Half
<1>3. \A i \in 1 .. Len(new) : /\ new[i] \in Called
                               /\ Call(new[i].id, new[i].name, "nothing") \in Called
                               /\ Call(new[i].id, new[i].name, "nothing").id = new[i].id
  <2>1. ASSUME NEW call \in Called
        PROVE  /\ Call(call.id, call.name, "nothing") \in Called
               /\ Call(call.id, call.name, "nothing").id = call.id
    BY DEF Called, Call, Args
  <2>2. QED
    BY <2>1
<1> HIDE DEF n, h
<1>4. m = [at \in 0 .. n + h - 1 |->
              IF at < n THEN calls[at]
              ELSE IF k % 2 = 1 /\ at = n + h - 1 THEN Call(new[h].id, new[h].name, "nothing")
              ELSE new[at - n + 1]]
  BY DEF Midway, n, h
<1>5. ASSUME NEW at \in 0 .. n + h - 1
      PROVE  m[at] \in Called /\ m[at].id = Id(at)
  <2>1. CASE at < n
    BY <2>1, <1>1, <1>4
  <2>2. CASE at >= n /\ k % 2 = 1 /\ at = n + h - 1
    <3>1. m[at] = Call(new[h].id, new[h].name, "nothing") /\ at - n + 1 = h
      BY <2>2, <1>1, <1>2, <1>4
    <3>2. QED
      BY <3>1, <2>2, <1>1, <1>2, <1>3
  <2>3. CASE at >= n /\ ~(k % 2 = 1 /\ at = n + h - 1)
    <3>1. m[at] = new[at - n + 1] /\ at - n + 1 \in 1 .. Len(new)
      BY <2>3, <1>1, <1>2, <1>4
    <3>2. QED
      BY <3>1, <2>3, <1>1, <1>3
  <2>4. QED
    BY <2>1, <2>2, <2>3, <1>1
<1>6. DOMAIN m = 0 .. (n + h) - 1 /\ n + h \in Nat
  BY <1>1, <1>2, <1>4
<1>7. m \in [0 .. (n + h) - 1 -> Called]
  BY <1>4, <1>5, <1>6
<1> HIDE DEF m
<1>8. m \in CallLists /\ Count(m) = n + h
  BY <1>6, <1>7, MadeOf
<1>9. Distinct(m)
  <2>1. ASSUME NEW x \in 0 .. n + h - 1, NEW y \in 0 .. n + h - 1, Id(x) = Id(y)
        PROVE  x = y
    <3>1. CASE x < n /\ y < n
      BY <3>1, <2>1, <1>1 DEF Distinct
    <3>2. CASE x >= n /\ y >= n
      <4>1. x - n + 1 \in 1 .. Len(new) /\ y - n + 1 \in 1 .. Len(new)
        BY <3>2, <1>1, <1>2
      <4>2. x - n + 1 = y - n + 1
        BY <4>1, <3>2, <2>1, <1>1 DEF Told
      <4>3. QED
        BY <4>2, <1>1
    <3>3. CASE x < n /\ y >= n
      <4>1. x \in DOMAIN calls /\ y - n + 1 \in 1 .. Len(new)
        BY <3>3, <1>1, <1>2
      <4>2. QED
        BY <4>1, <3>3, <2>1, <1>1 DEF Told
    <3>4. CASE x >= n /\ y < n
      <4>1. y \in DOMAIN calls /\ x - n + 1 \in 1 .. Len(new)
        BY <3>4, <1>1, <1>2
      <4>2. QED
        BY <4>1, <3>4, <2>1, <1>1 DEF Told
    <3>5. QED
      BY <3>1, <3>2, <3>3, <3>4, <1>1, <1>2
  <2>2. ASSUME NEW x \in DOMAIN m, NEW y \in DOMAIN m, m[x].id = m[y].id
        PROVE  x = y
    <3>1. x \in 0 .. n + h - 1 /\ y \in 0 .. n + h - 1
      BY <1>1, <1>2, <1>6
    <3>2. Id(x) = Id(y)
      BY <1>5, <2>2, <3>1
    <3>3. QED
      BY <3>1, <3>2, <2>1
  <2>3. QED
    BY <2>2 DEF Distinct
<1>10. QED
  BY <1>5, <1>8, <1>9 DEF m, n, h

LEMMA Delivered ==
  ASSUME NEW n \in Nat, NEW new \in Seq(Called)
  PROVE  /\ Deliveries(n, new) \in Seq(Chunks) /\ Len(Deliveries(n, new)) = 2 * Len(new)
         /\ \A k \in 1 .. 2 * Len(new) :
               Deliveries(n, new)[k] = CallDelta(k, n + Half(k) - 1, new[Half(k)])
         /\ ~Billing(Deliveries(n, new))
<1>1. Len(new) \in Nat
  OBVIOUS
<1>2. ASSUME NEW k \in 1 .. 2 * Len(new)
      PROVE  LET c == CallDelta(k, n + Half(k) - 1, new[Half(k)]) IN c \in Chunks /\ c # Usage
  <2>1. Half(k) \in 1 .. Len(new)
    BY <1>1, Halves
  <2>2. new[Half(k)] \in Called /\ n + Half(k) - 1 \in Nat
    BY <2>1
  <2>3. ASSUME NEW at \in Nat, NEW call \in Called
        PROVE  /\ Opening(at, call.id, call.name) \in Chunks /\ Opening(at, call.id, call.name) # Usage
               /\ Arguments(at, call.args) \in Chunks /\ Arguments(at, call.args) # Usage
    <3>1. Opening(at, call.id, call.name).kind # "usage" /\ Arguments(at, call.args).kind # "usage"
      BY Kinds
    <3>2. Opening(at, call.id, call.name) \in [kind : {"call"}, at : Nat, id : Ids, name : Names]
      BY DEF Opening, Called
    <3>3. Arguments(at, call.args) \in [kind : {"args"}, at : Nat, fragment : Pieces]
      BY DEF Arguments, Called, Args, Pieces
    <3>4. QED
      BY <3>1, <3>2, <3>3, Kinds DEF Chunks
  <2>4. QED
    BY <2>2, <2>3 DEF CallDelta
<1> DEFINE Delta(k) == CallDelta(k, n + Half(k) - 1, new[Half(k)])
           s == [k \in 1 .. 2 * Len(new) |-> Delta(k)]
<1>3. \A k \in 1 .. 2 * Len(new) : Delta(k) \in Chunks /\ Delta(k) # Usage
  BY <1>2
<1>4. Deliveries(n, new) = s
  BY DEF Deliveries
<1> HIDE DEF Delta
<1>5. s \in Seq(Chunks) /\ Len(s) = 2 * Len(new) /\ \A k \in 1 .. 2 * Len(new) : s[k] = Delta(k)
  BY <1>1, <1>3
<1>6. ~Billing(s)
  BY <1>3, <1>5 DEF Billing
<1>7. QED
  BY <1>4, <1>5, <1>6 DEF Delta

\* New calls lead to the longer list.
LEMMA CallsPath ==
  ASSUME NEW a \in Answers, a.finish = "none", Distinct(a.calls), NEW new \in Seq(Called),
         Told(a.calls, new)
  PROVE  LET s == Deliveries(Count(a.calls), new)
             b == [a EXCEPT !.calls = Longer(a.calls, new)]
         IN Path(a, s, b) /\ b \in Answers /\ Distinct(b.calls) /\ Count(b.calls) = Count(a.calls) + Len(new)
<1> DEFINE n == Count(a.calls)
           s == Deliveries(n, new)
           M(k) == Midway(a.calls, new, k)
           g == [k \in 0 .. 2 * Len(new) |-> [a EXCEPT !.calls = M(k)]]
<1>1. a.calls \in CallLists /\ n \in Nat /\ DOMAIN a.calls = 0 .. n - 1 /\ Len(new) \in Nat
  BY Counted DEF Answers
<1>2. \A k \in 0 .. 2 * Len(new) :
         /\ M(k) \in CallLists /\ Count(M(k)) = n + Half(k) /\ Distinct(M(k))
         /\ \A at \in 0 .. n + Half(k) - 1 :
               M(k)[at].id = IF at < n THEN a.calls[at].id ELSE new[at - n + 1].id
  BY <1>1, MidwayCalls
<1>3. /\ Half(0) = 0 /\ Half(2 * Len(new)) = Len(new)
      /\ 0 % 2 = 0 /\ (2 * Len(new)) % 2 = 0
  BY <1>1 DEF Half
<1>4. M(0) = a.calls
  <2>1. M(0) = [at \in 0 .. n - 1 |-> a.calls[at]]
    BY <1>1, <1>3 DEF Midway
  <2>2. QED
    BY <2>1, <1>1 DEF CallLists
<1>5. M(2 * Len(new)) = Longer(a.calls, new)
  BY <1>1, <1>3 DEF Midway, Longer
<1>6. /\ Len(s) = 2 * Len(new)
      /\ \A k \in 1 .. 2 * Len(new) : s[k] = CallDelta(k, n + Half(k) - 1, new[Half(k)])
  BY <1>1, Delivered
<1>7. \A k \in 0 .. 2 * Len(new) : /\ g[k] = [a EXCEPT !.calls = M(k)] /\ g[k] \in Answers
                                   /\ g[k].calls = M(k) /\ g[k].finish = "none"
  BY <1>2 DEF Answers
<1>8. \A k, j \in 0 .. 2 * Len(new) : [g[k] EXCEPT !.calls = M(j)] = g[j]
  BY <1>7 DEF Answers
<1> HIDE DEF g, M, n, s
<1>9. ASSUME NEW k \in 1 .. 2 * Len(new)
      PROVE  Follows(g[k - 1], s[k]) /\ g[k] = Assembled(g[k - 1], s[k])
  <2> DEFINE h == Half(k)
             x == g[k - 1]
  <2>1. /\ h \in 1 .. Len(new) /\ new[h] \in Called /\ k - 1 \in 0 .. 2 * Len(new)
        /\ k \in 0 .. 2 * Len(new) /\ k % 2 \in {0, 1}
        /\ k % 2 = 1 => Half(k - 1) = h - 1 /\ (k - 1) % 2 = 0
        /\ k % 2 = 0 => Half(k - 1) = h /\ (k - 1) % 2 = 1
    <3>1. h \in 1 .. Len(new)
      BY <1>1, Halves
    <3>2. new[h] \in Called
      BY <3>1
    <3>3. QED
      BY <1>1, <3>1, <3>2, Halves
  <2>2. x \in Answers /\ x.calls = M(k - 1) /\ x.finish = "none"
    BY <2>1, <1>7
  <2>c. s[k] = CallDelta(k, n + h - 1, new[h])
    BY <1>6
  <2>d. h \in Nat /\ h >= 1 /\ h <= Len(new) /\ n + h - 1 \in Nat
    BY <2>1, <1>1
  <2> HIDE DEF h, x
  <2>3. CASE k % 2 = 1
    <3>1. s[k] = Opening(n + h - 1, new[h].id, new[h].name)
      BY <2>3, <2>c DEF CallDelta
    <3>2. /\ x.calls \in CallLists /\ Count(x.calls) = n + h - 1 /\ Distinct(x.calls)
          /\ DOMAIN x.calls = 0 .. n + (h - 1) - 1
      <4>1. x.calls \in CallLists /\ Count(x.calls) = n + (h - 1) /\ Distinct(x.calls)
        BY <2>1, <2>2, <2>3, <1>2
      <4>2. DOMAIN x.calls = 0 .. Count(x.calls) - 1
        BY <4>1, Counted
      <4>3. n + (h - 1) = n + h - 1 /\ (n + (h - 1)) - 1 = n + (h - 1) - 1
        BY <2>d, <1>1
      <4>4. DOMAIN x.calls = 0 .. (n + (h - 1)) - 1
        BY <4>1, <4>2
      <4>5. QED
        BY <4>1, <4>3, <4>4
    <3>3. \A at \in DOMAIN x.calls : x.calls[at].id # new[h].id
      <4>1. ASSUME NEW at \in DOMAIN x.calls PROVE x.calls[at].id # new[h].id
        <5>1. at \in 0 .. n + Half(k - 1) - 1 /\ at \in Nat /\ at < n + h - 1
          <6>1. at \in 0 .. n + (h - 1) - 1 /\ Half(k - 1) = h - 1
            BY <3>2, <2>1, <2>3
          <6>2. QED
            BY <6>1, <2>d, <1>1
        <5>2. x.calls[at].id = IF at < n THEN a.calls[at].id ELSE new[at - n + 1].id
          BY <5>1, <2>1, <2>2, <1>2
        <5>3. CASE at < n
          <6>1. at \in DOMAIN a.calls /\ x.calls[at].id = a.calls[at].id
            BY <5>1, <5>2, <5>3, <1>1
          <6>2. QED
            BY <6>1, <2>1 DEF Told
        <5>4. CASE at >= n
          <6>1. at - n + 1 \in 1 .. Len(new) /\ at - n + 1 # h
            BY <5>1, <5>4, <2>d, <1>1
          <6>2. x.calls[at].id = new[at - n + 1].id
            BY <5>1, <5>2, <5>4, <1>1
          <6>3. QED
            BY <6>1, <6>2, <2>1 DEF Told
        <5>5. QED
          BY <5>1, <5>3, <5>4, <1>1
      <4>2. QED
        BY <4>1
    <3>4. new[h].id \in Ids /\ new[h].name \in Names
      BY <2>1 DEF Called
    <3> DEFINE call == Call(new[h].id, new[h].name, "nothing")
    <3>5. Follows(x, s[k]) /\ Assembled(x, s[k]) = [x EXCEPT !.calls = With(x.calls, n + h - 1, call)]
      BY <2>2, <3>1, <3>2, <3>3, <3>4, AsOpening
    <3>6. With(x.calls, n + h - 1, call) = M(k)
      <4>1. M(k) = [at \in 0 .. n + h - 1 |->
                      IF at < n THEN a.calls[at] ELSE IF at = n + h - 1 THEN call ELSE new[at - n + 1]]
        BY <2>3 DEF M, Midway, n, h
      <4>2. x.calls = [at \in 0 .. n + (h - 1) - 1 |-> IF at < n THEN a.calls[at] ELSE new[at - n + 1]]
        <5>1. x.calls = Midway(a.calls, new, k - 1) /\ (k - 1) % 2 = 0 /\ Half(k - 1) = h - 1
          BY <2>1, <2>2, <2>3 DEF M
        <5>2. QED
          BY <5>1 DEF Midway, n
      <4>3. DOMAIN x.calls \cup {n + h - 1} = 0 .. n + h - 1 /\ n + h - 1 >= n
        BY <3>2, <2>d, <1>1
      <4> HIDE DEF call
      <4> DEFINE f == With(x.calls, n + h - 1, call)
      <4>4. /\ DOMAIN f = 0 .. n + h - 1
            /\ f = [at \in 0 .. n + h - 1 |-> IF at = n + h - 1 THEN call ELSE x.calls[at]]
        BY <4>3 DEF With
      <4>5. ASSUME NEW at \in 0 .. n + h - 1
            PROVE  (IF at = n + h - 1 THEN call ELSE x.calls[at]) =
                   IF at < n THEN a.calls[at] ELSE IF at = n + h - 1 THEN call ELSE new[at - n + 1]
        <5>1. CASE at = n + h - 1
          BY <5>1, <4>3, <2>d, <1>1
        <5>2. CASE at # n + h - 1
          <6>1. at \in 0 .. n + (h - 1) - 1
            BY <5>2, <2>d, <1>1
          <6>2. QED
            BY <6>1, <5>2, <4>2
        <5>3. QED
          BY <5>1, <5>2
      <4>6. QED
        BY <4>1, <4>4, <4>5
    <3>7. [x EXCEPT !.calls = M(k)] = g[k]
      BY <2>1, <1>8 DEF x
    <3>8. QED
      BY <3>5, <3>6, <3>7 DEF x
  <2>4. CASE k % 2 = 0
    <3> DEFINE at == n + h - 1
    <3>1. s[k] = Arguments(at, new[h].args)
      BY <2>4, <2>c DEF CallDelta
    <3>2. /\ x.calls \in CallLists /\ Count(x.calls) = n + h /\ Distinct(x.calls)
          /\ at \in DOMAIN x.calls /\ at >= n
      <4>1. x.calls \in CallLists /\ Count(x.calls) = n + h /\ Distinct(x.calls)
        BY <2>1, <2>2, <2>4, <1>2
      <4>2. QED
        <5>1. DOMAIN x.calls = 0 .. Count(x.calls) - 1
          BY <4>1, Counted
        <5>2. DOMAIN x.calls = 0 .. (n + h) - 1
          BY <4>1, <5>1
        <5>3. at \in 0 .. (n + h) - 1 /\ at >= n
          BY <2>d, <1>1
        <5>4. QED
          BY <4>1, <5>2, <5>3
    <3>3. x.calls = [i \in 0 .. n + h - 1 |->
                       IF i < n THEN a.calls[i]
                       ELSE IF i = n + h - 1 THEN Call(new[h].id, new[h].name, "nothing")
                       ELSE new[i - n + 1]]
      <4>1. x.calls = Midway(a.calls, new, k - 1) /\ (k - 1) % 2 = 1 /\ Half(k - 1) = h
        BY <2>1, <2>2, <2>4 DEF M
      <4>2. QED
        BY <4>1 DEF Midway, n
    <3>4. x.calls[at] = Call(new[h].id, new[h].name, "nothing")
      <4>1. at \in 0 .. n + h - 1 /\ ~(at < n)
        BY <3>2, <2>d, <1>1
      <4>2. QED
        BY <4>1, <3>3
    <3>5. /\ new[h].args \in Pieces /\ Joined(x.calls[at].args, new[h].args) = new[h].args
          /\ new[h].args # "garbled"
      <4>1. x.calls[at].args = "nothing" /\ new[h].args \in Args
        BY <3>4, <2>1 DEF Call, Called
      <4>2. QED
        BY <4>1 DEF Joined, Args, Pieces
    <3> DEFINE call == [x.calls[at] EXCEPT !.args = Joined(x.calls[at].args, new[h].args)]
    <3>6. call = new[h]
      BY <3>4, <3>5, <2>1 DEF Call, Called
    <3>7. Follows(x, s[k]) /\ Assembled(x, s[k]) = [x EXCEPT !.calls = With(x.calls, at, call)]
      BY <2>2, <3>1, <3>2, <3>5, AsArguments
    <3>8. With(x.calls, at, new[h]) = M(k)
      <4>1. M(k) = [i \in 0 .. n + h - 1 |-> IF i < n THEN a.calls[i] ELSE new[i - n + 1]]
        BY <2>4 DEF M, Midway, n, h
      <4>2. DOMAIN x.calls \cup {at} = 0 .. n + h - 1
        BY <3>2, <3>3
      <4>3. at - n + 1 = h /\ ~(at < n)
        BY <3>2, <2>d, <1>1
      <4> DEFINE f == With(x.calls, at, new[h])
      <4>4. f = [i \in 0 .. n + h - 1 |-> IF i = at THEN new[h] ELSE x.calls[i]]
        BY <4>2 DEF With
      <4>5. ASSUME NEW i \in 0 .. n + h - 1
            PROVE  (IF i = at THEN new[h] ELSE x.calls[i]) = IF i < n THEN a.calls[i] ELSE new[i - n + 1]
        BY <4>3, <3>3
      <4>6. QED
        BY <4>1, <4>4, <4>5
    <3>9. [x EXCEPT !.calls = M(k)] = g[k]
      BY <2>1, <1>8 DEF x
    <3>10. QED
      BY <3>6, <3>7, <3>8, <3>9 DEF x
  <2>5. QED
    BY <2>1, <2>3, <2>4
<1>10. Leads(g, s)
  BY <1>6, <1>9 DEF Leads
<1>11. g[0] = a /\ g[Len(s)] = [a EXCEPT !.calls = Longer(a.calls, new)]
  <2>1. 0 \in 0 .. 2 * Len(new) /\ 2 * Len(new) \in 0 .. 2 * Len(new)
    BY <1>1
  <2>2. [a EXCEPT !.calls = a.calls] = a
    BY DEF Answers
  <2>3. QED
    BY <2>1, <2>2, <1>4, <1>5, <1>6, <1>7
<1>12. Path(a, s, [a EXCEPT !.calls = Longer(a.calls, new)])
  BY <1>10, <1>11 DEF Path
<1>13. QED
  <2>1. 2 * Len(new) \in 0 .. 2 * Len(new)
    BY <1>1
  <2>2. LET b == [a EXCEPT !.calls = Longer(a.calls, new)]
        IN b \in Answers /\ b.calls = Longer(a.calls, new)
    BY <2>1, <1>5, <1>7
  <2>3. Distinct(Longer(a.calls, new)) /\ Count(Longer(a.calls, new)) = n + Len(new)
    BY <2>1, <1>2, <1>3, <1>5
  <2>4. QED
    BY <1>12, <2>2, <2>3 DEF n, s

-----------------------------------------------------------------------------
(* Fresh ids: above every number issued so far.                            *)

LEMMA FiniteImage ==
  ASSUME NEW S, IsFiniteSet(S), NEW f, DOMAIN f = S
  PROVE  IsFiniteSet({f[x] : x \in S})
<1> DEFINE T == {f[x] : x \in S}
           g == [x \in S |-> f[x]]
<1>1. g \in Surjection(S, T)
  BY DEF Surjection
<1>2. QED
  BY <1>1, FS_Surjection

LEMMA FiniteList ==
  ASSUME NEW n \in Nat
  PROVE  IsFiniteSet(1 .. n)
BY FS_Interval

LEMMA FiniteIssued ==
  ASSUME HistoryInv(history, trimmed), told \in Heard
  PROVE  /\ Issued \subseteq Ids /\ IsFiniteSet(Issued)
         /\ \A at \in DOMAIN told.calls : told.calls[at].id \in Issued
<1>1. /\ history \in Seq(Written) /\ Len(history) \in Nat /\ DOMAIN history = 1 .. Len(history)
      /\ \A i \in DOMAIN history : /\ history[i].calls \in Seq(Called)
                                   /\ Len(history[i].calls) \in Nat
                                   /\ DOMAIN history[i].calls = 1 .. Len(history[i].calls)
  <2>1. history \in Seq(Written)
    BY DEF HistoryInv
  <2>2. \A i \in 1 .. Len(history) : history[i] \in Written
    BY <2>1
  <2>3. \A m \in Written : m.calls \in Seq(Called)
    BY DEF Written
  <2>4. \A s \in Seq(Called) : Len(s) \in Nat /\ DOMAIN s = 1 .. Len(s)
    OBVIOUS
  <2>5. QED
    BY <2>1, <2>2, <2>3, <2>4
<1>2. /\ told.calls \in CallLists /\ Count(told.calls) \in Nat
      /\ DOMAIN told.calls = 0 .. Count(told.calls) - 1
      /\ \A at \in DOMAIN told.calls : told.calls[at] \in Called
  BY Counted DEF Heard
<1> DEFINE All == Calls(history) \cup Range(told.calls)
<1>3. All \subseteq Called
  BY <1>1, <1>2 DEF Calls, Range
<1>4. IsFiniteSet(All)
  <2> DEFINE rows == [i \in DOMAIN history |-> Range(history[i].calls)]
             Rows == {rows[i] : i \in DOMAIN history}
  <2>1. IsFiniteSet(DOMAIN history)
    BY <1>1, FiniteList
  <2>2. IsFiniteSet(Rows)
    BY <2>1, FiniteImage
  <2>3. ASSUME NEW i \in DOMAIN history PROVE IsFiniteSet(Range(history[i].calls))
    <3>1. IsFiniteSet(DOMAIN history[i].calls)
      BY <1>1, FiniteList
    <3>2. QED
      BY <3>1, FiniteImage DEF Range
  <2>4. IsFiniteSet(UNION Rows)
    <3>1. \A T \in Rows : IsFiniteSet(T)
      BY <2>3
    <3> HIDE DEF Rows
    <3>2. QED
      BY <2>2, <3>1, FS_UNION
  <2>5. Calls(history) = UNION Rows
    BY DEF Calls
  <2>6. IsFiniteSet(Range(told.calls))
    <3>1. IsFiniteSet(DOMAIN told.calls)
      BY <1>2, FS_Interval
    <3>2. QED
      BY <3>1, FiniteImage DEF Range
  <2>7. QED
    BY <2>4, <2>5, <2>6, FS_Union
<1> HIDE DEF All
<1> DEFINE id == [call \in All |-> call.id]
<1>5. Issued = {id[call] : call \in All}
  BY DEF Issued, All
<1>6. IsFiniteSet(Issued)
  BY <1>4, <1>5, FiniteImage
<1>7. Issued \subseteq Ids
  BY <1>3, <1>5 DEF Called
<1>8. \A at \in DOMAIN told.calls : told.calls[at].id \in Issued
  BY DEF Issued, Range
<1>9. QED
  BY <1>6, <1>7, <1>8

LEMMA Fresh ==
  ASSUME HistoryInv(history, trimmed), told \in Heard
  PROVE  /\ \A k \in Nat \ {0} : FreshId(k) \in Ids /\ FreshId(k) \notin Issued
         /\ \A at \in DOMAIN told.calls : told.calls[at].id # FreshId(1)
         /\ \A j, k \in Nat : FreshId(j) = FreshId(k) => j = k
<1>1. Issued \subseteq Ids /\ IsFiniteSet(Issued)
  BY FiniteIssued
<1> DEFINE no == [id \in Issued |-> id.no]
           S == {0} \cup {id.no : id \in Issued}
<1>2. {id.no : id \in Issued} = {no[id] : id \in Issued}
  OBVIOUS
<1>3. IsFiniteSet({id.no : id \in Issued})
  <2>1. DOMAIN no = Issued
    OBVIOUS
  <2> HIDE DEF no
  <2>2. IsFiniteSet({no[id] : id \in Issued})
    BY <1>1, <2>1, FiniteImage
  <2>3. QED
    BY <1>2, <2>2
<1>4. IsFiniteSet(S) /\ S \subseteq Nat /\ S # {}
  <2>1. \A id \in Issued : id.no \in Nat
    BY <1>1 DEF Ids
  <2>2. IsFiniteSet({0})
    BY FS_Singleton
  <2>3. IsFiniteSet(S)
    BY <2>2, <1>3, FS_Union
  <2>4. QED
    BY <2>1, <2>3
<1>5. Max(S) \in S /\ \A y \in S : y <= Max(S)
  <2> HIDE DEF S
  <2>1. QED
    BY <1>4, GreatestNatural
<1>6. \A k : FreshId(k) = [no |-> Max(S) + k, by |-> "vendor", name |-> NoName]
  BY DEF FreshId, VendorId
<1>7. \A id \in Issued : id.no <= Max(S)
  BY <1>5
<1>8. Max(S) \in Nat
  BY <1>4, <1>5
<1> HIDE DEF S
<1>9. ASSUME NEW k \in Nat \ {0} PROVE FreshId(k) \in Ids /\ FreshId(k) \notin Issued
  BY <1>6, <1>7, <1>8 DEF Ids
<1>10. ASSUME NEW j \in Nat, NEW k \in Nat, FreshId(j) = FreshId(k) PROVE j = k
  <2>1. FreshId(j).no = Max(S) + j /\ FreshId(k).no = Max(S) + k
    BY <1>6
  <2>2. QED
    BY <2>1, <1>8, <1>10
<1>11. QED
  BY <1>9, <1>10, FiniteIssued

-----------------------------------------------------------------------------
(* Translation: what a history becomes is what the vendor takes.           *)

LEMMA Messages ==
  ASSUME NEW h, NEW cut, HistoryInv(h, cut)
  PROVE  /\ h \in Seq(Written) /\ Len(h) \in Nat /\ DOMAIN h = 1 .. Len(h)
         /\ \A i \in DOMAIN h : /\ h[i] \in Written /\ Kept(h[i]) /\ h[i].calls \in Seq(Called)
                                /\ Len(h[i].calls) \in Nat /\ DOMAIN h[i].calls = 1 .. Len(h[i].calls)
                                /\ \A c \in DOMAIN h[i].calls : h[i].calls[c] \in Called
<1>1. h \in Seq(Written) /\ \A i \in DOMAIN h : Kept(h[i])
  BY DEF HistoryInv
<1>2. Len(h) \in Nat /\ DOMAIN h = 1 .. Len(h) /\ \A i \in 1 .. Len(h) : h[i] \in Written
  BY <1>1
<1>3. \A m \in Written : m.calls \in Seq(Called)
  BY DEF Written
<1>4. \A s \in Seq(Called) : Len(s) \in Nat /\ DOMAIN s = 1 .. Len(s) /\ \A c \in 1 .. Len(s) : s[c] \in Called
  OBVIOUS
<1>5. QED
  BY <1>1, <1>2, <1>3, <1>4

\* A result is sent to Ollama with the name of a call before it.
LEMMA OllamaIsServed ==
  ASSUME NEW h, NEW cut, HistoryInv(h, cut), ResultsHaveCalls(h)
  PROVE  OllamaTakes(OllamaMessages(h))
<1> DEFINE sent == OllamaMessages(h)
<1>1. Len(h) \in Nat /\ DOMAIN h = 1 .. Len(h)
  BY Messages
<1>2. DOMAIN sent = DOMAIN h
  BY DEF OllamaMessages
<1>3. ASSUME NEW i \in DOMAIN h, sent[i].role = "tool"
      PROVE  \E j \in 1 .. i - 1 : sent[i].tool \in Range(sent[j].calls)
  <2>1. h[i].role = "tool"
    BY <1>3 DEF OllamaMessages
  <2> DEFINE S == CallsSoFar(h, i)
  <2>2. S \subseteq 1 .. i - 1 /\ S # {} /\ i \in Nat
    BY <2>1, <1>1 DEF CallsSoFar, ResultsHaveCalls
  <2>3. IsFiniteSet(S) /\ S \subseteq Nat
    <3>1. i - 1 \in Int /\ IsFiniteSet(1 .. i - 1)
      BY <2>2, FS_Interval
    <3>2. QED
      BY <2>2, <3>1, FS_Subset
  <2>4. Max(S) \in S
    <3> HIDE DEF S
    <3>1. QED
      BY <2>2, <2>3, GreatestNatural
  <2> DEFINE j == Max(S)
             calls == h[j].calls
             call == CHOOSE c \in Range(calls) : c.id = h[i].of
  <2>5. j \in 1 .. i - 1 /\ j \in DOMAIN h /\ h[i].of \in IdsIn(h[j])
    <3>1. j \in 1 .. i - 1
      BY <2>2, <2>4
    <3>2. j \in DOMAIN h
      BY <3>1, <2>2, <1>1
    <3>3. h[i].of \in IdsIn(h[j])
      BY <2>4 DEF CallsSoFar
    <3>4. QED
      BY <3>1, <3>2, <3>3
  <2>6. call \in Range(calls)
    BY <2>5 DEF IdsIn
  <2>7. PICK c \in DOMAIN calls : call = calls[c]
    BY <2>6 DEF Range
  <2>8. CalledName(h, i) = call.name
    BY <2>1, <2>2 DEF CalledName
  <2>9. sent[i].tool = call.name /\ sent[j].calls = [x \in DOMAIN calls |-> calls[x].name]
    BY <2>5, <2>8 DEF OllamaMessages
  <2> HIDE DEF j, sent, calls, call
  <2>10. sent[i].tool \in Range(sent[j].calls)
    BY <2>7, <2>9 DEF Range
  <2>11. QED
    BY <2>5, <2>10
<1>4. QED
  BY <1>2, <1>3 DEF OllamaTakes

Kinds3 == {"content", "tool_use", "tool_result"}
AnyBlock == [kind : Kinds3, id : Ids \cup {NoId}]
AnyTurn == [role : {"assistant", "user"}, content : Seq(AnyBlock)]

\* A message's blocks: the result it is, or a block for every call.
LEMMA BlocksOf ==
  ASSUME NEW m \in Written, Kept(m)
  PROVE  /\ Blocks(m) \in Seq(AnyBlock)
         /\ \A x \in 1 .. Len(Blocks(m)) :
               Blocks(m)[x].kind = "tool_result" => m.role = "tool" /\ Blocks(m)[x].id = m.of
         /\ \A id \in IdsIn(m) : \E x \in 1 .. Len(Blocks(m)) : Blocks(m)[x] = Block("tool_use", id)
         /\ IdsIn(m) # {} => m.role = "assistant"
<1>1. /\ m.role \in Roles /\ m.of \in Ids \cup {NoId} /\ m.calls \in Seq(Called) /\ m.parts \subseteq Parts
      /\ Len(m.calls) \in Nat /\ DOMAIN m.calls = 1 .. Len(m.calls)
      /\ \A c \in 1 .. Len(m.calls) : m.calls[c] \in Called
  <2>1. m.calls \in Seq(Called)
    BY DEF Written
  <2>2. QED
    BY <2>1 DEF Written
<1>2. IdsIn(m) # {} => m.role = "assistant"
  <2>1. m.role # "assistant" => m.calls = <<>>
    BY DEF Kept
  <2>2. m.calls = <<>> => IdsIn(m) = {}
    BY DEF IdsIn, Range
  <2>3. QED
    BY <2>1, <2>2
<1>3. CASE m.role = "tool"
  <2>1. Blocks(m) = <<Block("tool_result", m.of)>>
    BY <1>3 DEF Blocks
  <2>2. Block("tool_result", m.of) \in AnyBlock
    BY <1>1 DEF Block, AnyBlock, Kinds3
  <2>3. QED
    BY <2>1, <2>2, <1>2, <1>3 DEF Block
<1>4. CASE m.role # "tool"
  <2> DEFINE k == Cardinality(Shown(m))
             n == Len(m.calls)
             s == [i \in 1 .. k |-> Block("content", NoId)]
             t == [i \in 1 .. n |-> Block("tool_use", m.calls[i].id)]
  <2>1. k \in Nat
    <3>1. IsFiniteSet(Parts)
      <4>1. IsFiniteSet(1 .. 6)
        BY FiniteList
      <4> DEFINE part == <<"text", "blank", "refusal", "inline_image", "linked_image", "audio">>
      <4>2. DOMAIN part = 1 .. 6
        OBVIOUS
      <4>3. Parts = {part[i] : i \in 1 .. 6}
        <5>1. Parts \subseteq {part[i] : i \in 1 .. 6}
          <6>1. \A p \in Parts : p \in {part[1], part[2], part[3], part[4], part[5], part[6]}
            BY DEF Parts
          <6>2. \A i \in 1 .. 6 : part[i] \in {part[j] : j \in 1 .. 6}
            OBVIOUS
          <6>3. 1 \in 1 .. 6 /\ 2 \in 1 .. 6 /\ 3 \in 1 .. 6 /\ 4 \in 1 .. 6 /\ 5 \in 1 .. 6 /\ 6 \in 1 .. 6
            OBVIOUS
          <6> HIDE DEF part
          <6>4. QED
            BY <6>1, <6>2, <6>3
        <5>2. \A i \in 1 .. 6 : part[i] \in Parts
          BY DEF Parts
        <5> HIDE DEF part
        <5>3. QED
          BY <5>1, <5>2
      <4> HIDE DEF part
      <4>4. QED
        BY <4>1, <4>2, <4>3, FiniteImage
    <3>2. Shown(m) \subseteq Parts
      BY <1>1 DEF Shown
    <3>3. IsFiniteSet(Shown(m))
      BY <3>1, <3>2, FS_Subset
    <3>4. QED
      BY <3>3, FS_CardinalityType
  <2>2. Blocks(m) = s \o t
    BY <1>1, <1>4 DEF Blocks
  <2> HIDE DEF k
  <2>3. Block("content", NoId) \in AnyBlock /\ Block("content", NoId).kind = "content"
    BY DEF Block, AnyBlock, Kinds3
  <2>4. \A i \in 1 .. n : LET b == Block("tool_use", m.calls[i].id) IN b \in AnyBlock /\ b.kind = "tool_use"
    BY <1>1 DEF Block, AnyBlock, Kinds3, Called
  <2> DEFINE Use(i) == Block("tool_use", m.calls[i].id)
             More == Block("content", NoId)
  <2> HIDE DEF Use, More
  <2>5. s = [i \in 1 .. k |-> More] /\ t = [i \in 1 .. n |-> Use(i)]
    BY DEF Use, More
  <2>6. More \in AnyBlock /\ More.kind = "content"
    BY <2>3 DEF More
  <2>7. \A i \in 1 .. n : Use(i) \in AnyBlock /\ Use(i).kind = "tool_use"
    BY <2>4 DEF Use
  <2>8. /\ s \in Seq(AnyBlock) /\ Len(s) = k /\ \A i \in 1 .. k : s[i] = More
        /\ t \in Seq(AnyBlock) /\ Len(t) = n /\ \A i \in 1 .. n : t[i] = Use(i)
    <3>1. n \in Nat
      BY <1>1
    <3> HIDE DEF s, t, n
    <3>2. s \in Seq(AnyBlock) /\ Len(s) = k /\ \A i \in 1 .. k : s[i] = More
      BY <2>1, <2>5, <2>6
    <3>3. t \in Seq(AnyBlock) /\ Len(t) = n /\ \A i \in 1 .. n : t[i] = Use(i)
      BY <3>1, <2>5, <2>7
    <3>4. QED
      BY <3>2, <3>3
  <2>9. n \in Nat
    BY <1>1
  <2> HIDE DEF s, t, n
  <2>10. /\ s \o t \in Seq(AnyBlock) /\ Len(s \o t) = k + n
         /\ \A x \in 1 .. k : (s \o t)[x] = More
         /\ \A i \in 1 .. n : (s \o t)[k + i] = Use(i)
    BY <2>1, <2>8, <2>9
  <2>11. \A x \in 1 .. k + n : (s \o t)[x].kind # "tool_result"
    <3>1. ASSUME NEW x \in 1 .. k + n PROVE (s \o t)[x].kind # "tool_result"
      <4>1. CASE x \in 1 .. k
        BY <4>1, <2>6, <2>10
      <4>2. CASE x \notin 1 .. k
        <5>1. x - k \in 1 .. n /\ x = k + (x - k)
          BY <4>2, <2>1, <2>9
        <5>2. QED
          BY <5>1, <2>7, <2>10 DEF n
      <4>3. QED
        BY <4>1, <4>2
    <3>2. QED
      BY <3>1
  <2>12. ASSUME NEW id \in IdsIn(m)
         PROVE  \E x \in 1 .. k + n : (s \o t)[x] = Block("tool_use", id)
    <3>1. PICK c \in 1 .. n : id = m.calls[c].id
      BY <1>1 DEF IdsIn, Range, n
    <3>2. k + c \in 1 .. k + n /\ (s \o t)[k + c] = Block("tool_use", id)
      BY <3>1, <2>1, <2>9, <2>10 DEF Use
    <3>3. QED
      BY <3>2
  <2>13. QED
    BY <2>2, <2>10, <2>11, <2>12, <1>2
<1>5. QED
  BY <1>3, <1>4

\* Turns that Anthropic takes; a turn that has a call's block.
Takeable(turns) == turns \in Seq(AnyTurn) /\ AnthropicTakes(turns)
Uses(turn, id) == turn.role = "assistant" /\ HasBlock(turn, "tool_use", id)

\* The calls of the first messages each have their block.
Placed(turns, h, n) == \A i \in 1 .. n : \A id \in IdsIn(h[i]) : \E u \in 1 .. Len(turns) : Uses(turns[u], id)

LEMMA LongerBlocks ==
  ASSUME NEW s \in Seq(AnyBlock), NEW t \in Seq(AnyBlock)
  PROVE  /\ s \o t \in Seq(AnyBlock) /\ Len(s \o t) = Len(s) + Len(t)
         /\ Len(s) \in Nat /\ Len(t) \in Nat
         /\ \A x \in 1 .. Len(s) : (s \o t)[x] = s[x]
         /\ \A x \in 1 .. Len(t) : (s \o t)[Len(s) + x] = t[x]
OBVIOUS

\* A message more: its blocks join the last turn or make one, the results
\* among them after the calls they answer.
LEMMA AddsTurn ==
  ASSUME NEW ts, Takeable(ts), NEW m \in Written, Kept(m),
         m.role = "tool" => \E u \in 1 .. Len(ts) : Uses(ts[u], m.of)
  PROVE  LET more == AddTurn(ts, m)
         IN /\ Takeable(more) /\ Len(ts) <= Len(more)
            /\ \A u \in 1 .. Len(ts) : \A id : Uses(ts[u], id) => Uses(more[u], id)
            /\ \A id \in IdsIn(m) : \E u \in 1 .. Len(more) : Uses(more[u], id)
<1> DEFINE blocks == Blocks(m)
           n == Len(ts)
           more == AddTurn(ts, m)
<1>1. /\ blocks \in Seq(AnyBlock) /\ Len(blocks) \in Nat
      /\ \A x \in 1 .. Len(blocks) : blocks[x].kind = "tool_result" => m.role = "tool" /\ blocks[x].id = m.of
      /\ \A id \in IdsIn(m) : \E x \in 1 .. Len(blocks) : blocks[x] = Block("tool_use", id)
      /\ IdsIn(m) # {} => m.role = "assistant"
  BY BlocksOf
<1>2. /\ ts \in Seq(AnyTurn) /\ n \in Nat /\ DOMAIN ts = 1 .. n
      /\ \A u \in 1 .. n : /\ ts[u] \in AnyTurn /\ ts[u].content \in Seq(AnyBlock) /\ ts[u].content # <<>>
                           /\ Len(ts[u].content) \in Nat /\ DOMAIN ts[u].content = 1 .. Len(ts[u].content)
  <2>1. ts \in Seq(AnyTurn) /\ n \in Nat /\ DOMAIN ts = 1 .. n /\ \A u \in 1 .. n : ts[u] \in AnyTurn
    BY DEF Takeable
  <2>2. \A turn \in AnyTurn : turn.content \in Seq(AnyBlock)
    BY DEF AnyTurn
  <2>3. \A s \in Seq(AnyBlock) : Len(s) \in Nat /\ DOMAIN s = 1 .. Len(s)
    OBVIOUS
  <2>4. \A u \in 1 .. n : ts[u].content # <<>>
    BY <2>1 DEF Takeable, AnthropicTakes
  <2>5. QED
    BY <2>1, <2>2, <2>3, <2>4
<1>3. /\ \A t \in 2 .. n : ts[t].role # ts[t - 1].role
      /\ \A t \in 1 .. n : \A x \in DOMAIN ts[t].content :
            ts[t].content[x].kind = "tool_result" =>
               \E u \in 1 .. t - 1 : HasBlock(ts[u], "tool_use", ts[t].content[x].id)
  BY <1>2 DEF Takeable, AnthropicTakes
<1>4. m.role = "assistant" => Spoken(m)
  BY DEF Spoken
<1> HIDE DEF blocks, n
<1>5. CASE ~Spoken(m) \/ blocks = <<>>
  <2>1. more = ts
    BY <1>5 DEF AddTurn, blocks
  <2>2. IdsIn(m) = {}
    BY <1>1, <1>4, <1>5
  <2>3. QED
    BY <2>1, <2>2, <1>2 DEF n
<1>6. CASE ~(~Spoken(m) \/ blocks = <<>>) /\ ts # <<>> /\ Last(ts).role = Speaker(m)
  <2> DEFINE content == ts[n].content \o blocks
             turn == [ts[n] EXCEPT !.content = content]
  <2>1. n \in 1 .. n
    BY <1>2, <1>6, EmptySeq DEF n
  <2>2. ts[n].role = Speaker(m)
    BY <1>6 DEF Last, n
  <2>3. more = [ts EXCEPT ![n].content = ts[n].content \o blocks]
    BY <1>6 DEF AddTurn, blocks, n
  <2>4. more = [ts EXCEPT ![n] = turn]
    BY <2>3
  <2> HIDE DEF more
  <2>5. /\ content \in Seq(AnyBlock) /\ Len(content) = Len(ts[n].content) + Len(blocks)
        /\ \A x \in 1 .. Len(ts[n].content) : content[x] = ts[n].content[x]
        /\ \A x \in 1 .. Len(blocks) : content[Len(ts[n].content) + x] = blocks[x]
    BY <1>1, <1>2, <2>1, LongerBlocks
  <2>6. content # <<>> /\ DOMAIN content = 1 .. Len(content) /\ Len(ts[n].content) \in Nat
    <3>1. Len(ts[n].content) \in Nat /\ DOMAIN ts[n].content = 1 .. Len(ts[n].content)
      BY <1>2, <2>1
    <3>2. Len(ts[n].content) > 0
      BY <3>1, <1>2, <2>1, EmptySeq
    <3>3. Len(content) > 0
      BY <3>1, <3>2, <2>5, <1>1
    <3>4. QED
      BY <3>1, <3>3, <2>5
  <2> HIDE DEF content
  <2>7. turn \in AnyTurn /\ turn.role = ts[n].role /\ turn.content = content
    BY <1>2, <2>1, <2>5 DEF AnyTurn
  <2> HIDE DEF turn
  <2>8. /\ more \in Seq(AnyTurn) /\ Len(more) = n /\ DOMAIN more = 1 .. n
        /\ more[n] = turn /\ \A u \in 1 .. n : u # n => more[u] = ts[u]
    BY <1>2, <2>1, <2>4, <2>7 DEF n
  <2>9. \A u \in 1 .. n : \A kind, id : HasBlock(ts[u], kind, id) => HasBlock(more[u], kind, id)
    <3>1. ASSUME NEW kind, NEW id, HasBlock(ts[n], kind, id) PROVE HasBlock(turn, kind, id)
      <4>1. PICK x \in 1 .. Len(ts[n].content) : ts[n].content[x] = Block(kind, id)
        BY <3>1, <1>2, <2>1 DEF HasBlock
      <4>2. x \in DOMAIN content /\ content[x] = Block(kind, id)
        BY <4>1, <1>1, <2>5, <2>6
      <4>3. QED
        BY <4>2, <2>7 DEF HasBlock
    <3>2. QED
      BY <3>1, <2>8
  <2>10. \A u \in 1 .. n : more[u].role = ts[u].role
    BY <2>7, <2>8
  <2>11. \A u \in 1 .. n : \A id : Uses(ts[u], id) => Uses(more[u], id)
    BY <2>9, <2>10 DEF Uses
  <2>12. ASSUME NEW id \in IdsIn(m) PROVE \E u \in 1 .. n : Uses(more[u], id)
    <3>1. PICK x \in 1 .. Len(blocks) : blocks[x] = Block("tool_use", id)
      BY <1>1
    <3>2. Len(ts[n].content) + x \in DOMAIN content /\ content[Len(ts[n].content) + x] = Block("tool_use", id)
      BY <3>1, <1>1, <2>5, <2>6
    <3>3. HasBlock(more[n], "tool_use", id)
      BY <3>2, <2>7, <2>8 DEF HasBlock
    <3>4. more[n].role = "assistant"
      BY <1>1, <2>1, <2>2, <2>10 DEF Speaker
    <3>5. QED
      BY <3>3, <3>4, <2>1 DEF Uses
  <2>13. AnthropicTakes(more)
    <3>1. \A t \in 1 .. n : more[t].content # <<>>
      BY <1>2, <2>6, <2>7, <2>8
    <3>2. \A t \in 2 .. n : more[t].role # more[t - 1].role
      <4>1. \A t \in 2 .. n : t \in 1 .. n /\ t - 1 \in 1 .. n
        BY <1>2
      <4>2. QED
        BY <4>1, <1>3, <2>10
    <3>3. ASSUME NEW t \in 1 .. n, NEW x \in DOMAIN more[t].content, more[t].content[x].kind = "tool_result"
          PROVE  \E u \in 1 .. t - 1 : HasBlock(more[u], "tool_use", more[t].content[x].id)
      <4>1. CASE x \in DOMAIN ts[t].content /\ more[t].content[x] = ts[t].content[x]
        <5>1. PICK u \in 1 .. t - 1 : HasBlock(ts[u], "tool_use", more[t].content[x].id)
          BY <4>1, <3>3, <1>3
        <5>2. u \in 1 .. n
          BY <1>2
        <5>3. QED
          BY <5>1, <5>2, <2>9
      <4>2. CASE ~(x \in DOMAIN ts[t].content /\ more[t].content[x] = ts[t].content[x])
        <5>1. t = n /\ more[t].content = content
          BY <4>2, <3>3, <2>7, <2>8
        <5>2. PICK y \in 1 .. Len(blocks) : content[x] = blocks[y]
          <6>1. x \in 1 .. Len(content) /\ ~(x \in 1 .. Len(ts[n].content))
            BY <4>2, <5>1, <3>3, <2>5, <2>6, <1>2, <2>1
          <6>2. x - Len(ts[n].content) \in 1 .. Len(blocks) /\ x = Len(ts[n].content) + (x - Len(ts[n].content))
            <7>1. \A p, q \in Nat : \A r \in 1 .. p + q : r \notin 1 .. p => r - p \in 1 .. q /\ r = p + (r - p)
              OBVIOUS
            <7>2. Len(ts[n].content) \in Nat /\ Len(blocks) \in Nat /\ x \in 1 .. Len(ts[n].content) + Len(blocks)
              BY <6>1, <2>5, <2>6, <1>1
            <7>3. QED
              BY <6>1, <7>1, <7>2
          <6>3. QED
            BY <6>2, <2>5
        <5>3. m.role = "tool" /\ content[x].id = m.of
          BY <5>1, <5>2, <3>3, <1>1
        <5>4. PICK u \in 1 .. n : Uses(ts[u], m.of)
          BY <5>3 DEF n
        <5>5. u # n
          BY <5>3, <5>4, <2>2 DEF Uses, Speaker
        <5>6. u \in 1 .. t - 1
          BY <5>1, <5>5, <1>2
        <5>7. QED
          BY <5>1, <5>3, <5>4, <5>6, <2>9 DEF Uses
      <4>3. QED
        BY <4>1, <4>2
    <3>4. QED
      BY <3>1, <3>2, <3>3, <2>8 DEF AnthropicTakes
  <2>14. Takeable(more) /\ n <= Len(more) /\ Len(more) = n
    BY <2>8, <2>13, <1>2 DEF Takeable
  <2>15. QED
    BY <2>11, <2>12, <2>14 DEF n, more
<1>7. CASE ~(~Spoken(m) \/ blocks = <<>>) /\ ~(ts # <<>> /\ Last(ts).role = Speaker(m))
  <2> DEFINE turn == [role |-> Speaker(m), content |-> blocks]
  <2>1. more = Append(ts, turn)
    BY <1>7 DEF AddTurn, blocks
  <2>2. turn \in AnyTurn /\ turn.role = Speaker(m) /\ turn.content = blocks
    BY <1>1 DEF AnyTurn, Speaker
  <2> HIDE DEF turn, more
  <2>3. /\ more \in Seq(AnyTurn) /\ Len(more) = n + 1 /\ DOMAIN more = 1 .. n + 1
        /\ more[n + 1] = turn /\ \A u \in 1 .. n : more[u] = ts[u]
    BY <1>2, <2>1, <2>2 DEF n
  <2>4. ASSUME NEW id \in IdsIn(m) PROVE Uses(more[n + 1], id)
    <3>1. PICK x \in 1 .. Len(blocks) : blocks[x] = Block("tool_use", id)
      BY <1>1
    <3>2. x \in DOMAIN blocks
      BY <1>1
    <3>3. QED
      BY <3>1, <3>2, <2>2, <2>3, <1>1 DEF Uses, HasBlock, Speaker
  <2>5. AnthropicTakes(more)
    <3>1. \A t \in 1 .. n + 1 : t \in 1 .. n \/ t = n + 1
      BY <1>2
    <3>2. \A t \in 1 .. n + 1 : more[t].content # <<>>
      BY <3>1, <1>2, <1>7, <2>2, <2>3
    <3>3. ASSUME NEW t \in 2 .. n + 1 PROVE more[t].role # more[t - 1].role
      <4>1. CASE t \in 2 .. n
        <5>1. t \in 1 .. n /\ t - 1 \in 1 .. n
          BY <4>1, <1>2
        <5>2. QED
          BY <5>1, <4>1, <1>3, <2>3
      <4>2. CASE t = n + 1
        <5>1. t - 1 = n /\ n \in 1 .. n
          BY <4>2, <1>2
        <5>2. ts # <<>>
          BY <5>1, <1>2 DEF n
        <5>3. ts[n].role # Speaker(m)
          BY <5>2, <1>7 DEF Last, n
        <5>4. QED
          BY <5>1, <5>3, <4>2, <2>2, <2>3
      <4>3. QED
        BY <4>1, <4>2, <1>2
    <3>4. ASSUME NEW t \in 1 .. n + 1, NEW x \in DOMAIN more[t].content, more[t].content[x].kind = "tool_result"
          PROVE  \E u \in 1 .. t - 1 : HasBlock(more[u], "tool_use", more[t].content[x].id)
      <4>1. CASE t \in 1 .. n
        <5>1. PICK u \in 1 .. t - 1 : HasBlock(ts[u], "tool_use", ts[t].content[x].id)
          BY <4>1, <3>4, <1>3, <2>3
        <5>2. u \in 1 .. n
          BY <4>1, <1>2
        <5>3. QED
          BY <4>1, <5>1, <5>2, <2>3
      <4>2. CASE t = n + 1
        <5>1. more[t].content = blocks /\ x \in 1 .. Len(blocks)
          BY <4>2, <3>4, <2>2, <2>3, <1>1
        <5>2. m.role = "tool" /\ blocks[x].id = m.of
          BY <5>1, <3>4, <1>1
        <5>3. PICK u \in 1 .. n : Uses(ts[u], m.of)
          BY <5>2 DEF n
        <5>4. u \in 1 .. t - 1
          BY <4>2, <1>2
        <5>5. QED
          BY <5>1, <5>2, <5>3, <5>4, <2>3 DEF Uses
      <4>3. QED
        BY <3>1, <4>1, <4>2
    <3>5. QED
      BY <3>2, <3>3, <3>4, <2>3 DEF AnthropicTakes
  <2>6. n + 1 \in 1 .. n + 1 /\ n <= n + 1
    BY <1>2
  <2>7. QED
    BY <2>3, <2>4, <2>5, <2>6 DEF Takeable, n, more
<1>8. QED
  BY <1>5, <1>6, <1>7

TurnsOf(f, h, n) == f = [k \in 0 .. n |-> IF k = 0 THEN <<>> ELSE AddTurn(f[k - 1], h[k])]

\* The recursive definition has what it defines: the least history without
\* turns would be one message longer than one that has them.
LEMMA TurnsExist ==
  ASSUME NEW h, NEW n \in Nat
  PROVE  \E f : TurnsOf(f, h, n)
<1> DEFINE T == {k \in 0 .. n : ~\E f : TurnsOf(f, h, k)}
<1>1. ASSUME T # {} PROVE FALSE
  <2>0. T \subseteq Nat /\ \A k \in T : k \in 0 .. n /\ ~\E f : TurnsOf(f, h, k)
    OBVIOUS
  <2>1. PICK k \in T : \A j \in T : k <= j
    <3> HIDE DEF T
    <3>1. QED
      BY <1>1, <2>0, LeastNatural
  <2>2. k # 0
    <3>1. TurnsOf([i \in 0 .. 0 |-> <<>>], h, 0)
      BY DEF TurnsOf
    <3>2. QED
      BY <3>1, <2>0
  <2>3. k \in 1 .. n /\ k - 1 \in 0 .. n /\ ~(k <= k - 1)
    BY <2>0, <2>2
  <2>4. PICK f : TurnsOf(f, h, k - 1)
    BY <2>1, <2>3
  <2>5. PICK g : g = [i \in 0 .. k |-> IF i = k THEN AddTurn(f[k - 1], h[k]) ELSE f[i]]
    OBVIOUS
  <2>6. ASSUME NEW i \in 0 .. k PROVE g[i] = IF i = 0 THEN <<>> ELSE AddTurn(g[i - 1], h[i])
    <3>1. CASE i = k
      <4>1. k - 1 \in 0 .. k /\ k - 1 # k
        BY <2>3
      <4>2. g[i] = AddTurn(f[k - 1], h[k]) /\ g[k - 1] = f[k - 1]
        BY <3>1, <4>1, <2>5
      <4>3. QED
        BY <3>1, <4>2, <2>2
    <3>2. CASE i # k
      <4>1. i \in 0 .. k - 1
        BY <3>2, <2>3
      <4>2. g[i] = f[i] /\ f[i] = IF i = 0 THEN <<>> ELSE AddTurn(f[i - 1], h[i])
        BY <3>2, <4>1, <2>4, <2>5 DEF TurnsOf
      <4>3. i # 0 => g[i - 1] = f[i - 1]
        <5>1. i # 0 => i - 1 \in 0 .. k /\ i - 1 # k
          BY <4>1, <2>3
        <5>2. QED
          BY <5>1, <2>5
      <4>4. QED
        BY <4>2, <4>3
    <3>3. QED
      BY <3>1, <3>2
  <2>7. PICK u : u = [i \in 0 .. k |-> IF i = 0 THEN <<>> ELSE AddTurn(g[i - 1], h[i])]
    OBVIOUS
  <2>8. g = u
    <3>1. \A i \in 0 .. k : g[i] = u[i]
      BY <2>6, <2>7
    <3>2. QED
      BY <3>1, <2>5, <2>7
  <2>9. TurnsOf(g, h, k)
    BY <2>7, <2>8 DEF TurnsOf
  <2>10. QED
    BY <2>0, <2>9
<1>2. n \in 0 .. n
  OBVIOUS
<1>3. QED
  BY <1>1, <1>2

LEMMA TurnsSteps ==
  ASSUME NEW h \in Seq(Written)
  PROVE  LET ts == TurnsUpto(h)
         IN ts[0] = <<>> /\ \A k \in 1 .. Len(h) : ts[k] = AddTurn(ts[k - 1], h[k])
<1> DEFINE n == Len(h)
<1>1. n \in Nat
  OBVIOUS
<1>2. TurnsUpto(h) = CHOOSE f : TurnsOf(f, h, n)
  BY DEF TurnsUpto, TurnsOf
<1> HIDE DEF n
<1>3. TurnsOf(TurnsUpto(h), h, n)
  BY <1>1, <1>2, TurnsExist
<1>4. PICK ts : ts = TurnsUpto(h)
  OBVIOUS
<1>5. ts = [k \in 0 .. n |-> IF k = 0 THEN <<>> ELSE AddTurn(ts[k - 1], h[k])]
  BY <1>3, <1>4 DEF TurnsOf
<1>6. ts[0] = <<>> /\ \A k \in 1 .. n : ts[k] = AddTurn(ts[k - 1], h[k])
  <2>1. 0 \in 0 .. n /\ \A k \in 1 .. n : k \in 0 .. n /\ k # 0
    BY <1>1
  <2>2. \A k \in 0 .. n : ts[k] = IF k = 0 THEN <<>> ELSE AddTurn(ts[k - 1], h[k])
    BY <1>5
  <2>3. QED
    BY <2>1, <2>2
<1>7. QED
  BY <1>4, <1>6 DEF n

\* Message by message, the turns are takeable and every call has its block:
\* there is no first message at which they are not.
LEMMA AnthropicIsServed ==
  ASSUME NEW h, NEW cut, HistoryInv(h, cut), ResultsHaveCalls(h)
  PROVE  AnthropicTakes(AnthropicTurns(h))
<1> DEFINE ts == TurnsUpto(h)
           n == Len(h)
           Good(k) == Takeable(ts[k]) /\ Placed(ts[k], h, k)
           T == {k \in 0 .. n : ~Good(k)}
<1>1. h \in Seq(Written) /\ n \in Nat /\ DOMAIN h = 1 .. n /\ \A i \in 1 .. n : h[i] \in Written /\ Kept(h[i])
  BY Messages
<1>2. ts[0] = <<>> /\ \A k \in 1 .. n : ts[k] = AddTurn(ts[k - 1], h[k])
  BY <1>1, TurnsSteps
<1> HIDE DEF ts, n
<1>3. Good(0)
  <2>1. <<>> \in Seq(AnyTurn) /\ Len(<<>>) = 0 /\ DOMAIN <<>> = {}
    OBVIOUS
  <2>2. AnthropicTakes(<<>>)
    <3>1. \A t \in 2 .. 0 : FALSE
      OBVIOUS
    <3>2. QED
      BY <2>1, <3>1 DEF AnthropicTakes
  <2>3. Takeable(<<>>)
    BY <2>1, <2>2 DEF Takeable
  <2>4. Placed(<<>>, h, 0)
    BY DEF Placed
  <2>5. QED
    BY <1>2, <2>3, <2>4
<1>4. ASSUME NEW k \in 1 .. n, Good(k - 1) PROVE Good(k)
  <2>1. h[k] \in Written /\ Kept(h[k]) /\ ts[k] = AddTurn(ts[k - 1], h[k])
    BY <1>1, <1>2
  <2>2. h[k].role = "tool" => \E u \in 1 .. Len(ts[k - 1]) : Uses(ts[k - 1][u], h[k].of)
    <3>1. ASSUME h[k].role = "tool" PROVE \E u \in 1 .. Len(ts[k - 1]) : Uses(ts[k - 1][u], h[k].of)
      <4>1. PICK j \in 1 .. k - 1 : h[k].of \in IdsIn(h[j])
        BY <3>1, <1>1 DEF ResultsHaveCalls
      <4>2. QED
        BY <4>1, <1>4 DEF Placed
    <3>2. QED
      BY <3>1
  <2>3. /\ Takeable(ts[k]) /\ Len(ts[k - 1]) <= Len(ts[k])
        /\ \A u \in 1 .. Len(ts[k - 1]) : \A id : Uses(ts[k - 1][u], id) => Uses(ts[k][u], id)
        /\ \A id \in IdsIn(h[k]) : \E u \in 1 .. Len(ts[k]) : Uses(ts[k][u], id)
    <3>1. PICK before, m : before = ts[k - 1] /\ m = h[k]
      OBVIOUS
    <3>2. /\ Takeable(before) /\ m \in Written /\ Kept(m)
          /\ m.role = "tool" => \E u \in 1 .. Len(before) : Uses(before[u], m.of)
      BY <2>1, <2>2, <3>1, <1>4
    <3>3. LET more == AddTurn(before, m)
          IN /\ Takeable(more) /\ Len(before) <= Len(more)
             /\ \A u \in 1 .. Len(before) : \A id : Uses(before[u], id) => Uses(more[u], id)
             /\ \A id \in IdsIn(m) : \E u \in 1 .. Len(more) : Uses(more[u], id)
      BY <3>2, AddsTurn
    <3>4. ts[k] = AddTurn(before, m)
      BY <2>1, <3>1
    <3>5. QED
      BY <3>1, <3>3, <3>4
  <2>4. ASSUME NEW i \in 1 .. k, NEW id \in IdsIn(h[i])
        PROVE  \E u \in 1 .. Len(ts[k]) : Uses(ts[k][u], id)
    <3>1. CASE i = k
      BY <3>1, <2>3, <2>4
    <3>2. CASE i # k
      <4>1. i \in 1 .. k - 1
        BY <3>2, <1>1
      <4>2. PICK u \in 1 .. Len(ts[k - 1]) : Uses(ts[k - 1][u], id)
        BY <4>1, <1>4, <2>4 DEF Placed
      <4>3. Len(ts[k - 1]) \in Nat /\ Len(ts[k]) \in Nat
        BY <1>4, <2>3 DEF Takeable
      <4>4. u \in 1 .. Len(ts[k])
        BY <4>2, <4>3, <2>3
      <4>5. QED
        BY <4>2, <4>4, <2>3
    <3>3. QED
      BY <3>1, <3>2
  <2>5. Placed(ts[k], h, k)
    BY <2>4 DEF Placed
  <2>6. QED
    BY <2>3, <2>5
<1> HIDE DEF Good
<1>5. ASSUME T # {} PROVE FALSE
  <2>0. T \subseteq Nat /\ \A k \in T : k \in 0 .. n /\ ~Good(k)
    BY <1>1
  <2>1. PICK k \in T : \A j \in T : k <= j
    <3> HIDE DEF T
    <3>1. QED
      BY <1>5, <2>0, LeastNatural
  <2>2. k \in 1 .. n /\ k - 1 \in 0 .. n /\ ~(k <= k - 1)
    BY <2>0, <1>3, <1>1
  <2>3. Good(k - 1)
    BY <2>1, <2>2
  <2>4. QED
    BY <2>0, <2>2, <2>3, <1>4
<1>6. n \in 0 .. n
  BY <1>1
<1>7. Good(n)
  BY <1>5, <1>6
<1>8. QED
  BY <1>7 DEF Good, Takeable, AnthropicTurns, ts, n

-----------------------------------------------------------------------------
(* The state: at the start, and while a stream is read.                    *)

\* Nothing has been said, read or taken.
LEMMA Unstarted == NoAnswer \in Answers /\ Silence \in Heard /\ NoLocals \in Locals
<1>1. NoAnswer \in Answers
  BY NoCalls DEF NoAnswer, Answers
<1>2. Silence \in Heard
  BY NoCalls DEF Silence, Heard
<1>3. <<>> \in Ordinals
  <2>1. <<>> \in [{} -> Nat] /\ {} \in SUBSET (0 .. MaxBlocks)
    OBVIOUS
  <2>2. QED
    BY <2>1 DEF Ordinals
<1>4. NoLocals \in Locals
  <2>1. 0 \in 0 .. MaxBlocks
    BY AdaptersAssumption
  <2>2. NoLocals.ordinals = <<>> /\ "none" \in Reasons \cup {"none"}
    BY DEF NoLocals
  <2>4. NoLocals \in [started : BOOLEAN, blocks : 0 .. MaxBlocks, calls : 0 .. MaxBlocks,
                      open : {"none", "text", "tool_use", "other", "billed"},
                      ordinals : Ordinals, stop : Reasons \cup {"none"}, done : BOOLEAN]
    BY <2>1, <2>2, <1>3 DEF NoLocals
  <2>5. QED
    BY <2>4 DEF Locals
<1>5. QED
  BY <1>1, <1>2, <1>4

LEMMA Initially == Init => IInv
<1> SUFFICES ASSUME Init PROVE IInv
  OBVIOUS
<1>1. NoAnswer \in Answers /\ Silence \in Heard /\ NoLocals \in Locals
  BY Unstarted
<1>2. Types
  <2>1. <<>> \in Seq(Chunks)
    OBVIOUS
  <2>2. QED
    BY <1>1, <2>1 DEF Init, Types
<1>3. HistoryInv(history, trimmed)
  BY AdaptersAssumption DEF Init, HistoryInv, ResultsHaveCalls
<1>4. ScriptInv
  <2>1. ASSUME NEW v \in Vendors, Replies[v] # <<>> PROVE 0 < Len(Replies[v])
    <3>1. Replies[v] \in Seq(Scripted \cup {Raises})
      BY ScriptsAssumption
    <3>2. QED
      BY <2>1, <3>1, EmptySeq
  <2>2. QED
    BY <2>1 DEF Init, ScriptInv
<1>5. Refusals
  BY DEF Init, Refusals, TurnsComeBack
<1>6. Exchange
  BY DEF Init, Exchange, AtRest
<1>7. QED
  BY <1>2, <1>3, <1>4, <1>5, <1>6 DEF IInv

\* How an adapter stands before it reads.
LEMMA Standing ==
  ASSUME IInv, phase = "streaming", out = <<>>
  PROVE  /\ Becomes(got, via, local, told) /\ Stands(via, local, told) /\ Sound(got)
         /\ via \in Vendors /\ Dialect[via] \in {"openai", "anthropic", "ollama", "mock"}
         /\ told \in Heard /\ local \in Locals /\ got \in Answers /\ got.end = "open"
         /\ HistoryInv(history, trimmed)
         /\ told.marked /\ Dialect[via] # "openai" => billed
<1>1. Streaming /\ via \in Vendors
  BY DEF IInv, Exchange
<1>2. PICK b : Path(got, <<>>, b) /\ Becomes(b, via, local, told)
  BY <1>1 DEF Streaming
<1>3. b = got
  BY <1>2, Stay
<1>4. ~Billing(<<>>)
  BY DEF Billing
<1>5. told.marked /\ Dialect[via] # "openai" => billed
  BY <1>1, <1>4 DEF Streaming
<1>6. Dialect[via] \in {"openai", "anthropic", "ollama", "mock"}
  BY <1>1, AdaptersAssumption
<1>7. QED
  BY <1>1, <1>2, <1>3, <1>5, <1>6 DEF Streaming, IInv, Types

\* A step that reads, and what it has to show.
LEMMA Narration ==
  ASSUME IInv, phase = "streaming", out = <<>>, UNCHANGED asked, UNCHANGED relayed,
         told' \in Heard, local' \in Locals, out' \in Seq(Chunks),
         NEW b, Path(got, out', b), Becomes(b, via, local', told'), Stands(via, local', told'),
         told'.marked /\ Dialect[via] # "openai" => billed \/ Billing(out')
  PROVE  IInv'
<1>1. /\ history' = history /\ trimmed' = trimmed /\ phase' = phase /\ why' = why /\ via' = via
      /\ manner' = manner /\ served' = served /\ got' = got /\ billed' = billed
  BY DEF asked, relayed
<1>2. Types'
  BY <1>1 DEF IInv, Types
<1>3. HistoryInv(history, trimmed)' /\ ScriptInv'
  BY <1>1 DEF IInv, HistoryInv, ScriptInv
<1>4. Refusals'
  BY <1>1 DEF IInv, Refusals, TurnsComeBack
<1>5. Streaming'
  BY <1>1 DEF IInv, Exchange, Streaming
<1>6. Exchange'
  BY <1>1, <1>5 DEF IInv, Exchange
<1>7. QED
  BY <1>2, <1>3, <1>4, <1>6 DEF IInv

LEMMA Reasoned ==
  ASSUME NEW reason \in Reasons, NEW calls,
         \/ reason = "max_tokens"
         \/ Whole(calls) /\ (reason = "tool_use") = (calls # <<>>)
  PROVE  StopReason(reason) \in Finishes /\ Ended(StopReason(reason), calls)
BY DEF StopReason, Reasons, Finishes, Ended

LEMMA Reads ==
  ASSUME IInv, NEW d \in {"openai", "anthropic", "ollama"}, Reading(d)
  PROVE  /\ phase = "streaming" /\ out = <<>> /\ ~local.done /\ Dialect[via] = d /\ via \in Vendors
         /\ told \in Heard /\ local \in Locals /\ got \in Answers /\ got.end = "open"
         /\ told.text \in Nat /\ told.calls \in CallLists /\ told.marked \in BOOLEAN
         /\ got.text = told.text /\ got.calls = told.calls /\ (got.finish # "none") = told.marked
         /\ Distinct(told.calls) /\ HistoryInv(history, trimmed)
         /\ got.begun = local.started
         /\ local.open # "billed" => ~got.usage
         /\ d = "anthropic" => AnthropicStands(local, told)
         /\ d = "ollama" => OllamaStands(local, told)
         /\ d = "openai" => OpenAIStands(local, told)
<1>1. phase = "streaming" /\ out = <<>> /\ ~local.done /\ Dialect[via] = d
  BY DEF Reading
<1>2. Becomes(got, via, local, told) /\ Stands(via, local, told) /\ Sound(got)
  BY <1>1, Standing
<1>3. via \in Vendors /\ told \in Heard /\ local \in Locals /\ got \in Answers /\ got.end = "open"
  BY <1>1, Standing
<1>4. told.text \in Nat /\ told.calls \in CallLists /\ told.marked \in BOOLEAN
  BY <1>3 DEF Heard
<1>5. Distinct(got.calls) /\ HistoryInv(history, trimmed)
  BY <1>2 DEF Sound, IInv
<1>6. QED
  BY <1>1, <1>2, <1>3, <1>4, <1>5 DEF Becomes, Agreed, Stands

LEMMA ReadsOn ==
  ASSUME IInv, NEW d \in {"openai", "anthropic", "ollama"}, Reading(d),
         UNCHANGED asked, UNCHANGED relayed,
         told' \in Heard, local' \in Locals, out' \in Seq(Chunks),
         NEW b \in Answers, Path(got, out', b), b.end = "open",
         b.text = told'.text, b.calls = told'.calls, (b.finish # "none") = told'.marked,
         b.begun = local'.started,
         ~local'.done /\ local'.open # "billed" => ~b.usage,
         d = "anthropic" => AnthropicStands(local', told'),
         d = "ollama" => OllamaStands(local', told'),
         d = "openai" => OpenAIStands(local', told'),
         d # "openai" /\ told'.marked => Billing(out')
  PROVE  IInv'
<1>1. phase = "streaming" /\ out = <<>> /\ Dialect[via] = d
  BY DEF Reading
<1>2. Becomes(b, via, local', told')
  BY DEF Becomes, Agreed
<1>3. Stands(via, local', told')
  BY <1>1 DEF Stands
<1>4. QED
  BY <1>1, <1>2, <1>3, Narration

-----------------------------------------------------------------------------
(* Anthropic's events.                                                     *)

LEMMA OnMessageStart ==
  ASSUME IInv, MessageStart
  PROVE  IInv'
<1>1. Reading("anthropic")
  BY DEF MessageStart
<1>2. /\ told \in Heard /\ local \in Locals /\ got \in Answers /\ got.end = "open"
      /\ got.text = told.text /\ got.calls = told.calls /\ (got.finish # "none") = told.marked
      /\ got.begun = local.started /\ ~got.usage /\ AnthropicStands(local, told) /\ ~local.done
  BY <1>1, Reads DEF AnthropicStands
<1>3. /\ local' = [local EXCEPT !.started = TRUE] /\ ~local.started
      /\ out' = <<Role>> /\ told' = told /\ UNCHANGED asked /\ UNCHANGED relayed
  BY DEF MessageStart, SaysNothing
<1>4. local' \in Locals /\ AnthropicStands(local', told')
  BY <1>2, <1>3 DEF Locals, AnthropicStands
<1> DEFINE b == Assembled(got, Role)
<1>5. got.finish = "none"
  BY <1>2 DEF AnthropicStands
<1>6. Path(got, out', b) /\ b \in Answers /\ b = [got EXCEPT !.begun = TRUE]
  BY <1>2, <1>3, <1>5, AsRole, OneChunk
<1>7. /\ b.end = "open" /\ b.text = got.text /\ b.calls = got.calls /\ b.finish = got.finish
      /\ b.begun /\ b.usage = got.usage
  BY <1>2, <1>6 DEF Answers
<1>8. out' \in Seq(Chunks)
  BY <1>3, PlainChunks
<1> HIDE DEF b
<1>9. local'.started
  BY <1>2, <1>3 DEF Locals
<1>10. ~told'.marked
  BY <1>2, <1>3 DEF AnthropicStands
<1>11. QED
  BY <1>1, <1>2, <1>3, <1>4, <1>6, <1>7, <1>8, <1>9, <1>10, ReadsOn

LEMMA OnBlockStart ==
  ASSUME IInv, NEW kind \in {"text", "tool_use", "other"}, BlockStart(kind),
         told'.marked = told.marked,
         kind # "tool_use" => told'.calls = told.calls,
         kind = "tool_use" => /\ told'.calls # <<>>
                              /\ Count(told'.calls) = Count(told.calls) + 1
  PROVE  /\ local' \in Locals /\ AnthropicStands(local', told')
         /\ local'.started /\ ~local'.done /\ local.started
<1>1. Reading("anthropic")
  BY DEF BlockStart
<1>2. local \in Locals /\ AnthropicStands(local, told) /\ ~local.done /\ told.calls \in CallLists
  BY <1>1, Reads
<1> DEFINE n == local.blocks
           B == DOMAIN local.ordinals
           new == IF kind = "tool_use" THEN With(local.ordinals, n, NextOrdinal) ELSE local.ordinals
<1>3. /\ n \in 0 .. MaxBlocks /\ MaxBlocks \in Nat /\ n < MaxBlocks /\ local.started
      /\ local.open = "none" /\ local.stop = "none"
  BY <1>2, AdaptersAssumption DEF BlockStart, Locals
<1>4. local' = [local EXCEPT !.blocks = n + 1, !.open = kind, !.ordinals = new]
  BY DEF BlockStart
<1>5. /\ B \in SUBSET (0 .. MaxBlocks) /\ local.ordinals \in [B -> Nat]
      /\ B \subseteq 0 .. n - 1 /\ Cardinality(B) = Count(told.calls)
  <2>1. local.ordinals \in Ordinals
    BY <1>2 DEF Locals
  <2>2. QED
    BY <2>1, <1>2 DEF Ordinals, AnthropicStands
<1>6. Count(told.calls) \in Nat
  BY <1>2, Counted
<1> HIDE DEF n, B, new
<1>7. CASE kind = "tool_use"
  <2>1. new = With(local.ordinals, n, Count(told.calls))
    BY <1>5, <1>7 DEF new, NextOrdinal, B
  <2>2. new \in [B \cup {n} -> Nat] /\ new[n] = Count(told.calls)
    BY <2>1, <1>5, <1>6 DEF With, B
  <2>3. DOMAIN new = B \cup {n} /\ B \cup {n} \in SUBSET (0 .. MaxBlocks) /\ B \cup {n} \subseteq 0 .. n /\ n \notin B
    BY <2>2, <1>3, <1>5
  <2>4. new \in Ordinals
    BY <2>2, <2>3 DEF Ordinals
  <2>5. Cardinality(B \cup {n}) = Cardinality(B) + 1
    <3>1. IsFiniteSet(0 .. MaxBlocks)
      BY <1>3, FS_Interval
    <3>2. IsFiniteSet(B)
      BY <3>1, <1>5, FS_Subset
    <3>3. QED
      BY <3>2, <2>3, FS_AddElement
  <2>6. Cardinality(DOMAIN new) = Count(told'.calls)
    BY <2>3, <2>5, <1>5, <1>7
  <2>m. n + 1 \in 0 .. MaxBlocks /\ kind \in {"none", "text", "tool_use", "other", "billed"}
    BY <1>3
  <2>7. local' \in Locals /\ local'.ordinals = new /\ local'.blocks = n + 1 /\ local'.open = kind
        /\ local'.started = local.started /\ local'.stop = local.stop /\ local'.done = local.done
    <3>1. local' \in Locals
      BY <2>4, <2>m, <1>2, <1>4 DEF Locals
    <3>2. QED
      BY <3>1, <1>2, <1>4 DEF Locals
  <2>8. n + 1 - 1 = n /\ Count(told'.calls) - 1 = Count(told.calls)
    BY <1>3, <1>6, <1>7
  <2>9. AnthropicStands(local', told')
    BY <2>2, <2>3, <2>6, <2>7, <2>8, <1>2, <1>3, <1>7 DEF AnthropicStands
  <2>10. QED
    BY <2>7, <2>9, <1>2, <1>3
<1>8. CASE kind # "tool_use"
  <2>1. new = local.ordinals /\ told'.calls = told.calls
    BY <1>8 DEF new
  <2>m. n + 1 \in 0 .. MaxBlocks /\ kind \in {"none", "text", "tool_use", "other", "billed"}
    BY <1>3
  <2>2. local' \in Locals /\ local'.ordinals = local.ordinals /\ local'.blocks = n + 1 /\ local'.open = kind
        /\ local'.started = local.started /\ local'.stop = local.stop /\ local'.done = local.done
    <3>1. local.ordinals \in Ordinals
      BY <1>2 DEF Locals
    <3>2. local' \in Locals
      BY <3>1, <2>1, <2>m, <1>2, <1>4 DEF Locals
    <3>3. QED
      BY <3>2, <2>1, <1>2, <1>4 DEF Locals
  <2>3. B \subseteq 0 .. n + 1 - 1
    BY <1>3, <1>5
  <2>4. AnthropicStands(local', told')
    BY <2>1, <2>2, <2>3, <1>2, <1>3, <1>5, <1>8 DEF AnthropicStands, B
  <2>5. QED
    BY <2>2, <2>4, <1>2, <1>3
<1>9. QED
  BY <1>7, <1>8

\* One more fragment of text.
LEMMA Speaks ==
  ASSUME got \in Answers, got.finish = "none", told \in Heard, SaysText, out' = <<Text>>,
         got.text = told.text, got.calls = told.calls
  PROVE  /\ told' \in Heard /\ told'.calls = told.calls /\ told'.marked = told.marked
         /\ out' \in Seq(Chunks)
         /\ \E b \in Answers : /\ Path(got, out', b) /\ b.text = told'.text /\ b.calls = told'.calls
                               /\ b.finish = got.finish /\ b.begun = got.begun
                               /\ b.usage = got.usage /\ b.end = got.end
<1>1. told' = [told EXCEPT !.text = told.text + 1]
  BY DEF SaysText
<1>2. told' \in Heard /\ told'.text = told.text + 1 /\ told'.calls = told.calls /\ told'.marked = told.marked
  BY <1>1 DEF Heard
<1> DEFINE b == Assembled(got, Text)
<1>3. Path(got, out', b) /\ b \in Answers /\ b = [got EXCEPT !.text = got.text + 1]
  BY AsText, OneChunk
<1>4. /\ b.text = got.text + 1 /\ b.calls = got.calls /\ b.finish = got.finish /\ b.begun = got.begun
      /\ b.usage = got.usage /\ b.end = got.end
  BY <1>3 DEF Answers
<1>5. out' \in Seq(Chunks)
  BY PlainChunks
<1> HIDE DEF b
<1>6. QED
  BY <1>2, <1>3, <1>4, <1>5

LEMMA OnTextBlock ==
  ASSUME IInv, NEW filled \in BOOLEAN, TextBlock(filled)
  PROVE  IInv'
<1>1. Reading("anthropic") /\ BlockStart("text") /\ UNCHANGED asked /\ UNCHANGED relayed
  BY DEF TextBlock, BlockStart
<1>2. /\ told \in Heard /\ got \in Answers /\ got.end = "open" /\ out = <<>>
      /\ got.text = told.text /\ got.calls = told.calls /\ (got.finish # "none") = told.marked
      /\ got.begun = local.started /\ ~got.usage /\ ~told.marked
  BY <1>1, Reads DEF AnthropicStands
<1>3. CASE filled
  <2>1. SaysText /\ out' = <<Text>>
    BY <1>3 DEF TextBlock
  <2>2. /\ told' \in Heard /\ told'.calls = told.calls /\ told'.marked = told.marked
        /\ out' \in Seq(Chunks)
    BY <2>1, <1>2, Speaks
  <2>3. PICK b \in Answers : /\ Path(got, out', b) /\ b.text = told'.text /\ b.calls = told'.calls
                             /\ b.finish = got.finish /\ b.begun = got.begun
                             /\ b.usage = got.usage /\ b.end = got.end
    BY <2>1, <1>2, Speaks
  <2>4. local' \in Locals /\ AnthropicStands(local', told') /\ local'.started /\ local.started
    BY <2>2, <1>1, OnBlockStart
  <2>5. QED
    BY <2>2, <2>3, <2>4, <1>1, <1>2, ReadsOn
<1>4. CASE ~filled
  <2>1. told' = told /\ out' = <<>>
    BY <1>4 DEF TextBlock, SaysNothing
  <2>2. local' \in Locals /\ AnthropicStands(local', told') /\ local'.started /\ local.started
    BY <2>1, <1>1, OnBlockStart
  <2>3. Path(got, out', got) /\ out' \in Seq(Chunks)
    BY <2>1, Stay
  <2>4. QED
    BY <2>1, <2>2, <2>3, <1>1, <1>2, ReadsOn
<1>5. QED
  BY <1>3, <1>4

LEMMA OnOtherBlock ==
  ASSUME IInv, OtherBlock
  PROVE  IInv'
<1>1. Reading("anthropic") /\ BlockStart("other") /\ UNCHANGED asked /\ UNCHANGED relayed
  BY DEF OtherBlock, BlockStart
<1>2. /\ told \in Heard /\ got \in Answers /\ got.end = "open" /\ out = <<>>
      /\ got.text = told.text /\ got.calls = told.calls /\ (got.finish # "none") = told.marked
      /\ got.begun = local.started /\ ~got.usage /\ ~told.marked
  BY <1>1, Reads DEF AnthropicStands
<1>3. told' = told /\ out' = <<>>
  BY DEF OtherBlock, SaysNothing
<1>4. local' \in Locals /\ AnthropicStands(local', told') /\ local'.started /\ local.started
  BY <1>3, <1>1, OnBlockStart
<1>5. Path(got, out', got) /\ out' \in Seq(Chunks)
  BY <1>3, Stay
<1>6. QED
  BY <1>1, <1>2, <1>3, <1>4, <1>5, ReadsOn

LEMMA OnTextDelta ==
  ASSUME IInv, TextDelta
  PROVE  IInv'
<1>1. /\ Reading("anthropic") /\ UNCHANGED asked /\ UNCHANGED relayed
      /\ SaysText /\ out' = <<Text>> /\ local' = local
  BY DEF TextDelta
<1>2. /\ told \in Heard /\ got \in Answers /\ got.end = "open" /\ out = <<>>
      /\ got.text = told.text /\ got.calls = told.calls /\ (got.finish # "none") = told.marked
      /\ got.begun = local.started /\ ~got.usage /\ ~told.marked
      /\ local \in Locals /\ AnthropicStands(local, told)
  BY <1>1, Reads DEF AnthropicStands
<1>3. /\ told' \in Heard /\ told'.calls = told.calls /\ told'.marked = told.marked
      /\ out' \in Seq(Chunks)
  BY <1>1, <1>2, Speaks
<1>4. PICK b \in Answers : /\ Path(got, out', b) /\ b.text = told'.text /\ b.calls = told'.calls
                           /\ b.finish = got.finish /\ b.begun = got.begun
                           /\ b.usage = got.usage /\ b.end = got.end
  BY <1>1, <1>2, Speaks
<1>5. local' \in Locals /\ AnthropicStands(local', told')
  BY <1>1, <1>2, <1>3 DEF AnthropicStands
<1>6. QED
  BY <1>1, <1>2, <1>3, <1>4, <1>5, ReadsOn

\* A call with an id of its own.
LEMMA Opens ==
  ASSUME HistoryInv(history, trimmed), told \in Heard, Distinct(told.calls),
         got \in Answers, got.finish = "none", got.text = told.text, got.calls = told.calls,
         NEW name \in Names, SaysCall(FreshId(1), name, "nothing"),
         out' = <<Opening(Count(told.calls), FreshId(1), name)>>
  PROVE  /\ told' \in Heard /\ told'.marked = told.marked
         /\ told'.calls # <<>> /\ Count(told'.calls) = Count(told.calls) + 1
         /\ out' \in Seq(Chunks)
         /\ \E b \in Answers : /\ Path(got, out', b) /\ b.text = told'.text /\ b.calls = told'.calls
                               /\ b.finish = got.finish /\ b.begun = got.begun
                               /\ b.usage = got.usage /\ b.end = got.end
<1> DEFINE id == FreshId(1)
           call == Call(id, name, "nothing")
           more == With(told.calls, Count(told.calls), call)
           chunk == Opening(Count(told.calls), id, name)
           b == Assembled(got, chunk)
<1>1. id \in Ids /\ \A at \in DOMAIN told.calls : told.calls[at].id # id
  BY Fresh
<1> HIDE DEF id
<1>2. call \in Called /\ told.calls \in CallLists
  BY <1>1 DEF Call, Called, Args, Heard
<1>3. more \in CallLists /\ Count(more) = Count(told.calls) + 1 /\ more # <<>>
  BY <1>2, Anew
<1>4. told' = [told EXCEPT !.calls = more]
  BY DEF SaysCall, id, Count
<1>5. Path(got, <<chunk>>, b) /\ chunk \in Chunks /\ b \in Answers /\ b = [got EXCEPT !.calls = more]
  <2>1. \A at \in DOMAIN got.calls : got.calls[at].id # id
    BY <1>1
  <2>2. /\ Follows(got, chunk) /\ chunk \in Chunks /\ b \in Answers
        /\ b = [got EXCEPT !.calls = more]
    BY <2>1, <1>1, AsOpening
  <2>3. QED
    BY <2>2, OneChunk
<1> HIDE DEF more
<1>6. /\ b.calls = more /\ b.text = got.text /\ b.finish = got.finish /\ b.begun = got.begun
      /\ b.usage = got.usage /\ b.end = got.end
  BY <1>5 DEF Answers
<1>7. told' \in Heard /\ told'.calls = more /\ told'.text = told.text /\ told'.marked = told.marked
  BY <1>3, <1>4 DEF Heard
<1>8. out' = <<chunk>>
  BY DEF id
<1> HIDE DEF b, chunk
<1>9. out' \in Seq(Chunks) /\ Path(got, out', b)
  BY <1>5, <1>8
<1>10. QED
  BY <1>3, <1>5, <1>6, <1>7, <1>9

\* More of the last call's arguments.
LEMMA Argues ==
  ASSUME told \in Heard, Distinct(told.calls), told.calls # <<>>,
         got \in Answers, got.finish = "none", got.text = told.text, got.calls = told.calls,
         NEW fragment \in Fragments, SaysArguments(fragment),
         out' = <<Arguments(Count(told.calls) - 1, fragment)>>
  PROVE  /\ told' \in Heard /\ told'.marked = told.marked
         /\ told'.calls # <<>> /\ Count(told'.calls) = Count(told.calls)
         /\ out' \in Seq(Chunks)
         /\ \E b \in Answers : /\ Path(got, out', b) /\ b.text = told'.text /\ b.calls = told'.calls
                               /\ b.finish = got.finish /\ b.begun = got.begun
                               /\ b.usage = got.usage /\ b.end = got.end
<1> DEFINE at == Count(told.calls) - 1
           joined == Joined(told.calls[at].args, fragment)
           call == [told.calls[at] EXCEPT !.args = joined]
           other == With(told.calls, at, call)
           chunk == Arguments(at, fragment)
           b == Assembled(got, chunk)
<1>1. /\ told.calls \in CallLists /\ Count(told.calls) \in Nat /\ at \in DOMAIN told.calls
      /\ told.calls[at] \in Called
  <2>1. told.calls \in CallLists
    BY DEF Heard
  <2>2. /\ Count(told.calls) \in Nat /\ Count(told.calls) > 0
        /\ DOMAIN told.calls = 0 .. Count(told.calls) - 1
        /\ \A x \in DOMAIN told.calls : told.calls[x] \in Called
    BY <2>1, Counted
  <2>3. QED
    BY <2>1, <2>2
<1>2. fragment \in Pieces /\ joined # "garbled" /\ told' = [told EXCEPT !.calls[at].args = joined]
  BY DEF Fragments, Pieces, SaysArguments, Count
<1> HIDE DEF at
<1>3. call \in Called
  <2>1. joined \in Args
    BY <1>1, <1>2, JoinedArgs DEF Called
  <2> HIDE DEF joined
  <2>2. QED
    BY <2>1, <1>1 DEF Called
<1>4. /\ other \in CallLists /\ Count(other) = Count(told.calls) /\ DOMAIN other = DOMAIN told.calls
      /\ other = [told.calls EXCEPT ![at] = call]
  <2>1. \A c \in Called : LET o == With(told.calls, at, c)
                         IN /\ o \in CallLists /\ Count(o) = Count(told.calls) /\ DOMAIN o = DOMAIN told.calls
                            /\ o = [told.calls EXCEPT ![at] = c]
    BY <1>1, Altered, Rewritten
  <2> HIDE DEF call
  <2>2. QED
    BY <2>1, <1>3
<1>5. told' = [told EXCEPT !.calls = other]
  BY <1>2, <1>4 DEF Heard
<1>6. Path(got, <<chunk>>, b) /\ chunk \in Chunks /\ b \in Answers /\ b = [got EXCEPT !.calls = other]
  <2>1. /\ Follows(got, chunk) /\ chunk \in Chunks /\ b \in Answers
        /\ b = [got EXCEPT !.calls = other]
    BY <1>1, <1>2, AsArguments
  <2>2. QED
    BY <2>1, OneChunk
<1>7. other # <<>>
  <2>1. at \in DOMAIN other
    BY <1>1, <1>4
  <2> HIDE DEF other
  <2>2. QED
    BY <2>1
<1> HIDE DEF other
<1>8. /\ b.calls = other /\ b.text = got.text /\ b.finish = got.finish /\ b.begun = got.begun
      /\ b.usage = got.usage /\ b.end = got.end
  BY <1>6 DEF Answers
<1>9. told' \in Heard /\ told'.calls = other /\ told'.text = told.text /\ told'.marked = told.marked
  BY <1>4, <1>5 DEF Heard
<1>10. out' = <<chunk>>
  BY DEF at
<1> HIDE DEF b, chunk
<1>11. out' \in Seq(Chunks) /\ Path(got, out', b)
  BY <1>6, <1>10
<1>12. QED
  BY <1>4, <1>6, <1>7, <1>8, <1>9, <1>11

LEMMA OnToolBlock ==
  ASSUME IInv, NEW name \in Names, ToolBlock(name)
  PROVE  IInv'
<1>1. /\ Reading("anthropic") /\ BlockStart("tool_use") /\ UNCHANGED asked /\ UNCHANGED relayed
      /\ SaysCall(FreshId(1), name, "nothing")
      /\ out' = <<Opening(NextOrdinal, FreshId(1), name)>>
  BY DEF ToolBlock, BlockStart
<1>2. /\ told \in Heard /\ got \in Answers /\ got.end = "open" /\ out = <<>>
      /\ got.text = told.text /\ got.calls = told.calls /\ (got.finish # "none") = told.marked
      /\ got.begun = local.started /\ ~got.usage /\ ~told.marked
      /\ AnthropicStands(local, told) /\ Distinct(told.calls) /\ HistoryInv(history, trimmed)
  BY <1>1, Reads DEF AnthropicStands
<1>3. NextOrdinal = Count(told.calls)
  BY <1>2 DEF NextOrdinal, AnthropicStands
<1>4. out' = <<Opening(Count(told.calls), FreshId(1), name)>>
  BY <1>1, <1>3
<1>5. /\ told' \in Heard /\ told'.marked = told.marked
      /\ told'.calls # <<>> /\ Count(told'.calls) = Count(told.calls) + 1
      /\ out' \in Seq(Chunks)
  BY <1>1, <1>2, <1>4, Opens
<1>6. PICK b \in Answers : /\ Path(got, out', b) /\ b.text = told'.text /\ b.calls = told'.calls
                           /\ b.finish = got.finish /\ b.begun = got.begun
                           /\ b.usage = got.usage /\ b.end = got.end
  BY <1>1, <1>2, <1>4, Opens
<1>7. local' \in Locals /\ AnthropicStands(local', told') /\ local'.started /\ local.started
  BY <1>1, <1>5, OnBlockStart
<1>8. QED
  BY <1>1, <1>2, <1>5, <1>6, <1>7, ReadsOn

LEMMA OnInputDelta ==
  ASSUME IInv, NEW fragment \in Fragments, InputDelta(fragment)
  PROVE  IInv'
<1>1. /\ Reading("anthropic") /\ local.open = "tool_use" /\ SaysArguments(fragment)
      /\ out' = <<Arguments(OrdinalOf(CurrentBlock), fragment)>>
      /\ local' = local /\ UNCHANGED asked /\ UNCHANGED relayed
  BY DEF InputDelta
<1>2. /\ told \in Heard /\ got \in Answers /\ got.end = "open" /\ out = <<>>
      /\ got.text = told.text /\ got.calls = told.calls /\ (got.finish # "none") = told.marked
      /\ got.begun = local.started /\ ~got.usage /\ ~told.marked /\ local \in Locals
      /\ AnthropicStands(local, told) /\ Distinct(told.calls)
  BY <1>1, Reads DEF AnthropicStands
<1>3. OrdinalOf(CurrentBlock) = Count(told.calls) - 1 /\ told.calls # <<>> /\ local.stop = "none"
  BY <1>1, <1>2 DEF OrdinalOf, CurrentBlock, AnthropicStands
<1>4. out' = <<Arguments(Count(told.calls) - 1, fragment)>>
  BY <1>1, <1>3
<1>5. /\ told' \in Heard /\ told'.marked = told.marked
      /\ told'.calls # <<>> /\ Count(told'.calls) = Count(told.calls)
      /\ out' \in Seq(Chunks)
  BY <1>1, <1>2, <1>3, <1>4, Argues
<1>6. PICK b \in Answers : /\ Path(got, out', b) /\ b.text = told'.text /\ b.calls = told'.calls
                           /\ b.finish = got.finish /\ b.begun = got.begun
                           /\ b.usage = got.usage /\ b.end = got.end
  BY <1>1, <1>2, <1>3, <1>4, Argues
<1>7. local' \in Locals /\ AnthropicStands(local', told')
  BY <1>1, <1>2, <1>3, <1>5 DEF AnthropicStands
<1>8. QED
  BY <1>1, <1>2, <1>5, <1>6, <1>7, ReadsOn

LEMMA OnBlockStop ==
  ASSUME IInv, BlockStop
  PROVE  IInv'
<1>1. /\ Reading("anthropic") /\ local' = [local EXCEPT !.open = "none"] /\ told' = told /\ out' = out
      /\ UNCHANGED asked /\ UNCHANGED relayed
  BY DEF BlockStop, SaysNothing
<1>2. /\ told \in Heard /\ got \in Answers /\ got.end = "open" /\ out = <<>>
      /\ got.text = told.text /\ got.calls = told.calls /\ (got.finish # "none") = told.marked
      /\ got.begun = local.started /\ ~got.usage /\ ~told.marked /\ local \in Locals
      /\ AnthropicStands(local, told)
  BY <1>1, Reads DEF AnthropicStands
<1>3. local' \in Locals /\ local'.started = local.started
  BY <1>1, <1>2 DEF Locals
<1>4. AnthropicStands(local', told')
  BY <1>1, <1>2 DEF AnthropicStands, Locals
<1>5. Path(got, out', got) /\ out' \in Seq(Chunks)
  BY <1>1, <1>2, Stay
<1>6. QED
  BY <1>1, <1>2, <1>3, <1>4, <1>5, ReadsOn

LEMMA OnMessageDelta ==
  ASSUME IInv, NEW reason \in Reasons, MessageDelta(reason)
  PROVE  IInv'
<1>1. /\ Reading("anthropic") /\ local.started /\ local.open = "none" /\ StopsFor(reason)
      /\ local' = [local EXCEPT !.stop = reason] /\ told' = told /\ out' = out
      /\ UNCHANGED asked /\ UNCHANGED relayed
  BY DEF MessageDelta, SaysNothing
<1>2. /\ told \in Heard /\ got \in Answers /\ got.end = "open" /\ out = <<>>
      /\ got.text = told.text /\ got.calls = told.calls /\ (got.finish # "none") = told.marked
      /\ got.begun = local.started /\ ~got.usage /\ ~told.marked /\ local \in Locals
      /\ AnthropicStands(local, told)
  BY <1>1, Reads DEF AnthropicStands
<1>3. Ended(StopReason(reason), told.calls)
  BY <1>1, Reasoned DEF StopsFor, Complete, Whole
<1>4. local' \in Locals /\ local'.started = local.started
  BY <1>1, <1>2 DEF Locals
<1>5. AnthropicStands(local', told')
  BY <1>1, <1>2, <1>3 DEF AnthropicStands, Locals
<1>6. Path(got, out', got) /\ out' \in Seq(Chunks)
  BY <1>1, <1>2, Stay
<1>7. QED
  BY <1>1, <1>2, <1>4, <1>5, <1>6, ReadsOn

\* The last chunks: the reason and the usage.
LEMMA EndingPath ==
  ASSUME NEW a \in Answers, a.finish = "none", ~a.usage, NEW reason \in Finishes, Ended(reason, a.calls)
  PROVE  LET b == [[a EXCEPT !.finish = reason] EXCEPT !.usage = TRUE]
         IN /\ Path(a, Ending(reason), b) /\ b \in Answers
            /\ Ending(reason) \in Seq(Chunks) /\ Billing(Ending(reason))
<1> DEFINE x == [a EXCEPT !.finish = reason]
           b == [x EXCEPT !.usage = TRUE]
<1>1. Path(a, <<Finished(reason)>>, x) /\ Finished(reason) \in Chunks /\ x \in Answers
  BY AsFinished, OneChunk
<1>2. x.finish # "none" /\ ~x.usage
  BY DEF Answers, Finishes
<1> HIDE DEF x
<1>3. Path(x, <<Usage>>, b) /\ b \in Answers
  <2>1. Follows(x, Usage) /\ Assembled(x, Usage) = b /\ b \in Answers
    BY <1>1, <1>2, AsUsage
  <2>2. Path(x, <<Usage>>, Assembled(x, Usage))
    BY <2>1, OneChunk
  <2>3. QED
    BY <2>1, <2>2
<1> HIDE DEF b
<1>4. <<Finished(reason)>> \in Seq(Chunks) /\ <<Usage>> \in Seq(Chunks)
  BY <1>1, PlainChunks
<1>5. Ending(reason) = <<Finished(reason)>> \o <<Usage>>
  BY DEF Ending
<1>6. Path(a, Ending(reason), b) /\ Ending(reason) \in Seq(Chunks)
  BY <1>1, <1>3, <1>4, <1>5, Joins
<1>7. Billing(Ending(reason))
  BY DEF Billing, Ending
<1>8. QED
  BY <1>3, <1>6, <1>7 DEF b, x

LEMMA OnMessageStop ==
  ASSUME IInv, MessageStop
  PROVE  IInv'
<1>1. /\ Reading("anthropic") /\ local.stop # "none" /\ told' = [told EXCEPT !.marked = TRUE]
      /\ local' = [local EXCEPT !.done = TRUE] /\ out' = Ending(StopReason(local.stop))
      /\ UNCHANGED asked /\ UNCHANGED relayed
  BY DEF MessageStop, SaysDone
<1>2. /\ told \in Heard /\ got \in Answers /\ got.end = "open" /\ out = <<>>
      /\ got.text = told.text /\ got.calls = told.calls /\ (got.finish # "none") = told.marked
      /\ got.begun = local.started /\ ~got.usage /\ ~told.marked /\ local \in Locals
      /\ AnthropicStands(local, told)
  BY <1>1, Reads DEF AnthropicStands
<1> DEFINE reason == StopReason(local.stop)
           b == [[got EXCEPT !.finish = reason] EXCEPT !.usage = TRUE]
<1>3. Ended(reason, told.calls) /\ reason \in Finishes
  BY <1>1, <1>2 DEF AnthropicStands, StopReason, Finishes
<1> HIDE DEF reason
<1>4. /\ Path(got, Ending(reason), b) /\ b \in Answers
      /\ Ending(reason) \in Seq(Chunks) /\ Billing(Ending(reason))
  BY <1>2, <1>3, EndingPath
<1>5. /\ b.text = got.text /\ b.calls = got.calls /\ b.finish = reason /\ b.begun = got.begun
      /\ b.usage /\ b.end = got.end
  BY <1>2 DEF Answers
<1> HIDE DEF b
<1>6. told' \in Heard /\ told'.text = told.text /\ told'.calls = told.calls /\ told'.marked
  BY <1>1, <1>2 DEF Heard
<1>7. local' \in Locals /\ local'.started = local.started /\ local'.done
  BY <1>1, <1>2 DEF Locals
<1>8. AnthropicStands(local', told')
  BY <1>1, <1>2, <1>6, <1>7 DEF AnthropicStands, Locals
<1>9. out' = Ending(reason) /\ b.finish # "none"
  BY <1>1, <1>3, <1>5 DEF reason, Finishes
<1>10. /\ b.end = "open" /\ b.text = told'.text /\ b.calls = told'.calls
       /\ (b.finish # "none") = told'.marked /\ b.begun = local'.started
  BY <1>2, <1>5, <1>6, <1>7, <1>9
<1>11. QED
  BY <1>1, <1>4, <1>6, <1>7, <1>8, <1>9, <1>10, ReadsOn

-----------------------------------------------------------------------------
(* Ollama's lines.                                                         *)

\* The calls of a line, numbered on from those of earlier lines.
LineNew(n, names) ==
    [i \in 1 .. Len(names) |-> Call(ToolCallId((n + i) - 1, names[i]), names[i], "whole")]

\* The calls with those of a line.
Lined(calls, names) ==
    [at \in 0 .. Count(calls) + Len(names) - 1 |->
        IF at < Count(calls) THEN calls[at]
        ELSE Call(ToolCallId(at, names[at - Count(calls) + 1]), names[at - Count(calls) + 1], "whole")]

\* The chunks of a line, one after the other: the role if it is the first,
\* its text, its calls and, if it is the last, the ending.
LineChunks(started, filled, n, new, ending) ==
    (IF started THEN <<>> ELSE <<Role>>)
       \o (IF filled THEN <<Text>> ELSE <<>>)
       \o Deliveries(n, new)
       \o (IF ending = "none" THEN <<>> ELSE Ending(ending))

LEMMA Listing ==
  ASSUME NEW names \in NameLists
  PROVE  names \in Seq(Names) /\ Len(names) \in Nat /\ DOMAIN names = 1 .. Len(names)
         /\ \A i \in 1 .. Len(names) : names[i] \in Names
<1>1. PICK n \in 0 .. MaxBlocks : names \in [1 .. n -> Names]
  BY DEF NameLists
<1>2. n \in Nat
  BY AdaptersAssumption
<1>3. names \in Seq(Names)
  BY <1>1, <1>2
<1>4. QED
  BY <1>3

LEMMA Line ==
  ASSUME NEW n \in Nat, NEW names \in Seq(Names)
  PROVE  /\ LineNew(n, names) \in Seq(Called) /\ Len(LineNew(n, names)) = Len(names)
         /\ \A i \in 1 .. Len(names) :
               LineNew(n, names)[i] = Call(ToolCallId((n + i) - 1, names[i]), names[i], "whole")
         /\ \A i \in 1 .. Len(names) : LineNew(n, names)[i].id.no = (n + i) - 1
<1>1. Len(names) \in Nat /\ \A i \in 1 .. Len(names) : names[i] \in Names
  OBVIOUS
<1> DEFINE Entry(i) == Call(ToolCallId((n + i) - 1, names[i]), names[i], "whole")
<1>2. ASSUME NEW i \in 1 .. Len(names) PROVE Entry(i) \in Called /\ Entry(i).id.no = (n + i) - 1
  <2>1. (n + i) - 1 \in Nat /\ names[i] \in Names
    BY <1>1
  <2>2. \A no \in Nat, name \in Names : LET c == Call(ToolCallId(no, name), name, "whole")
                                        IN c \in Called /\ c.id.no = no
    BY DEF Call, ToolCallId, Called, Ids, Args
  <2>3. QED
    BY <2>1, <2>2
<1>3. LineNew(n, names) = [i \in 1 .. Len(names) |-> Entry(i)]
  BY DEF LineNew
<1> HIDE DEF Entry
<1>4. /\ LineNew(n, names) \in Seq(Called) /\ Len(LineNew(n, names)) = Len(names)
      /\ \A i \in 1 .. Len(names) : LineNew(n, names)[i] = Entry(i)
  BY <1>1, <1>2, <1>3
<1>5. QED
  BY <1>2, <1>4 DEF Entry

LEMMA LineDeliveries ==
  ASSUME NEW n \in Nat, NEW names \in Seq(Names), local.calls = n
  PROVE  LineCalls(names) = Deliveries(n, LineNew(n, names))
<1> DEFINE new == LineNew(n, names)
           D == 1 .. 2 * Len(names)
           Theirs(k) == CallDelta(k, Position(Half(k)),
                          Call(ToolCallId(Position(Half(k)), names[Half(k)]), names[Half(k)], "whole"))
           Ours(k) == CallDelta(k, n + Half(k) - 1, new[Half(k)])
<1>1. Len(names) \in Nat /\ Len(new) = Len(names)
  BY Line
<1>2. ASSUME NEW k \in D PROVE Theirs(k) = Ours(k)
  <2>1. Half(k) \in 1 .. Len(names)
    BY <1>1, Halves
  <2>2. new[Half(k)] = Call(ToolCallId((n + Half(k)) - 1, names[Half(k)]), names[Half(k)], "whole")
    BY <2>1, Line
  <2>3. Position(Half(k)) = n + Half(k) - 1 /\ n + Half(k) - 1 = (n + Half(k)) - 1
    BY <2>1, <1>1 DEF Position
  <2> HIDE DEF new
  <2>4. QED
    BY <2>2, <2>3
<1>3. LineCalls(names) = [k \in D |-> Theirs(k)]
  BY DEF LineCalls
<1>4. Deliveries(n, new) = [k \in D |-> Ours(k)]
  BY <1>1 DEF Deliveries
<1> HIDE DEF Theirs, Ours, D
<1>5. QED
  BY <1>2, <1>3, <1>4

LEMMA LineLonger ==
  ASSUME NEW calls \in CallLists, NEW names \in Seq(Names),
         \A at \in DOMAIN calls : calls[at].id = ToolCallId(at, calls[at].name) /\ calls[at].args = "whole"
  PROVE  /\ Lined(calls, names) = Longer(calls, LineNew(Count(calls), names))
         /\ Told(calls, LineNew(Count(calls), names))
         /\ \A at \in DOMAIN Lined(calls, names) :
               /\ Lined(calls, names)[at].id = ToolCallId(at, Lined(calls, names)[at].name)
               /\ Lined(calls, names)[at].args = "whole"
<1> DEFINE n == Count(calls)
           new == LineNew(n, names)
           D == 0 .. n + Len(names) - 1
           Theirs(at) == IF at < n THEN calls[at]
                         ELSE Call(ToolCallId(at, names[at - n + 1]), names[at - n + 1], "whole")
           Ours(at) == IF at < n THEN calls[at] ELSE new[at - n + 1]
<1>1. n \in Nat /\ Len(names) \in Nat /\ DOMAIN calls = 0 .. n - 1
  BY Counted
<1>2. /\ Len(new) = Len(names)
      /\ \A i \in 1 .. Len(names) : /\ new[i] = Call(ToolCallId((n + i) - 1, names[i]), names[i], "whole")
                                    /\ new[i].id.no = (n + i) - 1
  BY <1>1, Line
<1> HIDE DEF n, new
<1>3. ASSUME NEW at \in D PROVE Theirs(at) = Ours(at)
  <2>1. CASE at < n
    BY <2>1
  <2>2. CASE at >= n
    <3>1. at - n + 1 \in 1 .. Len(names) /\ (n + (at - n + 1)) - 1 = at /\ ~(at < n)
      BY <2>2, <1>1
    <3>2. new[at - n + 1] = Call(ToolCallId(at, names[at - n + 1]), names[at - n + 1], "whole")
      BY <3>1, <1>2
    <3>3. QED
      BY <3>1, <3>2
  <2>3. QED
    BY <2>1, <2>2, <1>1
<1>4. Longer(calls, new) = [at \in D |-> Ours(at)]
  BY <1>2 DEF Longer, n
<1>5. ASSUME NEW at \in D PROVE Theirs(at).id = ToolCallId(at, Theirs(at).name) /\ Theirs(at).args = "whole"
  <2>1. CASE at < n
    <3>1. at \in DOMAIN calls
      BY <2>1, <1>1
    <3>2. QED
      BY <2>1, <3>1
  <2>2. CASE ~(at < n)
    BY <2>2 DEF Call
  <2>3. QED
    BY <2>1, <2>2
<1>6. Told(calls, new)
  <2>1. ASSUME NEW i \in 1 .. Len(new), NEW j \in 1 .. Len(new), new[i].id = new[j].id PROVE i = j
    <3>1. (n + i) - 1 = (n + j) - 1 /\ i \in Int /\ j \in Int
      BY <2>1, <1>2
    <3>2. QED
      BY <3>1, <1>1
  <2>2. ASSUME NEW at \in DOMAIN calls, NEW i \in 1 .. Len(new) PROVE calls[at].id # new[i].id
    <3>1. calls[at].id.no = at
      <4>1. calls[at].id = ToolCallId(at, calls[at].name)
        BY <2>2
      <4>2. \A name : ToolCallId(at, name).no = at
        BY DEF ToolCallId
      <4>3. QED
        BY <4>1, <4>2
    <3>2. new[i].id.no = (n + i) - 1 /\ at < n /\ i >= 1
      BY <1>1, <1>2
    <3>3. at # (n + i) - 1 /\ new[i].id.no = (n + i) - 1
      BY <3>2, <1>1, <1>2
    <3>4. QED
      BY <3>1, <3>3
  <2>3. QED
    BY <2>1, <2>2 DEF Told
<1> DEFINE more == [at \in D |-> Theirs(at)]
<1>7. more = Longer(calls, new) /\ more = Lined(calls, names)
  BY <1>3, <1>4 DEF Lined, n
<1>8. \A at \in DOMAIN more : more[at].id = ToolCallId(at, more[at].name) /\ more[at].args = "whole"
  BY <1>5
<1> HIDE DEF more
<1>9. QED
  BY <1>6, <1>7, <1>8 DEF n, new

LEMMA Done ==
  ASSUME NEW done \in {"stop", "length"}, NEW n \in Nat, NEW calls, (n > 0) = (calls # <<>>), Whole(calls)
  PROVE  DoneReason(done, n) \in Finishes /\ Ended(DoneReason(done, n), calls)
BY DEF DoneReason, Finishes, Ended

Lengthens(a, filled, new, ending, chunks) ==
    /\ chunks \in Seq(Chunks) /\ (ending # "none" => Billing(chunks))
    /\ \E b \in Answers :
          /\ Path(a, chunks, b) /\ b.text = a.text + (IF filled THEN 1 ELSE 0)
          /\ b.calls = Longer(a.calls, new) /\ b.finish = ending /\ b.begun
          /\ b.usage = (ending # "none") /\ b.end = a.end

LEMMA LineOut ==
  ASSUME NEW a \in Answers, a.finish = "none", ~a.usage, Distinct(a.calls),
         NEW started \in BOOLEAN, a.begun = started, NEW filled \in BOOLEAN,
         NEW new \in Seq(Called), Told(a.calls, new), NEW ending \in Finishes \cup {"none"},
         ending # "none" => Ended(ending, Longer(a.calls, new))
  PROVE  Lengthens(a, filled, new, ending, LineChunks(started, filled, Count(a.calls), new, ending))
<1> DEFINE s1 == IF started THEN <<>> ELSE <<Role>>
           s2 == IF filled THEN <<Text>> ELSE <<>>
           s3 == Deliveries(Count(a.calls), new)
           s4 == IF ending = "none" THEN <<>> ELSE Ending(ending)
<1>1. \E x \in Answers : /\ Path(a, s1, x) /\ s1 \in Seq(Chunks) /\ x.text = a.text /\ x.calls = a.calls
                         /\ x.finish = "none" /\ x.begun /\ ~x.usage /\ x.end = a.end
  <2>1. CASE started
    <3>1. s1 = <<>> /\ Path(a, <<>>, a) /\ <<>> \in Seq(Chunks)
      BY <2>1, Stay
    <3>2. a.begun
      BY <2>1
    <3> HIDE DEF s1
    <3>3. QED
      BY <3>1, <3>2
  <2>2. CASE ~started
    <3>1. /\ Path(a, <<Role>>, [a EXCEPT !.begun = TRUE]) /\ [a EXCEPT !.begun = TRUE] \in Answers
          /\ <<Role>> \in Seq(Chunks)
      <4>1. /\ Follows(a, Role) /\ Assembled(a, Role) = [a EXCEPT !.begun = TRUE]
            /\ Assembled(a, Role) \in Answers
        BY <2>2, AsRole
      <4>2. Path(a, <<Role>>, Assembled(a, Role))
        BY <4>1, OneChunk
      <4>3. <<Role>> \in Seq(Chunks)
        BY PlainChunks
      <4>4. QED
        BY <4>1, <4>2, <4>3
    <3>2. PICK x : x = [a EXCEPT !.begun = TRUE]
      OBVIOUS
    <3>3. /\ x.text = a.text /\ x.calls = a.calls /\ x.finish = a.finish /\ x.begun
          /\ x.usage = a.usage /\ x.end = a.end
      BY <3>2 DEF Answers
    <3>4. x \in Answers /\ Path(a, s1, x) /\ s1 \in Seq(Chunks)
      BY <2>2, <3>1, <3>2
    <3>5. QED
      BY <3>3, <3>4
  <2>3. QED
    BY <2>1, <2>2
<1>2. PICK x \in Answers : /\ Path(a, s1, x) /\ s1 \in Seq(Chunks) /\ x.text = a.text /\ x.calls = a.calls
                           /\ x.finish = "none" /\ x.begun /\ ~x.usage /\ x.end = a.end
  BY <1>1
<1> HIDE DEF s1
<1>3. \E y \in Answers : /\ Path(x, s2, y) /\ s2 \in Seq(Chunks)
                         /\ y.text = a.text + (IF filled THEN 1 ELSE 0)
                         /\ y.calls = a.calls /\ y.finish = "none" /\ y.begun /\ ~y.usage /\ y.end = a.end
  <2>1. CASE ~filled
    <3>1. a.text + 0 = a.text
      BY DEF Answers
    <3>2. QED
      BY <2>1, <3>1, <1>2, Stay
  <2>2. CASE filled
    <3>1. /\ Path(x, <<Text>>, [x EXCEPT !.text = x.text + 1]) /\ [x EXCEPT !.text = x.text + 1] \in Answers
          /\ <<Text>> \in Seq(Chunks)
      <4>1. /\ Follows(x, Text) /\ Assembled(x, Text) = [x EXCEPT !.text = x.text + 1]
            /\ Assembled(x, Text) \in Answers
        BY <1>2, AsText
      <4>2. Path(x, <<Text>>, Assembled(x, Text))
        BY <4>1, OneChunk
      <4>3. <<Text>> \in Seq(Chunks)
        BY PlainChunks
      <4>4. QED
        BY <4>1, <4>2, <4>3
    <3>2. PICK y : y = [x EXCEPT !.text = x.text + 1]
      OBVIOUS
    <3>3. /\ y.text = x.text + 1 /\ y.calls = x.calls /\ y.finish = x.finish /\ y.begun = x.begun
          /\ y.usage = x.usage /\ y.end = x.end
      BY <3>2 DEF Answers
    <3>4. y \in Answers /\ Path(x, s2, y) /\ s2 \in Seq(Chunks)
      BY <2>2, <3>1, <3>2
    <3>5. QED
      BY <2>2, <3>3, <3>4, <1>2
  <2>3. QED
    BY <2>1, <2>2
<1>4. PICK y \in Answers : /\ Path(x, s2, y) /\ s2 \in Seq(Chunks)
                           /\ y.text = a.text + (IF filled THEN 1 ELSE 0)
                           /\ y.calls = a.calls /\ y.finish = "none" /\ y.begun /\ ~y.usage /\ y.end = a.end
  BY <1>3
<1> HIDE DEF s2
<1>5. \E z \in Answers : /\ Path(y, s3, z) /\ s3 \in Seq(Chunks) /\ z.text = y.text
                         /\ z.calls = Longer(a.calls, new) /\ z.finish = "none" /\ z.begun /\ ~z.usage
                         /\ z.end = a.end
  <2>1. PICK z : z = [y EXCEPT !.calls = Longer(a.calls, new)]
    OBVIOUS
  <2>2. Path(y, Deliveries(Count(y.calls), new), z) /\ z \in Answers
    <3>1. Distinct(y.calls) /\ Told(y.calls, new)
      BY <1>4
    <3>2. z = [y EXCEPT !.calls = Longer(y.calls, new)]
      BY <2>1, <1>4
    <3>3. QED
      BY <3>1, <3>2, <1>4, CallsPath
  <2>3. a.calls \in CallLists /\ Count(a.calls) \in Nat
    BY Counted DEF Answers
  <2>4. s3 \in Seq(Chunks)
    BY <2>3, Delivered
  <2>5. /\ z.text = y.text /\ z.calls = Longer(a.calls, new) /\ z.finish = y.finish /\ z.begun = y.begun
        /\ z.usage = y.usage /\ z.end = y.end
    BY <2>1 DEF Answers
  <2>6. Path(y, s3, z)
    BY <2>2, <1>4
  <2>7. QED
    BY <2>2, <2>4, <2>5, <2>6, <1>4
<1>6. PICK z \in Answers : /\ Path(y, s3, z) /\ s3 \in Seq(Chunks) /\ z.text = y.text
                           /\ z.calls = Longer(a.calls, new) /\ z.finish = "none" /\ z.begun /\ ~z.usage
                           /\ z.end = a.end
  BY <1>5
<1> HIDE DEF s3
<1>7. \E b \in Answers : /\ Path(z, s4, b) /\ s4 \in Seq(Chunks) /\ (ending # "none" => Billing(s4))
                         /\ b.text = z.text /\ b.calls = z.calls /\ b.finish = ending /\ b.begun
                         /\ b.usage = (ending # "none") /\ b.end = a.end
  <2>1. CASE ending = "none"
    <3>1. s4 = <<>> /\ Path(z, s4, z) /\ s4 \in Seq(Chunks)
      BY <2>1, Stay
    <3>2. (ending # "none") = FALSE /\ z.usage = FALSE
      BY <2>1, <1>6 DEF Answers
    <3> HIDE DEF s4
    <3>3. QED
      BY <2>1, <3>1, <3>2, <1>6
  <2>2. CASE ending # "none"
    <3>1. PICK b : b = [[z EXCEPT !.finish = ending] EXCEPT !.usage = TRUE]
      OBVIOUS
    <3>2. ending \in Finishes /\ Ended(ending, z.calls)
      BY <2>2, <1>6
    <3>3. /\ Path(z, Ending(ending), b) /\ b \in Answers
          /\ Ending(ending) \in Seq(Chunks) /\ Billing(Ending(ending))
      BY <3>1, <3>2, <1>6, EndingPath
    <3>4. /\ b.text = z.text /\ b.calls = z.calls /\ b.finish = ending /\ b.begun = z.begun
          /\ b.usage = TRUE /\ b.end = z.end
      BY <3>1 DEF Answers
    <3>5. s4 = Ending(ending) /\ (ending # "none") = TRUE
      BY <2>2
    <3> HIDE DEF s4
    <3>6. QED
      BY <3>3, <3>4, <3>5, <1>6
  <2>3. QED
    BY <2>1, <2>2
<1>8. PICK b \in Answers : /\ Path(z, s4, b) /\ s4 \in Seq(Chunks) /\ (ending # "none" => Billing(s4))
                           /\ b.text = z.text /\ b.calls = z.calls /\ b.finish = ending /\ b.begun
                           /\ b.usage = (ending # "none") /\ b.end = a.end
  BY <1>7
<1> HIDE DEF s4
<1>9. s1 \o s2 \in Seq(Chunks) /\ Path(a, s1 \o s2, y)
  BY <1>2, <1>4, Joins
<1>10. (s1 \o s2) \o s3 \in Seq(Chunks) /\ Path(a, (s1 \o s2) \o s3, z)
  <2>1. PICK s : s = s1 \o s2
    OBVIOUS
  <2>2. s \o s3 \in Seq(Chunks) /\ Path(a, s \o s3, z)
    <3>1. s \in Seq(Chunks) /\ Path(a, s, y)
      BY <2>1, <1>9
    <3>2. QED
      BY <3>1, <1>6, Joins
  <2>3. QED
    BY <2>1, <2>2
<1>11. ((s1 \o s2) \o s3) \o s4 \in Seq(Chunks) /\ Path(a, ((s1 \o s2) \o s3) \o s4, b)
  <2>1. PICK s : s = (s1 \o s2) \o s3
    OBVIOUS
  <2>2. s \o s4 \in Seq(Chunks) /\ Path(a, s \o s4, b)
    <3>1. s \in Seq(Chunks) /\ Path(a, s, z)
      BY <2>1, <1>10
    <3>2. QED
      BY <3>1, <1>8, Joins
  <2>3. QED
    BY <2>1, <2>2
<1>12. ending # "none" => Billing(((s1 \o s2) \o s3) \o s4)
  <2>1. \A s, t \in Seq(Chunks) : Billing(t) => Billing(s \o t)
    <3>1. ASSUME NEW s \in Seq(Chunks), NEW t \in Seq(Chunks), Billing(t) PROVE Billing(s \o t)
      <4>1. PICK k \in 1 .. Len(t) : t[k] = Usage
        BY <3>1 DEF Billing
      <4>2. Len(s) + k \in 1 .. Len(s \o t) /\ (s \o t)[Len(s) + k] = t[k]
        OBVIOUS
      <4>3. QED
        BY <4>1, <4>2 DEF Billing
    <3>2. QED
      BY <3>1
  <2>2. QED
    BY <2>1, <1>8, <1>10
<1>13. b.text = a.text + (IF filled THEN 1 ELSE 0) /\ b.calls = Longer(a.calls, new)
  BY <1>4, <1>6, <1>8
<1>14. LineChunks(started, filled, Count(a.calls), new, ending) = ((s1 \o s2) \o s3) \o s4
  BY DEF LineChunks, s1, s2, s3, s4
<1>15. QED
  BY <1>8, <1>11, <1>12, <1>13, <1>14 DEF Lengthens

LEMMA OnOllamaLine ==
  ASSUME IInv, NEW filled \in BOOLEAN, NEW names \in NameLists, NEW done \in {"more", "stop", "length"},
         OllamaLine(filled, names, done)
  PROVE  IInv'
<1> DEFINE n == Count(told.calls)
           new == LineNew(n, names)
           sofar == local.calls + Len(names)
           ending == IF done = "more" THEN "none" ELSE DoneReason(done, sofar)
           more == Longer(told.calls, new)
<1>1. Reading("ollama") /\ UNCHANGED asked /\ UNCHANGED relayed /\ sofar <= MaxBlocks
  BY DEF OllamaLine
<1>2. /\ told \in Heard /\ got \in Answers /\ got.end = "open" /\ out = <<>> /\ told.calls \in CallLists
      /\ got.text = told.text /\ got.calls = told.calls /\ (got.finish # "none") = told.marked
      /\ got.begun = local.started /\ ~got.usage /\ ~told.marked /\ local \in Locals
      /\ OllamaStands(local, told) /\ Distinct(told.calls) /\ told.text \in Nat
  BY <1>1, Reads DEF OllamaStands
<1>3. names \in Seq(Names) /\ Len(names) \in Nat
  BY Listing
<1>4. n \in Nat /\ local.calls = n /\ local.open # "billed" /\ local.started \in BOOLEAN
  BY <1>2, Counted DEF OllamaStands, Locals
<1>5. new \in Seq(Called) /\ Len(new) = Len(names)
  BY <1>3, <1>4, Line
<1>6. /\ Lined(told.calls, names) = more
      /\ Told(told.calls, new)
      /\ \A at \in DOMAIN more : more[at].id = ToolCallId(at, more[at].name) /\ more[at].args = "whole"
  <2>1. \A at \in DOMAIN told.calls :
           told.calls[at].id = ToolCallId(at, told.calls[at].name) /\ told.calls[at].args = "whole"
    BY <1>2 DEF OllamaStands
  <2>2. /\ Lined(told.calls, names) = Longer(told.calls, LineNew(Count(told.calls), names))
        /\ Told(told.calls, LineNew(Count(told.calls), names))
        /\ \A at \in DOMAIN Lined(told.calls, names) :
              /\ Lined(told.calls, names)[at].id = ToolCallId(at, Lined(told.calls, names)[at].name)
              /\ Lined(told.calls, names)[at].args = "whole"
    BY <2>1, <1>2, <1>3, LineLonger
  <2>3. Lined(told.calls, names) = more
    BY <2>2
  <2> HIDE DEF more
  <2>4. QED
    BY <2>2, <2>3
<1>7. told' = [text |-> told.text + (IF filled THEN 1 ELSE 0), calls |-> more, marked |-> done # "more"]
  <2>1. told' = [text |-> told.text + (IF filled THEN 1 ELSE 0), calls |-> Lined(told.calls, names),
                 marked |-> done # "more"]
    BY DEF OllamaLine, Count, Lined
  <2>2. QED
    BY <2>1, <1>6
<1>8. out' = LineChunks(local.started, filled, n, new, ending)
  <2>1. LineCalls(names) = Deliveries(n, new)
    BY <1>3, <1>4, LineDeliveries
  <2>2. (IF done = "more" THEN <<>> ELSE Ending(DoneReason(done, sofar))) =
        IF ending = "none" THEN <<>> ELSE Ending(ending)
    BY DEF DoneReason
  <2> HIDE DEF ending, n, new, sofar
  <2>3. out' = (IF local.started THEN <<>> ELSE <<Role>>)
                  \o (IF filled THEN <<Text>> ELSE <<>>)
                  \o LineCalls(names)
                  \o (IF done = "more" THEN <<>> ELSE Ending(DoneReason(done, sofar)))
    BY DEF OllamaLine, sofar
  <2>4. QED
    BY <2>1, <2>2, <2>3 DEF LineChunks
<1>9. more \in CallLists /\ Count(more) = n + Len(names) /\ n + Len(names) = sofar
  <2>1. LET b == [got EXCEPT !.calls = Longer(got.calls, new)]
        IN b \in Answers /\ Count(b.calls) = Count(got.calls) + Len(new)
    BY <1>2, <1>5, <1>6, CallsPath
  <2>2. [got EXCEPT !.calls = more].calls = more
    BY <1>2 DEF Answers
  <2>3. \A b \in Answers : b.calls \in CallLists
    BY DEF Answers
  <2> HIDE DEF more, new, n
  <2>4. QED
    BY <2>1, <2>2, <2>3, <1>2, <1>4, <1>5 DEF more, n
<1>10. sofar \in 0 .. MaxBlocks /\ sofar \in Nat
  BY <1>1, <1>3, <1>4, AdaptersAssumption
<1>11. ending \in Finishes \cup {"none"} /\ (ending # "none" => Ended(ending, more)) /\ (ending # "none") = (done # "more")
  <2>1. CASE done = "more"
    BY <2>1
  <2>2. CASE done # "more"
    <3>1. (sofar > 0) = (more # <<>>) /\ Whole(more)
      <4>1. (more # <<>>) = (Count(more) > 0)
        BY <1>9, Counted
      <4>2. Whole(more)
        BY <1>6 DEF Whole
      <4>3. QED
        BY <4>1, <4>2, <1>9
    <3>2. done \in {"stop", "length"} /\ ending = DoneReason(done, sofar)
      BY <2>2
    <3> HIDE DEF sofar, more, ending
    <3>3. ending \in Finishes /\ Ended(ending, more)
      BY <3>1, <3>2, <1>10, Done
    <3>4. ending # "none"
      BY <3>3 DEF Finishes
    <3>5. QED
      BY <2>2, <3>3, <3>4
  <2>3. QED
    BY <2>1, <2>2
<1> HIDE DEF ending, more, sofar, new, n
<1>12. Told(got.calls, new) /\ Count(got.calls) = n /\ Longer(got.calls, new) = more
  BY <1>2, <1>6 DEF n, more
<1>13. /\ out' \in Seq(Chunks) /\ (ending # "none" => Billing(out'))
       /\ \E b \in Answers :
             /\ Path(got, out', b) /\ b.text = got.text + (IF filled THEN 1 ELSE 0)
             /\ b.calls = more /\ b.finish = ending /\ b.begun
             /\ b.usage = (ending # "none") /\ b.end = got.end
  <2>1. got.finish = "none" /\ Distinct(got.calls) /\ (ending # "none" => Ended(ending, Longer(got.calls, new)))
    BY <1>2, <1>11, <1>12
  <2>2. Lengthens(got, filled, new, ending, LineChunks(local.started, filled, Count(got.calls), new, ending))
    <3>1. PICK a, started : a = got /\ started = local.started
      OBVIOUS
    <3>2. /\ a \in Answers /\ a.finish = "none" /\ ~a.usage /\ Distinct(a.calls) /\ started \in BOOLEAN
          /\ a.begun = started /\ Told(a.calls, new) /\ (ending # "none" => Ended(ending, Longer(a.calls, new)))
      BY <3>1, <2>1, <1>2, <1>4, <1>12
    <3>3. ending \in Finishes \cup {"none"} /\ new \in Seq(Called)
      BY <1>5, <1>11
    <3>4. Lengthens(a, filled, new, ending, LineChunks(started, filled, Count(a.calls), new, ending))
      BY <3>2, <3>3, LineOut
    <3>5. QED
      BY <3>1, <3>4
  <2>3. QED
    BY <2>2, <1>8, <1>12 DEF Lengthens
<1>14. PICK b \in Answers :
             /\ Path(got, out', b) /\ b.text = got.text + (IF filled THEN 1 ELSE 0)
             /\ b.calls = more /\ b.finish = ending /\ b.begun
             /\ b.usage = (ending # "none") /\ b.end = got.end
  BY <1>13
<1>15. local' = [local EXCEPT !.started = TRUE, !.calls = sofar, !.done = (done # "more")]
  BY DEF OllamaLine, sofar
<1>16. /\ local' \in Locals /\ local'.started /\ local'.done = (done # "more") /\ local'.calls = sofar
       /\ local'.open = local.open
  BY <1>2, <1>10, <1>15 DEF Locals
<1>17. told' \in Heard /\ told'.calls = more /\ told'.marked = (done # "more")
       /\ told'.text = told.text + (IF filled THEN 1 ELSE 0)
  <2>1. told.text + (IF filled THEN 1 ELSE 0) \in Nat
    BY <1>2
  <2>2. QED
    BY <2>1, <1>7, <1>9 DEF Heard
<1>18. OllamaStands(local', told')
  BY <1>4, <1>6, <1>9, <1>16, <1>17 DEF OllamaStands
<1>19. /\ b.text = told'.text /\ b.calls = told'.calls /\ (b.finish # "none") = told'.marked
       /\ b.begun = local'.started /\ b.end = "open"
       /\ ~local'.done => ~b.usage
       /\ told'.marked => Billing(out')
  BY <1>2, <1>11, <1>13, <1>14, <1>16, <1>17
<1>20. QED
  BY <1>1, <1>13, <1>14, <1>16, <1>17, <1>18, <1>19, ReadsOn

-----------------------------------------------------------------------------
(* OpenAI's chunks.                                                        *)

LEMMA TalkingReads ==
  ASSUME IInv, Talking
  PROVE  /\ Reading("openai") /\ local.started /\ local.stop = "none"
         /\ told \in Heard /\ local \in Locals /\ got \in Answers /\ got.end = "open" /\ out = <<>>
         /\ told.calls \in CallLists /\ Distinct(told.calls) /\ HistoryInv(history, trimmed)
         /\ got.text = told.text /\ got.calls = told.calls /\ (got.finish # "none") = told.marked
         /\ got.begun = local.started /\ ~got.usage /\ ~told.marked /\ got.finish = "none"
         /\ OpenAIStands(local, told)
<1>1. Reading("openai") /\ local.started /\ local.stop = "none"
  BY DEF Talking
<1>2. /\ told \in Heard /\ local \in Locals /\ got \in Answers /\ got.end = "open" /\ out = <<>>
      /\ told.calls \in CallLists /\ Distinct(told.calls) /\ HistoryInv(history, trimmed)
      /\ got.text = told.text /\ got.calls = told.calls /\ (got.finish # "none") = told.marked
      /\ got.begun = local.started /\ (local.open # "billed" => ~got.usage)
      /\ OpenAIStands(local, told)
  BY <1>1, Reads
<1>3. ~told.marked /\ local.open # "billed"
  BY <1>1, <1>2 DEF OpenAIStands
<1>4. QED
  BY <1>1, <1>2, <1>3

LEMMA OnChunkRole ==
  ASSUME IInv, ChunkRole
  PROVE  IInv'
<1>1. /\ Reading("openai") /\ ~local.started /\ out' = <<Role>> /\ told' = told
      /\ local' = [local EXCEPT !.started = TRUE] /\ UNCHANGED asked /\ UNCHANGED relayed
  BY DEF ChunkRole, Passes, SaysNothing
<1>2. /\ told \in Heard /\ local \in Locals /\ got \in Answers /\ got.end = "open"
      /\ got.text = told.text /\ got.calls = told.calls /\ (got.finish # "none") = told.marked
      /\ got.begun = local.started /\ (local.open # "billed" => ~got.usage) /\ OpenAIStands(local, told)
  BY <1>1, Reads
<1>3. got.finish = "none" /\ ~got.usage
  BY <1>1, <1>2 DEF OpenAIStands
<1> DEFINE b == Assembled(got, Role)
<1>4. Follows(got, Role) /\ b \in Answers /\ b = [got EXCEPT !.begun = TRUE]
  BY <1>1, <1>2, <1>3, AsRole
<1>5. Path(got, <<Role>>, b)
  BY <1>4, OneChunk
<1>6. Path(got, out', b) /\ out' \in Seq(Chunks)
  BY <1>1, <1>5, PlainChunks
<1>7. /\ b.end = "open" /\ b.text = got.text /\ b.calls = got.calls /\ b.finish = got.finish
      /\ b.begun /\ b.usage = got.usage
  BY <1>2, <1>4 DEF Answers
<1> HIDE DEF b
<1>8. local' \in Locals /\ local'.started /\ local'.open = local.open
  BY <1>1, <1>2 DEF Locals
<1>9. OpenAIStands(local', told')
  BY <1>1, <1>2 DEF OpenAIStands, Locals
<1>10. QED
  BY <1>1, <1>2, <1>3, <1>4, <1>6, <1>7, <1>8, <1>9, ReadsOn

LEMMA OnChunkText ==
  ASSUME IInv, ChunkText
  PROVE  IInv'
<1>1. /\ Talking /\ SaysText /\ out' = <<Text>> /\ local' = local
      /\ UNCHANGED asked /\ UNCHANGED relayed
  BY DEF ChunkText, Passes
<1>2. /\ Reading("openai") /\ local \in Locals /\ told \in Heard
      /\ got \in Answers /\ got.end = "open" /\ got.text = told.text /\ got.calls = told.calls
      /\ got.begun = local.started /\ ~got.usage /\ ~told.marked /\ got.finish = "none"
      /\ (got.finish # "none") = told.marked
      /\ OpenAIStands(local, told)
  BY <1>1, TalkingReads
<1>3. /\ told' \in Heard /\ told'.calls = told.calls /\ told'.marked = told.marked
      /\ out' \in Seq(Chunks)
  BY <1>1, <1>2, Speaks
<1>4. PICK b \in Answers : /\ Path(got, out', b) /\ b.text = told'.text /\ b.calls = told'.calls
                           /\ b.finish = got.finish /\ b.begun = got.begun
                           /\ b.usage = got.usage /\ b.end = got.end
  BY <1>1, <1>2, Speaks
<1>5. local' \in Locals /\ OpenAIStands(local', told')
  BY <1>1, <1>2, <1>3 DEF OpenAIStands
<1>6. QED
  BY <1>1, <1>2, <1>3, <1>4, <1>5, ReadsOn

LEMMA OnChunkCall ==
  ASSUME IInv, NEW name \in Names, ChunkCall(name)
  PROVE  IInv'
<1>1. /\ Talking /\ SaysCall(FreshId(1), name, "nothing")
      /\ out' = <<Opening(local.calls, FreshId(1), name)>>
      /\ local.calls < MaxBlocks /\ local' = [local EXCEPT !.calls = local.calls + 1]
      /\ UNCHANGED asked /\ UNCHANGED relayed
  BY DEF ChunkCall, Passes
<1>2. /\ Reading("openai") /\ local \in Locals /\ told \in Heard /\ local.started /\ local.stop = "none"
      /\ got \in Answers /\ got.end = "open" /\ got.text = told.text /\ got.calls = told.calls
      /\ got.begun = local.started /\ ~got.usage /\ ~told.marked /\ got.finish = "none"
      /\ (got.finish # "none") = told.marked
      /\ OpenAIStands(local, told) /\ Distinct(told.calls) /\ HistoryInv(history, trimmed)
  BY <1>1, TalkingReads
<1>3. local.calls = Count(told.calls)
  BY <1>2 DEF OpenAIStands
<1>4. out' = <<Opening(Count(told.calls), FreshId(1), name)>>
  BY <1>1, <1>3
<1>5. /\ told' \in Heard /\ told'.marked = told.marked
      /\ told'.calls # <<>> /\ Count(told'.calls) = Count(told.calls) + 1
      /\ out' \in Seq(Chunks)
  BY <1>1, <1>2, <1>4, Opens
<1>6. PICK b \in Answers : /\ Path(got, out', b) /\ b.text = told'.text /\ b.calls = told'.calls
                           /\ b.finish = got.finish /\ b.begun = got.begun
                           /\ b.usage = got.usage /\ b.end = got.end
  BY <1>1, <1>2, <1>4, Opens
<1>7. local.calls + 1 \in 0 .. MaxBlocks
  BY <1>1, <1>2, AdaptersAssumption DEF Locals
<1>8. /\ local' \in Locals /\ local'.calls = local.calls + 1 /\ local'.open = local.open
      /\ local'.stop = local.stop /\ local'.started = local.started
  BY <1>1, <1>2, <1>7 DEF Locals
<1>9. OpenAIStands(local', told')
  BY <1>2, <1>3, <1>5, <1>8 DEF OpenAIStands
<1>10. QED
  BY <1>1, <1>2, <1>5, <1>6, <1>8, <1>9, ReadsOn

LEMMA OnChunkArguments ==
  ASSUME IInv, NEW fragment \in Fragments, ChunkArguments(fragment)
  PROVE  IInv'
<1>1. /\ Talking /\ told.calls # <<>> /\ SaysArguments(fragment)
      /\ out' = <<Arguments(local.calls - 1, fragment)>> /\ local' = local
      /\ UNCHANGED asked /\ UNCHANGED relayed
  BY DEF ChunkArguments, Passes
<1>2. /\ Reading("openai") /\ local \in Locals /\ told \in Heard
      /\ got \in Answers /\ got.end = "open" /\ got.text = told.text /\ got.calls = told.calls
      /\ got.begun = local.started /\ ~got.usage /\ ~told.marked /\ got.finish = "none"
      /\ (got.finish # "none") = told.marked
      /\ OpenAIStands(local, told) /\ Distinct(told.calls)
  BY <1>1, TalkingReads
<1>3. out' = <<Arguments(Count(told.calls) - 1, fragment)>>
  BY <1>1, <1>2 DEF OpenAIStands
<1>4. /\ told' \in Heard /\ told'.marked = told.marked
      /\ told'.calls # <<>> /\ Count(told'.calls) = Count(told.calls)
      /\ out' \in Seq(Chunks)
  BY <1>1, <1>2, <1>3, Argues
<1>5. PICK b \in Answers : /\ Path(got, out', b) /\ b.text = told'.text /\ b.calls = told'.calls
                           /\ b.finish = got.finish /\ b.begun = got.begun
                           /\ b.usage = got.usage /\ b.end = got.end
  BY <1>1, <1>2, <1>3, Argues
<1>6. local' \in Locals /\ OpenAIStands(local', told')
  BY <1>1, <1>2, <1>4 DEF OpenAIStands
<1>7. QED
  BY <1>1, <1>2, <1>4, <1>5, <1>6, ReadsOn

LEMMA OnChunkFinish ==
  ASSUME IInv, NEW reason \in Reasons, ChunkFinish(reason)
  PROVE  IInv'
<1>1. /\ Talking /\ StopsFor(reason) /\ told' = [told EXCEPT !.marked = TRUE]
      /\ out' = <<Finished(StopReason(reason))>> /\ local' = [local EXCEPT !.stop = reason]
      /\ UNCHANGED asked /\ UNCHANGED relayed
  BY DEF ChunkFinish, Passes, SaysDone
<1>2. /\ Reading("openai") /\ local \in Locals /\ told \in Heard /\ local.started
      /\ got \in Answers /\ got.end = "open" /\ got.text = told.text /\ got.calls = told.calls
      /\ got.begun = local.started /\ ~got.usage /\ ~told.marked /\ got.finish = "none"
      /\ OpenAIStands(local, told)
  BY <1>1, TalkingReads
<1> DEFINE why1 == StopReason(reason)
           b == [got EXCEPT !.finish = why1]
<1>3. why1 \in Finishes /\ Ended(why1, told.calls)
  BY <1>1, Reasoned DEF StopsFor, Complete, Whole
<1> HIDE DEF why1
<1>4. /\ Follows(got, Finished(why1)) /\ Finished(why1) \in Chunks
      /\ Assembled(got, Finished(why1)) = b /\ b \in Answers
  BY <1>2, <1>3, AsFinished
<1>5. out' = <<Finished(why1)>>
  BY <1>1 DEF why1
<1>6. Path(got, <<Finished(why1)>>, Assembled(got, Finished(why1)))
  BY <1>4, OneChunk
<1>7. Path(got, out', b) /\ out' \in Seq(Chunks)
  BY <1>4, <1>5, <1>6
<1>8. /\ b.end = "open" /\ b.text = got.text /\ b.calls = got.calls /\ b.finish = why1
      /\ b.begun = got.begun /\ b.usage = got.usage /\ why1 # "none"
  BY <1>2, <1>3 DEF Answers, Finishes
<1> HIDE DEF b
<1>9. /\ local' \in Locals /\ local'.calls = local.calls /\ local'.open = local.open
      /\ local'.stop = reason /\ local'.started = local.started /\ reason # "none"
  BY <1>1, <1>2 DEF Locals, Reasons
<1>10. told' \in Heard /\ told'.text = told.text /\ told'.calls = told.calls /\ told'.marked = TRUE
  BY <1>1, <1>2 DEF Heard
<1>11. OpenAIStands(local', told')
  BY <1>2, <1>9, <1>10 DEF OpenAIStands
<1>12. QED
  BY <1>1, <1>2, <1>4, <1>7, <1>8, <1>9, <1>10, <1>11, ReadsOn

LEMMA OnChunkUsage ==
  ASSUME IInv, ChunkUsage
  PROVE  IInv'
<1>1. /\ Reading("openai") /\ local.stop # "none" /\ local.open = "none" /\ told' = told
      /\ out' = <<Usage>> /\ local' = [local EXCEPT !.open = "billed"]
      /\ UNCHANGED asked /\ UNCHANGED relayed
  BY DEF ChunkUsage, Passes, SaysNothing
<1>2. /\ told \in Heard /\ local \in Locals /\ got \in Answers /\ got.end = "open"
      /\ got.text = told.text /\ got.calls = told.calls /\ (got.finish # "none") = told.marked
      /\ got.begun = local.started /\ (local.open # "billed" => ~got.usage) /\ OpenAIStands(local, told)
  BY <1>1, Reads
<1>3. got.finish # "none" /\ ~got.usage
  BY <1>1, <1>2 DEF OpenAIStands
<1> DEFINE b == Assembled(got, Usage)
<1>4. Follows(got, Usage) /\ b \in Answers /\ b = [got EXCEPT !.usage = TRUE]
  BY <1>2, <1>3, AsUsage
<1>5. Path(got, <<Usage>>, b)
  BY <1>4, OneChunk
<1>6. Path(got, out', b) /\ out' \in Seq(Chunks)
  BY <1>1, <1>5, PlainChunks
<1>7. /\ b.end = "open" /\ b.text = got.text /\ b.calls = got.calls /\ b.finish = got.finish
      /\ b.begun = got.begun
  BY <1>2, <1>4 DEF Answers
<1> HIDE DEF b
<1>8. local' \in Locals /\ local'.started = local.started /\ local'.open = "billed"
  BY <1>1, <1>2 DEF Locals
<1>9. OpenAIStands(local', told')
  BY <1>1, <1>2 DEF OpenAIStands, Locals
<1>10. QED
  BY <1>1, <1>2, <1>4, <1>6, <1>7, <1>8, <1>9, ReadsOn

LEMMA OnStreamDone ==
  ASSUME IInv, StreamDone
  PROVE  IInv'
<1>1. /\ Reading("openai") /\ told' = told /\ out' = out /\ local' = [local EXCEPT !.done = TRUE]
      /\ UNCHANGED asked /\ UNCHANGED relayed
  BY DEF StreamDone, SaysNothing
<1>2. /\ told \in Heard /\ local \in Locals /\ got \in Answers /\ got.end = "open" /\ out = <<>>
      /\ got.text = told.text /\ got.calls = told.calls /\ (got.finish # "none") = told.marked
      /\ got.begun = local.started /\ OpenAIStands(local, told)
  BY <1>1, Reads
<1>3. local' \in Locals /\ local'.started = local.started /\ local'.done
  BY <1>1, <1>2 DEF Locals
<1>4. OpenAIStands(local', told')
  BY <1>1, <1>2 DEF OpenAIStands, Locals
<1>5. Path(got, out', got) /\ out' \in Seq(Chunks)
  BY <1>1, <1>2, Stay
<1>6. QED
  BY <1>1, <1>2, <1>3, <1>4, <1>5, ReadsOn

-----------------------------------------------------------------------------
(* The ends of a stream, and the relay.                                    *)

LEMMA OnHangUp ==
  ASSUME IInv, HangUp
  PROVE  IInv'
<1>1. /\ phase = "streaming" /\ out = <<>> /\ ~local.done
      /\ local' = [local EXCEPT !.done = TRUE] /\ told' = told /\ out' = out
      /\ UNCHANGED asked /\ UNCHANGED relayed
  BY DEF HangUp
<1>2. /\ Becomes(got, via, local, told) /\ Stands(via, local, told)
      /\ told \in Heard /\ local \in Locals /\ got \in Answers
      /\ told.marked /\ Dialect[via] # "openai" => billed
  BY <1>1, Standing
<1>3. /\ local' \in Locals /\ local'.started = local.started /\ local'.done
      /\ local'.blocks = local.blocks /\ local'.calls = local.calls /\ local'.open = local.open
      /\ local'.ordinals = local.ordinals /\ local'.stop = local.stop
  BY <1>1, <1>2 DEF Locals
<1>4. Becomes(got, via, local', told')
  BY <1>1, <1>2, <1>3 DEF Becomes
<1>5. Stands(via, local', told')
  BY <1>1, <1>2, <1>3 DEF Stands, AnthropicStands, OllamaStands, OpenAIStands
<1>6. Path(got, out', got) /\ out' \in Seq(Chunks)
  BY <1>1, Stay
<1>7. QED
  BY <1>1, <1>2, <1>3, <1>4, <1>5, <1>6, Narration

LEMMA Finishing ==
  ASSUME IInv, phase \in {"streaming", "waiting"}, phase' = "over",
         UNCHANGED <<history, trimmed, why, via, manner, served>>,
         told' \in Heard, local' \in Locals, got' \in Answers, out' \in Seq(Chunks), billed' \in BOOLEAN,
         Over'
  PROVE  IInv'
<1>1. Types'
  BY DEF IInv, Types
<1>2. HistoryInv(history, trimmed)' /\ ScriptInv'
  BY DEF IInv, HistoryInv, ScriptInv
<1>3. Refusals'
  BY DEF IInv, Refusals, TurnsComeBack
<1>4. Exchange'
  BY DEF Exchange
<1>5. QED
  BY <1>1, <1>2, <1>3, <1>4 DEF IInv

LEMMA OnBreaks ==
  ASSUME IInv, Breaks
  PROVE  IInv'
<1>1. /\ phase \in {"streaming", "waiting"} /\ got' = [got EXCEPT !.end = "failed"] /\ phase' = "over"
      /\ UNCHANGED <<history, trimmed, why, via, manner, told, local, out, billed, served>>
  BY DEF Breaks
<1>2. told \in Heard /\ local \in Locals /\ got \in Answers /\ out \in Seq(Chunks) /\ billed \in BOOLEAN
  BY DEF IInv, Types
<1>3. got' \in Answers /\ got'.end = "failed" /\ got'.finish = got.finish /\ got'.calls = got.calls
  BY <1>1, <1>2 DEF Answers
<1>4. got.finish # "none" => Ended(got.finish, got.calls)
  <2>1. CASE phase = "streaming"
    BY <2>1 DEF IInv, Exchange, Streaming, Sound
  <2>2. CASE phase = "waiting"
    BY <2>2 DEF IInv, Exchange, AtRest, NoAnswer
  <2>3. QED
    BY <1>1, <2>1, <2>2
<1>5. Over'
  BY <1>3, <1>4 DEF Over
<1>6. QED
  BY <1>1, <1>2, <1>3, <1>5, Finishing

LEMMA OnEnds ==
  ASSUME IInv, Ends
  PROVE  IInv'
<1>1. /\ phase = "streaming" /\ out = <<>> /\ got' = [got EXCEPT !.end = "clean"] /\ phase' = "over"
      /\ UNCHANGED <<history, trimmed, why, via, manner, told, local, out, billed, served>>
  BY DEF Ends
<1>2. told \in Heard /\ local \in Locals /\ got \in Answers /\ out \in Seq(Chunks) /\ billed \in BOOLEAN
  BY DEF IInv, Types
<1>3. /\ got' \in Answers /\ got'.end = "clean" /\ got'.finish = got.finish /\ got'.calls = got.calls
      /\ got'.text = got.text
  BY <1>1, <1>2 DEF Answers
<1>4. /\ Agreed(got, told) /\ Sound(got) /\ (told.marked /\ Dialect[via] # "openai" => billed)
  BY <1>1, Standing DEF Becomes
<1>5. Over'
  BY <1>1, <1>3, <1>4 DEF Over, Agreed, Sound
<1>6. QED
  BY <1>1, <1>2, <1>3, <1>5, Finishing

\* What is taken is assembled, or was not asked for: then it is the usage,
\* and nothing follows.
LEMMA OnDeliver ==
  ASSUME IInv, Deliver
  PROVE  IInv'
<1>1. /\ phase = "streaming" /\ out # <<>> /\ out' = Tail(out)
      /\ got' = IF Observed(Head(out), manner) THEN Assembled(got, Head(out)) ELSE got
      /\ billed' = (billed \/ Head(out).kind = "usage")
      /\ told' = told /\ local' = local /\ UNCHANGED asked
  BY DEF Deliver
<1>2. /\ history' = history /\ trimmed' = trimmed /\ phase' = phase /\ why' = why /\ via' = via
      /\ manner' = manner /\ served' = served
  BY <1>1 DEF asked
<1>3. /\ out \in Seq(Chunks) /\ got \in Answers /\ got.end = "open" /\ Sound(got) /\ Streaming
  BY <1>1 DEF IInv, Types, Exchange, Streaming
<1>4. PICK b : Path(got, out, b) /\ Becomes(b, via, local, told)
  BY <1>3 DEF Streaming
<1> DEFINE chunk == Head(out)
<1>5. /\ Follows(got, chunk) /\ Path(Assembled(got, chunk), Tail(out), b)
      /\ chunk \in Chunks /\ Tail(out) \in Seq(Chunks)
  BY <1>1, <1>3, <1>4, Takes
<1>6. Assembled(got, chunk) \in Answers /\ Sound(Assembled(got, chunk)) /\ Assembled(got, chunk).end = "open"
  BY <1>3, <1>5, Assembling
<1>7. chunk.kind = "usage" => chunk = Usage
  <2>1. \A c \in Chunks : c.kind = "usage" => c = Usage
    <3>1. \A c \in [kind : {"call"}, at : Nat, id : Ids, name : Names] : c.kind # "usage"
      OBVIOUS
    <3>2. \A c \in [kind : {"args"}, at : Nat, fragment : Pieces] : c.kind # "usage"
      OBVIOUS
    <3>3. \A c \in {Role, Text} \cup {Finished(reason) : reason \in Finishes} : c.kind # "usage"
      BY Kinds
    <3>4. QED
      BY <3>1, <3>2, <3>3 DEF Chunks
  <2>2. QED
    BY <1>5, <2>1
<1>8. Billing(out) => billed' \/ Billing(Tail(out))
  <2>1. ASSUME NEW k \in 1 .. Len(out), out[k] = Usage PROVE billed' \/ Billing(Tail(out))
    <3>1. CASE k = 1
      <4>1. Head(out) = Usage
        BY <1>1, <1>3, <2>1, <3>1
      <4>2. QED
        BY <1>1, <4>1, Kinds
    <3>2. CASE k # 1
      <4>1. k - 1 \in 1 .. Len(Tail(out)) /\ Tail(out)[k - 1] = out[k]
        <5>1. /\ Len(out) \in Nat /\ Len(Tail(out)) = Len(out) - 1
              /\ \A i \in 1 .. Len(Tail(out)) : Tail(out)[i] = out[i + 1]
          BY <1>1, <1>3, HeadTailProperties
        <5>2. k - 1 \in 1 .. Len(Tail(out)) /\ (k - 1) + 1 = k
          BY <5>1, <3>2
        <5>3. QED
          BY <5>1, <5>2
      <4>2. QED
        BY <4>1, <2>1 DEF Billing
    <3>3. QED
      BY <3>1, <3>2
  <2>2. QED
    BY <2>1 DEF Billing
<1>9. told.marked /\ Dialect[via] # "openai" => billed' \/ Billing(Tail(out))
  <2>1. told.marked /\ Dialect[via] # "openai" => billed \/ Billing(out)
    BY <1>3 DEF Streaming
  <2>2. billed => billed'
    BY <1>1
  <2>3. QED
    BY <2>1, <2>2, <1>8
<1> HIDE DEF chunk
<1>10. /\ got' \in Answers /\ Sound(got') /\ got'.end = "open"
       /\ \E c : Path(got', Tail(out), c) /\ Becomes(c, via, local, told)
  <2>1. CASE Observed(chunk, manner)
    <3>1. got' = Assembled(got, chunk)
      BY <1>1, <2>1 DEF chunk
    <3>2. QED
      BY <3>1, <1>4, <1>5, <1>6
  <2>2. CASE ~Observed(chunk, manner)
    <3>1. got' = got /\ chunk = Usage
      BY <1>1, <1>7, <2>2 DEF Observed, chunk
    <3>2. Tail(out) = <<>>
      BY <1>1, <1>3, <1>4, <3>1, UsageLast DEF chunk
    <3>3. ~got.usage /\ got.finish # "none"
      BY <1>5, <3>1 DEF Follows, Usage, Role, Text, Opening, Arguments, Finished
    <3>4. b = [got EXCEPT !.usage = TRUE]
      <4>1. Path(Assembled(got, Usage), <<>>, b)
        BY <1>5, <3>1, <3>2
      <4>2. b = Assembled(got, Usage)
        BY <4>1, Stay
      <4>3. QED
        BY <4>2, <1>3, <3>3, AsUsage
    <3>5. b.begun = got.begun /\ b.text = got.text /\ b.calls = got.calls /\ b.finish = got.finish
      BY <3>4 DEF Answers
    <3>6. Becomes(got, via, local, told)
      BY <3>3, <3>5, <1>3, <1>4 DEF Becomes, Agreed
    <3>7. QED
      BY <3>1, <3>2, <3>6, <1>3, Stay
  <2>3. QED
    BY <2>1, <2>2
<1>11. Types'
  BY <1>1, <1>2, <1>5, <1>10 DEF IInv, Types
<1>12. HistoryInv(history, trimmed)' /\ ScriptInv'
  BY <1>2 DEF IInv, HistoryInv, ScriptInv
<1>13. Refusals'
  BY <1>2 DEF IInv, Refusals, TurnsComeBack
<1>14. Streaming'
  BY <1>1, <1>2, <1>3, <1>9, <1>10 DEF Streaming
<1>15. Exchange'
  BY <1>1, <1>2, <1>14 DEF IInv, Exchange
<1>16. QED
  BY <1>11, <1>12, <1>13, <1>15 DEF IInv

-----------------------------------------------------------------------------
(* Answers in one piece.                                                   *)

LEMMA Zero ==
  ASSUME NEW calls \in Seq(Called)
  PROVE  /\ Zeroed(calls) \in CallLists /\ Count(Zeroed(calls)) = Len(calls)
         /\ (Zeroed(calls) # <<>>) = (calls # <<>>)
         /\ DOMAIN Zeroed(calls) = 0 .. Len(calls) - 1
         /\ \A at \in DOMAIN Zeroed(calls) : Zeroed(calls)[at] = calls[at + 1] /\ at + 1 \in 1 .. Len(calls)
         /\ Longer(<<>>, calls) = Zeroed(calls)
<1> DEFINE n == Len(calls)
           z == Zeroed(calls)
<1>1. n \in Nat /\ \A i \in 1 .. n : calls[i] \in Called
  OBVIOUS
<1> HIDE DEF n
<1>2. /\ z = [at \in 0 .. n - 1 |-> calls[at + 1]] /\ DOMAIN z = 0 .. n - 1
      /\ \A at \in 0 .. n - 1 : at + 1 \in 1 .. n /\ z[at] = calls[at + 1]
  BY <1>1 DEF Zeroed, n
<1>3. z \in [0 .. n - 1 -> Called]
  BY <1>1, <1>2
<1> HIDE DEF z
<1>4. z \in CallLists /\ Count(z) = n
  BY <1>1, <1>3, MadeOf
<1>5. (z # <<>>) = (calls # <<>>)
  <2>1. (z # <<>>) = (n > 0)
    BY <1>4, Counted
  <2>2. (calls # <<>>) = (n > 0)
    BY EmptySeq, <1>1 DEF n
  <2>3. QED
    BY <2>1, <2>2
<1>6. Longer(<<>>, calls) = z
  <2>1. Longer(<<>>, calls) = [at \in 0 .. 0 + n - 1 |-> IF at < 0 THEN <<>>[at] ELSE calls[at - 0 + 1]]
    BY NoCalls DEF Longer, n
  <2>2. 0 + n - 1 = n - 1
    BY <1>1
  <2>3. \A at \in 0 .. n - 1 : (IF at < 0 THEN <<>>[at] ELSE calls[at - 0 + 1]) = calls[at + 1]
    <3>1. ASSUME NEW at \in 0 .. n - 1 PROVE ~(at < 0) /\ at - 0 + 1 = at + 1
      BY <1>1
    <3>2. QED
      BY <3>1
  <2>4. QED
    BY <2>1, <2>2, <2>3, <1>2
<1>7. QED
  BY <1>1, <1>2, <1>4, <1>5, <1>6 DEF n, z

LEMMA InOnePiece ==
  ASSUME NEW reply, reply.text \in Nat, reply.calls \in Seq(Called), reply.finish \in Finishes
  PROVE  /\ AsAnswer(reply) \in Answers
         /\ AsAnswer(reply).begun /\ AsAnswer(reply).text = reply.text
         /\ AsAnswer(reply).calls = Zeroed(reply.calls) /\ AsAnswer(reply).finish = reply.finish
         /\ AsAnswer(reply).finish # "none"
         /\ AsAnswer(reply).usage /\ AsAnswer(reply).end = "clean"
<1>1. AsAnswer(reply) = [begun |-> TRUE, text |-> reply.text, calls |-> Zeroed(reply.calls),
                         finish |-> reply.finish, usage |-> TRUE, end |-> "clean"]
  BY DEF AsAnswer
<1>2. Zeroed(reply.calls) \in CallLists
  BY Zero
<1>3. QED
  BY <1>1, <1>2 DEF Answers, Finishes

\* The calls a vendor answers with in one piece.
LEMMA Piece ==
  ASSUME HistoryInv(history, trimmed), told \in Heard, NEW names \in NameLists, NEW ollama \in BOOLEAN
  PROVE  LET calls == [i \in DOMAIN names |->
                          Call(IF ollama THEN ToolCallId(i - 1, names[i]) ELSE FreshId(i), names[i], "whole")]
         IN /\ calls \in Seq(Called) /\ Len(calls) = Len(names)
            /\ \A i \in 1 .. Len(names) : calls[i].args = "whole"
<1> DEFINE Entry(i) == Call(IF ollama THEN ToolCallId(i - 1, names[i]) ELSE FreshId(i), names[i], "whole")
<1>1. Len(names) \in Nat /\ DOMAIN names = 1 .. Len(names) /\ \A i \in 1 .. Len(names) : names[i] \in Names
  BY Listing
<1>2. \A i \in 1 .. Len(names) : Entry(i) \in Called /\ Entry(i).args = "whole"
  <2>1. ASSUME NEW i \in 1 .. Len(names)
        PROVE  Entry(i) \in Called /\ Entry(i).args = "whole"
    <3>1. i \in Nat \ {0} /\ i - 1 \in Nat /\ names[i] \in Names
      BY <1>1
    <3>2. FreshId(i) \in Ids
      BY <3>1, Fresh
    <3>3. ToolCallId(i - 1, names[i]) \in Ids
      BY <3>1 DEF ToolCallId, Ids
    <3>4. \A id \in Ids, name \in Names : Call(id, name, "whole") \in Called /\ Call(id, name, "whole").args = "whole"
      BY DEF Call, Called, Args
    <3>5. QED
      BY <3>1, <3>2, <3>3, <3>4
  <2>2. QED
    BY <2>1
<1>3. [i \in DOMAIN names |-> Entry(i)] = [i \in 1 .. Len(names) |-> Entry(i)]
  BY <1>1
<1> HIDE DEF Entry
<1>4. /\ [i \in 1 .. Len(names) |-> Entry(i)] \in Seq(Called)
      /\ Len([i \in 1 .. Len(names) |-> Entry(i)]) = Len(names)
      /\ \A i \in 1 .. Len(names) : [j \in 1 .. Len(names) |-> Entry(j)][i] = Entry(i)
  BY <1>1, <1>2
<1>5. QED
  BY <1>2, <1>3, <1>4 DEF Entry

LEMMA OnWholeAnswer ==
  ASSUME IInv, NEW text \in 0 .. MaxText, NEW names \in NameLists, NEW reason \in Reasons,
         WholeAnswer(text, names, reason)
  PROVE  IInv' /\ got = NoAnswer /\ got'.end = "clean" /\ got'.finish # "none"
         /\ (got'.finish # "length" => (got'.finish = "tool_calls") = (got'.calls # <<>>))
<1> DEFINE ollama == Dialect[via] = "ollama"
           calls == [i \in DOMAIN names |->
                        Call(IF ollama THEN ToolCallId(i - 1, names[i]) ELSE FreshId(i), names[i], "whole")]
           finish == IF ollama THEN DoneReason(IF reason = "max_tokens" THEN "length" ELSE "stop", Len(names))
                     ELSE StopReason(reason)
           reply == Reply(text, calls, finish)
<1>1. /\ phase = "waiting"
      /\ ollama \/ reason = "max_tokens" \/ (reason = "tool_use") = (names # <<>>)
      /\ got' = AsAnswer(reply)
      /\ told' = [text |-> text, calls |-> Zeroed(calls), marked |-> TRUE]
      /\ billed' = TRUE /\ phase' = "over"
      /\ UNCHANGED <<history, trimmed, why, via, manner, local, out, served>>
  BY DEF WholeAnswer
<1>2. told \in Heard /\ local \in Locals /\ out \in Seq(Chunks) /\ HistoryInv(history, trimmed) /\ got = NoAnswer
  BY <1>1 DEF IInv, Types, Exchange, AtRest
<1>3. text \in Nat /\ Len(names) \in Nat /\ (names # <<>>) = (Len(names) > 0)
  <2>1. names \in Seq(Names) /\ Len(names) \in Nat
    BY Listing
  <2>2. QED
    BY <2>1, AdaptersAssumption, EmptySeq
<1> HIDE DEF ollama
<1>4. /\ calls \in Seq(Called) /\ Len(calls) = Len(names)
      /\ \A i \in 1 .. Len(names) : calls[i].args = "whole"
  <2>1. ollama \in BOOLEAN
    BY DEF ollama
  <2>2. QED
    BY <2>1, <1>2, Piece
<1> HIDE DEF calls
<1> DEFINE z == Zeroed(calls)
<1>5. /\ z \in CallLists /\ (z # <<>>) = (Len(names) > 0) /\ Whole(z)
  <2>1. /\ z \in CallLists /\ (z # <<>>) = (calls # <<>>)
        /\ \A at \in DOMAIN z : z[at] = calls[at + 1] /\ at + 1 \in 1 .. Len(calls)
    BY <1>4, Zero
  <2>2. (calls # <<>>) = (Len(names) > 0)
    BY <1>3, <1>4, EmptySeq
  <2>3. Whole(z)
    BY <2>1, <1>4 DEF Whole
  <2>4. QED
    BY <2>1, <2>2, <2>3
<1> HIDE DEF z
<1>6. finish \in Finishes /\ Ended(finish, z)
  <2>1. CASE ollama
    <3>1. finish = DoneReason(IF reason = "max_tokens" THEN "length" ELSE "stop", Len(names))
      BY <2>1
    <3> HIDE DEF finish
    <3>2. CASE reason = "max_tokens"
      <4>1. finish = DoneReason("length", Len(names))
        BY <3>1, <3>2
      <4>2. QED
        BY <4>1, <1>3, <1>5, Done
    <3>3. CASE reason # "max_tokens"
      <4>1. finish = DoneReason("stop", Len(names))
        BY <3>1, <3>3
      <4>2. QED
        BY <4>1, <1>3, <1>5, Done
    <3>4. QED
      BY <3>2, <3>3
  <2>2. CASE ~ollama
    <3>1. finish = StopReason(reason)
      BY <2>2
    <3>2. reason = "max_tokens" \/ (Whole(z) /\ (reason = "tool_use") = (z # <<>>))
      BY <2>2, <1>1, <1>3, <1>5
    <3> HIDE DEF finish
    <3>3. QED
      BY <3>1, <3>2, Reasoned
  <2>3. QED
    BY <2>1, <2>2
<1> HIDE DEF finish
<1>7. reply.text = text /\ reply.calls = calls /\ reply.finish = finish
  BY DEF Reply
<1> HIDE DEF reply
<1>8. /\ got' \in Answers /\ got'.text = text /\ got'.calls = z /\ got'.finish = finish
      /\ got'.finish # "none" /\ got'.end = "clean"
  <2>1. /\ AsAnswer(reply) \in Answers /\ AsAnswer(reply).text = reply.text
        /\ AsAnswer(reply).calls = Zeroed(reply.calls) /\ AsAnswer(reply).finish = reply.finish
        /\ AsAnswer(reply).finish # "none" /\ AsAnswer(reply).end = "clean"
    BY <1>3, <1>4, <1>6, <1>7, InOnePiece
  <2>2. QED
    BY <2>1, <1>1, <1>7 DEF z
<1>9. told' \in Heard /\ told'.text = text /\ told'.calls = z /\ told'.marked = TRUE
  BY <1>1, <1>3, <1>5 DEF Heard, z
<1>10. Over'
  BY <1>1, <1>6, <1>8, <1>9 DEF Over, Agreed
<1>11. IInv'
  BY <1>1, <1>2, <1>8, <1>9, <1>10, Finishing
<1>12. got'.finish # "length" => (got'.finish = "tool_calls") = (got'.calls # <<>>)
  BY <1>6, <1>8 DEF Ended
<1>13. QED
  BY <1>2, <1>8, <1>11, <1>12

-----------------------------------------------------------------------------
(* The mock.                                                               *)

\* A reply that a vendor could give.
Answerable(r) ==
    /\ r \in Scripted
    /\ \A m, n \in DOMAIN r.calls : r.calls[m].id = r.calls[n].id => m = n
    /\ r.finish # "length" => \A n \in DOMAIN r.calls : r.calls[n].args # "begun"
    /\ r.finish \notin {"length", "none"} => (r.finish = "tool_calls") = (r.calls # <<>>)

LEMMA OneCall ==
  ASSUME NEW id \in Ids, NEW name \in Names
  PROVE  Answerable(Reply(0, <<Call(id, name, "whole")>>, "none"))
<1> DEFINE call == Call(id, name, "whole")
           r == Reply(0, <<call>>, "none")
<1>1. call \in [name : Names, id : Ids, args : {"nothing", "begun", "whole"}] /\ call.args = "whole"
  BY DEF Call
<1> HIDE DEF call
<1>2. <<call>> \in Seq([name : Names, id : Ids, args : {"nothing", "begun", "whole"}])
  BY <1>1
<1>3. r.calls = <<call>> /\ r.finish = "none" /\ r \in Scripted
  BY <1>2 DEF Reply, Scripted
<1> HIDE DEF r
<1>4. DOMAIN r.calls = {1} /\ r.calls[1] = call
  BY <1>3
<1>5. QED
  BY <1>1, <1>3, <1>4 DEF Answerable, r, call

LEMMA Outcomes ==
  ASSUME IInv, NEW v \in Vendors, NEW q \in Manners
  PROVE  \/ Outcome(v, q) = Raises
         \/ Answerable(Outcome(v, q)) /\ Outcome(v, q).raises = FALSE
<1>0. Raises.raises = TRUE /\ \A r \in Scripted : r.raises = FALSE
  BY DEF Raises, Scripted
<1>1. CASE Replies[v] = <<>>
  <2>1. FreshId(1) \in Ids
    BY Fresh DEF IInv, Types
  <2>2. q \in Manner
    BY AdaptersAssumption
  <2>3. Answerable(DerivedReply(q))
    <3>1. CASE q.choice \in Names
      BY <3>1, <2>1, OneCall DEF DerivedReply
    <3>2. CASE q.choice \notin Names /\ q.choice = "required" /\ q.tools # <<>>
      <4>1. q.tools \in Seq(Names)
        BY <2>2 DEF Manner
      <4>2. q.tools[1] \in Names
        BY <4>1, <3>2, EmptySeq
      <4>3. QED
        BY <4>2, <3>2, <2>1, OneCall DEF DerivedReply
    <3>3. CASE q.choice \notin Names /\ ~(q.choice = "required" /\ q.tools # <<>>)
      <4>1. <<>> \in Seq([name : Names, id : Ids, args : {"nothing", "begun", "whole"}])
        OBVIOUS
      <4>2. Reply(2, <<>>, "none") \in Scripted
        BY <4>1 DEF Reply, Scripted
      <4>3. Answerable(Reply(2, <<>>, "none"))
        BY <4>2 DEF Answerable, Reply
      <4>4. QED
        BY <4>3, <3>3 DEF DerivedReply
    <3>4. QED
      BY <3>1, <3>2, <3>3
  <2>4. Outcome(v, q) = DerivedReply(q)
    BY <1>1 DEF Outcome
  <2>5. QED
    BY <2>3, <2>4, <1>0 DEF Answerable
<1>2. CASE Replies[v] # <<>>
  <2>1. Replies[v] \in Seq(Scripted \cup {Raises})
    BY ScriptsAssumption
  <2>2. served[v] \in Nat /\ served[v] < Len(Replies[v])
    BY <1>2 DEF IInv, ScriptInv
  <2> DEFINE i == served[v] + 1
  <2>3. i \in DOMAIN Replies[v] /\ Outcome(v, q) = Replies[v][i]
    <3>1. DOMAIN Replies[v] = 1 .. Len(Replies[v]) /\ Len(Replies[v]) \in Nat
      BY <2>1
    <3>2. QED
      BY <3>1, <2>2, <1>2 DEF Outcome, ScriptedOutcome
  <2> HIDE DEF i
  <2>4. Replies[v][i] \in Scripted \cup {Raises}
    BY <2>1, <2>3
  <2>5. CASE Replies[v][i] # Raises
    <3>1. PICK r : r = Replies[v][i]
      OBVIOUS
    <3>2. /\ \A m, n \in DOMAIN r.calls : r.calls[m].id = r.calls[n].id => m = n
          /\ r.finish # "length" => \A n \in DOMAIN r.calls : r.calls[n].args # "begun"
          /\ r.finish \notin {"length", "none"} => (r.finish = "tool_calls") = (r.calls # <<>>)
      BY <3>1, <2>3, <2>5, ScriptsAssumption
    <3>3. r \in Scripted
      BY <3>1, <2>4, <2>5
    <3>4. Answerable(r)
      BY <3>2, <3>3 DEF Answerable
    <3>5. QED
      BY <3>1, <3>3, <3>4, <2>3, <1>0
  <2>6. QED
    BY <2>3, <2>5
<1>3. QED
  BY <1>1, <1>2

LEMMA Renders ==
  ASSUME NEW r, Answerable(r), NEW q \in Manners
  PROVE  LET s == Rendered(r, q)
         IN /\ s.text \in Nat /\ s.calls = r.calls /\ r.calls \in Seq(Called) /\ s.finish \in Finishes
            /\ Told(<<>>, r.calls) /\ Ended(s.finish, Zeroed(r.calls))
<1>1. q \in Manner /\ r \in Scripted
  BY AdaptersAssumption DEF Answerable
<1>2. EffectiveMaxTokens(q) \in Nat
  BY <1>1 DEF EffectiveMaxTokens, Manner
<1>3. r.text \in Nat /\ r.calls \in Seq(Called) /\ r.finish \in Finishes \cup {"none"}
  BY <1>1 DEF Scripted, Called, Args
<1> DEFINE text == IF Truncated(r, q) THEN EffectiveMaxTokens(q) ELSE r.text
           finish == IF Truncated(r, q) THEN "length"
                     ELSE IF r.finish # "none" THEN r.finish
                     ELSE IF r.calls # <<>> THEN "tool_calls" ELSE "stop"
           s == Rendered(r, q)
<1>4. s = [r EXCEPT !.text = text, !.finish = finish]
  BY DEF Rendered
<1>5. text \in Nat /\ finish \in Finishes
  BY <1>2, <1>3 DEF Finishes
<1>6. finish # "length" => /\ \A n \in DOMAIN r.calls : r.calls[n].args # "begun"
                           /\ (finish = "tool_calls") = (r.calls # <<>>)
  <2>1. CASE Truncated(r, q)
    BY <2>1
  <2>2. CASE ~Truncated(r, q) /\ r.finish # "none"
    BY <2>2 DEF Answerable
  <2>3. CASE ~Truncated(r, q) /\ r.finish = "none"
    <3>1. finish = IF r.calls # <<>> THEN "tool_calls" ELSE "stop"
      BY <2>3
    <3>2. \A n \in DOMAIN r.calls : r.calls[n].args # "begun"
      BY <2>3 DEF Answerable
    <3>3. QED
      BY <3>1, <3>2
  <2>4. QED
    BY <2>1, <2>2, <2>3
<1> HIDE DEF text, finish
<1>7. s.text = text /\ s.finish = finish /\ s.calls = r.calls
  BY <1>1, <1>4 DEF Scripted
<1> HIDE DEF s
<1>8. Told(<<>>, r.calls)
  <2>1. DOMAIN r.calls = 1 .. Len(r.calls)
    BY <1>3
  <2>2. QED
    BY <2>1 DEF Told, Answerable
<1>9. Ended(finish, Zeroed(r.calls))
  <2>1. /\ (Zeroed(r.calls) # <<>>) = (r.calls # <<>>)
        /\ \A at \in DOMAIN Zeroed(r.calls) : Zeroed(r.calls)[at] = r.calls[at + 1] /\ at + 1 \in 1 .. Len(r.calls)
    BY <1>3, Zero
  <2>2. DOMAIN r.calls = 1 .. Len(r.calls)
    BY <1>3
  <2>3. finish # "length" => Whole(Zeroed(r.calls))
    BY <2>1, <2>2, <1>6 DEF Whole
  <2>4. QED
    BY <2>1, <2>3, <1>6 DEF Ended
<1>10. QED
  BY <1>3, <1>5, <1>7, <1>8, <1>9 DEF s

\* What a scripted reply streams as.
Replayed(r) == <<Role>> \o Deltas(r) \o <<Finished(r.finish), Usage>>

LEMMA MockOut ==
  ASSUME NEW r, r.text \in Nat, r.calls \in Seq(Called), r.finish \in Finishes,
         Told(<<>>, r.calls), Ended(r.finish, Zeroed(r.calls))
  PROVE  /\ Replayed(r) \in Seq(Chunks) /\ Billing(Replayed(r))
         /\ \E b \in Answers :
               /\ Path(NoAnswer, Replayed(r), b) /\ b.end = "open" /\ b.text = r.text
               /\ b.calls = Zeroed(r.calls) /\ b.finish = r.finish
<1> DEFINE s2 == [i \in 1 .. r.text |-> Text]
           s3 == Deliveries(0, r.calls)
           s4 == Ending(r.finish)
<1>1. /\ NoAnswer \in Answers /\ NoAnswer.finish = "none" /\ ~NoAnswer.begun /\ NoAnswer.text = 0
      /\ NoAnswer.calls = <<>> /\ NoAnswer.usage = FALSE /\ NoAnswer.end = "open"
  BY NoCalls DEF NoAnswer, Answers
<1>2. PICK x : x = [NoAnswer EXCEPT !.begun = TRUE]
  OBVIOUS
<1>3. /\ x \in Answers /\ x.finish = "none" /\ x.text = 0 /\ x.calls = <<>> /\ x.usage = FALSE
      /\ x.end = "open"
  BY <1>1, <1>2 DEF Answers
<1>4. Path(NoAnswer, <<Role>>, x) /\ <<Role>> \in Seq(Chunks)
  <2>1. Follows(NoAnswer, Role) /\ Assembled(NoAnswer, Role) = x
    BY <1>1, <1>2, AsRole
  <2>2. Path(NoAnswer, <<Role>>, Assembled(NoAnswer, Role))
    BY <2>1, OneChunk
  <2>3. QED
    BY <2>1, <2>2, PlainChunks
<1>5. PICK y : y = [x EXCEPT !.text = x.text + r.text]
  OBVIOUS
<1>6. s2 \in Seq(Chunks) /\ y \in Answers /\ Path(x, s2, y)
  BY <1>3, <1>5, Texts
<1>7. /\ y.finish = "none" /\ y.text = r.text /\ y.calls = <<>> /\ y.usage = FALSE /\ y.end = "open"
  BY <1>3, <1>5 DEF Answers
<1>8. PICK z : z = [y EXCEPT !.calls = Longer(y.calls, r.calls)]
  OBVIOUS
<1>9. Path(y, s3, z) /\ z \in Answers /\ s3 \in Seq(Chunks)
  <2>1. Distinct(y.calls) /\ Told(y.calls, r.calls)
    BY <1>7 DEF Distinct
  <2>2. Path(y, Deliveries(Count(y.calls), r.calls), z) /\ z \in Answers
    BY <1>6, <1>7, <1>8, <2>1, CallsPath
  <2>3. Count(y.calls) = 0 /\ 0 \in Nat
    BY <1>7, NoCalls
  <2>4. s3 \in Seq(Chunks)
    BY <2>3, Delivered
  <2>5. QED
    BY <2>2, <2>3, <2>4
<1>10. /\ z.finish = "none" /\ z.text = r.text /\ z.calls = Zeroed(r.calls) /\ z.usage = FALSE
       /\ z.end = "open"
  <2>1. Longer(y.calls, r.calls) = Zeroed(r.calls)
    BY <1>7, Zero
  <2>2. QED
    BY <2>1, <1>6, <1>7, <1>8 DEF Answers
<1>11. PICK b : b = [[z EXCEPT !.finish = r.finish] EXCEPT !.usage = TRUE]
  OBVIOUS
<1>12. Path(z, s4, b) /\ b \in Answers /\ s4 \in Seq(Chunks) /\ Billing(s4)
  BY <1>9, <1>10, <1>11, EndingPath
<1>13. /\ b.finish = r.finish /\ b.text = r.text /\ b.calls = Zeroed(r.calls) /\ b.end = "open"
  BY <1>9, <1>10, <1>11 DEF Answers
<1>14. Deltas(r) = s2 \o s3
  <2>1. Len(r.calls) \in Nat
    OBVIOUS
  <2>2. ASSUME NEW k \in 1 .. 2 * Len(r.calls) PROVE 0 + Half(k) - 1 = Half(k) - 1
    <3>1. Half(k) \in 1 .. Len(r.calls)
      BY <2>1, Halves
    <3>2. QED
      BY <3>1
  <2>3. s3 = [k \in 1 .. 2 * Len(r.calls) |-> CallDelta(k, Half(k) - 1, r.calls[Half(k)])]
    BY <2>2 DEF Deliveries
  <2> HIDE DEF s3
  <2>4. QED
    BY <2>3 DEF Deltas
<1> HIDE DEF s2, s3, s4
<1>15. s2 \o s3 \in Seq(Chunks) /\ Path(x, s2 \o s3, z)
  BY <1>6, <1>9, Joins
<1>16. PICK s : s = s2 \o s3
  OBVIOUS
<1>17. <<Role>> \o s \in Seq(Chunks) /\ Path(NoAnswer, <<Role>> \o s, z)
  <2>1. s \in Seq(Chunks) /\ Path(x, s, z)
    BY <1>15, <1>16
  <2>2. PICK r0 : r0 = <<Role>>
    OBVIOUS
  <2>3. r0 \in Seq(Chunks) /\ Path(NoAnswer, r0, x)
    BY <2>2, <1>4
  <2>4. Path(NoAnswer, r0 \o s, z)
    BY <2>1, <2>3, Joins
  <2>5. r0 \o s \in Seq(Chunks)
    BY <2>1, <2>3
  <2>6. QED
    BY <2>2, <2>4, <2>5
<1>18. PICK t : t = <<Role>> \o s
  OBVIOUS
<1>19. t \o s4 \in Seq(Chunks) /\ Path(NoAnswer, t \o s4, b)
  <2>1. t \in Seq(Chunks) /\ Path(NoAnswer, t, z)
    BY <1>17, <1>18
  <2>2. QED
    BY <2>1, <1>12, Joins
<1>20. Replayed(r) = t \o s4
  BY <1>14, <1>16, <1>18 DEF Replayed, s4, Ending
<1>21. Billing(t \o s4)
  <2>1. PICK k \in 1 .. Len(s4) : s4[k] = Usage
    BY <1>12 DEF Billing
  <2>2. t \in Seq(Chunks) /\ s4 \in Seq(Chunks)
    BY <1>12, <1>17, <1>18
  <2>3. Len(t) + k \in 1 .. Len(t \o s4) /\ (t \o s4)[Len(t) + k] = s4[k]
    BY <2>2
  <2>4. QED
    BY <2>1, <2>3 DEF Billing
<1>22. QED
  BY <1>12, <1>13, <1>19, <1>20, <1>21

\* Why a request is refused.
LEMMA Considered ==
  ASSUME NEW v, NEW q
  PROVE  /\ Reason(v, q) \in {"none", "empty", "incoherent", "dangling", "unsupported", "inexpressible"}
         /\ Reason(v, q) = "none" => ResultsHaveCalls(history)
         /\ Reason(v, q) = "empty" => \E i \in DOMAIN history : ~SaysSomething(history[i])
         /\ Reason(v, q) = "dangling" => ~ResultsHaveCalls(history)
         /\ Reason(v, q) = "inexpressible" => ~Expressible(Dialect[v], history)
BY DEF Reason

\* Before an answer there is nothing of one.
LEMMA Composing ==
  ASSUME IInv, phase = "composing"
  PROVE  /\ got = NoAnswer /\ told = Silence /\ local = NoLocals /\ out = <<>> /\ ~billed /\ why = "none"
         /\ got \in Answers /\ told \in Heard /\ local \in Locals /\ out \in Seq(Chunks)
BY DEF IInv, Types, Exchange, AtRest, Refusals

LEMMA OnAskMock ==
  ASSUME IInv, NEW v \in Vendors, NEW q \in Manners, AskMock(v, q)
  PROVE  /\ IInv' /\ got = NoAnswer
         /\ \/ got' = got
            \/ got' = [got EXCEPT !.end = "failed"]
            \/ /\ got'.end = "clean" /\ got'.finish # "none"
               /\ got'.finish # "length" => (got'.finish = "tool_calls") = (got'.calls # <<>>)
<1> DEFINE outcome == Outcome(v, q)
           reply == Rendered(outcome, q)
<1>1. /\ phase = "composing" /\ Reason(v, q) = "none" /\ Dialect[v] = "mock" /\ via' = v /\ manner' = q
      /\ served' = [served EXCEPT ![v] = IF @ + 1 < Len(Replies[v]) THEN @ + 1 ELSE @]
      /\ history' = history /\ trimmed' = trimmed /\ why' = why
  BY DEF AskMock, Asking
<1>2. /\ got = NoAnswer /\ told = Silence /\ local = NoLocals /\ out = <<>> /\ ~billed /\ why = "none"
      /\ got \in Answers /\ told \in Heard /\ local \in Locals /\ out \in Seq(Chunks)
  BY <1>1, Composing
<1>3. HistoryInv(history, trimmed)' /\ Refusals' /\ ResultsHaveCalls(history)'
  BY <1>1, <1>2, Considered DEF IInv, HistoryInv, Refusals, TurnsComeBack
<1>4. ScriptInv'
  <2>1. served[v] \in Nat /\ served \in [Vendors -> Nat] /\ served'[v] \in Nat
    BY <1>1 DEF IInv, ScriptInv
  <2>2. served' \in [Vendors -> Nat]
    BY <1>1, <2>1
  <2>3. IF Replies[v] = <<>> THEN served'[v] = 0 ELSE served'[v] < Len(Replies[v])
    <3>1. CASE Replies[v] = <<>>
      <4>1. served[v] = 0 /\ Len(Replies[v]) = 0
        BY <3>1 DEF IInv, ScriptInv
      <4>2. served'[v] = 0
        BY <4>1, <1>1, <2>1
      <4>3. QED
        BY <3>1, <4>2
    <3>2. CASE Replies[v] # <<>>
      <4>1. served[v] < Len(Replies[v])
        BY <3>2 DEF IInv, ScriptInv
      <4>2. QED
        BY <3>2, <4>1, <1>1, <2>1
    <3>3. QED
      BY <3>1, <3>2
  <2>4. QED
    BY <2>2, <2>3, <1>1, <2>1 DEF IInv, ScriptInv
<1>5. CASE outcome.raises
  <2>1. /\ phase' = "over" /\ got' = [got EXCEPT !.end = "failed"]
        /\ UNCHANGED <<told, local, out, billed>>
    BY <1>5 DEF AskMock
  <2>2. got' \in Answers /\ got'.end = "failed" /\ got'.finish = "none"
    BY <2>1, <1>2 DEF Answers, NoAnswer
  <2>3. Types'
    BY <2>1, <2>2, <1>1, <1>2 DEF IInv, Types
  <2>4. Over'
    BY <2>2 DEF Over
  <2>5. Exchange'
    BY <2>1, <2>4 DEF Exchange
  <2>6. QED
    BY <1>2, <1>3, <1>4, <2>1, <2>3, <2>5 DEF IInv
<1>6. CASE ~outcome.raises
  <2>1. Answerable(outcome)
    <3>1. Outcome(v, q) = Raises \/ Answerable(Outcome(v, q))
      BY Outcomes
    <3>2. Raises.raises = TRUE
      BY DEF Raises
    <3>3. QED
      BY <3>1, <3>2, <1>6
  <2>2. /\ reply.text \in Nat /\ reply.calls \in Seq(Called) /\ reply.finish \in Finishes
        /\ Told(<<>>, reply.calls) /\ Ended(reply.finish, Zeroed(reply.calls))
    <3> HIDE DEF outcome
    <3>1. QED
      BY <2>1, Renders
  <2>3. /\ phase' = IF q.stream THEN "streaming" ELSE "over"
        /\ told' = [text |-> reply.text, calls |-> Zeroed(reply.calls), marked |-> TRUE]
        /\ local' = [local EXCEPT !.done = TRUE]
        /\ out' = IF q.stream THEN Replayed(reply) ELSE <<>>
        /\ got' = IF q.stream THEN got ELSE AsAnswer(reply)
        /\ billed' = ~q.stream
    BY <1>6 DEF AskMock, Replayed
  <2> HIDE DEF reply
  <2>4. /\ told' \in Heard /\ told'.text = reply.text /\ told'.calls = Zeroed(reply.calls) /\ told'.marked = TRUE
    <3>1. Zeroed(reply.calls) \in CallLists
      BY <2>2, Zero
    <3>2. QED
      BY <3>1, <2>2, <2>3 DEF Heard
  <2>5. local' \in Locals /\ local'.done
    BY <2>3, <1>2 DEF Locals
  <2>6. q.stream \in BOOLEAN
    BY AdaptersAssumption DEF Manner
  <2>7. CASE q.stream
    <3>1. phase' = "streaming" /\ out' = Replayed(reply) /\ got' = got /\ billed' = FALSE
      BY <2>3, <2>7
    <3>2. /\ Replayed(reply) \in Seq(Chunks) /\ Billing(Replayed(reply))
          /\ \E b \in Answers :
                /\ Path(NoAnswer, Replayed(reply), b) /\ b.end = "open" /\ b.text = reply.text
                /\ b.calls = Zeroed(reply.calls) /\ b.finish = reply.finish
      BY <2>2, MockOut
    <3>3. PICK b \in Answers : /\ Path(NoAnswer, Replayed(reply), b) /\ b.end = "open" /\ b.text = reply.text
                               /\ b.calls = Zeroed(reply.calls) /\ b.finish = reply.finish
      BY <3>2
    <3>4. Becomes(b, v, local', told')
      <4>1. b.finish # "none"
        BY <2>2, <3>3 DEF Finishes
      <4>2. QED
        BY <4>1, <1>1, <2>4, <2>5, <3>3 DEF Becomes, Agreed
    <3>5. Stands(v, local', told')
      BY <1>1, <2>5 DEF Stands
    <3>6. Sound(got') /\ got'.end = "open"
      BY <3>1, <1>2 DEF Sound, Distinct, NoAnswer
    <3>7. Path(got', out', b)
      BY <3>1, <3>3, <1>2
    <3>8. Streaming'
      BY <1>1, <3>1, <3>2, <3>4, <3>5, <3>6, <3>7 DEF Streaming
    <3>9. Types'
      BY <1>1, <1>2, <2>4, <2>5, <3>1, <3>2 DEF IInv, Types
    <3>10. Exchange'
      BY <1>1, <1>3, <3>1, <3>8 DEF Exchange
    <3>11. QED
      BY <1>2, <1>3, <1>4, <3>1, <3>9, <3>10 DEF IInv
  <2>8. CASE ~q.stream
    <3>1. phase' = "over" /\ out' = <<>> /\ got' = AsAnswer(reply) /\ billed' = TRUE
      BY <2>3, <2>6, <2>8
    <3>2. /\ got' \in Answers /\ got'.text = reply.text
          /\ got'.calls = Zeroed(reply.calls) /\ got'.finish = reply.finish
          /\ got'.finish # "none" /\ got'.end = "clean"
      BY <2>2, <3>1, InOnePiece
    <3>3. Over'
      BY <2>2, <2>4, <3>1, <3>2 DEF Over, Agreed
    <3>4. Types'
      <4>1. <<>> \in Seq(Chunks)
        OBVIOUS
      <4>2. QED
        BY <4>1, <1>1, <1>2, <2>4, <2>5, <3>1, <3>2 DEF IInv, Types
    <3>5. Exchange'
      BY <3>1, <3>3 DEF Exchange
    <3>6. got'.finish # "length" => (got'.finish = "tool_calls") = (got'.calls # <<>>)
      BY <2>2, <3>2 DEF Ended
    <3>7. QED
      BY <1>2, <1>3, <1>4, <3>2, <3>4, <3>5, <3>6 DEF IInv
  <2>9. QED
    BY <2>6, <2>7, <2>8
<1>7. QED
  BY <1>5, <1>6

-----------------------------------------------------------------------------
(* The conversation.                                                       *)

\* While the caller composes, only the conversation changes.
LEMMA Composes ==
  ASSUME IInv, phase = "composing",
         UNCHANGED <<phase, why, via, manner, told, local, out, got, billed, served>>,
         HistoryInv(history', trimmed'), trimmed' \in BOOLEAN
  PROVE  IInv'
<1>1. why = "none" /\ AtRest
  BY DEF IInv, Refusals, Exchange
<1>2. Types'
  BY DEF IInv, Types
<1>3. ScriptInv'
  BY DEF IInv, ScriptInv
<1>4. Refusals'
  BY <1>1 DEF Refusals, TurnsComeBack
<1>5. Exchange'
  BY <1>1 DEF Exchange, AtRest
<1>6. QED
  BY <1>2, <1>3, <1>4, <1>5 DEF IInv

LEMMA Appends ==
  ASSUME NEW h, NEW cut, HistoryInv(h, cut), Len(h) < MaxMessages,
         NEW m \in Written, Kept(m), m.role # "tool"
  PROVE  HistoryInv(Append(h, m), cut)
<1> DEFINE n == Len(h)
<1>1. h \in Seq(Written) /\ n \in Nat /\ DOMAIN h = 1 .. n /\ \A i \in 1 .. n : Kept(h[i])
  BY Messages
<1>2. MaxMessages \in Nat
  BY AdaptersAssumption
<1>3. PICK g : g = Append(h, m)
  OBVIOUS
<1>4. /\ g \in Seq(Written) /\ Len(g) = n + 1 /\ DOMAIN g = 1 .. n + 1
      /\ g[n + 1] = m /\ \A i \in 1 .. n : g[i] = h[i]
  BY <1>1, <1>3
<1>5. Len(g) <= MaxMessages
  BY <1>1, <1>2, <1>4
<1> HIDE DEF n
<1>6. \A i \in DOMAIN g : i \in 1 .. n \/ i = n + 1
  BY <1>1, <1>4
<1>7. \A i \in DOMAIN g : Kept(g[i])
  BY <1>1, <1>4, <1>6
<1>8. ~cut => ResultsHaveCalls(g)
  <2> SUFFICES ASSUME ~cut, NEW i \in DOMAIN g, g[i].role = "tool"
               PROVE  \E j \in 1 .. i - 1 : g[i].of \in IdsIn(g[j])
    BY DEF ResultsHaveCalls
  <2>1. i \in 1 .. n /\ g[i] = h[i]
    BY <1>4, <1>6
  <2>2. PICK j \in 1 .. i - 1 : h[i].of \in IdsIn(h[j])
    BY <2>1, <1>1 DEF HistoryInv, ResultsHaveCalls
  <2>3. j \in 1 .. n
    BY <2>1, <1>1
  <2>4. QED
    BY <2>1, <2>2, <2>3, <1>4
<1>9. QED
  BY <1>3, <1>4, <1>5, <1>7, <1>8 DEF HistoryInv

LEMMA OnSay ==
  ASSUME IInv, NEW role \in {"system", "user"}, NEW parts \in SUBSET Parts, Say(role, parts)
  PROVE  IInv'
<1>1. /\ phase = "composing" /\ Len(history) < MaxMessages
      /\ history' = Append(history, Message(role, parts)) /\ trimmed' = trimmed
      /\ UNCHANGED <<phase, why, via, manner, told, local, out, got, billed, served>>
  BY DEF Say
<1>2. <<>> \in Seq(Called)
  OBVIOUS
<1>3. Message(role, parts) \in Written /\ Kept(Message(role, parts)) /\ Message(role, parts).role # "tool"
  BY <1>2 DEF Message, Written, Kept, Roles
<1>4. HistoryInv(history, trimmed) /\ trimmed \in BOOLEAN
  BY DEF IInv, Types
<1>5. HistoryInv(history', trimmed')
  BY <1>1, <1>3, <1>4, Appends
<1>6. QED
  BY <1>1, <1>4, <1>5, Composes

\* A result for every call of the last turn: each has it right before.
LEMMA OnAnswerCalls ==
  ASSUME IInv, AnswerCalls
  PROVE  IInv'
<1> DEFINE n == Len(history)
           calls == Last(history).calls
           results == [i \in DOMAIN calls |-> Result(calls[i])]
           m == Len(calls)
<1>1. /\ phase = "composing" /\ history # <<>> /\ n + m <= MaxMessages
      /\ history' = history \o results /\ trimmed' = trimmed
      /\ UNCHANGED <<phase, why, via, manner, told, local, out, got, billed, served>>
  BY DEF AnswerCalls, Awaited
<1>2. HistoryInv(history, trimmed) /\ trimmed \in BOOLEAN
  BY DEF IInv, Types
<1>3. /\ history \in Seq(Written) /\ n \in Nat /\ DOMAIN history = 1 .. n
      /\ \A i \in DOMAIN history : /\ history[i] \in Written /\ Kept(history[i])
                                   /\ history[i].calls \in Seq(Called)
  BY <1>2, Messages
<1>4. n \in 1 .. n /\ Last(history) = history[n]
  BY <1>1, <1>3, EmptySeq DEF Last
<1>5. calls \in Seq(Called) /\ m \in Nat /\ DOMAIN calls = 1 .. m /\ \A c \in 1 .. m : calls[c] \in Called
  <2>1. calls \in Seq(Called)
    BY <1>3, <1>4
  <2>2. QED
    BY <2>1
<1>6. ASSUME NEW call \in Called
      PROVE  Result(call) \in Written /\ Kept(Result(call)) /\ Result(call).of = call.id
  <2>1. <<>> \in Seq(Called) /\ call.id \in Ids /\ {"text"} \subseteq Parts
    BY DEF Called, Parts
  <2>2. PICK plain : plain = Message("tool", {"text"})
    OBVIOUS
  <2>3. plain \in Written /\ plain.role = "tool" /\ plain.calls = <<>>
    BY <2>1, <2>2 DEF Message, Written, Roles
  <2>4. Result(call) = [plain EXCEPT !.of = call.id]
    BY <2>2 DEF Result
  <2>5. /\ Result(call) \in Written /\ Result(call).role = "tool" /\ Result(call).calls = <<>>
        /\ Result(call).of = call.id
    BY <2>1, <2>3, <2>4 DEF Written
  <2>6. QED
    BY <2>5 DEF Kept
<1>7. /\ results \in Seq(Written) /\ Len(results) = m
      /\ \A c \in 1 .. m : results[c] = Result(calls[c])
  <2>1. results = [i \in 1 .. m |-> Result(calls[i])]
    BY <1>5
  <2>2. \A c \in 1 .. m : Result(calls[c]) \in Written
    BY <1>5, <1>6
  <2> HIDE DEF m
  <2>3. QED
    BY <2>1, <2>2, <1>5
<1> HIDE DEF results, m
<1>8. PICK g : g = history \o results
  OBVIOUS
<1>9. /\ g \in Seq(Written) /\ Len(g) = n + m /\ DOMAIN g = 1 .. n + m
      /\ \A i \in 1 .. n : g[i] = history[i]
      /\ \A c \in 1 .. m : g[n + c] = results[c]
  <2>1. PICK r : r = results
    OBVIOUS
  <2>2. r \in Seq(Written) /\ Len(r) = m /\ g = history \o r
    BY <2>1, <1>7, <1>8
  <2>3. /\ g \in Seq(Written) /\ Len(g) = n + Len(r) /\ DOMAIN g = 1 .. n + Len(r)
        /\ \A i \in 1 .. n : g[i] = history[i]
    BY <2>2, <1>3
  <2>4. \A c \in 1 .. Len(r) : g[n + c] = r[c]
    BY <2>2, <1>3
  <2> HIDE DEF n
  <2>5. Len(g) = n + m /\ DOMAIN g = 1 .. n + m
    BY <2>2, <2>3
  <2>6. \A c \in 1 .. m : g[n + c] = results[c]
    BY <2>1, <2>2, <2>4
  <2>7. QED
    BY <2>3, <2>5, <2>6
<1> HIDE DEF n, calls
<1>10. ASSUME NEW i \in DOMAIN g
       PROVE  i \in 1 .. n \/ \E c \in 1 .. m : i = n + c
  <2>1. CASE i <= n
    BY <2>1, <1>9
  <2>2. CASE i > n
    <3>1. i - n \in 1 .. m /\ i = n + (i - n)
      BY <2>2, <1>9, <1>3, <1>5
    <3>2. QED
      BY <3>1
  <2>3. QED
    BY <2>1, <2>2, <1>9, <1>3, <1>5
<1>11. ASSUME NEW i \in DOMAIN g
       PROVE  /\ Kept(g[i])
              /\ ~trimmed /\ g[i].role = "tool" => \E j \in 1 .. i - 1 : g[i].of \in IdsIn(g[j])
  <2>1. CASE i \in 1 .. n
    <3>1. g[i] = history[i] /\ Kept(g[i])
      BY <2>1, <1>3, <1>9
    <3>2. ASSUME ~trimmed, g[i].role = "tool" PROVE \E j \in 1 .. i - 1 : g[i].of \in IdsIn(g[j])
      <4>1. PICK j \in 1 .. i - 1 : history[i].of \in IdsIn(history[j])
        BY <3>1, <3>2, <2>1, <1>2, <1>3 DEF HistoryInv, ResultsHaveCalls
      <4>2. j \in 1 .. n
        BY <2>1, <1>3
      <4>3. QED
        BY <3>1, <4>1, <4>2, <1>9
    <3>3. QED
      BY <3>1, <3>2
  <2>2. ASSUME NEW c \in 1 .. m, i = n + c
        PROVE  Kept(g[i]) /\ \E j \in 1 .. i - 1 : g[i].of \in IdsIn(g[j])
    <3>1. g[i] = Result(calls[c]) /\ calls[c] \in Called
      <4>1. calls[c] \in Called
        BY <1>5
      <4>2. g[n + c] = results[c]
        BY <1>9
      <4>3. results[c] = Result(calls[c])
        BY <1>7
      <4>4. QED
        BY <4>1, <4>2, <4>3, <2>2
    <3>2. Kept(g[i]) /\ g[i].of = calls[c].id
      BY <3>1, <1>6
    <3>3. g[n] = history[n] /\ history[n].calls = calls /\ n \in 1 .. i - 1
      <4>1. n \in 1 .. i - 1
        BY <2>2, <1>3, <1>4, <1>5
      <4>2. QED
        BY <4>1, <1>4, <1>9 DEF calls
    <3>4. calls[c].id \in IdsIn(g[n])
      BY <3>3, <1>5 DEF IdsIn, Range
    <3>5. QED
      BY <3>2, <3>3, <3>4
  <2>3. QED
    BY <2>1, <2>2, <1>10
<1>12. HistoryInv(g, trimmed)
  <2>1. Len(g) <= MaxMessages
    BY <1>1, <1>9
  <2>2. QED
    BY <2>1, <1>9, <1>11 DEF HistoryInv, ResultsHaveCalls
<1>13. QED
  BY <1>1, <1>2, <1>8, <1>12, Composes

LEMMA OnTrim ==
  ASSUME IInv, Trim
  PROVE  IInv'
<1>1. /\ phase = "composing" /\ history # <<>> /\ history' = Tail(history)
      /\ trimmed' = (Tail(history) # <<>>)
      /\ UNCHANGED <<phase, why, via, manner, told, local, out, got, billed, served>>
  BY DEF Trim
<1>2. HistoryInv(history, trimmed)
  BY DEF IInv
<1>3. history \in Seq(Written) /\ Len(history) \in Nat /\ \A i \in 1 .. Len(history) : Kept(history[i])
  BY <1>2, Messages
<1>4. PICK g : g = Tail(history)
  OBVIOUS
<1>5. g \in Seq(Written) /\ Len(g) = Len(history) - 1 /\ \A i \in 1 .. Len(g) : g[i] = history[i + 1]
  BY <1>1, <1>3, <1>4, HeadTailProperties
<1>6. Len(g) <= MaxMessages
  BY <1>2, <1>3, <1>5, AdaptersAssumption DEF HistoryInv
<1>7. \A i \in DOMAIN g : Kept(g[i])
  <2>1. DOMAIN g = 1 .. Len(g) /\ \A i \in 1 .. Len(g) : i + 1 \in 1 .. Len(history)
    BY <1>3, <1>5
  <2>2. QED
    BY <2>1, <1>3, <1>5
<1>8. g = <<>> => ResultsHaveCalls(g)
  BY DEF ResultsHaveCalls
<1>9. HistoryInv(g, g # <<>>)
  BY <1>5, <1>6, <1>7, <1>8 DEF HistoryInv
<1>10. QED
  BY <1>1, <1>4, <1>9, Composes

LEMMA Leaving ==
  ASSUME IInv, Leave, HistoryInv(history', trimmed)
  PROVE  IInv'
<1>1. /\ phase' = "composing" /\ why' = "none" /\ told' = Silence /\ local' = NoLocals /\ out' = <<>>
      /\ got' = NoAnswer /\ billed' = FALSE /\ via' = Nobody /\ manner' = Nobody
      /\ trimmed' = trimmed /\ served' = served
  BY DEF Leave
<1>2. <<>> \in Seq(Chunks)
  OBVIOUS
<1>3. Types'
  BY <1>1, <1>2, Unstarted DEF IInv, Types
<1>4. ScriptInv'
  BY <1>1 DEF IInv, ScriptInv
<1>5. Refusals'
  BY <1>1 DEF Refusals, TurnsComeBack
<1>6. Exchange'
  BY <1>1 DEF Exchange, AtRest
<1>7. QED
  BY <1>1, <1>3, <1>4, <1>5, <1>6 DEF IInv

\* The calls of an answer, as the list a message has.
LEMMA Lists ==
  ASSUME NEW calls \in CallLists
  PROVE  /\ Listed(calls) \in Seq(Called)
         /\ \A c \in DOMAIN Listed(calls) : c - 1 \in DOMAIN calls /\ Listed(calls)[c] = calls[c - 1]
<1> DEFINE n == Cardinality(DOMAIN calls)
<1>1. n \in Nat /\ DOMAIN calls = 0 .. n - 1 /\ \A at \in DOMAIN calls : calls[at] \in Called
  BY Counted DEF Count
<1>2. Listed(calls) = [i \in 1 .. n |-> calls[i - 1]]
  BY DEF Listed
<1> HIDE DEF n
<1>3. \A i \in 1 .. n : i - 1 \in 0 .. n - 1
  BY <1>1
<1>4. \A i \in 1 .. n : calls[i - 1] \in Called
  BY <1>1, <1>3
<1>5. [i \in 1 .. n |-> calls[i - 1]] \in Seq(Called)
  BY <1>1, <1>4
<1>6. QED
  BY <1>1, <1>2, <1>3, <1>5

LEMMA OnKeep ==
  ASSUME IInv, Keep
  PROVE  IInv'
<1>1. /\ phase = "over" /\ got.end = "clean" /\ Len(history) < MaxMessages
      /\ history' = Append(history, AsTurn(got, manner.stream)) /\ Leave
  BY DEF Keep
<1>2. got \in Answers /\ HistoryInv(history, trimmed)
  BY DEF IInv, Types
<1>3. got.calls \in CallLists /\ got.finish \in Finishes \cup {"none"}
  BY <1>2 DEF Answers
<1>4. got.finish # "none" => Ended(got.finish, got.calls)
  BY <1>1 DEF IInv, Exchange, Over
<1> DEFINE parts == IF got.text > 0 THEN {"text"} ELSE IF manner.stream THEN {"blank"} ELSE {}
           m == AsTurn(got, manner.stream)
<1>5. parts \in SUBSET Parts /\ parts \subseteq {"text", "blank"}
  BY DEF Parts
<1> HIDE DEF parts
<1>6. Listed(got.calls) \in Seq(Called)
  BY <1>3, Lists
<1>7. PICK plain : plain = Message("assistant", parts)
  OBVIOUS
<1>8. /\ m \in Written /\ m.role = "assistant" /\ m.parts = parts /\ m.calls = Listed(got.calls)
      /\ m.finish = got.finish
  <2>1. <<>> \in Seq(Called)
    OBVIOUS
  <2>2. plain \in Written /\ plain.role = "assistant" /\ plain.parts = parts
    BY <2>1, <1>5, <1>7 DEF Message, Written, Roles
  <2>3. m = [plain EXCEPT !.calls = Listed(got.calls), !.finish = got.finish]
    BY <1>7 DEF AsTurn, Turn, parts
  <2> HIDE DEF m
  <2>4. QED
    BY <2>2, <2>3, <1>3, <1>6 DEF Written
<1>9. Kept(m) /\ m.role # "tool"
  <2>1. ASSUME got.finish \notin {"none", "length"}, NEW c \in DOMAIN Listed(got.calls)
        PROVE  Listed(got.calls)[c].args # "begun"
    <3>1. Whole(got.calls)
      BY <1>4, <2>1 DEF Ended
    <3>2. QED
      BY <3>1, <2>1, <1>3, Lists DEF Whole
  <2> HIDE DEF m
  <2>2. QED
    BY <2>1, <1>5, <1>8 DEF Kept
<1> HIDE DEF m
<1>10. HistoryInv(Append(history, m), trimmed)
  BY <1>1, <1>2, <1>8, <1>9, Appends
<1>11. QED
  BY <1>1, <1>10, Leaving DEF m

LEMMA OnDrop ==
  ASSUME IInv, Drop
  PROVE  IInv'
<1>1. Leave /\ history' = history
  BY DEF Drop
<1>2. HistoryInv(history', trimmed)
  BY <1>1 DEF IInv
<1>3. QED
  BY <1>1, <1>2, Leaving

\* What cannot be put into a dialect is a message nobody would call ordinary.
LEMMA Inexpressible ==
  ASSUME NEW h, NEW cut, HistoryInv(h, cut), NEW dialect, ~Expressible(dialect, h)
  PROVE  \E i \in DOMAIN h : ~Ordinary(h[i])
<1>1. Foreign(dialect) \subseteq {"audio", "linked_image"}
  BY DEF Foreign
<1>2. PICK i \in DOMAIN h : \/ h[i].parts \cap Foreign(dialect) # {}
                            \/ \E call \in Range(h[i].calls) : ~ArgumentsTaken(call.args)
  BY DEF Expressible
<1>3. /\ h[i] \in Written /\ Kept(h[i])
      /\ \A c \in DOMAIN h[i].calls : h[i].calls[c] \in Called
  BY Messages
<1>4. CASE h[i].role = "assistant"
  <2>1. h[i].parts \subseteq {"text", "blank"}
    BY <1>3, <1>4 DEF Kept
  <2>2. h[i].parts \cap Foreign(dialect) = {}
    BY <2>1, <1>1
  <2>3. PICK call \in Range(h[i].calls) : ~ArgumentsTaken(call.args)
    BY <2>2, <1>2
  <2>4. PICK c \in DOMAIN h[i].calls : call = h[i].calls[c]
    BY <2>3 DEF Range
  <2>5. call.args \in Args
    BY <2>4, <1>3 DEF Called
  <2>6. call.args = "begun"
    BY <2>3, <2>5 DEF ArgumentsTaken, Args
  <2>7. h[i].finish \in {"none", "length"}
    BY <2>4, <2>6, <1>3, <1>4 DEF Kept
  <2>8. QED
    BY <2>7, <1>4 DEF Ordinary
<1>5. CASE h[i].role # "assistant"
  <2>1. h[i].calls = <<>>
    BY <1>3, <1>5 DEF Kept
  <2>2. Range(h[i].calls) = {}
    BY <2>1 DEF Range
  <2>3. h[i].parts \cap Foreign(dialect) # {}
    BY <2>2, <1>2
  <2>4. ~(h[i].parts \subseteq {"text", "blank", "inline_image"})
    BY <2>3, <1>1
  <2>5. QED
    BY <2>4, <1>5 DEF Ordinary
<1>6. QED
  BY <1>4, <1>5

LEMMA OnRefuse ==
  ASSUME IInv, NEW v \in Vendors, NEW q \in Manners, Refuse(v, q)
  PROVE  IInv'
<1>1. /\ phase = "composing" /\ phase' = "refused" /\ why' = Reason(v, q)
      /\ UNCHANGED <<history, trimmed, via, manner, told, local, out, got, billed, served>>
  BY DEF Refuse, Asking
<1>2. HistoryInv(history, trimmed)
  BY DEF IInv
<1>3. TurnsComeBack'
  <2>1. ASSUME why' \in {"empty", "dangling", "inexpressible"}
        PROVE  trimmed \/ \E i \in DOMAIN history : ~Ordinary(history[i])
    <3>1. CASE why' = "empty"
      <4>1. PICK i \in DOMAIN history : ~SaysSomething(history[i])
        BY <1>1, <3>1, Considered
      <4>2. ~Ordinary(history[i])
        BY <4>1 DEF SaysSomething, Ordinary
      <4>3. QED
        BY <4>2
    <3>2. CASE why' = "dangling"
      BY <1>1, <1>2, <3>2, Considered DEF HistoryInv
    <3>3. CASE why' = "inexpressible"
      <4>1. ~Expressible(Dialect[v], history)
        BY <1>1, <3>3, Considered
      <4>2. QED
        BY <4>1, <1>2, Inexpressible
    <3>4. QED
      BY <2>1, <3>1, <3>2, <3>3
  <2>2. QED
    BY <2>1, <1>1 DEF TurnsComeBack
<1>4. Types'
  BY <1>1, Considered DEF IInv, Types
<1>5. HistoryInv(history, trimmed)' /\ ScriptInv'
  BY <1>1 DEF IInv, HistoryInv, ScriptInv
<1>6. Refusals'
  BY <1>1, <1>3 DEF Refusals
<1>7. Exchange'
  BY <1>1 DEF IInv, Exchange, AtRest
<1>8. QED
  BY <1>4, <1>5, <1>6, <1>7 DEF IInv

\* An adapter that has read nothing stands where its vendor stands, which has
\* said nothing.
LEMMA OnSend ==
  ASSUME IInv, NEW v \in Vendors, NEW q \in Manners, Send(v, q)
  PROVE  IInv'
<1>1. /\ phase = "composing" /\ Reason(v, q) = "none" /\ Dialect[v] # "mock"
      /\ phase' \in {"streaming", "waiting"} /\ via' = v /\ manner' = q
      /\ UNCHANGED <<history, trimmed, why, told, local, out, got, billed, served>>
  BY DEF Send, Asking
<1>2. AtRest /\ why = "none"
  BY <1>1 DEF IInv, Exchange, Refusals
<1>3. ResultsHaveCalls(history)
  BY <1>1, Considered
<1>4. Becomes(NoAnswer, v, NoLocals, Silence)
  BY Unstarted DEF Becomes, Agreed, NoAnswer, NoLocals, Silence
<1>5. Stands(v, NoLocals, Silence)
  <2>1. /\ NoLocals.open = "none" /\ NoLocals.stop = "none" /\ NoLocals.ordinals = <<>>
        /\ NoLocals.blocks = 0 /\ NoLocals.calls = 0 /\ Silence.calls = <<>> /\ Silence.marked = FALSE
    BY DEF NoLocals, Silence
  <2>2. DOMAIN <<>> = {} /\ Cardinality(DOMAIN <<>>) = 0
    BY NoCalls DEF Count
  <2>3. AnthropicStands(NoLocals, Silence)
    BY <2>1, <2>2, NoCalls DEF AnthropicStands
  <2>4. OllamaStands(NoLocals, Silence)
    BY <2>1, <2>2, NoCalls DEF OllamaStands
  <2>5. OpenAIStands(NoLocals, Silence)
    BY <2>1, NoCalls DEF OpenAIStands
  <2>6. QED
    BY <2>3, <2>4, <2>5, <1>1 DEF Stands
<1>6. Sound(NoAnswer) /\ NoAnswer.end = "open"
  BY DEF Sound, Distinct, NoAnswer
<1>7. Path(NoAnswer, <<>>, NoAnswer)
  BY Stay
<1>8. Streaming'
  <2>1. got' = NoAnswer /\ out' = <<>> /\ local' = NoLocals /\ told' = Silence /\ via' = v
    BY <1>1, <1>2 DEF AtRest
  <2>2. ~Silence.marked
    BY DEF Silence
  <2>3. QED
    BY <2>1, <2>2, <1>4, <1>5, <1>6, <1>7 DEF Streaming
<1>9. Types'
  BY <1>1 DEF IInv, Types
<1>10. HistoryInv(history, trimmed)' /\ ScriptInv'
  BY <1>1 DEF IInv, HistoryInv, ScriptInv
<1>11. Refusals'
  BY <1>1, <1>2 DEF Refusals, TurnsComeBack
<1>12. Exchange'
  <2>1. AtRest'
    BY <1>1, <1>2 DEF AtRest
  <2>2. ResultsHaveCalls(history)'
    BY <1>1, <1>3
  <2>3. QED
    BY <2>1, <2>2, <1>1, <1>8 DEF Exchange
<1>13. QED
  BY <1>9, <1>10, <1>11, <1>12 DEF IInv

LEMMA OnReset ==
  ASSUME IInv, NEW v \in Vendors, Reset(v)
  PROVE  IInv'
<1>1. /\ served' = [served EXCEPT ![v] = 0]
      /\ UNCHANGED <<history, trimmed, phase, why, via, manner, told, local, out, got, billed>>
  BY DEF Reset
<1>2. ScriptInv'
  <2>1. ASSUME NEW u \in Vendors, Replies[u] # <<>> PROVE 0 < Len(Replies[u])
    <3>1. Replies[u] \in Seq(Scripted \cup {Raises})
      BY ScriptsAssumption
    <3>2. QED
      BY <2>1, <3>1, EmptySeq
  <2>2. QED
    BY <2>1, <1>1 DEF IInv, ScriptInv
<1>3. Types'
  BY <1>1 DEF IInv, Types
<1>4. HistoryInv(history, trimmed)'
  BY <1>1 DEF IInv, HistoryInv
<1>5. Refusals'
  BY <1>1 DEF IInv, Refusals, TurnsComeBack
<1>6. Exchange'
  <2>1. Streaming => Streaming'
    BY <1>1 DEF Streaming
  <2>2. AtRest => AtRest'
    BY <1>1 DEF AtRest
  <2>3. Over => Over'
    BY <1>1 DEF Over
  <2>4. QED
    BY <2>1, <2>2, <2>3, <1>1 DEF IInv, Exchange
<1>7. QED
  BY <1>2, <1>3, <1>4, <1>5, <1>6 DEF IInv

-----------------------------------------------------------------------------
(* Every step.                                                             *)

LEMMA OnConverse ==
  ASSUME IInv, Converse
  PROVE  IInv'
<1>1. CASE Say("system", {"text"})
  <2>1. {"text"} \in SUBSET Parts
    BY DEF Parts
  <2>2. QED
    BY <1>1, <2>1, OnSay
<1>2. ASSUME NEW parts \in Sayings, Say("user", parts) PROVE IInv'
  <2>1. parts \in SUBSET Parts
    BY AdaptersAssumption
  <2>2. QED
    BY <1>2, <2>1, OnSay
<1>3. CASE AnswerCalls \/ Trim \/ Keep \/ Drop
  BY <1>3, OnAnswerCalls, OnTrim, OnKeep, OnDrop
<1>4. ASSUME NEW v \in Vendors, NEW q \in Manners, Refuse(v, q) \/ Send(v, q) \/ AskMock(v, q)
      PROVE  IInv'
  BY <1>4, OnRefuse, OnSend, OnAskMock
<1>5. ASSUME NEW v \in Vendors, Reset(v) PROVE IInv'
  BY <1>5, OnReset
<1>6. QED
  BY <1>1, <1>2, <1>3, <1>4, <1>5 DEF Converse

LEMMA OnNarrate ==
  ASSUME IInv, Narrate
  PROVE  IInv'
<1>1. CASE MessageStart \/ OtherBlock \/ TextDelta \/ BlockStop \/ MessageStop
  BY <1>1, OnMessageStart, OnOtherBlock, OnTextDelta, OnBlockStop, OnMessageStop
<1>2. ASSUME NEW filled \in BOOLEAN, TextBlock(filled) PROVE IInv'
  BY <1>2, OnTextBlock
<1>3. ASSUME NEW name \in Names, ToolBlock(name) \/ ChunkCall(name) PROVE IInv'
  BY <1>3, OnToolBlock, OnChunkCall
<1>4. ASSUME NEW fragment \in Fragments, InputDelta(fragment) \/ ChunkArguments(fragment) PROVE IInv'
  BY <1>4, OnInputDelta, OnChunkArguments
<1>5. ASSUME NEW reason \in Reasons, MessageDelta(reason) \/ ChunkFinish(reason) PROVE IInv'
  BY <1>5, OnMessageDelta, OnChunkFinish
<1>6. ASSUME NEW filled \in BOOLEAN, NEW names \in NameLists, NEW done \in {"more", "stop", "length"},
             OllamaLine(filled, names, done)
      PROVE  IInv'
  BY <1>6, OnOllamaLine
<1>7. CASE ChunkRole \/ ChunkText \/ ChunkUsage \/ StreamDone \/ HangUp \/ Breaks
  BY <1>7, OnChunkRole, OnChunkText, OnChunkUsage, OnStreamDone, OnHangUp, OnBreaks
<1>8. ASSUME NEW text \in 0 .. MaxText, NEW names \in NameLists, NEW reason \in Reasons,
             WholeAnswer(text, names, reason)
      PROVE  IInv'
  BY <1>8, OnWholeAnswer
<1>9. QED
  BY <1>1, <1>2, <1>3, <1>4, <1>5, <1>6, <1>7, <1>8 DEF Narrate

LEMMA OnStutter ==
  ASSUME IInv, UNCHANGED vars
  PROVE  IInv'
<1>1. /\ history' = history /\ trimmed' = trimmed /\ phase' = phase /\ why' = why /\ via' = via
      /\ manner' = manner /\ told' = told /\ local' = local /\ out' = out /\ got' = got
      /\ billed' = billed /\ served' = served
  BY DEF vars
<1>2. Types' /\ HistoryInv(history, trimmed)' /\ ScriptInv'
  BY <1>1 DEF IInv, Types, HistoryInv, ScriptInv
<1>3. Refusals'
  BY <1>1 DEF IInv, Refusals, TurnsComeBack
<1>4. Exchange'
  BY <1>1 DEF IInv, Exchange, Streaming, AtRest, Over
<1>5. QED
  BY <1>2, <1>3, <1>4 DEF IInv

LEMMA Steps == IInv /\ [Next]_vars => IInv'
<1> SUFFICES ASSUME IInv, [Next]_vars PROVE IInv'
  OBVIOUS
<1>1. CASE Next
  BY <1>1, OnConverse, OnNarrate, OnDeliver, OnEnds DEF Next
<1>2. CASE UNCHANGED vars
  BY <1>2, OnStutter
<1>3. QED
  BY <1>1, <1>2

\* The invariant holds of every conversation, whatever is asked of whom.
THEOREM Invariant == Spec => []IInv
<1>1. QED
  BY Initially, Steps, PTL DEF Spec

-----------------------------------------------------------------------------
(* What a reader may rely on.                                              *)

\* Every variable has its type, a conversation keeps to its bound, and a
\* client's calls are numbered from zero without gaps.
THEOREM TypesHold == Spec => []TypeOK
<1>1. IInv => TypeOK
  <2> SUFFICES ASSUME IInv PROVE TypeOK
    OBVIOUS
  <2>1. Types /\ HistoryInv(history, trimmed) /\ ScriptInv
    BY DEF IInv
  <2>2. Len(history) <= MaxMessages
    BY <2>1 DEF HistoryInv
  <2>3. ASSUME NEW i \in DOMAIN history
        PROVE  /\ history[i].role \in {"user", "system", "assistant", "tool"}
               /\ history[i].parts \subseteq Parts
               /\ history[i].finish \in {"none", "stop", "length", "tool_calls", "content_filter"}
    <3>1. history[i] \in Written
      BY <2>1, Messages
    <3>2. QED
      BY <3>1 DEF Written, Roles, Finishes
  <2>4. local.blocks \in 0 .. MaxBlocks /\ local.calls \in 0 .. MaxBlocks
    BY <2>1 DEF Types, Locals
  <2>5. got.calls \in CallLists /\ got.text \in Nat /\ got.end \in {"open", "clean", "failed"}
    BY <2>1 DEF Types, Answers
  <2>6. DOMAIN got.calls = 0 .. Cardinality(DOMAIN got.calls) - 1
    BY <2>5, Counted DEF Count
  <2>7. ASSUME NEW v \in Vendors PROVE served[v] <= Len(Replies[v])
    <3>1. Replies[v] \in Seq(Scripted \cup {Raises}) /\ served[v] \in Nat
      BY <2>1, ScriptsAssumption DEF ScriptInv
    <3>2. Len(Replies[v]) \in Nat
      BY <3>1
    <3>3. served[v] = 0 \/ served[v] < Len(Replies[v])
      BY <2>1 DEF ScriptInv
    <3>4. QED
      BY <3>1, <3>2, <3>3
  <2>8. QED
    BY <2>1, <2>2, <2>3, <2>4, <2>5, <2>6, <2>7 DEF TypeOK, Types
<1>2. QED
  BY <1>1, Invariant, PTL

\* What is sent is what the vendor takes, whatever was merged, dropped,
\* trimmed or answered by another vendor before.
THEOREM SentTaken == Spec => []SentIsTaken
<1>1. IInv => SentIsTaken
  <2> SUFFICES ASSUME IInv, phase \in {"streaming", "waiting"}
               PROVE  CASE Dialect[via] = "anthropic" -> AnthropicTakes(AnthropicTurns(history))
                        [] Dialect[via] = "ollama"    -> OllamaTakes(OllamaMessages(history))
                        [] OTHER                      -> ResultsHaveCalls(history)
    BY DEF SentIsTaken
  <2>1. HistoryInv(history, trimmed) /\ ResultsHaveCalls(history)
    BY DEF IInv, Exchange
  <2>2. AnthropicTakes(AnthropicTurns(history)) /\ OllamaTakes(OllamaMessages(history))
    BY <2>1, AnthropicIsServed, OllamaIsServed
  <2>3. QED
    BY <2>1, <2>2
<1>2. QED
  BY <1>1, Invariant, PTL

\* What an adapter handed out is not refused when it comes back to any.
THEOREM TurnsAccepted == Spec => []TurnsComeBack
<1>1. IInv => TurnsComeBack
  BY DEF IInv, Refusals
<1>2. QED
  BY <1>1, Invariant, PTL

\* The client has, or is about to have, what the vendor said; an answer that
\* ends in order says why if its vendor did, and was billed.
THEOREM AnswersKept == Spec => []AnswerKept
<1>1. IInv => AnswerKept
  <2> SUFFICES ASSUME IInv PROVE AnswerKept
    OBVIOUS
  <2>1. ASSUME phase = "streaming" PROVE Agrees(Completed(got, out))
    <3>1. out \in Seq(Chunks) /\ Streaming
      BY <2>1 DEF IInv, Types, Exchange
    <3>2. PICK b : Path(got, out, b) /\ Becomes(b, via, local, told)
      BY <3>1 DEF Streaming
    <3>3. Completed(got, out) = b
      BY <3>1, <3>2, Completes
    <3>4. QED
      BY <3>2, <3>3 DEF Becomes, Agreed, Agrees
  <2>2. ASSUME got.end = "clean"
        PROVE  Agrees(got) /\ (got.finish # "none") = told.marked
               /\ (told.marked /\ Dialect[via] # "openai" => billed)
    <3>1. NoAnswer.end = "open"
      BY DEF NoAnswer
    <3>2. phase = "over"
      BY <2>2, <3>1 DEF IInv, Types, Exchange, AtRest, Streaming
    <3>3. QED
      BY <2>2, <3>2 DEF IInv, Exchange, Over, Agreed, Agrees
  <2>3. QED
    BY <2>1, <2>2 DEF AnswerKept
<1>2. QED
  BY <1>1, Invariant, PTL

-----------------------------------------------------------------------------
(* Every adapter implements AnswerStream.                                  *)

\* The abstract specification reads chunks as the contract does.
LEMMA SameContract ==
  /\ Stream!Role = Role /\ Stream!Text = Text /\ Stream!Usage = Usage /\ Stream!NoAnswer = NoAnswer
  /\ \A at, id, name : Stream!Opening(at, id, name) = Opening(at, id, name)
  /\ \A at, fragment : Stream!Arguments(at, fragment) = Arguments(at, fragment)
  /\ \A reason : Stream!Finished(reason) = Finished(reason)
  /\ \A args, fragment : Stream!Joined(args, fragment) = Joined(args, fragment)
  /\ \A a, chunk : Stream!Assembled(a, chunk) = Assembled(a, chunk)
<1>1. /\ Stream!Role = Role /\ Stream!Text = Text /\ Stream!Usage = Usage
      /\ \A at, id, name : Stream!Opening(at, id, name) = Opening(at, id, name)
      /\ \A at, fragment : Stream!Arguments(at, fragment) = Arguments(at, fragment)
      /\ \A reason : Stream!Finished(reason) = Finished(reason)
  BY DEF Stream!Role, Role, Stream!Text, Text, Stream!Usage, Usage, Stream!Opening, Opening,
         Stream!Arguments, Arguments, Stream!Finished, Finished
<1>2. Stream!NoAnswer = NoAnswer
  BY DEF Stream!NoAnswer, NoAnswer
<1>3. \A args, fragment : Stream!Joined(args, fragment) = Joined(args, fragment)
  BY DEF Stream!Joined, Joined
<1>4. \A id, name, args : Stream!Call(id, name, args) = Call(id, name, args)
  BY DEF Stream!Call, Call
<1>5. \A f, at, value : Stream!With(f, at, value) = With(f, at, value)
  BY DEF Stream!With, With
<1>6. \A calls, at : Stream!CallAt(calls, at) = CallAt(calls, at)
  BY <1>4 DEF Stream!CallAt, CallAt
<1>7. \A calls, at, fragment : Stream!Extended(calls, at, fragment) = Extended(calls, at, fragment)
  BY <1>3, <1>5, <1>6 DEF Stream!Extended, Extended
<1>8. \A a, chunk : Stream!Assembled(a, chunk) = Assembled(a, chunk)
  BY <1>4, <1>5, <1>6, <1>7 DEF Stream!Assembled, Assembled
<1>9. QED
  BY <1>1, <1>2, <1>3, <1>8

\* What is taken follows.
LEMMA DeliverKeeps ==
  ASSUME IInv, Deliver
  PROVE  Stream!Next \/ got' = got
<1> DEFINE chunk == Head(out)
<1>1. /\ phase = "streaming" /\ out # <<>>
      /\ got' = IF Observed(chunk, manner) THEN Assembled(got, chunk) ELSE got
  BY DEF Deliver
<1>2. out \in Seq(Chunks) /\ got \in Answers /\ got.end = "open" /\ Sound(got) /\ Streaming
  BY <1>1 DEF IInv, Types, Exchange, Streaming
<1>3. PICK b : Path(got, out, b)
  BY <1>2 DEF Streaming
<1>4. Follows(got, chunk)
  BY <1>1, <1>2, <1>3, Takes
<1> HIDE DEF chunk
<1>5. SUFFICES ASSUME got' = Assembled(got, chunk) PROVE Stream!Next
  BY <1>1
<1>6. /\ got.calls \in CallLists /\ Count(got.calls) \in Nat
      /\ (got.calls # <<>>) = (Count(got.calls) > 0)
  BY <1>2, Counted DEF Answers
<1>7. CASE chunk = Role /\ got.finish = "none" /\ ~got.begun
  BY <1>2, <1>5, <1>7, SameContract DEF Stream!Next, Stream!Lead, Stream!Saying
<1>8. CASE chunk = Text /\ got.finish = "none"
  BY <1>2, <1>5, <1>8, SameContract DEF Stream!Next, Stream!Speak, Stream!Saying
<1>9. ASSUME NEW id \in Ids, NEW name \in Names,
             chunk = Opening(Count(got.calls), id, name), got.finish = "none",
             \A at \in DOMAIN got.calls : got.calls[at].id # id
      PROVE  Stream!Next
  <2> DEFINE n == Count(got.calls)
             call == Call(id, name, "nothing")
             more == With(got.calls, n, call)
  <2>1. got' = [got EXCEPT !.calls = more]
    BY <1>2, <1>5, <1>9, AsOpening DEF Sound
  <2>2. n \in DOMAIN more /\ more[n] = call
    BY DEF With
  <2>3. call.id = id /\ call.name = name
    BY DEF Call
  <2> HIDE DEF more, call
  <2>4. got'.calls = more
    BY <2>1, <1>2 DEF Answers
  <2>5. got'.calls[n].id = id /\ got'.calls[n].name = name /\ n \in DOMAIN got'.calls
    BY <2>2, <2>3, <2>4
  <2>6. <<id, name>> \in Stream!Opened
    BY <2>5 DEF Stream!Opened
  <2>7. Stream!Count = n
    BY DEF Stream!Count, Count, Stream!Cardinality, Cardinality
  <2> HIDE DEF n
  <2>8. Stream!Open(id, name)
    BY <1>2, <1>5, <1>9, <2>7, SameContract DEF Stream!Open, Stream!Saying, n
  <2>9. \E c \in Stream!Opened : Stream!Open(c[1], c[2])
    BY <2>6, <2>8
  <2>10. QED
    BY <2>9 DEF Stream!Next
<1>10. ASSUME NEW at \in DOMAIN got.calls, NEW fragment \in Pieces,
              chunk = Arguments(at, fragment), got.finish = "none",
              Joined(got.calls[at].args, fragment) # "garbled"
       PROVE  Stream!Next
  <2>1. Stream!Extend(at, fragment)
    BY <1>2, <1>5, <1>10, SameContract DEF Stream!Extend, Stream!Saying
  <2>2. QED
    BY <2>1 DEF Stream!Next, Pieces
<1>11. ASSUME NEW reason \in Finishes,
              chunk = Finished(reason), got.finish = "none", Ended(reason, got.calls)
       PROVE  Stream!Next
  <2>1. Stream!Count = Count(got.calls)
    BY DEF Stream!Count, Count, Stream!Cardinality, Cardinality
  <2>2. Stream!Finish(reason)
    BY <1>2, <1>5, <1>6, <1>11, <2>1, SameContract DEF Stream!Finish, Stream!Saying, Ended, Whole
  <2>3. QED
    BY <2>2 DEF Stream!Next, Finishes
<1>12. CASE chunk = Usage /\ got.finish # "none" /\ ~got.usage
  BY <1>2, <1>5, <1>12, SameContract DEF Stream!Next, Stream!Bill
<1>13. QED
  BY <1>4, <1>7, <1>8, <1>9, <1>10, <1>11, <1>12 DEF Follows

LEMMA ConverseKeeps ==
  ASSUME IInv, Converse
  PROVE  Stream!Next \/ Stream!Whole \/ got' = got
<1>1. ASSUME NEW role, NEW parts, Say(role, parts) PROVE got' = got
  BY <1>1 DEF Say
<1>2. CASE AnswerCalls \/ Trim
  BY <1>2 DEF AnswerCalls, Trim
<1>3. CASE Keep \/ Drop
  <2>1. got' = NoAnswer
    BY <1>3 DEF Keep, Drop, Leave
  <2>2. QED
    BY <2>1, SameContract DEF Stream!Next, Stream!Begin
<1>4. ASSUME NEW v \in Vendors, NEW q \in Manners, Refuse(v, q) \/ Send(v, q) PROVE got' = got
  BY <1>4 DEF Refuse, Send
<1>5. ASSUME NEW v \in Vendors, NEW q \in Manners, AskMock(v, q)
      PROVE  Stream!Next \/ Stream!Whole \/ got' = got
  <2>1. got = NoAnswer
    BY <1>5, OnAskMock
  <2>2. \/ got' = got
        \/ got' = [got EXCEPT !.end = "failed"]
        \/ /\ got'.end = "clean" /\ got'.finish # "none"
           /\ got'.finish # "length" => (got'.finish = "tool_calls") = (got'.calls # <<>>)
    BY <1>5, OnAskMock
  <2>3. CASE got' = [got EXCEPT !.end = "failed"]
    <3>1. got.end = "open"
      BY <2>1 DEF NoAnswer
    <3>2. QED
      BY <2>3, <3>1 DEF Stream!Next, Stream!Fail
  <2>4. CASE /\ got'.end = "clean" /\ got'.finish # "none"
             /\ got'.finish # "length" => (got'.finish = "tool_calls") = (got'.calls # <<>>)
    BY <2>1, <2>4, SameContract DEF Stream!Whole
  <2>5. QED
    BY <2>2, <2>3, <2>4
<1>6. ASSUME NEW v, Reset(v) PROVE got' = got
  BY <1>6 DEF Reset
<1>7. QED
  BY <1>1, <1>2, <1>3, <1>4, <1>5, <1>6 DEF Converse

\* What an adapter reads changes nothing the client has.
LEMMA NarrateKeeps ==
  ASSUME IInv, Narrate
  PROVE  Stream!Next \/ Stream!Whole \/ got' = got
<1>1. CASE MessageStart \/ OtherBlock \/ TextDelta \/ BlockStop \/ MessageStop
  BY <1>1 DEF MessageStart, OtherBlock, BlockStart, TextDelta, BlockStop, MessageStop, relayed
<1>2. ASSUME NEW filled, TextBlock(filled) PROVE got' = got
  BY <1>2 DEF TextBlock, BlockStart, relayed
<1>3. ASSUME NEW name, ToolBlock(name) \/ ChunkCall(name) PROVE got' = got
  BY <1>3 DEF ToolBlock, BlockStart, ChunkCall, Passes, relayed
<1>4. ASSUME NEW fragment, InputDelta(fragment) \/ ChunkArguments(fragment) PROVE got' = got
  BY <1>4 DEF InputDelta, ChunkArguments, Passes, relayed
<1>5. ASSUME NEW reason, MessageDelta(reason) \/ ChunkFinish(reason) PROVE got' = got
  BY <1>5 DEF MessageDelta, ChunkFinish, Passes, relayed
<1>6. ASSUME NEW filled, NEW names, NEW done, OllamaLine(filled, names, done) PROVE got' = got
  BY <1>6 DEF OllamaLine, relayed
<1>7. CASE ChunkRole \/ ChunkText \/ ChunkUsage \/ StreamDone \/ HangUp
  BY <1>7 DEF ChunkRole, ChunkText, ChunkUsage, StreamDone, HangUp, Passes, relayed
<1>8. CASE Breaks
  <2>1. phase \in {"streaming", "waiting"} /\ got' = [got EXCEPT !.end = "failed"]
    BY <1>8 DEF Breaks
  <2>2. got.end = "open"
    <3>1. NoAnswer.end = "open"
      BY DEF NoAnswer
    <3>2. QED
      BY <2>1, <3>1 DEF IInv, Exchange, Streaming, AtRest
  <2>3. QED
    BY <2>1, <2>2 DEF Stream!Next, Stream!Fail
<1>9. ASSUME NEW text \in 0 .. MaxText, NEW names \in NameLists, NEW reason \in Reasons,
             WholeAnswer(text, names, reason)
      PROVE  Stream!Whole
  <2>1. /\ got = NoAnswer /\ got'.end = "clean" /\ got'.finish # "none"
        /\ got'.finish # "length" => (got'.finish = "tool_calls") = (got'.calls # <<>>)
    BY <1>9, OnWholeAnswer
  <2>2. QED
    BY <2>1, SameContract DEF Stream!Whole
<1>10. QED
  BY <1>1, <1>2, <1>3, <1>4, <1>5, <1>6, <1>7, <1>8, <1>9 DEF Narrate

LEMMA StepKeeps == IInv /\ [Next]_vars => [Stream!Next \/ Stream!Whole]_got
<1> SUFFICES ASSUME IInv, [Next]_vars PROVE Stream!Next \/ Stream!Whole \/ got' = got
  OBVIOUS
<1>1. CASE Ends
  <2>1. phase = "streaming" /\ got' = [got EXCEPT !.end = "clean"]
    BY <1>1 DEF Ends
  <2>2. got.end = "open"
    BY <2>1 DEF IInv, Exchange, Streaming
  <2>3. QED
    BY <2>1, <2>2 DEF Stream!Next, Stream!End
<1>2. CASE UNCHANGED vars
  BY <1>2 DEF vars
<1>3. QED
  BY <1>1, <1>2, ConverseKeeps, NarrateKeeps, DeliverKeeps DEF Next

\* Whichever vendor answers, the client sees a behaviour of AnswerStream.
THEOREM StreamKept == Spec => KeepsStream
<1>1. Init => got = Stream!NoAnswer
  BY SameContract DEF Init
<1>2. QED
  BY <1>1, StepKeeps, Invariant, PTL DEF Spec, KeepsStream, Stream!Spec
=============================================================================
