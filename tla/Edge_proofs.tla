----------------------------- MODULE Edge_proofs -----------------------------
(***************************************************************************)
(* For any number of requests and keys, any limits and any bodies: the     *)
(* types and the label budget's bound, that nobody but the active source's *)
(* keys is served, that a request is counted once at the status it was     *)
(* answered with, and that the body limit refuses what is over it and lets *)
(* the rest through whole.                                                 *)
(***************************************************************************)
EXTENDS Edge, FiniteSetTheorems, TLAPS

Identities == Keys \cup {Digest(h) : h \in Headers}
RequestIds == Requests \cup InboundIds
Bodies == Seq(Messages)
Lengths == 0 .. MaxBody + MaxChunk
Counts == Seq(Nat)
Logs == {"none", "completed", "failed"}
Got == [status : Nat, id : RequestIds]
Maybe(S) == S \cup {Nobody}

Request ==
    [at : Stages, id : Maybe(RequestIds), path : Paths, header : Headers, late : BOOLEAN,
     declared : Declared, sent : Bodies, held : Lengths, read : Bodies, found : Maybe(Keys),
     principal : Maybe(Identities), model : Maybe(Models), status : Nat, got : Maybe(Got),
     counted : Counts, logged : Logs]

-----------------------------------------------------------------------------
(* The invariant, in three parts.                                          *)

Over(x) == TooLong(x) \/ Size(x.sent) > MaxBody
Guarded(x) == x.path \in {"chat", "usage"}

\* The body: measured as it arrives, read only when it is within the limit,
\* and forgotten once it is parsed.
BodyInv(x) ==
    /\ x.at = "body" => /\ x.held = Size(x.sent) /\ x.held <= MaxBody /\ x.read = <<>>
                        /\ TooLong(x) => x.sent = <<>>
    /\ x.at = "routing" => ~Over(x) /\ x.read = <<>>
    /\ x.at = "parsing" => ~Over(x) /\ x.read \in {<<>>, x.sent}
    /\ x.at \in {"idle", "looking", "looked", "handling", "streaming", "failed"} =>
          x.sent = <<>> /\ x.read = <<>> /\ x.declared = Chunked
    /\ x.at = "done" =>
          /\ x.read \in {<<>>, x.sent}
          /\ Over(x) => x.read = <<>> /\ (x.sent # <<>> => x.got # Nobody /\ x.got.status = 413)
          /\ x.got # Nobody /\ x.got.status = 413 => Over(x)

\* The answer: none and no count before the end, or before a stream's start.
AnswerInv(x) ==
    /\ x.at \notin {"failed", "done"} => x.counted = <<>>
    /\ x.at \notin {"streaming", "failed", "done"} => x.got = Nobody /\ x.status = 500
    /\ x.at # "idle" => x.id \in RequestIds
    /\ x.at = "streaming" => x.status = 200 /\ x.got = [status |-> 200, id |-> x.id]
    /\ x.at = "failed" => x.got = Nobody /\ x.counted = <<500>>
    /\ x.at = "done" =>
          /\ Len(x.counted) = 1
          /\ IF x.got = Nobody THEN x.logged = "none" /\ x.counted = <<500>>
             ELSE x.got = [status |-> x.counted[1], id |-> x.id]

\* A key that is or was in the database, presented before it was revoked.
Genuine(ks, x, key) == x.header = <<"genuine", key>> /\ ks[key] # "absent" /\ ~x.late

\* What the one active source of keys says of a principal.
Known(c, ks, x, principal) ==
    IF c.db THEN Genuine(ks, x, principal)
    ELSE IF c.list THEN x.header = <<"listed">>
    ELSE ~c.guarded /\ Token(x.header)

\* A key revoked before the request arrived is revoked still; what was found
\* or let in was genuine; and no handler runs before that.
Credited(c, ks, x) ==
    /\ x.late => x.header[1] = "genuine" /\ ks[x.header[2]] = "revoked"
    /\ x.found # Nobody => c.db /\ Genuine(ks, x, x.found)
    /\ x.principal # Nobody => Known(c, ks, x, x.principal)

KeyInv(c, ks, x) ==
    /\ Credited(c, ks, x)
    /\ x.at \in {"parsing", "looking", "looked"} => Guarded(x)
    /\ x.at \in {"looking", "looked"} => c.db
    /\ x.at \in {"handling", "streaming"} => Guarded(x) /\ x.principal # Nobody
    /\ (Guarded(x) /\ x.got # Nobody /\ x.got.status \in {200, 429, 503}) => x.principal # Nobody

ReqInv(c, ks, x) == x \in Request /\ BodyInv(x) /\ AnswerInv(x) /\ KeyInv(c, ks, x)

IInv ==
    /\ config \in Configs /\ Boots(config)
    /\ keys \in [Keys -> {"absent", "live", "revoked"}]
    /\ seen \subseteq Models /\ IsFiniteSet(seen) /\ Cardinality(seen) <= LabelLimit
    /\ req \in [Requests -> Request]
    /\ \A r \in Requests : ReqInv(config, keys, req[r])

-----------------------------------------------------------------------------
(* The size of a body: what the recursion computes, by least counterexample *)

\* A set of naturals with a member has a least one.
LEMMA LeastNatural ==
  ASSUME NEW T, T \subseteq Nat, T # {}
  PROVE  \E x \in T : \A y \in T : x <= y
<1>1. PICK top \in T : TRUE
  OBVIOUS
<1> DEFINE S == 0 .. top
           Below(y) == 0 .. y
           F == {Below(y) : y \in T \cap S}
<1>2. IsWellFoundedOn(StrictSubsetOrdering(S), SUBSET S)
  <2>1. IsFiniteSet(S)
    BY FS_Interval
  <2>2. QED
    BY <2>1, FS_StrictSubsetOrderingWellFounded, FS_FiniteSubsetsOfFinite
<1>3. F \subseteq SUBSET S /\ F # {}
  BY <1>1
<1> HIDE DEF F
<1>4. PICK least \in F : \A other \in F : <<other, least>> \notin StrictSubsetOrdering(S)
  BY <1>2, <1>3, WFMin
<1>5. PICK x \in T \cap S : least = Below(x)
  BY DEF F
<1>6. ASSUME NEW y \in T, y < x PROVE FALSE
  <2>1. Below(y) \in F /\ Below(y) \subseteq Below(x) /\ x \notin Below(y) /\ x \in Below(x)
    BY <1>5, <1>6 DEF F
  <2>2. <<Below(y), Below(x)>> \in StrictSubsetOrdering(S)
    BY <2>1, <1>3, <1>5 DEF StrictSubsetOrdering
  <2>3. QED
    BY <2>1, <2>2, <1>4, <1>5
<1>7. QED
  BY <1>5, <1>6

\* Running totals of the first n messages.
Sums(f, body, n) == f[0] = 0 /\ \A i \in 1 .. n : f[i] = f[i - 1] + body[i].size
Totals(f, body, n) == f \in [0 .. n -> Nat] /\ Sums(f, body, n)

\* They exist: otherwise they would fail to at a least length.
LEMMA TotalsExist ==
  ASSUME NEW body, NEW n \in Nat, \A i \in 1 .. n : body[i].size \in Nat
  PROVE  \E f : Totals(f, body, n)
<1> DEFINE T == {k \in 0 .. n : ~\E f : Totals(f, body, k)}
<1>1. ASSUME T # {} PROVE FALSE
  <2>1. T \subseteq Nat
    OBVIOUS
  <2>2. PICK k \in T : \A j \in T : k <= j
    BY <1>1, <2>1, LeastNatural
  <2>3. k # 0
    <3>1. Totals([i \in 0 .. 0 |-> 0], body, 0)
      BY DEF Totals, Sums
    <3>2. QED
      BY <3>1
  <2>4. k - 1 \in 0 .. n /\ k - 1 \notin T /\ k \in 1 .. n
    BY <2>2, <2>3
  <2>5. PICK f : Totals(f, body, k - 1)
    BY <2>4
  <2>6. PICK g : g = [i \in 0 .. k |-> IF i = k THEN f[k - 1] + body[k].size ELSE f[i]]
    OBVIOUS
  <2>7. f[k - 1] \in Nat /\ body[k].size \in Nat /\ \A i \in 0 .. k - 1 : f[i] \in Nat
    BY <2>4, <2>5 DEF Totals, Sums
  <2>8. g \in [0 .. k -> Nat]
    BY <2>4, <2>6, <2>7
  <2>9. g[0] = 0
    BY <2>4, <2>5, <2>6 DEF Totals, Sums
  <2>10. ASSUME NEW i \in 1 .. k PROVE g[i] = g[i - 1] + body[i].size
    <3>1. i - 1 \in 0 .. k /\ i - 1 # k /\ i \in 0 .. k
      BY <2>4
    <3>2. g[i - 1] = f[i - 1]
      BY <2>6, <3>1
    <3>3. CASE i = k
      BY <2>6, <3>1, <3>2, <3>3
    <3>4. CASE i # k
      <4>1. i \in 1 .. k - 1 /\ g[i] = f[i]
        BY <2>4, <2>6, <3>1, <3>4
      <4>2. QED
        BY <2>5, <3>2, <4>1 DEF Totals, Sums
    <3>5. QED
      BY <3>3, <3>4
  <2>11. Totals(g, body, k)
    BY <2>8, <2>9, <2>10 DEF Totals, Sums
  <2>12. QED
    BY <2>11
<1>2. n \in 0 .. n
  OBVIOUS
<1>3. QED
  BY <1>1, <1>2

Alike(body, other, n) == \A i \in 1 .. n : other[i] = body[i]

\* And there are no others: two would differ first somewhere.
LEMMA TotalsAgree ==
  ASSUME NEW body, NEW other, NEW n \in Nat, Alike(body, other, n),
         NEW f, Sums(f, body, n), NEW g, Sums(g, other, n)
  PROVE  \A i \in 0 .. n : f[i] = g[i]
<1> DEFINE T == {k \in 0 .. n : f[k] # g[k]}
<1>1. ASSUME T # {} PROVE FALSE
  <2>1. T \subseteq Nat
    OBVIOUS
  <2>2. PICK k \in T : \A j \in T : k <= j
    BY <1>1, <2>1, LeastNatural
  <2>3. k \in 1 .. n
    BY <2>2 DEF Sums
  <2>4. k - 1 \in 0 .. n /\ ~(k <= k - 1)
    BY <2>3
  <2>5. f[k - 1] = g[k - 1]
    BY <2>2, <2>4
  <2>6. f[k] = f[k - 1] + body[k].size /\ g[k] = g[k - 1] + body[k].size
    BY <2>3 DEF Sums, Alike
  <2>7. QED
    BY <2>2, <2>5, <2>6
<1>2. QED
  BY <1>1

\* What the recursive definition computes.
LEMMA UptoTotals ==
  ASSUME NEW body, Len(body) \in Nat, \A i \in 1 .. Len(body) : body[i].size \in Nat
  PROVE  Totals(Upto(body), body, Len(body))
<1> DEFINE n == Len(body)
           Equation(f) == f = [i \in 0 .. n |-> IF i = 0 THEN 0 ELSE f[i - 1] + body[i].size]
<1>1. PICK f : Totals(f, body, n)
  BY TotalsExist
<1>2. Equation(f)
  <2>1. PICK g : g = [i \in 0 .. n |-> IF i = 0 THEN 0 ELSE f[i - 1] + body[i].size]
    OBVIOUS
  <2>2. \A i \in 0 .. n : g[i] = f[i]
    <3>1. ASSUME NEW i \in 0 .. n PROVE g[i] = f[i]
      <4>1. CASE i = 0
        BY <1>1, <2>1, <4>1 DEF Totals, Sums
      <4>2. CASE i # 0
        <5>1. i \in 1 .. n
          BY <4>2
        <5>2. QED
          BY <1>1, <2>1, <4>2, <5>1 DEF Totals, Sums
      <4>3. QED
        BY <4>1, <4>2
    <3>2. QED
      BY <3>1
  <2>3. g = f
    BY <1>1, <2>1, <2>2 DEF Totals, Sums
  <2>4. QED
    BY <2>1, <2>3
<1>3. PICK u : u = Upto(body)
  OBVIOUS
<1>4. Equation(u)
  BY <1>2, <1>3 DEF Upto
<1> HIDE DEF n
<1>5. u[0] = 0
  BY <1>4 DEF n
<1>6. \A i \in 1 .. n : u[i] = u[i - 1] + body[i].size
  BY <1>4 DEF n
<1>7. u = [i \in 0 .. n |-> u[i]]
  BY <1>4
<1>8. \A i \in 0 .. n : u[i] = f[i]
  <2>1. n \in Nat /\ Sums(u, body, n) /\ Sums(f, body, n) /\ Alike(body, body, n)
    BY <1>1, <1>5, <1>6 DEF Totals, Sums, Alike, n
  <2>2. QED
    BY <2>1, TotalsAgree
<1>9. u \in [0 .. n -> Nat]
  BY <1>1, <1>7, <1>8 DEF Totals, Sums
<1>10. QED
  BY <1>3, <1>5, <1>6, <1>9 DEF Totals, Sums, n

\* One message more is that many bytes more.
LEMMA SizeFacts ==
  ASSUME NEW body \in Seq(Messages), NEW m \in Messages
  PROVE  /\ Size(body) \in Nat
         /\ Size(Append(body, m)) = Size(body) + m.size
<1>1. Gone.size \in Nat
  BY DEF Gone
<1>2. \A x \in Messages : x.size \in Nat
  <2>1. ASSUME NEW x \in [size: 0 .. MaxChunk, more: BOOLEAN, gone: {FALSE}] PROVE x.size \in Nat
    <3>1. x.size \in 0 .. MaxChunk
      OBVIOUS
    <3>2. QED
      BY <3>1, EdgeAssumption
  <2>2. QED
    BY <1>1, <2>1 DEF Messages
<1>3. \A b \in Seq(Messages) : Totals(Upto(b), b, Len(b))
  <2>1. ASSUME NEW b \in Seq(Messages) PROVE Totals(Upto(b), b, Len(b))
    <3>1. Len(b) \in Nat /\ \A i \in 1 .. Len(b) : b[i].size \in Nat
      BY <1>2
    <3>2. QED
      BY <3>1, UptoTotals
  <2>2. QED
    BY <2>1
<1>4. Size(<<>>) = 0
  BY <1>3 DEF Size, Totals
<1>5. PICK n \in Nat : n = Len(body)
  OBVIOUS
<1>6. PICK more : more = Append(body, m)
  OBVIOUS
<1>7. /\ more \in Seq(Messages) /\ Len(more) = n + 1 /\ more[n + 1] = m
      /\ \A i \in 1 .. n : more[i] = body[i]
  BY <1>5, <1>6
<1>8. PICK f : f = Upto(body)
  OBVIOUS
<1>9. PICK g : g = Upto(more)
  OBVIOUS
<1>10. Totals(f, body, n) /\ Totals(g, more, n + 1)
  BY <1>3, <1>5, <1>7, <1>8, <1>9
<1>11. PICK h : h = [i \in 0 .. n |-> g[i]]
  OBVIOUS
<1>12. Totals(h, more, n)
  <2>1. \A i \in 0 .. n : i \in 0 .. n + 1 /\ h[i] = g[i]
    BY <1>11
  <2>2. h \in [0 .. n -> Nat]
    BY <1>10, <1>11, <2>1 DEF Totals, Sums
  <2>3. h[0] = 0
    BY <1>10, <2>1 DEF Totals, Sums
  <2>4. ASSUME NEW i \in 1 .. n PROVE h[i] = h[i - 1] + more[i].size
    <3>1. i \in 0 .. n /\ i - 1 \in 0 .. n /\ i \in 1 .. n + 1
      OBVIOUS
    <3>2. QED
      BY <1>10, <2>1, <3>1 DEF Totals, Sums
  <2>5. QED
    BY <2>2, <2>3, <2>4 DEF Totals, Sums
<1>13. f[n] = h[n]
  <2>1. Sums(f, body, n) /\ Sums(h, more, n)
    BY <1>10, <1>12 DEF Totals
  <2>2. Alike(body, more, n)
    BY <1>7 DEF Alike
  <2>3. n \in Nat
    BY <1>5
  <2>4. \A i \in 0 .. n : f[i] = h[i]
    BY <2>1, <2>2, <2>3, TotalsAgree
  <2>5. QED
    BY <2>3, <2>4
<1>14. g[n + 1] = g[n] + m.size
  BY <1>7, <1>10 DEF Totals, Sums
<1>15. Size(body) = f[n] /\ Size(more) = g[n + 1] /\ h[n] = g[n]
  BY <1>5, <1>7, <1>8, <1>9, <1>11 DEF Size
<1>16. Size(body) \in Nat
  BY <1>10, <1>15 DEF Totals, Sums
<1>17. QED
  BY <1>6, <1>13, <1>14, <1>15, <1>16

LEMMA SizeNone == Size(<<>>) = 0
<1>1. Totals(Upto(<<>>), <<>>, Len(<<>>))
  BY UptoTotals
<1>2. QED
  BY <1>1 DEF Totals, Sums, Size

-----------------------------------------------------------------------------
(* The steps they have in common.                                          *)

\* A request moves within the edge.
LEMMA MovesInv ==
  ASSUME IInv, NEW r \in Requests, NEW x, ReqInv(config, keys, x), Moves(r, x)
  PROVE  IInv'
<1>1. req' = [req EXCEPT ![r] = x] /\ config' = config /\ keys' = keys /\ seen' = seen
  BY DEF Moves, Becomes
<1>2. req \in [Requests -> Request] /\ x \in Request
  BY DEF IInv, ReqInv
<1>3. \A s \in Requests : ReqInv(config, keys, req'[s])
  BY <1>1, <1>2 DEF IInv
<1>4. QED
  BY <1>1, <1>2, <1>3 DEF IInv

\* The label budget is never overdrawn.
LEMMA BudgetKept ==
  ASSUME IInv, NEW m \in Models \cup {Nobody}
  PROVE  /\ Admitted(m) \subseteq Models /\ IsFiniteSet(Admitted(m))
         /\ Cardinality(Admitted(m)) <= LabelLimit
<1>1. CASE m = Nobody \/ Cardinality(seen) >= LabelLimit
  BY <1>1 DEF Admitted, IInv
<1>2. CASE m # Nobody /\ ~(Cardinality(seen) >= LabelLimit)
  <2>1. IsFiniteSet(seen) /\ Admitted(m) = seen \cup {m}
    BY <1>2 DEF Admitted, IInv
  <2>2. Cardinality(seen) \in Nat
    BY <2>1, FS_CardinalityType
  <2>3. /\ IsFiniteSet(seen \cup {m})
        /\ Cardinality(seen \cup {m}) \in {Cardinality(seen), Cardinality(seen) + 1}
    BY <2>1, FS_AddElement
  <2>4. QED
    BY <1>2, <2>1, <2>2, <2>3, EdgeAssumption DEF IInv
<1>3. QED
  BY <1>1, <1>2

\* A request is over, and its model is counted.
LEMMA FinishInv ==
  ASSUME IInv, NEW r \in Requests, NEW x, ReqInv(config, keys, x), Becomes(r, x),
         NEW m \in Models \cup {Nobody}, seen' = Admitted(m), UNCHANGED <<config, keys>>
  PROVE  IInv'
<1>1. req' = [req EXCEPT ![r] = x] /\ config' = config /\ keys' = keys
  BY DEF Becomes
<1>2. req \in [Requests -> Request] /\ x \in Request
  BY DEF IInv, ReqInv
<1>3. \A s \in Requests : ReqInv(config, keys, req'[s])
  BY <1>1, <1>2 DEF IInv
<1>4. seen' \subseteq Models /\ IsFiniteSet(seen)' /\ (Cardinality(seen) <= LabelLimit)'
  BY BudgetKept
<1>5. QED
  BY <1>1, <1>2, <1>3, <1>4 DEF IInv

\* A response begins, and nothing else changes.
LEMMA StartedFacts ==
  ASSUME NEW x \in Request, x.id \in RequestIds, NEW status \in Nat
  PROVE  \E y : /\ y = Started(x, status) /\ y \in Request
                /\ y.got = [status |-> status, id |-> x.id] /\ y.got \in Got /\ y.got # Nobody
                /\ y.status = status /\ y.at = x.at /\ y.id = x.id /\ y.path = x.path
                /\ y.header = x.header /\ y.late = x.late /\ y.declared = x.declared
                /\ y.sent = x.sent /\ y.read = x.read /\ y.found = x.found
                /\ y.principal = x.principal /\ y.counted = x.counted
<1>1. PICK y : y = Started(x, status)
  OBVIOUS
<1>2. PICK got : got = [status |-> status, id |-> x.id]
  OBVIOUS
<1>3. got \in Got /\ got # Nobody
  <2>1. got \in Got
    BY <1>2 DEF Got
  <2>2. QED
    BY <2>1, NobodyAssumption DEF Got, RequestIds
<1>4. y = [x EXCEPT !.status = status, !.got = got]
  BY <1>1, <1>2 DEF Started
<1>5. y \in Request
  <2>1. got \in Maybe(Got)
    BY <1>3 DEF Maybe
  <2>2. QED
    BY <1>4, <2>1 DEF Request
<1>6. /\ y.status = status /\ y.got = got /\ y.at = x.at /\ y.id = x.id /\ y.path = x.path
      /\ y.header = x.header /\ y.late = x.late /\ y.declared = x.declared /\ y.sent = x.sent
      /\ y.read = x.read /\ y.found = x.found /\ y.principal = x.principal
      /\ y.counted = x.counted
  BY <1>4 DEF Request
<1>7. QED
  BY <1>1, <1>2, <1>3, <1>5, <1>6

\* An answer that is sent whole: a 413 exactly for a body over the limit, and
\* no success to anybody unknown.
LEMMA AnswersInv ==
  ASSUME IInv, NEW r \in Requests, NEW x \in Request, x.id \in RequestIds, x.counted = <<>>,
         NEW status \in Nat, Credited(config, keys, x), x.read \in {<<>>, x.sent},
         Over(x) <=> status = 413, Over(x) => x.read = <<>>,
         Guarded(x) /\ status \in {200, 429, 503} => x.principal # Nobody,
         Answers(r, x, status)
  PROVE  IInv'
<1>1. PICK y : /\ y = Started(x, status) /\ y \in Request
               /\ y.got = [status |-> status, id |-> x.id] /\ y.got \in Got /\ y.got # Nobody
               /\ y.status = status /\ y.at = x.at /\ y.id = x.id /\ y.path = x.path
               /\ y.header = x.header /\ y.late = x.late /\ y.declared = x.declared
               /\ y.sent = x.sent /\ y.read = x.read /\ y.found = x.found
               /\ y.principal = x.principal /\ y.counted = x.counted
  BY StartedFacts
<1>2. PICK z : z = [Counted(y, "completed") EXCEPT !.at = "done"]
  OBVIOUS
<1>3. z = [y EXCEPT !.counted = <<status>>, !.logged = "completed", !.at = "done"]
  <2>1. Append(y.counted, y.status) = <<status>>
    BY <1>1
  <2>2. QED
    BY <1>1, <1>2, <2>1 DEF Counted, Request
<1>4. <<status>> \in Counts /\ Len(<<status>>) = 1 /\ <<status>>[1] = status
  BY DEF Counts
<1>5. z \in Request
  <2>1. "done" \in Stages /\ "completed" \in Logs
    BY DEF Stages, Logs
  <2>2. QED
    BY <1>1, <1>3, <1>4, <2>1 DEF Request
<1>6. /\ z.at = "done" /\ z.counted = <<status>> /\ z.logged = "completed"
      /\ z.got = y.got /\ z.id = x.id /\ z.path = x.path /\ z.header = x.header /\ z.late = x.late
      /\ z.declared = x.declared /\ z.sent = x.sent /\ z.read = x.read /\ z.found = x.found
      /\ z.principal = x.principal
  BY <1>1, <1>3 DEF Request
<1>7. BodyInv(z)
  <2>1. Over(z) <=> Over(x)
    BY <1>6 DEF Over, TooLong
  <2>2. z.got.status = status
    BY <1>1, <1>6
  <2>3. QED
    BY <1>1, <1>6, <2>1, <2>2 DEF BodyInv
<1>8. AnswerInv(z)
  BY <1>1, <1>4, <1>6 DEF AnswerInv
<1>9. KeyInv(config, keys, z)
  <2>1. Credited(config, keys, z)
    BY <1>6 DEF Credited, Known, Genuine
  <2>2. z.got.status = status
    BY <1>1, <1>6
  <2>3. QED
    BY <1>6, <2>1, <2>2 DEF KeyInv, Guarded
<1>10. ReqInv(config, keys, z)
  BY <1>5, <1>7, <1>8, <1>9 DEF ReqInv
<1>11. /\ Becomes(r, z) /\ seen' = Admitted(x.model) /\ UNCHANGED <<config, keys>>
  BY <1>1, <1>2 DEF Answers
<1>12. x.model \in Models \cup {Nobody}
  BY DEF Request, Maybe
<1>13. QED
  BY <1>10, <1>11, <1>12, FinishInv

\* An end from inside a handler or by the server's will.
LEMMA LeavesInv ==
  ASSUME IInv, NEW r \in Requests, NEW logged \in Logs,
         NEW at \in {"failed", "done"}, Leaves(r, logged, at),
         req[r].at \in {"body", "looking", "looked", "handling", "streaming"},
         req[r].at = "streaming" => at = "done",
         at = "failed" => req[r].at \in {"looking", "handling"},
         (at = "done" /\ req[r].at # "streaming") => logged = "none"
  PROVE  IInv'
<1>1. PICK x : x = req[r]
  OBVIOUS
<1>2. x \in Request /\ ReqInv(config, keys, x) /\ x.counted = <<>> /\ x.id \in RequestIds
  BY <1>1 DEF IInv, ReqInv, AnswerInv
<1>3. PICK z : z = [Counted(x, logged) EXCEPT !.at = at]
  OBVIOUS
<1>4. z = [x EXCEPT !.counted = <<x.status>>, !.logged = logged, !.at = at]
  <2>1. Append(x.counted, x.status) = <<x.status>>
    BY <1>2
  <2>2. QED
    BY <1>2, <1>3, <2>1 DEF Counted, Request
<1>5. /\ x.status \in Nat /\ <<x.status>> \in Counts
      /\ Len(<<x.status>>) = 1 /\ <<x.status>>[1] = x.status
  BY <1>2 DEF Request, Counts
<1>6. z \in Request
  BY <1>2, <1>4, <1>5 DEF Request, Stages
<1>7. /\ z.at = at /\ z.counted = <<x.status>> /\ z.logged = logged
      /\ z.got = x.got /\ z.id = x.id /\ z.path = x.path /\ z.header = x.header /\ z.late = x.late
      /\ z.declared = x.declared /\ z.sent = x.sent /\ z.read = x.read /\ z.found = x.found
      /\ z.principal = x.principal
  BY <1>2, <1>4 DEF Request
<1>8. Over(z) <=> Over(x)
  BY <1>7 DEF Over, TooLong
<1>9. ASSUME x.at = "streaming" PROVE ReqInv(config, keys, z)
  <2>1. x.status = 200 /\ x.got = [status |-> 200, id |-> x.id]
    BY <1>2, <1>9 DEF ReqInv, AnswerInv
  <2>2. x.got # Nobody /\ x.got.status = 200
    <3>1. x.got \in [status : Nat, id : RequestIds]
      BY <1>2, <2>1
    <3>2. QED
      BY <2>1, <3>1, NobodyAssumption DEF RequestIds
  <2>3. at = "done"
    BY <1>1, <1>9
  <2>4. x.sent = <<>> /\ x.read = <<>> /\ x.declared = Chunked
    BY <1>2, <1>9 DEF ReqInv, BodyInv
  <2>5. ~Over(x)
    BY <2>4, SizeNone, EdgeAssumption DEF Over, TooLong, Chunked
  <2>6. BodyInv(z)
    BY <1>7, <1>8, <2>2, <2>3, <2>4, <2>5 DEF BodyInv
  <2>7. AnswerInv(z)
    BY <1>2, <1>5, <1>7, <2>1, <2>2, <2>3 DEF AnswerInv
  <2>8. KeyInv(config, keys, z)
    BY <1>2, <1>7, <1>9, <2>3 DEF ReqInv, KeyInv, Credited, Known, Genuine, Guarded
  <2>9. QED
    BY <1>6, <2>6, <2>7, <2>8 DEF ReqInv
<1>10. ASSUME x.at # "streaming" PROVE ReqInv(config, keys, z)
  <2>1. x.got = Nobody /\ x.status = 500
    BY <1>1, <1>2, <1>10 DEF ReqInv, AnswerInv
  <2>2. BodyInv(z)
    <3>1. CASE x.at = "body"
      <4>1. at = "done"
        BY <1>1, <3>1
      <4>2. x.held = Size(x.sent) /\ x.held <= MaxBody /\ x.read = <<>>
            /\ (TooLong(x) => x.sent = <<>>)
        BY <1>2, <3>1 DEF ReqInv, BodyInv
      <4>3. x.held \in Nat /\ MaxBody \in Nat
        BY <1>2, EdgeAssumption DEF Request, Lengths
      <4>4. Over(x) => x.sent = <<>>
        BY <4>2, <4>3 DEF Over
      <4>5. QED
        BY <1>7, <1>8, <2>1, <4>1, <4>2, <4>4 DEF BodyInv
    <3>2. CASE x.at # "body"
      <4>1. x.sent = <<>> /\ x.read = <<>> /\ x.declared = Chunked
        BY <1>1, <1>2, <3>2 DEF ReqInv, BodyInv
      <4>2. QED
        BY <1>7, <2>1, <4>1 DEF BodyInv
    <3>3. QED
      BY <3>1, <3>2
  <2>3. AnswerInv(z)
    BY <1>1, <1>2, <1>5, <1>7, <1>10, <2>1 DEF AnswerInv
  <2>4. KeyInv(config, keys, z)
    BY <1>1, <1>2, <1>7, <2>1 DEF ReqInv, KeyInv, Credited, Known, Genuine, Guarded
  <2>5. QED
    BY <1>6, <2>2, <2>3, <2>4 DEF ReqInv
<1>11. /\ Becomes(r, z) /\ seen' = Admitted(x.model) /\ UNCHANGED <<config, keys>>
       /\ x.model \in Models \cup {Nobody}
  BY <1>1, <1>2, <1>3 DEF Leaves, Request, Maybe
<1>12. QED
  BY <1>9, <1>10, <1>11, FinishInv


-----------------------------------------------------------------------------
(* The steps, one by one.                                                  *)

\* What is true of any request that has not been answered.
LEMMA Unanswered ==
  ASSUME IInv, NEW r \in Requests,
         req[r].at \in {"body", "routing", "parsing", "looking", "looked", "handling"}
  PROVE  /\ req[r] \in Request /\ ReqInv(config, keys, req[r])
         /\ BodyInv(req[r]) /\ KeyInv(config, keys, req[r]) /\ Credited(config, keys, req[r])
         /\ req[r].id \in RequestIds /\ req[r].counted = <<>>
         /\ req[r].got = Nobody /\ req[r].status = 500
  BY DEF IInv, ReqInv, AnswerInv, KeyInv

\* A request that moves on unanswered keeps its answer's part.
LEMMA StillUnanswered ==
  ASSUME NEW x, x.id \in RequestIds, x.counted = <<>>, x.got = Nobody, x.status = 500,
         x.at \in {"body", "routing", "parsing", "looking", "looked", "handling"}
  PROVE  AnswerInv(x)
  BY DEF AnswerInv

\* An empty body is within every limit.
LEMMA NothingIsNotOver ==
  ASSUME NEW x, x.sent = <<>>, x.declared = Chunked
  PROVE  ~Over(x)
  BY SizeNone, EdgeAssumption DEF Over, TooLong, Chunked

LEMMA IdleFacts ==
  ASSUME NEW c, NEW ks
  PROVE  Idle \in Request /\ ReqInv(c, ks, Idle)
<1>1. /\ "idle" \in Stages /\ "probe" \in Paths /\ <<"unreadable">> \in Headers
      /\ Chunked \in Declared /\ <<>> \in Bodies /\ 0 \in Lengths /\ <<>> \in Counts
      /\ "none" \in Logs /\ \A S : Nobody \in Maybe(S)
  BY EdgeAssumption DEF Stages, Paths, Headers, Declared, Bodies, Lengths, Counts, Logs, Maybe
<1>2. Idle \in Request
  BY <1>1 DEF Idle, Request
<1>3. BodyInv(Idle) /\ AnswerInv(Idle) /\ KeyInv(c, ks, Idle)
  BY DEF Idle, BodyInv, AnswerInv, KeyInv, Credited
<1>4. QED
  BY <1>2, <1>3 DEF ReqInv

LEMMA ArriveInv ==
  ASSUME IInv, NEW r \in Requests, NEW inbound \in InboundIds \cup {Nobody}, NEW path \in Paths,
         NEW h \in Headers, NEW length \in Declared, Arrive(r, inbound, path, h, length)
  PROVE  IInv'
<1>1. PICK late : late = (h[1] = "genuine" /\ keys[h[2]] = "revoked")
  OBVIOUS
<1>2. PICK id : id = IdOf(r, inbound)
  OBVIOUS
<1>3. PICK x : x = [Idle EXCEPT !.at = "body", !.id = id, !.path = path, !.header = h,
                                !.declared = length, !.late = late]
  OBVIOUS
<1>4. late \in BOOLEAN /\ id \in RequestIds /\ id \in Maybe(RequestIds)
  BY <1>1, <1>2 DEF IdOf, RequestIds, Maybe
<1>5. x \in Request
  BY <1>3, <1>4, IdleFacts DEF Request, Stages
<1>6. /\ x.at = "body" /\ x.id = id /\ x.header = h /\ x.late = late /\ x.sent = <<>> /\ x.held = 0
      /\ x.read = <<>> /\ x.found = Nobody /\ x.principal = Nobody /\ x.status = 500
      /\ x.got = Nobody /\ x.counted = <<>>
  BY <1>3 DEF Idle
<1>7. BodyInv(x)
  BY <1>6, SizeNone, EdgeAssumption DEF BodyInv
<1>8. AnswerInv(x)
  BY <1>4, <1>6, StillUnanswered
<1>9. KeyInv(config, keys, x)
  BY <1>1, <1>6 DEF KeyInv, Credited
<1>10. Moves(r, x)
  BY <1>1, <1>2, <1>3 DEF Arrive
<1>11. QED
  BY <1>5, <1>7, <1>8, <1>9, <1>10, MovesInv DEF ReqInv

LEMMA RefuseDeclaredInv ==
  ASSUME IInv, NEW r \in Requests, RefuseDeclared(r)
  PROVE  IInv'
<1>1. req[r].at = "body" /\ TooLong(req[r]) /\ Answers(r, req[r], 413)
  BY DEF RefuseDeclared
<1>2. /\ req[r] \in Request /\ BodyInv(req[r]) /\ Credited(config, keys, req[r])
      /\ req[r].id \in RequestIds /\ req[r].counted = <<>>
  BY <1>1, Unanswered
<1>3. Over(req[r]) /\ req[r].read = <<>>
  BY <1>1, <1>2 DEF Over, BodyInv
<1>4. QED
  BY <1>1, <1>2, <1>3, AnswersInv

LEMMA ReceiveInv ==
  ASSUME IInv, NEW r \in Requests, NEW m \in Messages, Receive(r, m)
  PROVE  IInv'
<1>1. PICK w : w = req[r]
  OBVIOUS
<1>2. PICK x : x = Taken(w, m)
  OBVIOUS
<1>3. /\ w.at = "body" /\ ~TooLong(w)
      /\ IF x.held > MaxBody THEN Answers(r, x, 413)
         ELSE Moves(r, [x EXCEPT !.at = IF m.more THEN "body" ELSE "routing"])
  BY <1>1, <1>2 DEF Receive
<1>4. /\ w \in Request /\ BodyInv(w) /\ KeyInv(config, keys, w) /\ Credited(config, keys, w)
      /\ w.id \in RequestIds /\ w.counted = <<>> /\ w.got = Nobody /\ w.status = 500
  BY <1>1, <1>3, Unanswered
<1>5. w.held = Size(w.sent) /\ w.held <= MaxBody /\ w.read = <<>>
  BY <1>3, <1>4 DEF BodyInv
<1>6. w.sent \in Seq(Messages) /\ w.held \in Nat
  BY <1>4 DEF Request, Bodies, Lengths
<1>7. PICK sent : sent = Append(w.sent, m)
  OBVIOUS
<1>8. PICK held : held = w.held + m.size
  OBVIOUS
<1>9. m.size \in Nat /\ m.size <= MaxChunk
  <2>1. ASSUME NEW y \in [size: 0 .. MaxChunk, more: BOOLEAN, gone: {FALSE}]
        PROVE  y.size \in Nat /\ y.size <= MaxChunk
    <3>1. y.size \in 0 .. MaxChunk
      OBVIOUS
    <3>2. QED
      BY <3>1, EdgeAssumption
  <2>2. Gone.size = 0
    BY DEF Gone
  <2>3. CASE m = Gone
    BY <2>2, <2>3, EdgeAssumption
  <2>4. CASE m # Gone
    BY <2>1, <2>4 DEF Messages
  <2>5. QED
    BY <2>3, <2>4
<1>10. sent \in Bodies /\ held \in Lengths /\ held \in Nat /\ held = Size(sent)
  <2>1. sent \in Bodies
    BY <1>6, <1>7 DEF Bodies
  <2>2. Size(sent) = Size(w.sent) + m.size
    BY <1>6, <1>7, SizeFacts
  <2>3. QED
    BY <1>5, <1>6, <1>8, <1>9, <2>1, <2>2, EdgeAssumption DEF Lengths
<1>11. x = [w EXCEPT !.sent = sent, !.held = held]
  BY <1>2, <1>4, <1>7, <1>8 DEF Taken, Request
<1>12. x \in Request
  BY <1>4, <1>10, <1>11 DEF Request
<1>13. /\ x.at = "body" /\ x.id = w.id /\ x.path = w.path /\ x.header = w.header /\ x.late = w.late
       /\ x.declared = w.declared /\ x.sent = sent /\ x.held = held /\ x.read = <<>>
       /\ x.found = w.found /\ x.principal = w.principal /\ x.status = 500 /\ x.got = Nobody
       /\ x.counted = <<>>
  BY <1>3, <1>4, <1>5, <1>11 DEF Request
<1>14. Credited(config, keys, x)
  BY <1>4, <1>13 DEF Credited, Known, Genuine
<1>15. ASSUME held > MaxBody PROVE IInv'
  <2>1. Over(x)
    BY <1>10, <1>13, <1>15 DEF Over
  <2>2. Answers(r, x, 413)
    BY <1>3, <1>13, <1>15
  <2>3. QED
    BY <1>4, <1>12, <1>13, <1>14, <2>1, <2>2, AnswersInv
<1>16. ASSUME ~(held > MaxBody) PROVE IInv'
  <2>1. PICK at : at = IF m.more THEN "body" ELSE "routing"
    OBVIOUS
  <2>2. PICK z : z = [x EXCEPT !.at = at]
    OBVIOUS
  <2>3. at \in {"body", "routing"}
    BY <2>1
  <2>4. z \in Request
    BY <1>12, <2>2, <2>3 DEF Request, Stages
  <2>5. /\ z.at = at /\ z.id = w.id /\ z.path = w.path /\ z.header = w.header /\ z.late = w.late
        /\ z.declared = w.declared /\ z.sent = sent /\ z.held = held /\ z.read = <<>>
        /\ z.found = w.found /\ z.principal = w.principal /\ z.status = 500 /\ z.got = Nobody
        /\ z.counted = <<>>
    BY <1>12, <1>13, <2>2 DEF Request
  <2>6. ~TooLong(z)
    BY <1>3, <2>5 DEF TooLong
  <2>7. ~Over(z) /\ held <= MaxBody
    BY <1>10, <1>16, <2>5, <2>6, EdgeAssumption DEF Over
  <2>8. BodyInv(z)
    BY <1>10, <2>3, <2>5, <2>6, <2>7 DEF BodyInv
  <2>9. AnswerInv(z)
    BY <1>4, <2>3, <2>5, StillUnanswered
  <2>10. KeyInv(config, keys, z)
    BY <1>4, <2>3, <2>5 DEF KeyInv, Credited, Known, Genuine, Guarded
  <2>11. Moves(r, z)
    BY <1>3, <1>13, <1>16, <2>1, <2>2
  <2>12. QED
    BY <2>4, <2>8, <2>9, <2>10, <2>11, MovesInv DEF ReqInv
<1>17. QED
  BY <1>15, <1>16

LEMMA UnguardedInv ==
  ASSUME IInv, NEW r \in Requests, Unguarded(r)
  PROVE  IInv'
<1>1. PICK status \in {404, 200, 503} :
        req[r].at = "routing" /\ ~Guarded(req[r]) /\ Answers(r, req[r], status)
  BY DEF Unguarded, Guarded
<1>2. /\ req[r] \in Request /\ BodyInv(req[r]) /\ Credited(config, keys, req[r])
      /\ req[r].id \in RequestIds /\ req[r].counted = <<>>
  BY <1>1, Unanswered
<1>3. ~Over(req[r]) /\ req[r].read = <<>>
  BY <1>1, <1>2 DEF BodyInv
<1>4. QED
  BY <1>1, <1>2, <1>3, AnswersInv

LEMMA ReadBodyInv ==
  ASSUME IInv, NEW r \in Requests, ReadBody(r)
  PROVE  IInv'
<1>1. PICK w : w = req[r]
  OBVIOUS
<1>2. PICK read : read = IF w.path = "chat" THEN w.sent ELSE <<>>
  OBVIOUS
<1>3. PICK x : x = [w EXCEPT !.at = "parsing", !.read = read]
  OBVIOUS
<1>4. w.at = "routing" /\ Guarded(w) /\ Moves(r, x)
  BY <1>1, <1>2, <1>3 DEF ReadBody, Guarded
<1>5. /\ w \in Request /\ BodyInv(w) /\ KeyInv(config, keys, w)
      /\ w.id \in RequestIds /\ w.counted = <<>> /\ w.got = Nobody /\ w.status = 500
  BY <1>1, <1>4, Unanswered
<1>6. read \in Bodies /\ read \in {<<>>, w.sent}
  BY <1>2, <1>5 DEF Request, Bodies
<1>7. x \in Request
  BY <1>3, <1>5, <1>6 DEF Request, Stages
<1>8. /\ x.at = "parsing" /\ x.id = w.id /\ x.path = w.path /\ x.header = w.header
      /\ x.late = w.late /\ x.declared = w.declared /\ x.sent = w.sent /\ x.read = read
      /\ x.found = w.found /\ x.principal = w.principal /\ x.status = 500 /\ x.got = Nobody
      /\ x.counted = <<>>
  BY <1>3, <1>5 DEF Request
<1>9. BodyInv(x)
  BY <1>4, <1>5, <1>6, <1>8 DEF BodyInv, Over, TooLong
<1>10. AnswerInv(x)
  BY <1>5, <1>8, StillUnanswered
<1>11. KeyInv(config, keys, x)
  BY <1>4, <1>5, <1>8 DEF KeyInv, Credited, Known, Genuine, Guarded
<1>12. QED
  BY <1>4, <1>7, <1>9, <1>10, <1>11, MovesInv DEF ReqInv

LEMMA UnreadableInv ==
  ASSUME IInv, NEW r \in Requests, Unreadable(r)
  PROVE  IInv'
<1>1. req[r].at = "parsing" /\ Answers(r, req[r], 400)
  BY DEF Unreadable
<1>2. /\ req[r] \in Request /\ BodyInv(req[r]) /\ Credited(config, keys, req[r])
      /\ req[r].id \in RequestIds /\ req[r].counted = <<>>
  BY <1>1, Unanswered
<1>3. ~Over(req[r]) /\ req[r].read \in {<<>>, req[r].sent}
  BY <1>1, <1>2 DEF BodyInv
<1>4. QED
  BY <1>1, <1>2, <1>3, AnswersInv

LEMMA AuthenticateInv ==
  ASSUME IInv, NEW r \in Requests, Authenticate(r)
  PROVE  IInv'
<1>1. PICK w : w = req[r]
  OBVIOUS
<1>2. PICK x : x = Forgotten(w)
  OBVIOUS
<1>3. PICK known : known = CASE Source = "list" -> x.header = <<"listed">>
                             [] Source = "open" -> TRUE
                             [] OTHER -> FALSE
  OBVIOUS
<1>4. /\ w.at = "parsing"
      /\ IF ~Token(x.header) THEN Answers(r, x, 401)
         ELSE IF Source = "db" THEN Moves(r, [x EXCEPT !.at = "looking"])
         ELSE IF known THEN Moves(r, [x EXCEPT !.at = "handling", !.principal = Digest(x.header)])
         ELSE Answers(r, x, 401)
  BY <1>1, <1>2, <1>3 DEF Authenticate
<1>5. /\ w \in Request /\ KeyInv(config, keys, w) /\ Credited(config, keys, w)
      /\ w.id \in RequestIds /\ w.counted = <<>> /\ w.got = Nobody /\ w.status = 500
  BY <1>1, <1>4, Unanswered
<1>6. x = [w EXCEPT !.sent = <<>>, !.held = 0, !.read = <<>>, !.declared = Chunked]
  BY <1>2 DEF Forgotten
<1>7. <<>> \in Bodies /\ 0 \in Lengths /\ Chunked \in Declared
  BY EdgeAssumption DEF Bodies, Lengths, Declared
<1>8. x \in Request
  BY <1>5, <1>6, <1>7 DEF Request
<1>9. /\ x.at = "parsing" /\ x.id = w.id /\ x.path = w.path /\ x.header = w.header
      /\ x.late = w.late /\ x.declared = Chunked /\ x.sent = <<>> /\ x.read = <<>>
      /\ x.found = w.found /\ x.principal = w.principal /\ x.status = 500 /\ x.got = Nobody
      /\ x.counted = <<>>
  BY <1>4, <1>5, <1>6 DEF Request
<1>10. Credited(config, keys, x) /\ Guarded(x) /\ ~Over(x)
  <2>1. Credited(config, keys, x)
    BY <1>5, <1>9 DEF Credited, Known, Genuine
  <2>2. Guarded(x)
    BY <1>4, <1>5, <1>9 DEF KeyInv, Guarded
  <2>3. QED
    BY <1>9, <2>1, <2>2, NothingIsNotOver
<1>11. ASSUME Answers(r, x, 401) PROVE IInv'
  BY <1>5, <1>8, <1>9, <1>10, <1>11, AnswersInv
<1>12. ASSUME Source = "db", Moves(r, [x EXCEPT !.at = "looking"]) PROVE IInv'
  <2>1. PICK z : z = [x EXCEPT !.at = "looking"]
    OBVIOUS
  <2>2. z \in Request
    BY <1>8, <2>1 DEF Request, Stages
  <2>3. /\ z.at = "looking" /\ z.id = w.id /\ z.path = x.path /\ z.header = x.header
        /\ z.late = x.late /\ z.declared = Chunked /\ z.sent = <<>> /\ z.read = <<>>
        /\ z.found = x.found /\ z.principal = x.principal /\ z.status = 500 /\ z.got = Nobody
        /\ z.counted = <<>>
    BY <1>8, <1>9, <2>1 DEF Request
  <2>4. BodyInv(z)
    BY <2>3 DEF BodyInv
  <2>5. AnswerInv(z)
    BY <1>5, <2>3, StillUnanswered
  <2>6. config.db
    BY <1>12 DEF Source
  <2>7. KeyInv(config, keys, z)
    BY <1>10, <2>3, <2>6 DEF KeyInv, Credited, Known, Genuine, Guarded
  <2>8. QED
    BY <1>12, <2>1, <2>2, <2>4, <2>5, <2>7, MovesInv DEF ReqInv
<1>13. ASSUME Token(x.header), Source # "db", known,
              Moves(r, [x EXCEPT !.at = "handling", !.principal = Digest(x.header)])
       PROVE  IInv'
  <2>1. PICK principal : principal = Digest(x.header)
    OBVIOUS
  <2>2. x.header \in Headers
    BY <1>8 DEF Request
  <2>3. principal \in Maybe(Identities) /\ principal # Nobody
    BY <2>1, <2>2, NobodyAssumption DEF Maybe, Identities
  <2>4. PICK z : z = [x EXCEPT !.at = "handling", !.principal = principal]
    OBVIOUS
  <2>5. z \in Request
    BY <1>8, <2>3, <2>4 DEF Request, Stages
  <2>6. /\ z.at = "handling" /\ z.id = w.id /\ z.path = x.path /\ z.header = x.header
        /\ z.late = x.late /\ z.declared = Chunked /\ z.sent = <<>> /\ z.read = <<>>
        /\ z.found = x.found /\ z.principal = principal /\ z.status = 500 /\ z.got = Nobody
        /\ z.counted = <<>>
    BY <1>8, <1>9, <2>4 DEF Request
  <2>7. BodyInv(z)
    BY <2>6 DEF BodyInv
  <2>8. AnswerInv(z)
    BY <1>5, <2>6, StillUnanswered
  <2>9. Known(config, keys, z, principal)
    <3>1. ~config.db
      BY <1>13 DEF Source
    <3>2. CASE config.list
      <4>1. Source = "list"
        BY <3>1, <3>2 DEF Source
      <4>2. known = (x.header = <<"listed">>)
        BY <1>3, <4>1
      <4>3. QED
        BY <1>13, <2>6, <3>1, <3>2, <4>2 DEF Known
    <3>3. CASE ~config.list
      <4>1. ~config.guarded
        BY <3>1, <3>3 DEF IInv, Boots
      <4>2. QED
        BY <1>13, <2>6, <3>1, <3>3, <4>1 DEF Known
    <3>4. QED
      BY <3>2, <3>3
  <2>10. Credited(config, keys, z)
    BY <1>10, <2>6, <2>9 DEF Credited, Genuine
  <2>11. KeyInv(config, keys, z)
    BY <1>10, <2>3, <2>6, <2>10 DEF KeyInv, Guarded
  <2>12. QED
    BY <1>13, <2>1, <2>4, <2>5, <2>7, <2>8, <2>11, MovesInv DEF ReqInv
<1>14. QED
  BY <1>4, <1>11, <1>12, <1>13

LEMMA LookUpInv ==
  ASSUME IInv, NEW r \in Requests, LookUp(r)
  PROVE  IInv'
<1>1. PICK w : w = req[r]
  OBVIOUS
<1>2. PICK found : found = Verified(w.header)
  OBVIOUS
<1>3. PICK x : x = [w EXCEPT !.at = "looked", !.found = found]
  OBVIOUS
<1>4. w.at = "looking" /\ Moves(r, x)
  BY <1>1, <1>2, <1>3 DEF LookUp
<1>5. /\ w \in Request /\ BodyInv(w) /\ KeyInv(config, keys, w) /\ Credited(config, keys, w)
      /\ w.id \in RequestIds /\ w.counted = <<>> /\ w.got = Nobody /\ w.status = 500
  BY <1>1, <1>4, Unanswered
<1>6. ASSUME found # Nobody
      PROVE  found \in Keys /\ w.header = <<"genuine", found>> /\ keys[found] = "live"
  <2>1. w.header[1] = "genuine" /\ keys[w.header[2]] = "live" /\ found = w.header[2]
    BY <1>2, <1>6 DEF Verified
  <2>2. w.header \in Headers
    BY <1>5 DEF Request
  <2>3. w.header \in {"genuine", "forged"} \X Keys
    BY <2>1, <2>2 DEF Headers
  <2>4. QED
    BY <2>1, <2>3
<1>7. found \in Maybe(Keys)
  BY <1>6 DEF Maybe
<1>8. x \in Request
  BY <1>3, <1>5, <1>7 DEF Request, Stages
<1>9. /\ x.at = "looked" /\ x.id = w.id /\ x.path = w.path /\ x.header = w.header
      /\ x.late = w.late /\ x.declared = w.declared /\ x.sent = w.sent /\ x.read = w.read
      /\ x.found = found /\ x.principal = w.principal /\ x.status = 500 /\ x.got = Nobody
      /\ x.counted = <<>>
  BY <1>3, <1>5 DEF Request
<1>10. BodyInv(x)
  BY <1>4, <1>5, <1>9 DEF BodyInv
<1>11. AnswerInv(x)
  BY <1>5, <1>9, StillUnanswered
<1>12. config.db /\ Guarded(x)
  BY <1>4, <1>5, <1>9 DEF KeyInv, Guarded
<1>13. ASSUME found # Nobody PROVE Genuine(keys, x, found)
  <2>1. ~w.late
    <3>1. w.late => keys[w.header[2]] = "revoked"
      BY <1>5 DEF Credited
    <3>2. w.header[2] = found /\ keys[found] = "live"
      BY <1>6, <1>13
    <3>3. QED
      BY <3>1, <3>2
  <2>2. QED
    BY <1>6, <1>9, <1>13, <2>1 DEF Genuine
<1>14. Credited(config, keys, x)
  BY <1>5, <1>9, <1>12, <1>13 DEF Credited, Known, Genuine
<1>15. KeyInv(config, keys, x)
  BY <1>9, <1>12, <1>14 DEF KeyInv
<1>16. QED
  BY <1>4, <1>8, <1>10, <1>11, <1>15, MovesInv DEF ReqInv

LEMMA ResumeInv ==
  ASSUME IInv, NEW r \in Requests, Resume(r)
  PROVE  IInv'
<1>1. PICK w : w = req[r]
  OBVIOUS
<1>2. /\ w.at = "looked"
      /\ IF w.found = Nobody THEN Answers(r, w, 401)
         ELSE Moves(r, [w EXCEPT !.at = "handling", !.principal = w.found, !.found = Nobody])
  BY <1>1 DEF Resume
<1>3. /\ w \in Request /\ BodyInv(w) /\ KeyInv(config, keys, w) /\ Credited(config, keys, w)
      /\ w.id \in RequestIds /\ w.counted = <<>> /\ w.got = Nobody /\ w.status = 500
  BY <1>1, <1>2, Unanswered
<1>4. w.sent = <<>> /\ w.read = <<>> /\ ~Over(w)
  <2>1. w.sent = <<>> /\ w.read = <<>> /\ w.declared = Chunked
    BY <1>2, <1>3 DEF BodyInv
  <2>2. QED
    BY <2>1, NothingIsNotOver
<1>5. ASSUME w.found = Nobody PROVE IInv'
  <2>1. Answers(r, w, 401)
    BY <1>2, <1>5
  <2>2. QED
    BY <1>3, <1>4, <2>1, AnswersInv
<1>6. ASSUME w.found # Nobody PROVE IInv'
  <2>1. PICK x : x = [w EXCEPT !.at = "handling", !.principal = w.found, !.found = Nobody]
    OBVIOUS
  <2>2. w.found \in Maybe(Identities) /\ Nobody \in Maybe(Keys)
    BY <1>3 DEF Request, Maybe, Identities
  <2>3. x \in Request
    BY <1>3, <2>1, <2>2 DEF Request, Stages
  <2>4. /\ x.at = "handling" /\ x.id = w.id /\ x.path = w.path /\ x.header = w.header
        /\ x.late = w.late /\ x.declared = w.declared /\ x.sent = w.sent /\ x.read = w.read
        /\ x.found = Nobody /\ x.principal = w.found /\ x.status = 500 /\ x.got = Nobody
        /\ x.counted = <<>>
    BY <1>3, <2>1 DEF Request
  <2>5. BodyInv(x)
    BY <1>2, <1>3, <2>4 DEF BodyInv
  <2>6. AnswerInv(x)
    BY <1>3, <2>4, StillUnanswered
  <2>7. config.db /\ Genuine(keys, w, w.found)
    BY <1>3, <1>6 DEF Credited
  <2>8. Credited(config, keys, x)
    BY <1>3, <2>4, <2>7 DEF Credited, Known, Genuine
  <2>9. KeyInv(config, keys, x)
    BY <1>2, <1>3, <1>6, <2>4, <2>8 DEF KeyInv, Guarded
  <2>10. QED
    BY <1>2, <1>6, <2>1, <2>3, <2>5, <2>6, <2>9, MovesInv DEF ReqInv
<1>7. QED
  BY <1>5, <1>6

\* Naming the model changes nothing else.
LEMMA NamedFacts ==
  ASSUME NEW x \in Request, NEW m \in Models
  PROVE  /\ Named(x, m) \in Request
         /\ \E y : /\ y = Named(x, m)
                   /\ y.at = x.at /\ y.id = x.id /\ y.path = x.path /\ y.header = x.header
                   /\ y.late = x.late /\ y.declared = x.declared /\ y.sent = x.sent
                   /\ y.read = x.read /\ y.found = x.found /\ y.principal = x.principal
                   /\ y.status = x.status /\ y.got = x.got /\ y.counted = x.counted
<1>1. PICK y : y = Named(x, m)
  OBVIOUS
<1>2. y \in {x, [x EXCEPT !.model = m]}
  BY <1>1 DEF Named
<1>3. m \in Maybe(Models)
  BY DEF Maybe
<1>4. y \in Request
  BY <1>2, <1>3 DEF Request
<1>5. /\ y.at = x.at /\ y.id = x.id /\ y.path = x.path /\ y.header = x.header
      /\ y.late = x.late /\ y.declared = x.declared /\ y.sent = x.sent
      /\ y.read = x.read /\ y.found = x.found /\ y.principal = x.principal
      /\ y.status = x.status /\ y.got = x.got /\ y.counted = x.counted
  BY <1>2 DEF Request
<1>6. QED
  BY <1>1, <1>4, <1>5

\* What a handler answers to a caller it was told of.
LEMMA HandlerAnswersInv ==
  ASSUME IInv, NEW r \in Requests, req[r].at = "handling", NEW status \in {200, 400, 429, 503},
         NEW m \in Models, Answers(r, Named(req[r], m), status)
  PROVE  IInv'
<1>1. PICK w : w = req[r]
  OBVIOUS
<1>2. /\ w \in Request /\ BodyInv(w) /\ KeyInv(config, keys, w) /\ Credited(config, keys, w)
      /\ w.id \in RequestIds /\ w.counted = <<>>
  BY <1>1, Unanswered
<1>3. Named(w, m) \in Request
  BY <1>2, NamedFacts
<1>4. PICK y : /\ y = Named(w, m)
               /\ y.at = w.at /\ y.id = w.id /\ y.path = w.path /\ y.header = w.header
               /\ y.late = w.late /\ y.declared = w.declared /\ y.sent = w.sent
               /\ y.read = w.read /\ y.found = w.found /\ y.principal = w.principal
               /\ y.status = w.status /\ y.got = w.got /\ y.counted = w.counted
  BY <1>2, NamedFacts
<1>5. y.sent = <<>> /\ y.read = <<>> /\ ~Over(y)
  <2>1. y.sent = <<>> /\ y.read = <<>> /\ y.declared = Chunked
    BY <1>1, <1>2, <1>4 DEF BodyInv
  <2>2. QED
    BY <2>1, NothingIsNotOver
<1>6. Credited(config, keys, y)
  BY <1>2, <1>4 DEF Credited, Known, Genuine
<1>7. y.principal # Nobody
  BY <1>1, <1>2, <1>4 DEF KeyInv
<1>8. Answers(r, y, status) /\ status \in Nat /\ y \in Request
  BY <1>1, <1>3, <1>4
<1>9. QED
  BY <1>2, <1>4, <1>5, <1>6, <1>7, <1>8, AnswersInv

\* A contract is violated by somebody known, and no model is named.
LEMMA ViolatesInv ==
  ASSUME IInv, NEW r \in Requests, Violates(r)
  PROVE  IInv'
<1>1. req[r].at = "handling" /\ Answers(r, req[r], 400)
  BY DEF Violates
<1>2. /\ req[r] \in Request /\ BodyInv(req[r]) /\ Credited(config, keys, req[r])
      /\ req[r].id \in RequestIds /\ req[r].counted = <<>>
  BY <1>1, Unanswered
<1>3. req[r].sent = <<>> /\ req[r].read = <<>> /\ req[r].declared = Chunked
  BY <1>1, <1>2 DEF BodyInv
<1>4. ~Over(req[r])
  BY <1>3, NothingIsNotOver
<1>5. QED
  BY <1>1, <1>2, <1>3, <1>4, AnswersInv

LEMMA StartStreamInv ==
  ASSUME IInv, NEW r \in Requests, StartStream(r)
  PROVE  IInv'
<1>1. PICK w : w = req[r]
  OBVIOUS
<1>2. PICK m \in Models : Moves(r, [Started(Named(w, m), 200) EXCEPT !.at = "streaming"])
  BY <1>1 DEF StartStream
<1>3. w.at = "handling"
  BY <1>1 DEF StartStream
<1>4. /\ w \in Request /\ BodyInv(w) /\ KeyInv(config, keys, w) /\ Credited(config, keys, w)
      /\ w.id \in RequestIds /\ w.counted = <<>>
  BY <1>1, <1>3, Unanswered
<1>5. Named(w, m) \in Request
  BY <1>4, NamedFacts
<1>6. PICK y : /\ y = Named(w, m)
               /\ y.at = w.at /\ y.id = w.id /\ y.path = w.path /\ y.header = w.header
               /\ y.late = w.late /\ y.declared = w.declared /\ y.sent = w.sent
               /\ y.read = w.read /\ y.found = w.found /\ y.principal = w.principal
               /\ y.status = w.status /\ y.got = w.got /\ y.counted = w.counted
  BY <1>4, NamedFacts
<1>7. y \in Request /\ y.id \in RequestIds
  BY <1>4, <1>5, <1>6
<1>8. PICK begun : /\ begun = Started(y, 200) /\ begun \in Request
                   /\ begun.got = [status |-> 200, id |-> y.id]
                   /\ begun.got \in Got /\ begun.got # Nobody
                   /\ begun.status = 200 /\ begun.at = y.at /\ begun.id = y.id
                   /\ begun.path = y.path /\ begun.header = y.header /\ begun.late = y.late
                   /\ begun.declared = y.declared /\ begun.sent = y.sent
                   /\ begun.read = y.read /\ begun.found = y.found
                   /\ begun.principal = y.principal /\ begun.counted = y.counted
  <2>1. 200 \in Nat
    OBVIOUS
  <2>2. QED
    BY <1>7, <2>1, StartedFacts
<1>9. PICK z : z = [begun EXCEPT !.at = "streaming"]
  OBVIOUS
<1>10. Moves(r, z)
  BY <1>2, <1>6, <1>8, <1>9
<1>11. z \in Request
  BY <1>8, <1>9 DEF Request, Stages
<1>12. /\ z.at = "streaming" /\ z.id = w.id /\ z.path = w.path /\ z.header = w.header
       /\ z.late = w.late /\ z.declared = w.declared /\ z.sent = w.sent /\ z.read = w.read
       /\ z.found = w.found /\ z.principal = w.principal /\ z.status = 200
       /\ z.got = [status |-> 200, id |-> z.id] /\ z.counted = <<>>
  BY <1>4, <1>6, <1>8, <1>9 DEF Request
<1>13. BodyInv(z)
  BY <1>3, <1>4, <1>12 DEF BodyInv
<1>14. AnswerInv(z)
  BY <1>4, <1>12 DEF AnswerInv
<1>15. KeyInv(config, keys, z)
  BY <1>3, <1>4, <1>12 DEF KeyInv, Credited, Known, Genuine, Guarded
<1>16. QED
  BY <1>10, <1>11, <1>13, <1>14, <1>15, MovesInv DEF ReqInv

LEMMA StreamEndsInv ==
  ASSUME IInv, NEW r \in Requests, StreamEnds(r)
  PROVE  IInv'
<1>1. req[r].at = "streaming" /\ Leaves(r, "completed", "done") /\ "completed" \in Logs
  BY DEF StreamEnds, Logs
<1>2. QED
  BY <1>1, LeavesInv

LEMMA FailsInv ==
  ASSUME IInv, NEW r \in Requests, Fails(r)
  PROVE  IInv'
<1>1. PICK at : at = IF req[r].got = Nobody THEN "failed" ELSE "done"
  OBVIOUS
<1>2. req[r].at \in {"looking", "handling", "streaming"} /\ Leaves(r, "failed", at) /\ "failed" \in Logs
  BY <1>1 DEF Fails, Logs
<1>3. req[r].at \in {"looking", "handling"} => req[r].got = Nobody
  BY Unanswered
<1>4. ASSUME req[r].at = "streaming" PROVE req[r].got # Nobody
  <2>1. PICK x : x = req[r]
    OBVIOUS
  <2>2. x.at = "streaming" /\ AnswerInv(x)
    BY <1>4, <2>1 DEF IInv, ReqInv
  <2>3. x.id \in RequestIds /\ x.got = [status |-> 200, id |-> x.id]
    BY <2>2 DEF AnswerInv
  <2>4. x.got \in Got
    BY <2>3 DEF Got
  <2>5. QED
    BY <2>1, <2>4, NobodyAssumption DEF Got, RequestIds
<1>5. at \in {"failed", "done"} /\ (req[r].at \in {"looking", "handling"} <=> at = "failed")
      /\ (req[r].at = "streaming" <=> at = "done")
  BY <1>1, <1>2, <1>3, <1>4
<1>6. QED
  BY <1>2, <1>5, LeavesInv

LEMMA CancelInv ==
  ASSUME IInv, NEW r \in Requests, Cancel(r)
  PROVE  IInv'
<1>1. /\ req[r].at \in {"body", "looking", "looked", "handling", "streaming"}
      /\ Leaves(r, "none", "done") /\ "none" \in Logs
  BY DEF Cancel, Logs
<1>2. QED
  BY <1>1, LeavesInv

LEMMA InternalErrorInv ==
  ASSUME IInv, NEW r \in Requests, InternalError(r)
  PROVE  IInv'
<1>1. PICK w : w = req[r]
  OBVIOUS
<1>2. w.at = "failed" /\ w \in Request /\ ReqInv(config, keys, w)
  BY <1>1 DEF InternalError, IInv, ReqInv
<1>3. w.id \in RequestIds /\ w.got = Nobody /\ w.counted = <<500>>
  BY <1>2 DEF ReqInv, AnswerInv
<1>4. PICK got : got = [status |-> 500, id |-> w.id]
  OBVIOUS
<1>5. got \in Got /\ got \in Maybe(Got) /\ got # Nobody
  <2>1. got \in Got
    BY <1>3, <1>4 DEF Got
  <2>2. QED
    BY <2>1, NobodyAssumption DEF Got, RequestIds, Maybe
<1>6. PICK x : x = [w EXCEPT !.at = "done", !.got = got]
  OBVIOUS
<1>7. Moves(r, x)
  BY <1>1, <1>4, <1>6 DEF InternalError
<1>8. x \in Request
  BY <1>2, <1>5, <1>6 DEF Request, Stages
<1>9. /\ x.at = "done" /\ x.id = w.id /\ x.path = w.path /\ x.header = w.header
      /\ x.late = w.late /\ x.declared = w.declared /\ x.sent = w.sent /\ x.read = w.read
      /\ x.found = w.found /\ x.principal = w.principal /\ x.got = got /\ x.counted = <<500>>
  BY <1>2, <1>3, <1>6 DEF Request
<1>10. got.status = 500 /\ Len(<<500>>) = 1 /\ <<500>>[1] = 500
  BY <1>4
<1>11. BodyInv(x)
  <2>1. x.sent = <<>> /\ x.read = <<>> /\ x.declared = Chunked
    BY <1>2, <1>9 DEF ReqInv, BodyInv
  <2>2. ~Over(x)
    BY <2>1, NothingIsNotOver
  <2>3. QED
    BY <1>9, <1>10, <2>1, <2>2 DEF BodyInv
<1>12. AnswerInv(x)
  BY <1>3, <1>4, <1>5, <1>9, <1>10 DEF AnswerInv
<1>13. KeyInv(config, keys, x)
  BY <1>2, <1>9, <1>10 DEF ReqInv, KeyInv, Credited, Known, Genuine, Guarded
<1>14. QED
  BY <1>7, <1>8, <1>11, <1>12, <1>13, MovesInv DEF ReqInv

LEMMA LeaveInv ==
  ASSUME IInv, NEW r \in Requests, Leave(r)
  PROVE  IInv'
<1>1. Moves(r, Idle)
  BY DEF Leave
<1>2. QED
  BY <1>1, IdleFacts, MovesInv

\* A key comes to be or is revoked: what was presented is genuine still, and
\* what had been revoked stays so.
LEMMA KeysInv ==
  ASSUME IInv, NEW k \in Keys, Create(k) \/ Revoke(k)
  PROVE  IInv'
<1>1. /\ config' = config /\ seen' = seen /\ req' = req
      /\ keys' \in [Keys -> {"absent", "live", "revoked"}]
      /\ \A key \in Keys : /\ keys[key] # "absent" => keys'[key] # "absent"
                           /\ keys[key] = "revoked" => keys'[key] = "revoked"
  <2>1. CASE Create(k)
    BY <2>1 DEF IInv, Create
  <2>2. CASE Revoke(k)
    BY <2>2 DEF IInv, Revoke
  <2>3. QED
    BY <2>1, <2>2
<1>2. ASSUME NEW h \in Headers, h[1] = "genuine"
      PROVE  h[2] \in Keys /\ h = <<"genuine", h[2]>>
  BY <1>2 DEF Headers
<1>3. ASSUME NEW r \in Requests PROVE ReqInv(config, keys', req[r])
  <2>1. PICK x : x = req[r]
    OBVIOUS
  <2>2. x \in Request /\ x.header \in Headers /\ ReqInv(config, keys, x)
    BY <2>1 DEF IInv, ReqInv, Request
  <2>3. KeyInv(config, keys, x)
    BY <2>2 DEF ReqInv
  <2>4. ASSUME NEW key, Genuine(keys, x, key) PROVE Genuine(keys', x, key)
    <3>1. x.header[1] = "genuine" /\ x.header[2] = key
      BY <2>4 DEF Genuine
    <3>2. key \in Keys
      BY <1>2, <2>2, <3>1
    <3>3. QED
      BY <1>1, <2>4, <3>2 DEF Genuine
  <2>5. x.late => x.header[1] = "genuine" /\ keys'[x.header[2]] = "revoked"
    BY <1>1, <1>2, <2>2, <2>3 DEF KeyInv, Credited
  <2>6. x.found # Nobody => config.db /\ Genuine(keys', x, x.found)
    BY <2>3, <2>4 DEF KeyInv, Credited
  <2>7. x.principal # Nobody => Known(config, keys', x, x.principal)
    BY <2>3, <2>4 DEF KeyInv, Credited, Known
  <2>8. Credited(config, keys', x)
    BY <2>5, <2>6, <2>7 DEF Credited
  <2>9. KeyInv(config, keys', x)
    BY <2>3, <2>8 DEF KeyInv
  <2>10. QED
    BY <2>1, <2>2, <2>9 DEF ReqInv
<1>4. QED
  BY <1>1, <1>3 DEF IInv

-----------------------------------------------------------------------------

LEMMA InitInv == ASSUME Init PROVE IInv
<1>1. \A r \in Requests : ReqInv(config, keys, req[r])
  BY IdleFacts DEF Init
<1>2. req \in [Requests -> Request]
  BY IdleFacts DEF Init
<1>3. IsFiniteSet({}) /\ Cardinality({}) = 0
  BY FS_EmptySet
<1>4. QED
  BY <1>1, <1>2, <1>3, EdgeAssumption DEF Init, IInv

LEMMA NextInv == ASSUME IInv, [Next]_vars PROVE IInv'
<1>1. CASE UNCHANGED vars
  BY <1>1 DEF vars, IInv
<1>2. ASSUME NEW k \in Keys, Create(k) \/ Revoke(k) PROVE IInv'
  BY <1>2, KeysInv
<1>3. ASSUME NEW r \in Requests, NEW inbound \in InboundIds \cup {Nobody}, NEW path \in Paths,
             NEW h \in Headers, NEW length \in Declared, Arrive(r, inbound, path, h, length)
      PROVE  IInv'
  BY <1>3, ArriveInv
<1>4. ASSUME NEW r \in Requests, NEW m \in Messages, Receive(r, m) PROVE IInv'
  BY <1>4, ReceiveInv
<1>5. ASSUME NEW r \in Requests, NEW status \in {400, 429, 503}, Decline(r, status) PROVE IInv'
  BY <1>5, HandlerAnswersInv DEF Decline
<1>6. ASSUME NEW r \in Requests, Serve(r) PROVE IInv'
  BY <1>6, HandlerAnswersInv DEF Serve
<1>7. ASSUME NEW r \in Requests,
             RefuseDeclared(r) \/ Unguarded(r) \/ ReadBody(r) \/ Unreadable(r)
      PROVE  IInv'
  BY <1>7, RefuseDeclaredInv, UnguardedInv, ReadBodyInv, UnreadableInv
<1>8. ASSUME NEW r \in Requests, Authenticate(r) \/ LookUp(r) \/ Resume(r) PROVE IInv'
  BY <1>8, AuthenticateInv, LookUpInv, ResumeInv
<1>9. ASSUME NEW r \in Requests, Violates(r) \/ StartStream(r) \/ StreamEnds(r) \/ Fails(r)
                                 \/ InternalError(r) \/ Cancel(r) \/ Leave(r)
      PROVE  IInv'
  BY <1>9, ViolatesInv, StartStreamInv, StreamEndsInv, FailsInv, InternalErrorInv, CancelInv,
     LeaveInv
<1>10. QED
  BY <1>1, <1>2, <1>3, <1>4, <1>5, <1>6, <1>7, <1>8, <1>9 DEF Next

\* The three parts hold of every request, whatever the operator does meanwhile.
THEOREM Invariant == Spec => []IInv
<1>1. Init => IInv
  BY InitInv
<1>2. IInv /\ [Next]_vars => IInv'
  BY NextInv
<1>3. QED
  BY <1>1, <1>2, PTL DEF Spec

\* The types, and no more than LabelLimit names ever become time series.
THEOREM Types == Spec => []TypeOK
<1>1. IInv => TypeOK
  <2>1. SUFFICES ASSUME IInv PROVE TypeOK
    OBVIOUS
  <2>2. ASSUME NEW r \in Requests
        PROVE  /\ req[r].at \in Stages /\ req[r].path \in Paths /\ req[r].header \in Headers
               /\ req[r].id \in Requests \cup InboundIds \cup {Nobody}
               /\ req[r].declared \in Declared /\ req[r].held \in 0 .. MaxBody + MaxChunk
               /\ req[r].found \in Keys \cup {Nobody} /\ req[r].model \in Models \cup {Nobody}
               /\ req[r].sent \in Seq(Messages) /\ req[r].read \in Seq(Messages)
    <3>1. req[r] \in Request
      BY <2>1 DEF IInv
    <3>2. /\ req[r].at \in Stages /\ req[r].path \in Paths /\ req[r].header \in Headers
          /\ req[r].id \in Maybe(RequestIds) /\ req[r].declared \in Declared
          /\ req[r].held \in Lengths /\ req[r].found \in Maybe(Keys)
          /\ req[r].model \in Maybe(Models) /\ req[r].sent \in Bodies /\ req[r].read \in Bodies
      BY <3>1 DEF Request
    <3>3. QED
      BY <3>2 DEF Maybe, RequestIds, Lengths, Bodies
  <2>3. QED
    BY <2>1, <2>2 DEF IInv, TypeOK
<1>2. QED
  BY <1>1, Invariant, PTL

\* Nobody is served whom the one active source of keys does not know, for any
\* keys the operator mints and revokes during a lookup.
THEOREM OnlyKeys == Spec => []OnlyKeysAreServed
<1>1. IInv => OnlyKeysAreServed
  <2>1. SUFFICES ASSUME IInv, NEW r \in Requests
                 PROVE  /\ req[r].principal # Nobody =>
                              CASE Source = "db" ->
                                     /\ req[r].header = <<"genuine", req[r].principal>>
                                     /\ keys[req[r].principal] # "absent"
                                     /\ ~req[r].late
                                [] Source = "list" -> req[r].header = <<"listed">>
                                [] OTHER -> ~config.guarded /\ Token(req[r].header)
                        /\ (/\ req[r].path \in {"chat", "usage"} /\ req[r].got # Nobody
                            /\ req[r].got.status \in {200, 429, 503})
                              => req[r].principal # Nobody
    BY DEF OnlyKeysAreServed
  <2>2. KeyInv(config, keys, req[r]) /\ Credited(config, keys, req[r])
    BY <2>1 DEF IInv, ReqInv, KeyInv
  <2>3. ASSUME req[r].principal # Nobody
        PROVE  CASE Source = "db" -> /\ req[r].header = <<"genuine", req[r].principal>>
                                     /\ keys[req[r].principal] # "absent"
                                     /\ ~req[r].late
                 [] Source = "list" -> req[r].header = <<"listed">>
                 [] OTHER -> ~config.guarded /\ Token(req[r].header)
    <3>1. Known(config, keys, req[r], req[r].principal)
      BY <2>2, <2>3 DEF Credited
    <3>2. QED
      BY <3>1 DEF Known, Genuine, Source
  <2>4. (/\ req[r].path \in {"chat", "usage"} /\ req[r].got # Nobody
         /\ req[r].got.status \in {200, 429, 503}) => req[r].principal # Nobody
    BY <2>2 DEF KeyInv, Guarded
  <2>5. QED
    BY <2>3, <2>4
<1>2. QED
  BY <1>1, Invariant, PTL

\* A request is counted once, at the status its caller saw under its own id.
THEOREM Answered == Spec => []AnsweredAndCounted
<1>1. IInv => AnsweredAndCounted
  <2>1. SUFFICES ASSUME IInv, NEW r \in Requests, NEW x, x = req[r], x.at = "done"
                 PROVE  /\ Len(x.counted) = 1
                        /\ IF x.got = Nobody THEN x.logged = "none" /\ x.counted = <<500>>
                           ELSE x.got = [status |-> x.counted[1], id |-> x.id]
    BY DEF AnsweredAndCounted
  <2>2. AnswerInv(x)
    BY <2>1 DEF IInv, ReqInv
  <2>3. QED
    BY <2>1, <2>2 DEF AnswerInv
<1>2. QED
  BY <1>1, Invariant, PTL

\* A body over the limit is refused and never read; one within it is read as it
\* arrived, for any cut into any number of messages.
THEOREM Body == Spec => []BodyIntact
<1>1. IInv => BodyIntact
  <2>1. SUFFICES ASSUME IInv, NEW r \in Requests, NEW x, x = req[r]
                 PROVE  /\ (x.got # Nobody /\ x.got.status = 413) => Over(x)
                        /\ Over(x) => x.at \in {"body", "done"} /\ x.read = <<>>
                        /\ x.read # <<>> => x.read = x.sent
                        /\ x.sent # <<>> /\ x.at = "done" /\ Over(x) => x.got.status = 413
    BY DEF BodyIntact, Over
  <2>2. x \in Request /\ BodyInv(x) /\ AnswerInv(x) /\ x.at \in Stages
    BY <2>1 DEF IInv, ReqInv, Request
  <2>3. x.at \in {"idle", "looking", "looked", "handling", "streaming", "failed"} => ~Over(x)
    BY <2>2, NothingIsNotOver DEF BodyInv
  <2>4. ASSUME x.got # Nobody, x.got.status = 413 PROVE Over(x)
    <3>1. x.at # "streaming" => x.at = "done"
      BY <2>2, <2>4 DEF AnswerInv, Stages
    <3>2. x.at # "streaming"
      <4>1. x.at = "streaming" => x.got.status = 200
        BY <2>2 DEF AnswerInv
      <4>2. QED
        BY <2>4, <4>1
    <3>3. QED
      BY <2>2, <2>4, <3>1, <3>2 DEF BodyInv
  <2>5. Over(x) => x.at \in {"body", "done"} /\ x.read = <<>>
    BY <2>2, <2>3 DEF BodyInv, Stages
  <2>6. x.read # <<>> => x.read = x.sent
    BY <2>2, <2>3 DEF BodyInv, Stages
  <2>7. x.sent # <<>> /\ x.at = "done" /\ Over(x) => x.got.status = 413
    BY <2>2 DEF BodyInv
  <2>8. QED
    BY <2>4, <2>5, <2>6, <2>7
<1>2. QED
  BY <1>1, Invariant, PTL

=============================================================================
