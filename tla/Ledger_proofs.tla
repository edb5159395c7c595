---------------------------- MODULE Ledger_proofs ----------------------------
(***************************************************************************)
(* For any keys, models, jobs, price table, retention and hour: the types, *)
(* that no hash expires while a report still reaches its day, and that a   *)
(* report adds up, however writers, readers and lost connections meet.     *)
(***************************************************************************)
EXTENDS Ledger, FiniteSetTheorems, TLAPS

-----------------------------------------------------------------------------
(* Sums of sequences: what the recursion computes, by least counterexample. *)

\* A set of naturals with a member has a least one.
LEMMA LeastNatural ==
  ASSUME NEW T, T \subseteq Nat, T # {}
  PROVE  \E x \in T : \A y \in T : x <= y
<1>1. PICK top \in T : TRUE
  OBVIOUS
<1> DEFINE S == 0 .. top
           Below(y) == 0 .. y
           F == {Below(y) : y \in T \cap S}
<1>2. IsWellFoundedOn(StrictSubsetOrdering(S), SUBSET S)
  <2>1. IsFiniteSet(S)
    BY FS_Interval
  <2>2. QED
    BY <2>1, FS_StrictSubsetOrderingWellFounded, FS_FiniteSubsetsOfFinite
<1>3. F \subseteq SUBSET S /\ F # {}
  BY <1>1
<1> HIDE DEF F
<1>4. PICK least \in F : \A other \in F : <<other, least>> \notin StrictSubsetOrdering(S)
  BY <1>2, <1>3, WFMin
<1>5. PICK x \in T \cap S : least = Below(x)
  BY DEF F
<1>6. ASSUME NEW y \in T, y < x PROVE FALSE
  <2>1. Below(y) \in F /\ Below(y) \subseteq Below(x) /\ x \notin Below(y) /\ x \in Below(x)
    BY <1>5, <1>6 DEF F
  <2>2. <<Below(y), Below(x)>> \in StrictSubsetOrdering(S)
    BY <2>1, <1>3, <1>5 DEF StrictSubsetOrdering
  <2>3. QED
    BY <2>1, <2>2, <1>4, <1>5
<1>7. QED
  BY <1>5, <1>6

\* f holds the sums of s as far as n.
Sums(f, s, n) == f[0] = 0 /\ \A i \in 1 .. n : f[i] = f[i - 1] + s[i]

\* Sums exist as far as anywhere: otherwise they would fail to at a least place.
LEMMA SumsExist ==
  ASSUME NEW s, NEW n \in Nat
  PROVE  \E f : Sums(f, s, n)
<1> DEFINE T == {k \in 0 .. n : ~\E f : Sums(f, s, k)}
<1>1. ASSUME T # {} PROVE FALSE
  <2>1. T \subseteq Nat
    OBVIOUS
  <2>2. PICK k \in T : \A j \in T : k <= j
    BY <1>1, <2>1, LeastNatural
  <2>3. k # 0
    <3>1. Sums([i \in 0 .. 0 |-> 0], s, 0)
      BY DEF Sums
    <3>2. QED
      BY <3>1
  <2>4. k - 1 \in 0 .. n /\ k - 1 \notin T /\ k \in 1 .. n
    BY <2>2, <2>3
  <2>5. PICK f : Sums(f, s, k - 1)
    BY <2>4
  <2>6. PICK g : g = [i \in 0 .. k |-> IF i = k THEN f[k - 1] + s[k] ELSE f[i]]
    OBVIOUS
  <2>7. g[0] = 0
    BY <2>4, <2>5, <2>6 DEF Sums
  <2>8. ASSUME NEW i \in 1 .. k PROVE g[i] = g[i - 1] + s[i]
    <3>1. i - 1 \in 0 .. k /\ i - 1 # k /\ i \in 0 .. k
      BY <2>4
    <3>2. g[i - 1] = f[i - 1]
      BY <2>6, <3>1
    <3>3. CASE i = k
      BY <2>6, <3>1, <3>2, <3>3
    <3>4. CASE i # k
      <4>1. i \in 1 .. k - 1 /\ g[i] = f[i]
        BY <2>4, <2>6, <3>1, <3>4
      <4>2. QED
        BY <2>5, <3>2, <4>1 DEF Sums
    <3>5. QED
      BY <3>3, <3>4
  <2>9. Sums(g, s, k)
    BY <2>7, <2>8 DEF Sums
  <2>10. QED
    BY <2>9
<1>2. n \in 0 .. n
  OBVIOUS
<1>3. QED
  BY <1>1, <1>2

\* And there are no others: two would differ first somewhere.
LEMMA SumsAgree ==
  ASSUME NEW s, NEW n \in Nat, NEW f, Sums(f, s, n), NEW g, Sums(g, s, n)
  PROVE  \A i \in 0 .. n : f[i] = g[i]
<1> DEFINE T == {k \in 0 .. n : f[k] # g[k]}
<1>1. ASSUME T # {} PROVE FALSE
  <2>1. T \subseteq Nat
    OBVIOUS
  <2>2. PICK k \in T : \A j \in T : k <= j
    BY <1>1, <2>1, LeastNatural
  <2>3. k \in 1 .. n
    BY <2>2 DEF Sums
  <2>4. k - 1 \in 0 .. n /\ ~(k <= k - 1)
    BY <2>3
  <2>5. f[k - 1] = g[k - 1]
    BY <2>2, <2>4
  <2>6. f[k] = f[k - 1] + s[k] /\ g[k] = g[k - 1] + s[k]
    BY <2>3 DEF Sums
  <2>7. QED
    BY <2>2, <2>5, <2>6
<1>2. QED
  BY <1>1

\* What the recursive definition computes.
LEMMA UptoSums ==
  ASSUME NEW s, NEW n \in Nat
  PROVE  Sums(Upto(s), s, n)
<1> DEFINE G(k) == CHOOSE f : Sums(f, s, k)
<1>1. \A k \in Nat : Sums(G(k), s, k)
  BY SumsExist
<1> HIDE DEF G
<1>2. PICK u : u = [k \in Nat |-> G(k)[k]]
  OBVIOUS
<1>3. \A k \in Nat : u[k] = G(k)[k]
  BY <1>2
<1>4. u[0] = 0
  BY <1>1, <1>3 DEF Sums
<1>5. ASSUME NEW k \in Nat, k # 0 PROVE u[k] = u[k - 1] + s[k]
  <2>1. k - 1 \in Nat /\ k \in 1 .. k
    BY <1>5
  <2>2. Sums(G(k), s, k) /\ Sums(G(k - 1), s, k - 1)
    BY <1>1, <2>1
  <2>3. Sums(G(k), s, k - 1)
    BY <2>1, <2>2 DEF Sums
  <2>4. \A i \in 0 .. k - 1 : G(k)[i] = G(k - 1)[i]
    BY <2>1, <2>2, <2>3, SumsAgree
  <2>5. G(k)[k - 1] = G(k - 1)[k - 1]
    BY <2>1, <2>4
  <2>6. G(k)[k] = G(k)[k - 1] + s[k]
    BY <2>1, <2>2 DEF Sums
  <2>7. QED
    BY <1>3, <2>1, <2>5, <2>6
<1>6. u = [i \in Nat |-> IF i = 0 THEN 0 ELSE u[i - 1] + s[i]]
  <2>1. PICK w : w = [i \in Nat |-> IF i = 0 THEN 0 ELSE u[i - 1] + s[i]]
    OBVIOUS
  <2>2. \A i \in Nat : w[i] = u[i]
    BY <1>4, <1>5, <2>1
  <2>3. QED
    BY <1>2, <2>1, <2>2
<1>7. PICK v : v = Upto(s)
  OBVIOUS
<1>8. v = [i \in Nat |-> IF i = 0 THEN 0 ELSE v[i - 1] + s[i]]
  BY <1>6, <1>7 DEF Upto
<1>9. v[0] = 0
  BY <1>8
<1>10. \A i \in 1 .. n : v[i] = v[i - 1] + s[i]
  BY <1>8
<1>11. QED
  BY <1>7, <1>9, <1>10 DEF Sums

\* The sum of a sequence of naturals of a known length.
LEMMA TotalSums ==
  ASSUME NEW n \in Nat, NEW s \in [1 .. n -> Nat]
  PROVE  /\ Total(s) = Upto(s)[n] /\ Sums(Upto(s), s, n)
         /\ \A i \in 0 .. n : Upto(s)[i] \in Nat
<1>1. Len(s) = n
  OBVIOUS
<1>2. Sums(Upto(s), s, n)
  BY UptoSums
<1> DEFINE T == {k \in 0 .. n : Upto(s)[k] \notin Nat}
<1>3. ASSUME T # {} PROVE FALSE
  <2>1. T \subseteq Nat
    OBVIOUS
  <2>2. PICK k \in T : \A j \in T : k <= j
    BY <1>3, <2>1, LeastNatural
  <2>3. k \in 1 .. n /\ k - 1 \in 0 .. n /\ ~(k <= k - 1)
    BY <1>2, <2>2 DEF Sums
  <2>4. Upto(s)[k - 1] \in Nat /\ s[k] \in Nat
    BY <2>2, <2>3
  <2>5. Upto(s)[k] = Upto(s)[k - 1] + s[k]
    BY <1>2, <2>3 DEF Sums
  <2>6. QED
    BY <2>2, <2>4, <2>5
<1>4. \A i \in 0 .. n : Upto(s)[i] \in Nat
  BY <1>3
<1>5. QED
  BY <1>1, <1>2, <1>4 DEF Total

\* A sum of naturals is one.
LEMMA TotalNat ==
  ASSUME NEW n \in Nat, NEW s \in [1 .. n -> Nat]
  PROVE  Total(s) \in Nat
<1>1. n \in 0 .. n
  OBVIOUS
<1>2. Total(s) = Upto(s)[n] /\ \A i \in 0 .. n : Upto(s)[i] \in Nat
  BY TotalSums
<1>3. QED
  BY <1>1, <1>2

\* Greater terms, a greater sum.
LEMMA TotalMonotone ==
  ASSUME NEW n \in Nat, NEW s \in [1 .. n -> Nat], NEW t \in [1 .. n -> Nat],
         \A i \in 1 .. n : s[i] <= t[i]
  PROVE  Total(s) \in Nat /\ Total(t) \in Nat /\ Total(s) <= Total(t)
<1>1. PICK f : f = Upto(s)
  OBVIOUS
<1>2. PICK g : g = Upto(t)
  OBVIOUS
<1>3. /\ Total(s) = f[n] /\ Sums(f, s, n) /\ \A i \in 0 .. n : f[i] \in Nat
      /\ Total(t) = g[n] /\ Sums(g, t, n) /\ \A i \in 0 .. n : g[i] \in Nat
  BY <1>1, <1>2, TotalSums
<1> DEFINE T == {k \in 0 .. n : ~(f[k] <= g[k])}
<1>4. ASSUME T # {} PROVE FALSE
  <2>1. T \subseteq Nat
    OBVIOUS
  <2>2. PICK k \in T : \A j \in T : k <= j
    BY <1>4, <2>1, LeastNatural
  <2>3. k \in 1 .. n /\ k - 1 \in 0 .. n /\ ~(k <= k - 1)
    BY <1>3, <2>2 DEF Sums
  <2>4. f[k - 1] \in Nat /\ g[k - 1] \in Nat /\ s[k] \in Nat /\ t[k] \in Nat
    BY <1>3, <2>3
  <2>5. f[k - 1] <= g[k - 1] /\ s[k] <= t[k]
    BY <2>2, <2>3
  <2>6. f[k] = f[k - 1] + s[k] /\ g[k] = g[k - 1] + t[k]
    BY <1>3, <2>3 DEF Sums
  <2>7. QED
    BY <2>2, <2>4, <2>5, <2>6
<1>5. n \in 0 .. n
  OBVIOUS
<1>6. QED
  BY <1>3, <1>4, <1>5

\* One term changes, and the sum by as much.
LEMMA TotalChanges ==
  ASSUME NEW n \in Nat, NEW s \in [1 .. n -> Nat], NEW t \in [1 .. n -> Nat],
         NEW p \in 1 .. n, \A i \in 1 .. n : i # p => s[i] = t[i]
  PROVE  /\ Total(s) \in Nat /\ Total(t) \in Nat
         /\ Total(t) + s[p] = Total(s) + t[p]
<1>1. PICK f : f = Upto(s)
  OBVIOUS
<1>2. PICK g : g = Upto(t)
  OBVIOUS
<1>3. /\ Total(s) = f[n] /\ Sums(f, s, n) /\ \A i \in 0 .. n : f[i] \in Nat
      /\ Total(t) = g[n] /\ Sums(g, t, n) /\ \A i \in 0 .. n : g[i] \in Nat
  BY <1>1, <1>2, TotalSums
<1> DEFINE Right(k) == IF k < p THEN f[k] = g[k] ELSE g[k] + s[p] = f[k] + t[p]
           T == {k \in 0 .. n : ~Right(k)}
<1>4. ASSUME T # {} PROVE FALSE
  <2>1. T \subseteq Nat
    OBVIOUS
  <2>2. PICK k \in T : \A j \in T : k <= j
    BY <1>4, <2>1, LeastNatural
  <2>3. k \in 1 .. n /\ k - 1 \in 0 .. n /\ ~(k <= k - 1)
    BY <1>3, <2>2 DEF Sums
  <2>4. f[k - 1] \in Nat /\ g[k - 1] \in Nat /\ s[k] \in Nat /\ t[k] \in Nat
        /\ s[p] \in Nat /\ t[p] \in Nat
    BY <1>3, <2>3
  <2>5. Right(k - 1)
    BY <2>2, <2>3
  <2>6. f[k] = f[k - 1] + s[k] /\ g[k] = g[k - 1] + t[k]
    BY <1>3, <2>3 DEF Sums
  <2>7. k # p => s[k] = t[k]
    BY <2>3
  <2>8. Right(k)
    <3>1. CASE k < p
      <4>1. f[k - 1] = g[k - 1] /\ s[k] = t[k]
        BY <2>3, <2>5, <2>7, <3>1
      <4>2. QED
        BY <2>6, <3>1, <4>1
    <3>2. CASE k = p
      <4>1. f[k - 1] = g[k - 1]
        BY <2>3, <2>5, <3>2
      <4>2. QED
        BY <2>4, <2>6, <3>2, <4>1
    <3>3. CASE k > p
      <4>1. g[k - 1] + s[p] = f[k - 1] + t[p] /\ s[k] = t[k]
        BY <2>3, <2>5, <2>7, <3>3
      <4>2. PICK a \in Nat : a = f[k - 1]
        BY <2>4
      <4>3. PICK b \in Nat : b = g[k - 1]
        BY <2>4
      <4>4. PICK c \in Nat : c = s[k]
        BY <2>4
      <4>5. PICK x \in Nat : x = s[p]
        BY <2>4
      <4>6. PICK y \in Nat : y = t[p]
        BY <2>4
      <4>7. b + x = a + y
        BY <4>1, <4>2, <4>3, <4>5, <4>6
      <4>8. (b + c) + x = (a + c) + y
        BY <4>7
      <4>9. g[k] = b + c /\ f[k] = a + c
        BY <2>6, <4>1, <4>2, <4>3, <4>4
      <4>10. QED
        BY <2>3, <3>3, <4>5, <4>6, <4>8, <4>9
    <3>4. QED
      BY <2>3, <3>1, <3>2, <3>3
  <2>9. QED
    BY <2>2, <2>8
<1>5. n \in 0 .. n /\ ~(n < p)
  OBVIOUS
<1>6. QED
  BY <1>3, <1>4, <1>5

\* Nothing adds up to nothing.
LEMMA TotalZero ==
  ASSUME NEW n \in Nat, NEW s, s = [i \in 1 .. n |-> 0]
  PROVE  Total(s) = 0
<1>1. s \in [1 .. n -> Nat]
  OBVIOUS
<1>2. PICK f : f = Upto(s)
  OBVIOUS
<1>3. Total(s) = f[n] /\ Sums(f, s, n)
  BY <1>1, <1>2, TotalSums
<1> DEFINE T == {k \in 0 .. n : f[k] # 0}
<1>4. ASSUME T # {} PROVE FALSE
  <2>1. T \subseteq Nat
    OBVIOUS
  <2>2. PICK k \in T : \A j \in T : k <= j
    BY <1>4, <2>1, LeastNatural
  <2>3. k \in 1 .. n /\ k - 1 \in 0 .. n /\ ~(k <= k - 1)
    BY <1>3, <2>2 DEF Sums
  <2>4. f[k - 1] = 0 /\ s[k] = 0
    BY <2>2, <2>3
  <2>5. f[k] = f[k - 1] + s[k]
    BY <1>3, <2>3 DEF Sums
  <2>6. QED
    BY <2>2, <2>4, <2>5
<1>5. QED
  BY <1>3, <1>4

-----------------------------------------------------------------------------
(* What a report says of what it read.                                     *)

Rules == [covers: SUBSET Models, prompt: Nat, completion: Nat]
DayCounts == [Models -> Counts]
Quantities == {"requests", "unmetered", "prompt", "completion"}

\* The models some rule covers.
Priced == {m \in Models : \E i \in DOMAIN PriceTable : m \in PriceTable[i].covers}

LEMMA CountFacts ==
  /\ DOMAIN None = Quantities /\ None \in Counts
  /\ \A c \in Counts : /\ DOMAIN c = Quantities
                       /\ \A f \in Quantities : c[f] \in Nat
                       /\ c.requests \in 0 .. MaxRecords /\ c.unmetered \in 0 .. MaxRecords
<1>1. DOMAIN None = Quantities /\ None \in Counts
  BY LedgerAssumption DEF None, Quantities, Counts
<1>2. ASSUME NEW c \in Counts
      PROVE  /\ DOMAIN c = Quantities /\ \A f \in Quantities : c[f] \in Nat
             /\ c.requests \in 0 .. MaxRecords /\ c.unmetered \in 0 .. MaxRecords
  <2>1. DOMAIN c = Quantities
    BY DEF Counts, Quantities
  <2>2. /\ c.requests \in 0 .. MaxRecords /\ c.unmetered \in 0 .. MaxRecords
        /\ c.prompt \in Nat /\ c.completion \in Nat
    BY DEF Counts
  <2>3. c.requests \in Nat /\ c.unmetered \in Nat
    BY <2>2, LedgerAssumption
  <2>4. QED
    BY <2>1, <2>2, <2>3 DEF Quantities
<1>3. QED
  BY <1>1, <1>2

\* A list of a finite set has each of its members.
LEMMA ListOfSet ==
  ASSUME NEW S, IsFiniteSet(S)
  PROVE  \E n \in Nat : /\ SetToSeq(S) \in [1 .. n -> S]
                        /\ \A x \in S : \E i \in 1 .. n : SetToSeq(S)[i] = x
<1>1. PICK n \in Nat : n = Cardinality(S)
  BY FS_CardinalityType
<1>2. ExistsBijection(1 .. n, S)
  BY <1>1, FS_CardinalityType
<1>3. \E f \in [1 .. n -> S] : IsInjective(f)
  <2>1. PICK f \in Bijection(1 .. n, S) : TRUE
    BY <1>2 DEF ExistsBijection
  <2>2. f \in [1 .. n -> S] /\ IsInjective(f)
    BY <2>1 DEF Bijection, Injection, Surjection, IsInjective
  <2>3. QED
    BY <2>2
<1>4. PICK g : g = SetToSeq(S)
  OBVIOUS
<1>5. g \in [1 .. n -> S] /\ IsInjective(g)
  BY <1>1, <1>3, <1>4 DEF SetToSeq
<1>6. g \in Injection(1 .. n, S)
  BY <1>5 DEF Injection, IsInjective
<1>7. Cardinality(1 .. n) = n
  BY <1>1, FS_Interval
<1>8. g \in Surjection(1 .. n, S)
  BY <1>1, <1>6, <1>7, FS_Injection
<1>9. \A x \in S : \E i \in 1 .. n : g[i] = x
  BY <1>8 DEF Surjection
<1>10. QED
  BY <1>1, <1>4, <1>5, <1>9

\* A model has a price exactly when a rule covers it, and it is not negative.
LEMMA CostFacts ==
  ASSUME NEW m \in Models, NEW c \in Counts
  PROVE  /\ Cost(m, c) \in Nat \cup {NoPrice}
         /\ Cost(m, c) = NoPrice <=> m \notin Priced
<1> DEFINE I == {i \in 1 .. Len(PriceTable) : m \in PriceTable[i].covers}
<1>1. PriceTable \in Seq(Rules)
  <2>1. Overrides \in Seq(Rules) /\ BuiltIn \in Seq(Rules)
    BY LedgerAssumption DEF Rules
  <2>2. QED
    BY <2>1 DEF PriceTable
<1>2. I \subseteq Nat
  BY <1>1
<1>3. I # {} <=> m \in Priced
  BY <1>1 DEF Priced
<1>4. PICK at : at = IF I # {} THEN Min(I) ELSE 0
  OBVIOUS
<1>5. Cost(m, c) = IF at = 0 THEN NoPrice
                   ELSE PriceTable[at].prompt * c.prompt + PriceTable[at].completion * c.completion
  BY <1>4 DEF Cost, SelectInSeq
<1> HIDE DEF I
<1>6. CASE I = {}
  BY <1>3, <1>4, <1>5, <1>6
<1>7. CASE I # {}
  <2>1. at \in I
    <3>1. \E x \in I : \A y \in I : x <= y
      BY <1>2, <1>7, LeastNatural
    <3>2. QED
      BY <1>4, <1>7, <3>1 DEF Min
  <2>2. at # 0 /\ PriceTable[at] \in Rules
    BY <1>1, <2>1 DEF I
  <2>3. PriceTable[at].prompt \in Nat /\ PriceTable[at].completion \in Nat
    BY <2>2 DEF Rules
  <2>4. c.prompt \in Nat /\ c.completion \in Nat
    BY DEF Counts
  <2>5. PriceTable[at].prompt * c.prompt \in Nat
    BY <2>3, <2>4
  <2>6. PriceTable[at].completion * c.completion \in Nat
    BY <2>3, <2>4
  <2>7. Cost(m, c) \in Nat
    BY <1>5, <2>2, <2>5, <2>6
  <2>8. QED
    BY <1>3, <1>7, <2>7 DEF NoPrice
<1>8. QED
  BY <1>6, <1>7

\* What is worth no price at all is a list of nothing but such.
LEMMA TotalCostFacts ==
  ASSUME NEW n \in Nat, NEW costs \in [1 .. n -> Nat \cup {NoPrice}]
  PROVE  /\ TotalCost(costs) \in Nat \cup {NoPrice}
         /\ TotalCost(costs) = NoPrice <=> \A i \in 1 .. n : costs[i] = NoPrice
<1>1. CASE \A i \in 1 .. n : costs[i] = NoPrice
  BY <1>1 DEF TotalCost
<1>2. CASE ~\A i \in 1 .. n : costs[i] = NoPrice
  <2>1. PICK s : s = [i \in 1 .. n |-> IF costs[i] = NoPrice THEN 0 ELSE costs[i]]
    OBVIOUS
  <2>2. s \in [1 .. n -> Nat]
    BY <2>1
  <2>3. Total(s) \in Nat
    BY <2>2, TotalNat
  <2>4. TotalCost(costs) = Total(s)
    BY <1>2, <2>1 DEF TotalCost
  <2>5. QED
    BY <1>2, <2>3, <2>4 DEF NoPrice
<1>3. QED
  BY <1>1, <1>2

\* One day: its lines in order, what of them has no price, and what they cost.
LEMMA DayFacts ==
  ASSUME NEW fields \in DayCounts, IsFiniteSet(Present(fields))
  PROVE  LET day == DayReport(fields)
         IN /\ day.requests \in Nat /\ day.unmetered \in Nat
            /\ (\A m \in Models : fields[m].unmetered <= fields[m].requests)
                  => day.unmetered <= day.requests
            /\ day.cost \in Nat \cup {NoPrice}
            /\ day.cost = NoPrice <=> Present(fields) \cap Priced = {}
            /\ day.unpriced = Present(fields) \ Priced
<1>1. PICK lines : lines = SetToSeq(Present(fields))
  OBVIOUS
<1>2. PICK n \in Nat : /\ lines \in [1 .. n -> Present(fields)]
                       /\ \A x \in Present(fields) : \E i \in 1 .. n : lines[i] = x
  BY <1>1, ListOfSet
<1>3. \A i \in 1 .. n : lines[i] \in Models /\ lines[i] \in Present(fields)
                        /\ fields[lines[i]] \in Counts
  BY <1>2 DEF Present, DayCounts
<1>4. PICK requests : requests = Column(fields, lines, "requests")
  OBVIOUS
<1>5. PICK unmetered : unmetered = Column(fields, lines, "unmetered")
  OBVIOUS
<1>6. PICK costs : costs = Costs(fields, lines)
  OBVIOUS
<1>7. PICK day : day = DayReport(fields)
  OBVIOUS
<1>8. /\ day.requests = Total(requests) /\ day.unmetered = Total(unmetered)
      /\ day.cost = TotalCost(costs)
      /\ day.unpriced = {m \in Present(fields) : Cost(m, fields[m]) = NoPrice}
  BY <1>1, <1>4, <1>5, <1>6, <1>7 DEF DayReport
<1>9. /\ requests = [i \in 1 .. n |-> fields[lines[i]]["requests"]]
      /\ unmetered = [i \in 1 .. n |-> fields[lines[i]]["unmetered"]]
      /\ costs = [i \in 1 .. n |-> Cost(lines[i], fields[lines[i]])]
  BY <1>2, <1>4, <1>5, <1>6 DEF Column, Costs
<1>10. requests \in [1 .. n -> Nat] /\ unmetered \in [1 .. n -> Nat]
  BY <1>3, <1>9, CountFacts DEF Quantities
<1>11. Total(requests) \in Nat /\ Total(unmetered) \in Nat
  <2>1. Total(requests) \in Nat
    BY <1>2, <1>10, TotalNat
  <2>2. Total(unmetered) \in Nat
    BY <1>2, <1>10, TotalNat
  <2>3. QED
    BY <2>1, <2>2
<1>12. ASSUME \A m \in Models : fields[m].unmetered <= fields[m].requests
       PROVE  Total(unmetered) <= Total(requests)
  <2>1. \A i \in 1 .. n : unmetered[i] <= requests[i]
    BY <1>3, <1>9, <1>12
  <2>2. QED
    BY <1>2, <1>10, <2>1, TotalMonotone
<1>13. ASSUME NEW m \in Present(fields)
       PROVE  /\ Cost(m, fields[m]) \in Nat \cup {NoPrice}
              /\ Cost(m, fields[m]) = NoPrice <=> m \notin Priced
  <2>1. m \in Models /\ fields[m] \in Counts
    BY DEF Present, DayCounts
  <2>2. QED
    BY <2>1, CostFacts
<1>14. costs \in [1 .. n -> Nat \cup {NoPrice}]
  BY <1>3, <1>9, <1>13
<1>15. \A i \in 1 .. n : costs[i] = NoPrice <=> lines[i] \notin Priced
  BY <1>3, <1>9, <1>13
<1>16. (\A i \in 1 .. n : costs[i] = NoPrice) <=> Present(fields) \cap Priced = {}
  BY <1>2, <1>3, <1>15
<1>17. /\ TotalCost(costs) \in Nat \cup {NoPrice}
       /\ TotalCost(costs) = NoPrice <=> Present(fields) \cap Priced = {}
  BY <1>14, <1>16, TotalCostFacts
<1>18. {m \in Present(fields) : Cost(m, fields[m]) = NoPrice} = Present(fields) \ Priced
  BY <1>13
<1>19. QED
  BY <1>7, <1>8, <1>11, <1>12, <1>17, <1>18

Shown(raw) == UNION {Present(raw[i]) : i \in DOMAIN raw}

\* The days rolled up.
LEMMA SummaryFacts ==
  ASSUME NEW n \in Nat, NEW raw \in [1 .. n -> DayCounts],
         \A i \in 1 .. n : IsFiniteSet(Present(raw[i]))
  PROVE  LET total == Summarise(raw)
         IN /\ (\A i \in 1 .. n, m \in Models : raw[i][m].unmetered <= raw[i][m].requests)
                  => total.unmetered <= total.requests
            /\ total.unpriced = Shown(raw) \ Priced
            /\ total.cost = NoPrice <=> Shown(raw) \cap Priced = {}
<1>1. PICK daily : daily = [i \in 1 .. n |-> DayReport(raw[i])]
  OBVIOUS
<1>2. PICK requests : requests = [i \in 1 .. n |-> daily[i].requests]
  OBVIOUS
<1>3. PICK unmetered : unmetered = [i \in 1 .. n |-> daily[i].unmetered]
  OBVIOUS
<1>4. PICK costs : costs = [i \in 1 .. n |-> daily[i].cost]
  OBVIOUS
<1>5. PICK total : total = Summarise(raw)
  OBVIOUS
<1>6. /\ total.requests = Total(requests) /\ total.unmetered = Total(unmetered)
      /\ total.cost = TotalCost(costs)
      /\ total.unpriced = UNION {daily[i].unpriced : i \in 1 .. n}
  <2>1. DOMAIN raw = 1 .. n
    OBVIOUS
  <2>2. QED
    BY <1>1, <1>2, <1>3, <1>4, <1>5, <2>1 DEF Summarise
<1>7. ASSUME NEW i \in 1 .. n
      PROVE  /\ daily[i].requests \in Nat /\ daily[i].unmetered \in Nat
             /\ (\A m \in Models : raw[i][m].unmetered <= raw[i][m].requests)
                   => daily[i].unmetered <= daily[i].requests
             /\ daily[i].cost \in Nat \cup {NoPrice}
             /\ daily[i].cost = NoPrice <=> Present(raw[i]) \cap Priced = {}
             /\ daily[i].unpriced = Present(raw[i]) \ Priced
  <2>1. raw[i] \in DayCounts /\ IsFiniteSet(Present(raw[i])) /\ daily[i] = DayReport(raw[i])
    BY <1>1
  <2>2. QED
    BY <2>1, DayFacts
<1>8. requests \in [1 .. n -> Nat] /\ unmetered \in [1 .. n -> Nat]
      /\ costs \in [1 .. n -> Nat \cup {NoPrice}]
  BY <1>2, <1>3, <1>4, <1>7
<1>9. ASSUME \A i \in 1 .. n, m \in Models : raw[i][m].unmetered <= raw[i][m].requests
      PROVE  total.unmetered <= total.requests
  <2>1. \A i \in 1 .. n : unmetered[i] <= requests[i]
    BY <1>2, <1>3, <1>7, <1>9
  <2>2. Total(unmetered) <= Total(requests)
    BY <1>8, <2>1, TotalMonotone
  <2>3. QED
    BY <1>6, <2>2
<1>10. Shown(raw) = UNION {Present(raw[i]) : i \in 1 .. n}
  BY DEF Shown
<1>11. total.unpriced = Shown(raw) \ Priced
  BY <1>6, <1>7, <1>10
<1>12. (\A i \in 1 .. n : costs[i] = NoPrice) <=> Shown(raw) \cap Priced = {}
  BY <1>4, <1>7, <1>10
<1>13. total.cost = NoPrice <=> Shown(raw) \cap Priced = {}
  BY <1>6, <1>8, <1>12, TotalCostFacts
<1>14. QED
  BY <1>5, <1>9, <1>11, <1>13

-----------------------------------------------------------------------------
(* The inductive invariant.  What Redis holds, with what is still on its   *)
(* way there, is within what was handed over; what it holds of requests    *)
(* outnumbers what it holds of marks, those on their way included.         *)

\* Where each count stands in the pipeline.
Place == [requests |-> 1, unmetered |-> 2, prompt |-> 3, completion |-> 4]

Writes(x, k, d, m) ==
  x.at = "recording" /\ x.key = k /\ DayOf(x.since) = d /\ x.spent.model = m

\* What job x has yet to add to a count; the mark that is its next command.
Pending(x, k, d, m, f) ==
  IF Writes(x, k, d, m) /\ Place[f] >= x.command THEN x.spent.usage[f] ELSE 0
Marked(x, k, d, m) ==
  IF Writes(x, k, d, m) /\ x.command = 2 THEN x.spent.usage.unmetered ELSE 0

JobCount == Cardinality(Jobs)
Order == CHOOSE f \in [1 .. JobCount -> Jobs] :
            /\ \A j \in Jobs : \E i \in 1 .. JobCount : f[i] = j
            /\ \A i, l \in 1 .. JobCount : f[i] = f[l] => i = l

\* The sum of w over the jobs.
OverJobs(w) == Total([i \in 1 .. JobCount |-> w[Order[i]]])
InFlight(jobs, k, d, m, f) == OverJobs([j \in Jobs |-> Pending(jobs[j], k, d, m, f)])
Marks(jobs, k, d, m) == OverJobs([j \in Jobs |-> Marked(jobs[j], k, d, m)])

Reads == {"reading", "reported", "degraded"}
Recording == [at : {"recording"}, key : Keys, since : Nat, spent : Spent, command : 1 .. 5]
Reading == [at : Reads, key : Keys, since : Nat, wanted : Seq(Days),
            raw : Seq(DayCounts), floor : Seq(DayCounts)]
AJob == {Idle} \cup Recording \cup Reading

Accounts == [Days -> DayCounts]
Ledgers == [Keys -> Accounts]

Typed ==
  /\ now \in 0 .. MaxTicks /\ settled \in 0 .. MaxRecords
  /\ hash \in Ledgers /\ owed \in Ledgers
  /\ job \in [Jobs -> AJob]
  /\ \A j \in Jobs : job[j].at # "idle" => job[j].since <= now

Handed ==
  \A k \in Keys, d \in Days, m \in Models :
    /\ owed[k][d][m].unmetered <= owed[k][d][m].requests
    /\ owed[k][d][m].requests <= settled

Held ==
  \A k \in Keys, d \in Days, m \in Models, f \in Quantities :
    hash[k][d][m][f] + InFlight(job, k, d, m, f) <= owed[k][d][m][f]

Behind ==
  \A k \in Keys, d \in Days, m \in Models :
    (Retained > 1 \/ d >= DayOf(now)) =>
      hash[k][d][m].unmetered + Marks(job, k, d, m) <= hash[k][d][m].requests

Lasts ==
  /\ ttl \in [Keys -> [Days -> 0 .. Never]]
  /\ \A k \in Keys, d \in Days : ttl[k][d] >= (d + Retained) * TicksPerDay

Finite == \A k \in Keys, d \in Days : IsFiniteSet(Present(hash[k][d]))

\* a is nowhere above b.
Within(a, b) == \A m \in Models, f \in Quantities : a[m][f] <= b[m][f]
Ahead(a) == \A m \in Models : a[m].unmetered <= a[m].requests

\* The lengths and the days of a report.
Shape(x) ==
  /\ Len(x.floor) = Len(x.wanted) /\ Len(x.raw) <= Len(x.wanted) /\ Len(x.wanted) > 0
  /\ x.at # "reading" <=> Len(x.raw) = Len(x.wanted)
  /\ \A i \in DOMAIN x.wanted : x.wanted[i] > DayOf(x.since) - Retained

\* What a report has read by time t, where o was handed over.
Read(x, t, o) ==
  \A i \in 1 .. Len(x.raw) :
    /\ IsFiniteSet(Present(x.raw[i]))
    /\ Within(x.raw[i], o[x.wanted[i]])
    /\ (Retained > 1 \/ DayOf(t) = DayOf(x.since)) => Ahead(x.raw[i])
    /\ x.wanted[i] > DayOf(t) - Retained => Within(x.floor[i], x.raw[i])

\* And what it has yet to read.
Unread(x, t, h) ==
  \A i \in Len(x.raw) + 1 .. Len(x.wanted) :
    x.wanted[i] > DayOf(t) - Retained => Within(x.floor[i], h[x.wanted[i]])

Faithful(x, t, h, o) ==
  /\ Shape(x)
  /\ x.at # "degraded" => Read(x, t, o) /\ Unread(x, t, h)
  /\ x.at = "degraded" => \A i \in 1 .. Len(x.raw) : x.raw[i] = EmptyDay

Reporting ==
  \A j \in Jobs :
    job[j].at \in Reads => Faithful(job[j], now, hash[job[j].key], owed[job[j].key])

IInv == Typed /\ Handed /\ Held /\ Behind /\ Finite /\ Reporting /\ Lasts

-----------------------------------------------------------------------------
(* Days and retention.                                                     *)

LEMMA MaxOfTwo ==
  ASSUME NEW a \in Int, NEW b \in Int
  PROVE  Max({a, b}) \in {a, b} /\ Max({a, b}) >= a /\ Max({a, b}) >= b
<1>1. \E x \in {a, b} : \A y \in {a, b} : x >= y
  <2>1. CASE a >= b
    BY <2>1
  <2>2. CASE ~(a >= b)
    BY <2>2
  <2>3. QED
    BY <2>1, <2>2
<1>2. QED
  BY <1>1 DEF Max

LEMMA MinOfTwo ==
  ASSUME NEW a \in Int, NEW b \in Int
  PROVE  Min({a, b}) \in {a, b} /\ Min({a, b}) <= a /\ Min({a, b}) <= b
<1>1. \E x \in {a, b} : \A y \in {a, b} : x <= y
  <2>1. CASE a <= b
    BY <2>1
  <2>2. CASE ~(a <= b)
    BY <2>2
  <2>3. QED
    BY <2>1, <2>2
<1>2. QED
  BY <1>1 DEF Min

\* At least one day is kept, and no more than one above what was asked.
LEMMA RetainedFacts == Retained \in Nat /\ Retained >= 1 /\ Retained <= RetentionDays + 1
<1>1. PICK r \in Int : r = RetentionDays /\ r >= 0
  BY LedgerAssumption
<1>2. Max({1, r}) \in {1, r} /\ Max({1, r}) >= 1
  BY <1>1, MaxOfTwo
<1>3. QED
  BY <1>1, <1>2 DEF Retained

\* A tick lies in its day.
LEMMA DayBounds ==
  ASSUME NEW t \in Nat
  PROVE  /\ DayOf(t) \in Nat /\ DayOf(t) * TicksPerDay <= t
         /\ t < (DayOf(t) + 1) * TicksPerDay
<1>1. PICK n \in Nat : n = TicksPerDay /\ n > 0
  BY LedgerAssumption
<1>2. PICK q : q = t \div n
  OBVIOUS
<1>3. q \in Nat /\ q * n <= t /\ t < (q + 1) * n
  BY <1>1, <1>2
<1>4. QED
  BY <1>1, <1>2, <1>3 DEF DayOf

\* A greater factor, a greater product.
LEMMA TimesMonotone ==
  ASSUME NEW a \in Int, NEW b \in Int, NEW n \in Nat, a <= b
  PROVE  a * n \in Int /\ b * n \in Int /\ a * n <= b * n
<1>1. PICK c \in Nat : b = a + c
  <2>1. b - a \in Nat /\ b = a + (b - a)
    OBVIOUS
  <2>2. QED
    BY <2>1
<1>2. c * n \in Nat /\ a * n \in Int
  OBVIOUS
<1>3. b * n = a * n + c * n
  BY <1>1
<1>4. QED
  BY <1>2, <1>3

\* A day that has begun by t is not after the day of t, and the other way round.
LEMMA DayBegun ==
  ASSUME NEW d \in Int, NEW t \in Nat
  PROVE  d * TicksPerDay <= t <=> d <= DayOf(t)
<1>1. /\ DayOf(t) \in Nat /\ DayOf(t) * TicksPerDay <= t
      /\ t < (DayOf(t) + 1) * TicksPerDay
  BY DayBounds
<1>2. TicksPerDay \in Nat
  BY LedgerAssumption
<1>3. ASSUME d <= DayOf(t) PROVE d * TicksPerDay <= t
  <2>1. d * TicksPerDay \in Int /\ DayOf(t) * TicksPerDay \in Int
        /\ d * TicksPerDay <= DayOf(t) * TicksPerDay
    BY <1>1, <1>2, <1>3, TimesMonotone
  <2>2. QED
    BY <1>1, <2>1
<1>4. ASSUME d > DayOf(t) PROVE ~(d * TicksPerDay <= t)
  <2>1. DayOf(t) + 1 <= d
    BY <1>1, <1>4
  <2>2. d * TicksPerDay \in Int /\ (DayOf(t) + 1) * TicksPerDay \in Int
        /\ (DayOf(t) + 1) * TicksPerDay <= d * TicksPerDay
    BY <1>1, <1>2, <2>1, TimesMonotone
  <2>3. QED
    BY <1>1, <2>2
<1>5. QED
  BY <1>1, <1>3, <1>4

\* Days do not run backwards.
LEMMA DayMonotone ==
  ASSUME NEW t \in Nat, NEW u \in Nat, t <= u
  PROVE  DayOf(t) \in Nat /\ DayOf(u) \in Nat /\ DayOf(t) <= DayOf(u)
<1>1. DayOf(t) \in Nat /\ DayOf(u) \in Nat /\ DayOf(t) * TicksPerDay <= t
  BY DayBounds
<1>2. DayOf(t) * TicksPerDay <= u
  <2>1. DayOf(t) * TicksPerDay \in Int
    BY <1>1, LedgerAssumption
  <2>2. QED
    BY <1>1, <2>1
<1>3. QED
  BY <1>1, <1>2, DayBegun

LEMMA DayInDays ==
  ASSUME NEW t \in 0 .. MaxTicks
  PROVE  DayOf(t) \in Days
<1>1. t \in Nat /\ MaxTicks \in Nat /\ t <= MaxTicks
  BY LedgerAssumption
<1>2. DayOf(t) \in Nat /\ DayOf(MaxTicks) \in Nat /\ DayOf(t) <= DayOf(MaxTicks)
  BY <1>1, DayMonotone
<1>3. QED
  BY <1>2 DEF Days, DayOf

\* A report covers at least today, no day to come and none that is not kept.
LEMMA WantedFacts ==
  ASSUME NEW t \in 0 .. MaxTicks, t = now, NEW days \in Nat
  PROVE  \E n \in Nat : /\ n > 0 /\ Wanted(days) \in [1 .. n -> Days]
                        /\ \A i \in 1 .. n : Wanted(days)[i] > DayOf(t) - Retained
<1>1. PICK today \in Nat : today = DayOf(t)
  BY DayBounds, LedgerAssumption
<1>2. PICK keep \in Nat : keep = Retained /\ keep >= 1
  BY RetainedFacts
<1>3. PICK least \in Int : least = Min({days, keep}) /\ least <= keep
  <2>1. Min({days, keep}) \in {days, keep} /\ Min({days, keep}) <= keep
    BY <1>2, MinOfTwo
  <2>2. QED
    BY <1>2, <2>1
<1>4. PICK window \in Int : window = Max({1, least}) /\ window >= 1 /\ window <= keep
  <2>1. Max({1, least}) \in {1, least} /\ Max({1, least}) >= 1
    BY MaxOfTwo
  <2>2. QED
    BY <1>2, <1>3, <2>1
<1>5. PICK first \in Int : /\ first = Max({0, today - window + 1})
                           /\ first >= 0 /\ first >= today - window + 1 /\ first <= today
  <2>1. PICK c \in Int : c = today - window + 1
    BY <1>1, <1>4
  <2>2. Max({0, c}) \in {0, c} /\ Max({0, c}) >= 0 /\ Max({0, c}) >= c
    <3>1. 0 \in Int /\ c \in Int
      BY <2>1
    <3>2. QED
      BY <3>1, MaxOfTwo
  <2>3. c <= today
    BY <1>4, <2>1
  <2>4. Max({0, c}) \in Int /\ Max({0, c}) <= today
    BY <2>2, <2>3
  <2>5. QED
    BY <2>1, <2>2, <2>4
<1>6. PICK n \in Nat : n = today - first + 1 /\ n > 0
  BY <1>5
<1>7. Wanted(days) = [i \in 1 .. n |-> first + i - 1]
  BY <1>1, <1>2, <1>3, <1>4, <1>5, <1>6 DEF Wanted
<1>8. PICK last \in Nat : Days = 0 .. last /\ today <= last
  <2>1. today \in Days
    BY <1>1, DayInDays
  <2>2. MaxTicks \div TicksPerDay \in Nat
    BY DayBounds, LedgerAssumption DEF DayOf
  <2>3. QED
    BY <2>1, <2>2 DEF Days
<1>9. ASSUME NEW i \in 1 .. n
      PROVE  first + i - 1 \in Days /\ first + i - 1 > today - keep
  <2>1. PICK d \in Int : d = first + i - 1
    BY <1>5
  <2>2. d >= first /\ d <= today
    BY <1>1, <1>5, <1>6, <2>1
  <2>3. d > today - keep
    BY <1>1, <1>2, <1>4, <1>5, <2>1, <2>2
  <2>4. d \in Days
    BY <1>1, <1>5, <1>8, <2>1, <2>2
  <2>5. QED
    BY <2>1, <2>3, <2>4
<1>10. PICK wanted : wanted = Wanted(days)
  OBVIOUS
<1>11. wanted \in [1 .. n -> Days] /\ \A i \in 1 .. n : wanted[i] > DayOf(t) - Retained
  BY <1>1, <1>2, <1>7, <1>9, <1>10
<1>12. QED
  BY <1>6, <1>10, <1>11

-----------------------------------------------------------------------------
(* Sums over the jobs.                                                     *)

LEMMA OrderFacts ==
  /\ JobCount \in Nat /\ Order \in [1 .. JobCount -> Jobs]
  /\ \A j \in Jobs : \E i \in 1 .. JobCount : Order[i] = j
  /\ \A i, l \in 1 .. JobCount : Order[i] = Order[l] => i = l
<1>1. JobCount \in Nat /\ ExistsBijection(1 .. JobCount, Jobs)
  BY FS_CardinalityType, LedgerAssumption DEF JobCount
<1>2. PICK g \in Bijection(1 .. JobCount, Jobs) : TRUE
  BY <1>1 DEF ExistsBijection
<1>3. /\ g \in [1 .. JobCount -> Jobs]
      /\ \A j \in Jobs : \E i \in 1 .. JobCount : g[i] = j
      /\ \A i, l \in 1 .. JobCount : g[i] = g[l] => i = l
  BY <1>2 DEF Bijection, Injection, Surjection, IsInjective
<1>4. QED
  BY <1>1, <1>3 DEF Order

\* One job's term changes, and the sum by as much.
LEMMA OverJobsChanges ==
  ASSUME NEW w \in [Jobs -> Nat], NEW v \in [Jobs -> Nat], NEW j \in Jobs,
         \A l \in Jobs : l # j => w[l] = v[l]
  PROVE  /\ OverJobs(w) \in Nat /\ OverJobs(v) \in Nat
         /\ OverJobs(v) + w[j] = OverJobs(w) + v[j]
<1>1. PICK n \in Nat : n = JobCount
  BY OrderFacts
<1>2. PICK p \in 1 .. n : Order[p] = j
  BY <1>1, OrderFacts
<1>3. PICK s : s = [i \in 1 .. n |-> w[Order[i]]]
  OBVIOUS
<1>4. PICK t : t = [i \in 1 .. n |-> v[Order[i]]]
  OBVIOUS
<1>5. s \in [1 .. n -> Nat] /\ t \in [1 .. n -> Nat]
  BY <1>1, <1>3, <1>4, OrderFacts
<1>6. \A i \in 1 .. n : i # p => s[i] = t[i]
  BY <1>1, <1>2, <1>3, <1>4, OrderFacts
<1>7. s[p] = w[j] /\ t[p] = v[j]
  BY <1>2, <1>3, <1>4
<1>8. Total(s) \in Nat /\ Total(t) \in Nat /\ Total(t) + s[p] = Total(s) + t[p]
  BY <1>1, <1>2, <1>5, <1>6, TotalChanges
<1>9. OverJobs(w) = Total(s) /\ OverJobs(v) = Total(t)
  BY <1>1, <1>3, <1>4 DEF OverJobs
<1>10. QED
  BY <1>7, <1>8, <1>9

LEMMA OverJobsNat ==
  ASSUME NEW w \in [Jobs -> Nat]
  PROVE  OverJobs(w) \in Nat
<1>1. PICK n \in Nat : n = JobCount
  BY OrderFacts
<1>2. PICK s : s = [i \in 1 .. n |-> w[Order[i]]]
  OBVIOUS
<1>3. s \in [1 .. n -> Nat]
  BY <1>1, <1>2, OrderFacts
<1>4. Total(s) \in Nat
  BY <1>1, <1>3, TotalNat
<1>5. QED
  BY <1>1, <1>2, <1>4 DEF OverJobs

LEMMA OverJobsZero ==
  ASSUME NEW w, w = [j \in Jobs |-> 0]
  PROVE  OverJobs(w) = 0
<1>1. PICK n \in Nat : n = JobCount
  BY OrderFacts
<1>2. PICK s : s = [i \in 1 .. n |-> w[Order[i]]]
  OBVIOUS
<1>3. s = [i \in 1 .. n |-> 0]
  BY <1>1, <1>2, OrderFacts
<1>4. Total(s) = 0
  BY <1>1, <1>3, TotalZero
<1>5. QED
  BY <1>1, <1>2, <1>4 DEF OverJobs

\* What is held moves towards what was handed over by no more than one job's
\* share of it and of what was newly handed over.
LEMMA Bounded ==
  ASSUME NEW h \in Nat, NEW h2 \in Nat, NEW o \in Nat, NEW o2 \in Nat,
         NEW s \in Nat, NEW s2 \in Nat, NEW p \in Nat, NEW p2 \in Nat,
         s2 + p = s + p2, h + s <= o, h2 + p2 + o <= h + p + o2
  PROVE  h2 + s2 <= o2
OBVIOUS

-----------------------------------------------------------------------------
(* What the state is made of.                                              *)

LEMMA SpentFacts ==
  ASSUME NEW s \in Spent
  PROVE  /\ s.model \in Models /\ DOMAIN s.usage = Quantities
         /\ \A f \in Quantities : s.usage[f] \in Nat
         /\ s.usage.requests = 1 /\ s.usage.unmetered <= 1
<1>1. s.model \in Models
  BY LedgerAssumption
<1>2. \/ s.usage \in [requests : {1}, unmetered : {0}, prompt : Nat, completion : Nat]
      \/ s.usage \in [requests : {1}, unmetered : {1}, prompt : {0}, completion : {0}]
  BY LedgerAssumption
<1>3. /\ DOMAIN s.usage = {"requests", "unmetered", "prompt", "completion"}
      /\ s.usage.requests = 1 /\ s.usage.unmetered \in {0, 1}
      /\ s.usage.prompt \in Nat /\ s.usage.completion \in Nat
  BY <1>2
<1>4. QED
  BY <1>1, <1>3 DEF Quantities

\* The three kinds of job.
LEMMA JobFacts ==
  ASSUME NEW x \in AJob
  PROVE  /\ x.at \in {"idle", "recording"} \cup Reads
         /\ x.at = "idle" => x = Idle
         /\ x.at = "recording" => x \in Recording
         /\ x.at \in Reads => x \in Reading
<1>1. CASE x = Idle
  BY <1>1 DEF Idle, Reads
<1>2. CASE x \in Recording
  <2>1. x.at = "recording"
    BY <1>2 DEF Recording
  <2>2. QED
    BY <1>2, <2>1 DEF Reads
<1>3. CASE x \in Reading
  <2>1. x.at \in Reads
    BY <1>3 DEF Reading
  <2>2. QED
    BY <1>3, <2>1 DEF Reads
<1>4. QED
  BY <1>1, <1>2, <1>3 DEF AJob

LEMMA IdleFacts == Idle \in AJob /\ Idle.at = "idle"
BY DEF Idle, AJob

LEMMA RecordingFacts ==
  ASSUME NEW x \in Recording
  PROVE  /\ x \in AJob /\ x.at = "recording" /\ x.key \in Keys /\ x.since \in Nat
         /\ x.spent \in Spent /\ x.command \in 1 .. 5
BY DEF Recording, AJob

LEMMA ReadingFacts ==
  ASSUME NEW x \in Reading
  PROVE  /\ x \in AJob /\ x.at \in Reads /\ x.key \in Keys /\ x.since \in Nat
         /\ x.wanted \in Seq(Days) /\ x.raw \in Seq(DayCounts) /\ x.floor \in Seq(DayCounts)
BY DEF Reading, AJob

LEMMA PlaceFacts ==
  /\ \A f \in Quantities : Place[f] \in 1 .. 4 /\ Pipeline[Place[f]] = f
  /\ \A c \in 1 .. 5 : Pipeline[c] = "expire" <=> c = 5
  /\ \A c \in 1 .. 4 : Pipeline[c] \in Quantities /\ Place[Pipeline[c]] = c
  /\ Len(Pipeline) = 5 /\ Place["unmetered"] = 2
<1>1. /\ Pipeline[1] = "requests" /\ Pipeline[2] = "unmetered" /\ Pipeline[3] = "prompt"
      /\ Pipeline[4] = "completion" /\ Pipeline[5] = "expire" /\ Len(Pipeline) = 5
  BY DEF Pipeline
<1>2. /\ Place["requests"] = 1 /\ Place["unmetered"] = 2 /\ Place["prompt"] = 3
      /\ Place["completion"] = 4
  BY DEF Place
<1>3. \A c \in 1 .. 5 : c = 1 \/ c = 2 \/ c = 3 \/ c = 4 \/ c = 5
  OBVIOUS
<1>4. QED
  BY <1>1, <1>2, <1>3 DEF Quantities

\* Only a job that records has anything on its way.
LEMMA PendingFacts ==
  ASSUME NEW x \in AJob, NEW k, NEW d, NEW m, NEW f \in Quantities
  PROVE  /\ Pending(x, k, d, m, f) \in Nat /\ Marked(x, k, d, m) \in Nat
         /\ x.at # "recording" => Pending(x, k, d, m, f) = 0 /\ Marked(x, k, d, m) = 0
<1>1. CASE x.at = "recording"
  <2>1. x.spent \in Spent
    BY <1>1, JobFacts, RecordingFacts
  <2>2. x.spent.usage[f] \in Nat /\ x.spent.usage["unmetered"] \in Nat
    BY <2>1, SpentFacts DEF Quantities
  <2>3. QED
    BY <1>1, <2>2 DEF Pending, Marked
<1>2. CASE x.at # "recording"
  BY <1>2 DEF Pending, Marked, Writes
<1>3. QED
  BY <1>1, <1>2

LEMMA AccountFacts ==
  ASSUME NEW h \in Accounts, NEW d \in Days
  PROVE  /\ h[d] \in DayCounts
         /\ \A m \in Models : /\ h[d][m] \in Counts
                              /\ \A f \in Quantities : h[d][m][f] \in Nat
<1>1. h[d] \in DayCounts
  BY DEF Accounts
<1>2. \A m \in Models : h[d][m] \in Counts
  BY <1>1 DEF DayCounts
<1>3. QED
  BY <1>1, <1>2, CountFacts

LEMMA LedgerFacts ==
  ASSUME NEW h \in Ledgers, NEW k \in Keys
  PROVE  h[k] \in Accounts
BY DEF Ledgers

LEMMA EmptyFacts ==
  /\ EmptyDay \in DayCounts /\ Present(EmptyDay) = {}
  /\ \A m \in Models, f \in Quantities : EmptyDay[m] = None /\ EmptyDay[m][f] = 0
<1>1. \A f \in Quantities : None[f] = 0
  BY DEF None, Quantities
<1>2. EmptyDay = [m \in Models |-> None]
  BY DEF EmptyDay
<1>3. QED
  BY <1>1, <1>2, CountFacts DEF DayCounts, Present

\* Job j becomes y.
Moves(jobs, j, y, jobs2) == jobs2 = [jobs EXCEPT ![j] = y]

\* One job moves on, and what is on its way changes by that job's part.
LEMMA InFlightChanges ==
  ASSUME NEW jobs \in [Jobs -> AJob], NEW j \in Jobs, NEW y \in AJob,
         NEW jobs2, Moves(jobs, j, y, jobs2),
         NEW k, NEW d, NEW m, NEW f \in Quantities
  PROVE  /\ InFlight(jobs, k, d, m, f) \in Nat /\ InFlight(jobs2, k, d, m, f) \in Nat
         /\ InFlight(jobs2, k, d, m, f) + Pending(jobs[j], k, d, m, f)
              = InFlight(jobs, k, d, m, f) + Pending(y, k, d, m, f)
<1>1. PICK w : w = [l \in Jobs |-> Pending(jobs[l], k, d, m, f)]
  OBVIOUS
<1>2. PICK v : v = [l \in Jobs |-> Pending(jobs2[l], k, d, m, f)]
  OBVIOUS
<1>3. \A l \in Jobs : jobs[l] \in AJob /\ jobs2[l] \in AJob /\ (l # j => jobs2[l] = jobs[l])
                   /\ jobs2[j] = y
  BY DEF Moves
<1>4. w \in [Jobs -> Nat]
  BY <1>1, <1>3, PendingFacts
<1>5. v \in [Jobs -> Nat]
  BY <1>2, <1>3, PendingFacts
<1>6. \A l \in Jobs : l # j => w[l] = v[l]
  BY <1>1, <1>2, <1>3
<1>7. w[j] = Pending(jobs[j], k, d, m, f) /\ v[j] = Pending(y, k, d, m, f)
  BY <1>1, <1>2, <1>3
<1>8. OverJobs(w) \in Nat /\ OverJobs(v) \in Nat /\ OverJobs(v) + w[j] = OverJobs(w) + v[j]
  BY <1>4, <1>5, <1>6, OverJobsChanges
<1>9. InFlight(jobs, k, d, m, f) = OverJobs(w) /\ InFlight(jobs2, k, d, m, f) = OverJobs(v)
  BY <1>1, <1>2 DEF InFlight
<1>10. QED
  BY <1>7, <1>8, <1>9

LEMMA MarksChange ==
  ASSUME NEW jobs \in [Jobs -> AJob], NEW j \in Jobs, NEW y \in AJob,
         NEW jobs2, Moves(jobs, j, y, jobs2),
         NEW k, NEW d, NEW m
  PROVE  /\ Marks(jobs, k, d, m) \in Nat /\ Marks(jobs2, k, d, m) \in Nat
         /\ Marks(jobs2, k, d, m) + Marked(jobs[j], k, d, m)
              = Marks(jobs, k, d, m) + Marked(y, k, d, m)
<1>1. PICK w : w = [l \in Jobs |-> Marked(jobs[l], k, d, m)]
  OBVIOUS
<1>2. PICK v : v = [l \in Jobs |-> Marked(jobs2[l], k, d, m)]
  OBVIOUS
<1>3. \A l \in Jobs : jobs[l] \in AJob /\ jobs2[l] \in AJob /\ (l # j => jobs2[l] = jobs[l])
                   /\ jobs2[j] = y
  BY DEF Moves
<1>. "requests" \in Quantities
  BY DEF Quantities
<1>4. w \in [Jobs -> Nat]
  BY <1>1, <1>3, PendingFacts
<1>5. v \in [Jobs -> Nat]
  BY <1>2, <1>3, PendingFacts
<1>6. \A l \in Jobs : l # j => w[l] = v[l]
  BY <1>1, <1>2, <1>3
<1>7. w[j] = Marked(jobs[j], k, d, m) /\ v[j] = Marked(y, k, d, m)
  BY <1>1, <1>2, <1>3
<1>8. OverJobs(w) \in Nat /\ OverJobs(v) \in Nat /\ OverJobs(v) + w[j] = OverJobs(w) + v[j]
  BY <1>4, <1>5, <1>6, OverJobsChanges
<1>9. Marks(jobs, k, d, m) = OverJobs(w) /\ Marks(jobs2, k, d, m) = OverJobs(v)
  BY <1>1, <1>2 DEF Marks
<1>10. QED
  BY <1>7, <1>8, <1>9

\* What nobody adds to is not on its way.
LEMMA NothingInFlight ==
  ASSUME NEW jobs \in [Jobs -> AJob], NEW k, NEW d, NEW m
  PROVE  /\ \A f \in Quantities :
              (\A j \in Jobs : Pending(jobs[j], k, d, m, f) = 0) => InFlight(jobs, k, d, m, f) = 0
         /\ (\A j \in Jobs : Marked(jobs[j], k, d, m) = 0) => Marks(jobs, k, d, m) = 0
         /\ \A f \in Quantities : InFlight(jobs, k, d, m, f) \in Nat
         /\ Marks(jobs, k, d, m) \in Nat
<1>. "requests" \in Quantities
  BY DEF Quantities
<1>1. ASSUME NEW f \in Quantities
      PROVE  /\ (\A j \in Jobs : Pending(jobs[j], k, d, m, f) = 0)
                   => InFlight(jobs, k, d, m, f) = 0
             /\ InFlight(jobs, k, d, m, f) \in Nat
  <2>1. PICK w : w = [l \in Jobs |-> Pending(jobs[l], k, d, m, f)]
    OBVIOUS
  <2>2. w \in [Jobs -> Nat]
    BY <2>1, PendingFacts
  <2>3. (\A j \in Jobs : Pending(jobs[j], k, d, m, f) = 0) => w = [j \in Jobs |-> 0]
    BY <2>1
  <2>4. QED
    BY <2>1, <2>2, <2>3, OverJobsNat, OverJobsZero DEF InFlight
<1>2. PICK w : w = [l \in Jobs |-> Marked(jobs[l], k, d, m)]
  OBVIOUS
<1>3. w \in [Jobs -> Nat]
  BY <1>2, PendingFacts
<1>4. (\A j \in Jobs : Marked(jobs[j], k, d, m) = 0) => w = [j \in Jobs |-> 0]
  BY <1>2
<1>5. Marks(jobs, k, d, m) = OverJobs(w)
  BY <1>2 DEF Marks
<1>6. QED
  BY <1>1, <1>3, <1>4, <1>5, OverJobsNat, OverJobsZero

\* Held and behind, across the move of a job.
LEMMA HeldAcross ==
  ASSUME NEW jobs \in [Jobs -> AJob], NEW j \in Jobs, NEW y \in AJob,
         NEW jobs2, Moves(jobs, j, y, jobs2),
         NEW k, NEW d, NEW m, NEW f \in Quantities,
         NEW h \in Nat, NEW h2 \in Nat, NEW o \in Nat, NEW o2 \in Nat,
         h + InFlight(jobs, k, d, m, f) <= o,
         h2 + Pending(y, k, d, m, f) + o <= h + Pending(jobs[j], k, d, m, f) + o2
  PROVE  h2 + InFlight(jobs2, k, d, m, f) <= o2
<1>1. /\ InFlight(jobs, k, d, m, f) \in Nat /\ InFlight(jobs2, k, d, m, f) \in Nat
      /\ InFlight(jobs2, k, d, m, f) + Pending(jobs[j], k, d, m, f)
           = InFlight(jobs, k, d, m, f) + Pending(y, k, d, m, f)
  BY InFlightChanges
<1>2. Pending(jobs[j], k, d, m, f) \in Nat /\ Pending(y, k, d, m, f) \in Nat
  BY PendingFacts
<1>3. QED
  BY <1>1, <1>2, Bounded

LEMMA BehindAcross ==
  ASSUME NEW jobs \in [Jobs -> AJob], NEW j \in Jobs, NEW y \in AJob,
         NEW jobs2, Moves(jobs, j, y, jobs2),
         NEW k, NEW d, NEW m,
         NEW h \in Nat, NEW h2 \in Nat, NEW o \in Nat, NEW o2 \in Nat,
         h + Marks(jobs, k, d, m) <= o,
         h2 + Marked(y, k, d, m) + o <= h + Marked(jobs[j], k, d, m) + o2
  PROVE  h2 + Marks(jobs2, k, d, m) <= o2
<1>1. /\ Marks(jobs, k, d, m) \in Nat /\ Marks(jobs2, k, d, m) \in Nat
      /\ Marks(jobs2, k, d, m) + Marked(jobs[j], k, d, m)
           = Marks(jobs, k, d, m) + Marked(y, k, d, m)
  BY MarksChange
<1>2. Marked(jobs[j], k, d, m) \in Nat /\ Marked(y, k, d, m) \in Nat
  BY PendingFacts DEF Quantities
<1>3. QED
  BY <1>1, <1>2, Bounded

\* One job's part is no more than the whole.
LEMMA PartOfFlight ==
  ASSUME NEW jobs \in [Jobs -> AJob], NEW j \in Jobs,
         NEW k, NEW d, NEW m, NEW f \in Quantities
  PROVE  Pending(jobs[j], k, d, m, f) <= InFlight(jobs, k, d, m, f)
<1>1. PICK jobs2 : Moves(jobs, j, Idle, jobs2)
  BY DEF Moves
<1>2. /\ InFlight(jobs, k, d, m, f) \in Nat /\ InFlight(jobs2, k, d, m, f) \in Nat
      /\ InFlight(jobs2, k, d, m, f) + Pending(jobs[j], k, d, m, f)
           = InFlight(jobs, k, d, m, f) + Pending(Idle, k, d, m, f)
  BY <1>1, IdleFacts, InFlightChanges
<1>3. Pending(jobs[j], k, d, m, f) \in Nat /\ Pending(Idle, k, d, m, f) = 0
  BY IdleFacts, PendingFacts
<1>4. QED
  BY <1>2, <1>3

-----------------------------------------------------------------------------
(* What a report has read stays true as the ledger grows.                  *)

LEMMA WithinTransitive ==
  ASSUME NEW a \in DayCounts, NEW b \in DayCounts, NEW c \in DayCounts,
         Within(a, b), Within(b, c)
  PROVE  Within(a, c)
<1>1. ASSUME NEW m \in Models, NEW f \in Quantities
      PROVE  a[m][f] <= c[m][f]
  <2>1. a[m] \in Counts /\ b[m] \in Counts /\ c[m] \in Counts
    BY DEF DayCounts
  <2>2. a[m][f] \in Nat /\ b[m][f] \in Nat /\ c[m][f] \in Nat
    BY <2>1, CountFacts
  <2>3. a[m][f] <= b[m][f] /\ b[m][f] <= c[m][f]
    BY DEF Within
  <2>4. QED
    BY <2>2, <2>3
<1>2. QED
  BY <1>1 DEF Within

LEMMA WithinReflexive ==
  ASSUME NEW a \in DayCounts
  PROVE  Within(a, a)
<1>1. ASSUME NEW m \in Models, NEW f \in Quantities
      PROVE  a[m][f] <= a[m][f]
  <2>1. a[m][f] \in Nat
    BY CountFacts DEF DayCounts
  <2>2. QED
    BY <2>1
<1>2. QED
  BY <1>1 DEF Within

\* From h to h2 no day that a report at time u reaches has lost anything.
Grows(h, h2, u) == \A d \in Days : d > DayOf(u) - Retained => Within(h[d], h2[d])

LEMMA FaithfulKept ==
  ASSUME NEW x \in Reading, NEW t \in Nat, NEW u \in Nat, t <= u, x.since <= t,
         NEW h \in Accounts, NEW h2 \in Accounts, NEW o \in Accounts, NEW o2 \in Accounts,
         Grows(h, h2, u), \A d \in Days : Within(o[d], o2[d]),
         Faithful(x, t, h, o)
  PROVE  Faithful(x, u, h2, o2)
<1>1. PICK keep \in Nat : keep = Retained
  BY RetainedFacts
<1>2. PICK before \in Nat : before = DayOf(t)
  BY DayBounds
<1>3. PICK after \in Nat : after = DayOf(u)
  BY DayBounds
<1>4. PICK asked \in Nat : asked = DayOf(x.since)
  BY ReadingFacts, DayBounds
<1>5. before <= after /\ asked <= before
  <2>1. x.since \in Nat
    BY ReadingFacts
  <2>2. DayOf(t) <= DayOf(u) /\ DayOf(x.since) <= DayOf(t)
    BY <2>1, DayMonotone
  <2>3. QED
    BY <1>2, <1>3, <1>4, <2>2
<1>6. PICK n \in Nat : /\ n = Len(x.wanted) /\ x.wanted \in [1 .. n -> Days]
                       /\ x.floor \in [1 .. n -> DayCounts]
  <2>1. Len(x.floor) = Len(x.wanted)
    BY DEF Faithful, Shape
  <2>2. QED
    BY <2>1, ReadingFacts
<1>7. PICK r \in Nat : r = Len(x.raw) /\ r <= n /\ x.raw \in [1 .. r -> DayCounts]
  <2>1. Len(x.raw) <= Len(x.wanted)
    BY DEF Faithful, Shape
  <2>2. QED
    BY <1>6, <2>1, ReadingFacts
<1>8. ASSUME x.at # "degraded" PROVE Read(x, u, o2)
  <2>1. SUFFICES ASSUME NEW i \in 1 .. r
                 PROVE  /\ IsFiniteSet(Present(x.raw[i]))
                        /\ Within(x.raw[i], o2[x.wanted[i]])
                        /\ (Retained > 1 \/ DayOf(u) = DayOf(x.since)) => Ahead(x.raw[i])
                        /\ x.wanted[i] > DayOf(u) - Retained => Within(x.floor[i], x.raw[i])
    BY <1>7 DEF Read
  <2>2. /\ IsFiniteSet(Present(x.raw[i])) /\ Within(x.raw[i], o[x.wanted[i]])
        /\ (Retained > 1 \/ DayOf(t) = DayOf(x.since)) => Ahead(x.raw[i])
        /\ x.wanted[i] > DayOf(t) - Retained => Within(x.floor[i], x.raw[i])
    BY <1>7, <1>8 DEF Faithful, Read
  <2>3. PICK d \in Days : d = x.wanted[i]
    BY <1>6, <1>7
  <2>4. d \in Nat
    BY <2>3 DEF Days
  <2>5. Within(x.raw[i], o2[d])
    BY <1>7, <2>2, <2>3, AccountFacts, WithinTransitive
  <2>6. (Retained > 1 \/ DayOf(u) = DayOf(x.since)) => Ahead(x.raw[i])
    BY <1>2, <1>3, <1>4, <1>5, <2>2
  <2>7. d > after - keep => d > before - keep
    BY <1>1, <1>2, <1>3, <1>5, <2>4
  <2>8. QED
    BY <1>1, <1>2, <1>3, <2>2, <2>3, <2>5, <2>6, <2>7
<1>9. ASSUME x.at # "degraded" PROVE Unread(x, u, h2)
  <2>1. SUFFICES ASSUME NEW i \in r + 1 .. n, x.wanted[i] > DayOf(u) - Retained
                 PROVE  Within(x.floor[i], h2[x.wanted[i]])
    BY <1>6, <1>7 DEF Unread
  <2>2. i \in 1 .. n
    BY <1>7
  <2>3. PICK d \in Days : d = x.wanted[i] /\ d \in Nat
    BY <1>6, <2>2 DEF Days
  <2>4. d > after - keep /\ d > before - keep
    BY <1>1, <1>2, <1>3, <1>5, <2>1, <2>3
  <2>5. Within(x.floor[i], h[d])
    <3>1. i \in Len(x.raw) + 1 .. Len(x.wanted)
      BY <1>6, <1>7
    <3>2. x.wanted[i] > DayOf(t) - Retained
      BY <1>1, <1>2, <2>3, <2>4
    <3>3. QED
      BY <1>9, <2>3, <3>1, <3>2 DEF Faithful, Unread
  <2>6. Within(h[d], h2[d])
    BY <1>1, <1>3, <2>3, <2>4 DEF Grows
  <2>7. x.floor[i] \in DayCounts
    BY <1>6, <2>2
  <2>8. QED
    BY <2>3, <2>5, <2>6, <2>7, AccountFacts, WithinTransitive
<1>10. QED
  BY <1>8, <1>9 DEF Faithful

\* One more day is read, as good as the hash it is read from.
LEMMA FaithfulReading ==
  ASSUME NEW x \in Reading, x.at = "reading", NEW t \in Nat,
         NEW h \in Accounts, NEW o \in Accounts, Faithful(x, t, h, o),
         NEW raw, raw = Append(x.raw, h[x.wanted[Len(x.raw) + 1]]),
         NEW y, y = [at |-> IF Len(raw) = Len(x.wanted) THEN "reported" ELSE "reading",
                     key |-> x.key, since |-> x.since, wanted |-> x.wanted,
                     raw |-> raw, floor |-> x.floor],
         \A d \in Days : /\ IsFiniteSet(Present(h[d])) /\ Within(h[d], o[d])
                         /\ (Retained > 1 \/ d >= DayOf(t)) => Ahead(h[d])
  PROVE  y \in Reading /\ Faithful(y, t, h, o)
<1>1. PICK n \in Nat : /\ n = Len(x.wanted) /\ x.wanted \in [1 .. n -> Days] /\ n > 0
                       /\ x.floor \in [1 .. n -> DayCounts] /\ Len(x.floor) = n
  <2>1. Len(x.floor) = Len(x.wanted) /\ Len(x.wanted) > 0
    BY DEF Faithful, Shape
  <2>2. QED
    BY <2>1, ReadingFacts
<1>2. PICK r \in Nat : r = Len(x.raw) /\ r < n /\ x.raw \in [1 .. r -> DayCounts]
  <2>1. Len(x.raw) <= Len(x.wanted) /\ Len(x.raw) # Len(x.wanted)
    BY DEF Faithful, Shape
  <2>2. x.raw \in Seq(DayCounts)
    BY ReadingFacts
  <2>3. QED
    BY <1>1, <2>1, <2>2
<1>3. r + 1 \in 1 .. n
  BY <1>2
<1>4. PICK next \in Days : next = x.wanted[r + 1]
  BY <1>1, <1>3
<1>5. h[next] \in DayCounts
  BY AccountFacts
<1>6. /\ raw \in Seq(DayCounts) /\ Len(raw) = r + 1 /\ raw[r + 1] = h[next]
      /\ \A i \in 1 .. r : raw[i] = x.raw[i]
  BY <1>2, <1>4, <1>5, ReadingFacts
<1>7. /\ y.at = IF r + 1 = n THEN "reported" ELSE "reading"
      /\ y.key = x.key /\ y.since = x.since /\ y.wanted = x.wanted
      /\ y.raw = raw /\ y.floor = x.floor
  BY <1>1, <1>6
<1>8. y.at \in Reads /\ y.at # "degraded" /\ (y.at # "reading" <=> r + 1 = n)
  BY <1>7 DEF Reads
<1>9. y \in Reading
  BY <1>6, <1>7, <1>8, ReadingFacts DEF Reading
<1>10. Shape(y)
  <2>1. \A i \in DOMAIN x.wanted : x.wanted[i] > DayOf(x.since) - Retained
    BY DEF Faithful, Shape
  <2>2. QED
    BY <1>1, <1>2, <1>6, <1>7, <1>8, <2>1 DEF Shape
<1>11. Read(x, t, o) /\ Unread(x, t, h)
  BY DEF Faithful
<1>12. Read(y, t, o)
  <2>1. SUFFICES ASSUME NEW i \in 1 .. r + 1
                 PROVE  /\ IsFiniteSet(Present(raw[i])) /\ Within(raw[i], o[x.wanted[i]])
                        /\ (Retained > 1 \/ DayOf(t) = DayOf(x.since)) => Ahead(raw[i])
                        /\ x.wanted[i] > DayOf(t) - Retained => Within(x.floor[i], raw[i])
    BY <1>6, <1>7 DEF Read
  <2>2. CASE i \in 1 .. r
    BY <1>2, <1>6, <1>11, <2>2 DEF Read
  <2>3. CASE i = r + 1
    <3>1. IsFiniteSet(Present(h[next])) /\ Within(h[next], o[next])
          /\ ((Retained > 1 \/ next >= DayOf(t)) => Ahead(h[next]))
      OBVIOUS
    <3>2. ASSUME DayOf(t) = DayOf(x.since), ~(Retained > 1) PROVE next >= DayOf(t)
      <4>1. next > DayOf(x.since) - Retained
        BY <1>1, <1>3, <1>4 DEF Faithful, Shape
      <4>2. PICK keep \in Nat : keep = Retained /\ keep = 1
        BY <3>2, RetainedFacts
      <4>3. PICK today \in Nat : today = DayOf(t)
        BY DayBounds
      <4>4. next \in Int
        BY <1>4 DEF Days
      <4>5. next > today - keep
        BY <3>2, <4>1, <4>2, <4>3
      <4>6. QED
        BY <4>2, <4>3, <4>4, <4>5
    <3>3. x.wanted[i] > DayOf(t) - Retained => Within(x.floor[i], h[next])
      <4>1. i \in Len(x.raw) + 1 .. Len(x.wanted) /\ x.wanted[i] = next
        BY <1>1, <1>2, <1>4, <2>3
      <4>2. QED
        BY <1>11, <4>1 DEF Unread
    <3>4. QED
      BY <1>4, <1>6, <2>3, <3>1, <3>2, <3>3
  <2>4. QED
    BY <1>2, <2>2, <2>3
<1>13. Unread(y, t, h)
  <2>1. SUFFICES ASSUME NEW i \in r + 2 .. n, x.wanted[i] > DayOf(t) - Retained
                 PROVE  Within(x.floor[i], h[x.wanted[i]])
    <3>1. Len(y.raw) + 1 = r + 2 /\ Len(y.wanted) = n
      BY <1>1, <1>6, <1>7
    <3>2. QED
      BY <1>7, <3>1 DEF Unread
  <2>2. i \in Len(x.raw) + 1 .. Len(x.wanted)
    BY <1>1, <1>2
  <2>3. QED
    BY <1>11, <2>1, <2>2 DEF Unread
<1>14. QED
  BY <1>8, <1>9, <1>10, <1>12, <1>13 DEF Faithful

-----------------------------------------------------------------------------
(* The invariant, step by step.                                            *)

LEMMA StateFacts ==
  ASSUME Typed
  PROVE  /\ now \in Nat /\ now \in 0 .. MaxTicks
         /\ \A k \in Keys, d \in Days, m \in Models, f \in Quantities :
              hash[k][d][m][f] \in Nat /\ owed[k][d][m][f] \in Nat
         /\ \A k \in Keys, d \in Days, m \in Models :
              hash[k][d][m].requests \in Nat /\ hash[k][d][m].unmetered \in Nat
<1>1. \A k \in Keys, d \in Days, m \in Models, f \in Quantities :
         hash[k][d][m][f] \in Nat /\ owed[k][d][m][f] \in Nat
  <2>1. SUFFICES ASSUME NEW k \in Keys, NEW d \in Days, NEW m \in Models, NEW f \in Quantities
                 PROVE  hash[k][d][m][f] \in Nat /\ owed[k][d][m][f] \in Nat
    OBVIOUS
  <2>2. hash[k] \in Accounts /\ owed[k] \in Accounts
    BY LedgerFacts DEF Typed
  <2>3. QED
    BY <2>2, AccountFacts
<1>2. "requests" \in Quantities /\ "unmetered" \in Quantities
  BY DEF Quantities
<1>3. QED
  BY <1>1, <1>2, LedgerAssumption DEF Typed

\* Steps that leave Redis and the history alone, and the job not recording.
LEMMA Quiet ==
  ASSUME IInv, NEW j \in Jobs, NEW y \in AJob, y.at # "recording",
         job' = [job EXCEPT ![j] = y], UNCHANGED <<now, hash, owed, settled>>,
         y.at # "idle" => y.since <= now,
         y.at \in Reads => Faithful(y, now, hash[y.key], owed[y.key])
  PROVE  Typed' /\ Handed' /\ Held' /\ Behind' /\ Finite' /\ Reporting'
<1>1. job \in [Jobs -> AJob] /\ Moves(job, j, y, job')
  BY DEF IInv, Typed, Moves
<1>2. \A l \in Jobs : job'[l] \in AJob /\ (l # j => job'[l] = job[l]) /\ job'[j] = y
  BY <1>1
<1>3. Typed'
  <2>1. job' \in [Jobs -> AJob]
    BY <1>1
  <2>2. QED
    BY <1>2, <2>1 DEF IInv, Typed
<1>4. Handed' /\ Finite'
  BY DEF IInv, Handed, Finite
<1>5. ASSUME NEW k \in Keys, NEW d \in Days, NEW m \in Models, NEW f \in Quantities
      PROVE  hash[k][d][m][f] + InFlight(job', k, d, m, f) <= owed[k][d][m][f]
  <2>1. hash[k][d][m][f] \in Nat /\ owed[k][d][m][f] \in Nat
    BY StateFacts DEF IInv
  <2>2. hash[k][d][m][f] + InFlight(job, k, d, m, f) <= owed[k][d][m][f]
    BY DEF IInv, Held
  <2>3. Pending(y, k, d, m, f) = 0 /\ Pending(job[j], k, d, m, f) \in Nat
    BY <1>1, PendingFacts
  <2>4. hash[k][d][m][f] + Pending(y, k, d, m, f) + owed[k][d][m][f]
          <= hash[k][d][m][f] + Pending(job[j], k, d, m, f) + owed[k][d][m][f]
    BY <2>1, <2>3
  <2>5. QED
    BY <1>1, <2>1, <2>2, <2>4, HeldAcross
<1>6. ASSUME NEW k \in Keys, NEW d \in Days, NEW m \in Models, Retained > 1 \/ d >= DayOf(now)
      PROVE  hash[k][d][m].unmetered + Marks(job', k, d, m) <= hash[k][d][m].requests
  <2>1. hash[k][d][m].unmetered \in Nat /\ hash[k][d][m].requests \in Nat
    BY StateFacts DEF IInv
  <2>2. hash[k][d][m].unmetered + Marks(job, k, d, m) <= hash[k][d][m].requests
    BY <1>6 DEF IInv, Behind
  <2>3. Marked(y, k, d, m) = 0 /\ Marked(job[j], k, d, m) \in Nat
    BY <1>1, PendingFacts DEF Quantities
  <2>4. hash[k][d][m].unmetered + Marked(y, k, d, m) + hash[k][d][m].requests
          <= hash[k][d][m].unmetered + Marked(job[j], k, d, m) + hash[k][d][m].requests
    BY <2>1, <2>3
  <2>5. QED
    BY <1>1, <2>1, <2>2, <2>4, BehindAcross
<1>7. Held'
  BY <1>5 DEF Held
<1>8. Behind'
  BY <1>6 DEF Behind
<1>9. Reporting'
  <2>1. ASSUME NEW l \in Jobs, job'[l].at \in Reads
        PROVE  Faithful(job'[l], now, hash[job'[l].key], owed[job'[l].key])
    <3>1. CASE l = j
      BY <1>2, <2>1, <3>1
    <3>2. CASE l # j
      BY <1>2, <2>1, <3>2 DEF IInv, Reporting
    <3>3. QED
      BY <3>1, <3>2
  <2>2. QED
    BY <2>1 DEF Reporting
<1>10. QED
  BY <1>3, <1>4, <1>7, <1>8, <1>9

LEMMA LastsKept ==
  ASSUME Lasts, UNCHANGED ttl
  PROVE  Lasts'
BY DEF Lasts

\* Sent, for the last command and for the others.
LEMMA SentFacts ==
  ASSUME Typed, NEW j \in Jobs, job[j].at = "recording", job' = Sent(j)
  PROVE  /\ job[j].command = 5 => job' = [job EXCEPT ![j] = Idle]
         /\ job[j].command # 5 =>
              job' = [job EXCEPT ![j] = [at |-> "recording", key |-> job[j].key,
                                         since |-> job[j].since, spent |-> job[j].spent,
                                         command |-> job[j].command + 1]]
<1>1. Len(Pipeline) = 5
  BY PlaceFacts
<1>2. CASE job[j].command = 5
  BY <1>1, <1>2 DEF Sent
<1>3. CASE job[j].command # 5
  <2>1. job \in [Jobs -> AJob] /\ job[j] \in Recording
    BY JobFacts DEF Typed
  <2>2. job' = [job EXCEPT ![j] = [job[j] EXCEPT !.command = job[j].command + 1]]
    BY <1>1, <1>3, <2>1 DEF Sent
  <2>3. [job[j] EXCEPT !.command = job[j].command + 1]
          = [at |-> "recording", key |-> job[j].key, since |-> job[j].since,
             spent |-> job[j].spent, command |-> job[j].command + 1]
    BY <2>1 DEF Recording
  <2>4. QED
    BY <1>3, <2>2, <2>3
<1>4. QED
  BY <1>2, <1>3

LEMMA CutStep ==
  ASSUME IInv, NEW j \in Jobs, Cut(j)
  PROVE  IInv'
<1>1. job' = [job EXCEPT ![j] = Idle] /\ UNCHANGED <<now, hash, owed, settled, ttl>>
  BY DEF Cut, history
<1>2. Lasts'
  BY <1>1, LastsKept DEF IInv
<1>3. Idle.at \notin Reads /\ Idle.at # "recording"
  BY IdleFacts DEF Reads
<1>4. Typed' /\ Handed' /\ Held' /\ Behind' /\ Finite' /\ Reporting'
  BY <1>1, <1>3, IdleFacts, Quiet
<1>5. QED
  BY <1>2, <1>4 DEF IInv

LEMMA AnswerStep ==
  ASSUME IInv, NEW j \in Jobs, Answer(j)
  PROVE  IInv'
<1>1. job' = [job EXCEPT ![j] = Idle] /\ UNCHANGED <<now, hash, owed, settled, ttl>>
  BY DEF Answer, history
<1>2. Lasts'
  BY <1>1, LastsKept DEF IInv
<1>3. Idle.at \notin Reads /\ Idle.at # "recording"
  BY IdleFacts DEF Reads
<1>4. Typed' /\ Handed' /\ Held' /\ Behind' /\ Finite' /\ Reporting'
  BY <1>1, <1>3, IdleFacts, Quiet
<1>5. QED
  BY <1>2, <1>4 DEF IInv

\* The hash of the job's day lasts until that day is beyond every report.
LEMMA ExpireStep ==
  ASSUME IInv, NEW j \in Jobs, Expire(j)
  PROVE  IInv'
<1>1. PICK x : x = job[j]
  OBVIOUS
<1>2. x \in Recording /\ x.key \in Keys /\ x.since \in Nat /\ x.command \in 1 .. 5
      /\ x.at = "recording" /\ x.since <= now
  <2>1. x \in Recording /\ x.at = "recording"
    BY <1>1, JobFacts DEF Expire, IInv, Typed
  <2>2. x.since <= now
    BY <1>1, <2>1 DEF IInv, Typed
  <2>3. QED
    BY <2>1, <2>2, RecordingFacts
<1>3. x.command = 5
  BY <1>1, <1>2, PlaceFacts DEF Expire
<1>4. job' = [job EXCEPT ![j] = Idle] /\ UNCHANGED <<now, hash, owed, settled>>
  BY <1>1, <1>2, <1>3, SentFacts DEF Expire, history, IInv
<1>5. Idle.at \notin Reads /\ Idle.at # "recording"
  BY IdleFacts DEF Reads
<1>6. Typed' /\ Handed' /\ Held' /\ Behind' /\ Finite' /\ Reporting'
  BY <1>4, <1>5, IdleFacts, Quiet
<1>7. Lasts'
  <2>1. PICK time \in Nat : time = now /\ time <= MaxTicks /\ MaxTicks \in Nat
    BY StateFacts, LedgerAssumption DEF IInv
  <2>2. PICK day \in Days : day = Day(x) /\ day \in Nat /\ day * TicksPerDay <= time
    <3>1. DayOf(x.since) \in Nat /\ DayOf(x.since) * TicksPerDay <= x.since
      BY <1>2, DayBounds
    <3>2. DayOf(x.since) \in Days
      BY <1>2, <2>1, DayInDays
    <3>3. DayOf(x.since) * TicksPerDay <= time
      <4>1. DayOf(x.since) * TicksPerDay \in Int
        BY <3>1, LedgerAssumption
      <4>2. QED
        BY <1>2, <2>1, <3>1, <4>1
    <3>4. QED
      BY <3>1, <3>2, <3>3 DEF Day
  <2>3. PICK n \in Nat : n = TicksPerDay
    BY LedgerAssumption
  <2>4. PICK keep \in Nat : keep = Retained /\ keep <= RetentionDays + 1
    BY RetainedFacts
  <2>5. PICK until \in Nat : until = time + keep * n
    OBVIOUS
  <2>6. until >= (day + keep) * n
    <3>1. (day + keep) * n = day * n + keep * n /\ day * n \in Nat /\ keep * n \in Nat
      BY <2>2, <2>3, <2>4
    <3>2. QED
      BY <2>1, <2>2, <2>3, <2>5, <3>1
  <2>7. until \in 0 .. Never
    <3>1. RetentionDays + 1 \in Nat
      BY LedgerAssumption
    <3>2. keep * n \in Int /\ (RetentionDays + 1) * n \in Int /\ keep * n <= (RetentionDays + 1) * n
      BY <2>3, <2>4, <3>1, TimesMonotone
    <3>3. Never = MaxTicks + (RetentionDays + 1) * n + 1
      BY <2>3 DEF Never
    <3>4. QED
      BY <2>1, <2>5, <3>2, <3>3
  <2>8. \/ ttl' = ttl
        \/ ttl' = [ttl EXCEPT ![x.key][day] = until]
    <3>1. ttl' = [ttl EXCEPT ![x.key][Day(x)] =
                    IF hash[x.key][Day(x)] = EmptyDay THEN @ ELSE now + Retained * TicksPerDay]
      BY <1>1 DEF Expire
    <3>2. CASE hash[x.key][Day(x)] = EmptyDay
      <4>1. ttl' = [ttl EXCEPT ![x.key][day] = @]
        BY <2>2, <3>1, <3>2
      <4>2. ttl \in [Keys -> [Days -> 0 .. Never]]
        BY DEF IInv, Lasts
      <4>3. QED
        BY <1>2, <2>2, <4>1, <4>2
    <3>3. CASE hash[x.key][Day(x)] # EmptyDay
      BY <2>1, <2>2, <2>3, <2>4, <2>5, <3>1, <3>3
    <3>4. QED
      BY <3>2, <3>3
  <2>9. CASE ttl' = ttl
    BY <2>9, LastsKept DEF IInv
  <2>10. CASE ttl' = [ttl EXCEPT ![x.key][day] = until]
    <3>1. ttl \in [Keys -> [Days -> 0 .. Never]]
      BY DEF IInv, Lasts
    <3>2. ttl' \in [Keys -> [Days -> 0 .. Never]]
      BY <1>2, <2>2, <2>7, <2>10, <3>1
    <3>3. ASSUME NEW k \in Keys, NEW d \in Days
          PROVE  ttl'[k][d] >= (d + Retained) * TicksPerDay
      <4>1. CASE k = x.key /\ d = day
        BY <1>2, <2>2, <2>3, <2>4, <2>6, <2>10, <3>1, <4>1
      <4>2. CASE ~(k = x.key /\ d = day)
        <5>1. ttl'[k][d] = ttl[k][d]
          BY <1>2, <2>2, <2>10, <3>1, <4>2
        <5>2. QED
          BY <5>1 DEF IInv, Lasts
      <4>3. QED
        BY <4>1, <4>2
    <3>4. QED
      BY <3>2, <3>3 DEF Lasts
  <2>11. QED
    BY <2>8, <2>9, <2>10
<1>8. QED
  BY <1>6, <1>7 DEF IInv

LEMMA ReportStep ==
  ASSUME IInv, NEW j \in Jobs, NEW k \in Keys, NEW days \in AskedDays, Report(j, k, days)
  PROVE  IInv'
<1>1. PICK wanted : wanted = Wanted(days)
  OBVIOUS
<1>2. PICK n \in Nat : /\ n > 0 /\ wanted \in [1 .. n -> Days]
                       /\ \A i \in 1 .. n : wanted[i] > DayOf(now) - Retained
  <2>1. now \in 0 .. MaxTicks /\ days \in Nat
    BY StateFacts, LedgerAssumption DEF IInv
  <2>2. QED
    BY <1>1, <2>1, WantedFacts
<1>3. PICK floor : floor = [i \in 1 .. n |-> hash[k][wanted[i]]]
  OBVIOUS
<1>4. hash[k] \in Accounts /\ now \in Nat
  BY LedgerFacts, StateFacts DEF IInv, Typed
<1>5. \A i \in 1 .. n : hash[k][wanted[i]] \in DayCounts
  BY <1>2, <1>4, AccountFacts
<1>6. floor \in [1 .. n -> DayCounts]
  BY <1>3, <1>5
<1>7. PICK y : y = [at |-> "reading", key |-> k, since |-> now, wanted |-> wanted,
                    raw |-> <<>>, floor |-> floor]
  OBVIOUS
<1>8. /\ y.at = "reading" /\ y.key = k /\ y.since = now /\ y.wanted = wanted
      /\ y.raw = <<>> /\ y.floor = floor
  BY <1>7
<1>9. y.at \in Reads /\ y.at # "degraded" /\ y.at # "recording"
  BY <1>8 DEF Reads
<1>10. wanted \in Seq(Days) /\ floor \in Seq(DayCounts) /\ <<>> \in Seq(DayCounts)
       /\ Len(wanted) = n /\ Len(floor) = n /\ Len(<<>>) = 0 /\ DOMAIN wanted = 1 .. n
  BY <1>2, <1>6
<1>11. y \in Reading
  BY <1>4, <1>7, <1>9, <1>10 DEF Reading, Reads
<1>12. Shape(y)
  BY <1>2, <1>8, <1>10 DEF Shape
<1>13. Read(y, now, owed[k])
  BY <1>8, <1>10 DEF Read
<1>14. Unread(y, now, hash[k])
  <2>1. ASSUME NEW i \in 1 .. n
        PROVE  Within(floor[i], hash[k][wanted[i]])
    BY <1>3, <1>5, WithinReflexive
  <2>2. QED
    BY <1>8, <1>10, <2>1 DEF Unread
<1>15. Faithful(y, now, hash[y.key], owed[y.key])
  BY <1>8, <1>9, <1>12, <1>13, <1>14 DEF Faithful
<1>16. job' = [job EXCEPT ![j] = y] /\ UNCHANGED <<now, hash, owed, settled, ttl>>
  <2>1. DOMAIN wanted = 1 .. n
    BY <1>2
  <2>2. QED
    BY <1>1, <1>3, <1>7, <2>1 DEF Report, history
<1>17. y \in AJob /\ y.since <= now
  BY <1>4, <1>8, <1>11, ReadingFacts
<1>18. Typed' /\ Handed' /\ Held' /\ Behind' /\ Finite' /\ Reporting'
  BY <1>9, <1>15, <1>16, <1>17, Quiet
<1>19. Lasts'
  BY <1>16, LastsKept DEF IInv
<1>20. QED
  BY <1>18, <1>19 DEF IInv

\* What Redis holds of a day is fit to be reported.
LEMMA HashFacts ==
  ASSUME IInv, NEW k \in Keys, NEW d \in Days
  PROVE  /\ IsFiniteSet(Present(hash[k][d])) /\ Within(hash[k][d], owed[k][d])
         /\ (Retained > 1 \/ d >= DayOf(now)) => Ahead(hash[k][d])
<1>1. IsFiniteSet(Present(hash[k][d]))
  BY DEF IInv, Finite
<1>2. ASSUME NEW m \in Models, NEW f \in Quantities
      PROVE  hash[k][d][m][f] <= owed[k][d][m][f]
  <2>1. hash[k][d][m][f] \in Nat /\ owed[k][d][m][f] \in Nat
    BY StateFacts DEF IInv
  <2>2. hash[k][d][m][f] + InFlight(job, k, d, m, f) <= owed[k][d][m][f]
    BY DEF IInv, Held
  <2>3. InFlight(job, k, d, m, f) \in Nat
    BY NothingInFlight DEF IInv, Typed
  <2>4. QED
    BY <2>1, <2>2, <2>3
<1>3. ASSUME Retained > 1 \/ d >= DayOf(now), NEW m \in Models
      PROVE  hash[k][d][m].unmetered <= hash[k][d][m].requests
  <2>1. hash[k][d][m].unmetered \in Nat /\ hash[k][d][m].requests \in Nat
    BY StateFacts DEF IInv
  <2>2. hash[k][d][m].unmetered + Marks(job, k, d, m) <= hash[k][d][m].requests
    BY <1>3 DEF IInv, Behind
  <2>3. Marks(job, k, d, m) \in Nat
    BY NothingInFlight DEF IInv, Typed
  <2>4. QED
    BY <2>1, <2>2, <2>3
<1>4. QED
  BY <1>1, <1>2, <1>3 DEF Within, Ahead

\* A report under way, as its steps find it.
LEMMA ReportUnderWay ==
  ASSUME IInv, NEW j \in Jobs, job[j].at = "reading"
  PROVE  /\ job[j] \in Reading /\ job[j].key \in Keys /\ job[j].since <= now
         /\ hash[job[j].key] \in Accounts /\ owed[job[j].key] \in Accounts
         /\ Faithful(job[j], now, hash[job[j].key], owed[job[j].key])
<1>1. job[j].at \in Reads /\ job[j].at # "idle"
  BY DEF Reads
<1>2. job[j] \in Reading /\ job[j].since <= now
  BY <1>1, JobFacts DEF IInv, Typed
<1>3. job[j].key \in Keys
  BY <1>2, ReadingFacts
<1>4. hash[job[j].key] \in Accounts /\ owed[job[j].key] \in Accounts
  BY <1>3, LedgerFacts DEF IInv, Typed
<1>5. QED
  BY <1>1, <1>2, <1>3, <1>4 DEF IInv, Reporting

\* A report whose lines and stage are replaced.
LEMMA Replaced ==
  ASSUME NEW x \in Reading, NEW raw, NEW at
  PROVE  [[x EXCEPT !.raw = raw] EXCEPT !.at = at]
           = [at |-> at, key |-> x.key, since |-> x.since, wanted |-> x.wanted,
              raw |-> raw, floor |-> x.floor]
<1>1. PICK y : y = [x EXCEPT !.raw = raw]
  OBVIOUS
<1>2. PICK z : z = [y EXCEPT !.at = at]
  OBVIOUS
<1>3. DOMAIN x = {"at", "key", "since", "wanted", "raw", "floor"}
  BY DEF Reading
<1>4. DOMAIN y = DOMAIN x /\ DOMAIN z = DOMAIN x
  BY <1>1, <1>2
<1>5. y = [f \in DOMAIN x |-> IF f = "raw" THEN raw ELSE x[f]]
  BY <1>1, <1>3
<1>6. z = [f \in DOMAIN x |-> IF f = "at" THEN at ELSE y[f]]
  BY <1>1, <1>2, <1>3, <1>4
<1>7. z = [f \in DOMAIN x |-> IF f = "at" THEN at ELSE IF f = "raw" THEN raw ELSE x[f]]
  BY <1>5, <1>6
<1>8. PICK w : w = [at |-> at, key |-> x.key, since |-> x.since, wanted |-> x.wanted,
              raw |-> raw, floor |-> x.floor]
  OBVIOUS
<1>9. w = [f \in DOMAIN x |-> IF f = "at" THEN at ELSE IF f = "raw" THEN raw ELSE x[f]]
  BY <1>3, <1>8
<1>10. QED
  BY <1>1, <1>2, <1>7, <1>8, <1>9

LEMMA ReadDayStep ==
  ASSUME IInv, NEW j \in Jobs, ReadDay(j)
  PROVE  IInv'
<1>1. PICK x : x = job[j]
  OBVIOUS
<1>2. /\ x \in Reading /\ x.at = "reading" /\ x.key \in Keys /\ x.since <= now
      /\ hash[x.key] \in Accounts /\ owed[x.key] \in Accounts
      /\ Faithful(x, now, hash[x.key], owed[x.key]) /\ now \in Nat
  BY <1>1, ReportUnderWay, StateFacts DEF ReadDay, IInv
<1>3. PICK raw : raw = Append(x.raw, hash[x.key][x.wanted[Len(x.raw) + 1]])
  OBVIOUS
<1>4. PICK y : y = [at |-> IF Len(raw) = Len(x.wanted) THEN "reported" ELSE "reading",
                    key |-> x.key, since |-> x.since, wanted |-> x.wanted,
                    raw |-> raw, floor |-> x.floor]
  OBVIOUS
<1>5. \A d \in Days : /\ IsFiniteSet(Present(hash[x.key][d]))
                      /\ Within(hash[x.key][d], owed[x.key][d])
                      /\ (Retained > 1 \/ d >= DayOf(now)) => Ahead(hash[x.key][d])
  BY <1>2, HashFacts
<1>6. y \in Reading /\ Faithful(y, now, hash[x.key], owed[x.key])
  BY <1>2, <1>3, <1>4, <1>5, FaithfulReading
<1>7. y.key = x.key /\ y.since = x.since
  BY <1>4
<1>8. y \in AJob /\ y.at # "recording"
  BY <1>6, ReadingFacts DEF Reads
<1>9. job' = [job EXCEPT ![j] = y]
  <2>1. job \in [Jobs -> AJob]
    BY DEF IInv, Typed
  <2>2. job' = [job EXCEPT ![j].raw = raw,
                           ![j].at = IF Len(raw) = Len(x.wanted) THEN "reported" ELSE @]
    BY <1>1, <1>3 DEF ReadDay
  <2>3. PICK at : at = IF Len(raw) = Len(x.wanted) THEN "reported" ELSE "reading"
    OBVIOUS
  <2>4. [x EXCEPT !.raw = raw].at = "reading"
    BY <1>2 DEF Reading
  <2>5. job'[j] = [[x EXCEPT !.raw = raw] EXCEPT !.at = at]
    BY <1>1, <2>1, <2>2, <2>3, <2>4
  <2>6. job' = [job EXCEPT ![j] = job'[j]]
    BY <2>1, <2>2
  <2>7. [[x EXCEPT !.raw = raw] EXCEPT !.at = at] = y
    BY <1>2, <1>4, <2>3, Replaced
  <2>8. QED
    BY <2>6, <2>7, <2>5
<1>10. UNCHANGED <<now, hash, owed, settled, ttl>>
  BY DEF ReadDay, history
<1>11. Typed' /\ Handed' /\ Held' /\ Behind' /\ Finite' /\ Reporting'
  BY <1>2, <1>6, <1>7, <1>8, <1>9, <1>10, Quiet
<1>12. Lasts'
  BY <1>10, LastsKept DEF IInv
<1>13. QED
  BY <1>11, <1>12 DEF IInv

LEMMA ReadBreaksStep ==
  ASSUME IInv, NEW j \in Jobs, ReadBreaks(j)
  PROVE  IInv'
<1>1. PICK x : x = job[j]
  OBVIOUS
<1>2. /\ x \in Reading /\ x.at = "reading" /\ x.key \in Keys /\ x.since <= now
      /\ Faithful(x, now, hash[x.key], owed[x.key])
  BY <1>1, ReportUnderWay DEF ReadBreaks
<1>3. PICK n \in Nat : /\ n = Len(x.wanted) /\ DOMAIN x.wanted = 1 .. n
                       /\ Len(x.floor) = n /\ n > 0
  BY <1>2, ReadingFacts DEF Faithful, Shape
<1>4. PICK raw : raw = [i \in 1 .. n |-> EmptyDay]
  OBVIOUS
<1>5. raw \in Seq(DayCounts) /\ Len(raw) = n /\ \A i \in 1 .. n : raw[i] = EmptyDay
  BY <1>4, EmptyFacts
<1>6. PICK y : y = [at |-> "degraded", key |-> x.key, since |-> x.since, wanted |-> x.wanted,
                    raw |-> raw, floor |-> x.floor]
  OBVIOUS
<1>7. /\ y.at = "degraded" /\ y.key = x.key /\ y.since = x.since /\ y.wanted = x.wanted
      /\ y.raw = raw /\ y.floor = x.floor
  BY <1>6
<1>8. y \in Reading
  BY <1>2, <1>5, <1>6, ReadingFacts DEF Reading, Reads
<1>9. Faithful(y, now, hash[x.key], owed[x.key])
  BY <1>2, <1>3, <1>5, <1>7 DEF Faithful, Shape
<1>10. y \in AJob /\ y.at # "recording"
  BY <1>7, <1>8, ReadingFacts
<1>11. job' = [job EXCEPT ![j] = y]
  <2>1. job \in [Jobs -> AJob]
    BY DEF IInv, Typed
  <2>2. job' = [job EXCEPT ![j].raw = raw, ![j].at = "degraded"]
    BY <1>1, <1>3, <1>4 DEF ReadBreaks
  <2>3. job'[j] = [[x EXCEPT !.raw = raw] EXCEPT !.at = "degraded"]
    BY <1>1, <2>1, <2>2
  <2>4. job' = [job EXCEPT ![j] = job'[j]]
    BY <2>1, <2>2
  <2>5. [[x EXCEPT !.raw = raw] EXCEPT !.at = "degraded"] = y
    BY <1>2, <1>6, Replaced
  <2>6. QED
    BY <2>3, <2>4, <2>5
<1>12. UNCHANGED <<now, hash, owed, settled, ttl>>
  BY DEF ReadBreaks, history
<1>13. Typed' /\ Handed' /\ Held' /\ Behind' /\ Finite' /\ Reporting'
  BY <1>2, <1>7, <1>9, <1>10, <1>11, <1>12, Quiet
<1>14. Lasts'
  BY <1>12, LastsKept DEF IInv
<1>15. QED
  BY <1>13, <1>14 DEF IInv

\* Reports under way, and what they have read, as the ledger grows.
LEMMA ReportsKept ==
  ASSUME IInv, Typed', now <= now', \A k \in Keys : Grows(hash[k], hash'[k], now'),
         \A k \in Keys, d \in Days : Within(owed[k][d], owed'[k][d]),
         \A l \in Jobs : job'[l].at \in Reads => job'[l] = job[l]
  PROVE  Reporting'
<1>1. ASSUME NEW l \in Jobs, job'[l].at \in Reads
      PROVE  Faithful(job'[l], now', hash'[job'[l].key], owed'[job'[l].key])
  <2>1. PICK x : x = job[l] /\ x = job'[l] /\ x.at \in Reads
    BY <1>1
  <2>2. x \in Reading /\ x.since <= now
    <3>1. x.at # "idle"
      BY <2>1 DEF Reads
    <3>2. QED
      BY <2>1, <3>1, JobFacts DEF IInv, Typed
  <2>3. x.key \in Keys
    BY <2>2, ReadingFacts
  <2>4. /\ hash[x.key] \in Accounts /\ owed[x.key] \in Accounts
        /\ hash'[x.key] \in Accounts /\ owed'[x.key] \in Accounts
    BY <2>3, LedgerFacts DEF IInv, Typed
  <2>5. now \in Nat /\ now' \in Nat
    BY LedgerAssumption DEF IInv, Typed
  <2>6. Faithful(x, now, hash[x.key], owed[x.key])
    BY <2>1 DEF IInv, Reporting
  <2>7. Faithful(x, now', hash'[x.key], owed'[x.key])
    BY <2>2, <2>3, <2>4, <2>5, <2>6, FaithfulKept
  <2>8. QED
    BY <2>1, <2>7
<1>2. QED
  BY <1>1 DEF Reporting

\* One count of a ledger is replaced.
Puts(h, k, d, m, c, h2) == h2 = [h EXCEPT ![k][d][m] = c]

LEMMA PutFacts ==
  ASSUME NEW h \in Ledgers, NEW k \in Keys, NEW d \in Days, NEW m \in Models,
         NEW c \in Counts, NEW h2, Puts(h, k, d, m, c, h2)
  PROVE  /\ h2 \in Ledgers /\ h2[k][d][m] = c
         /\ \A k2 \in Keys, d2 \in Days, m2 \in Models :
              ~(k2 = k /\ d2 = d /\ m2 = m) => h2[k2][d2][m2] = h[k2][d2][m2]
<1>1. h \in [Keys -> [Days -> [Models -> Counts]]]
  BY DEF Ledgers, Accounts, DayCounts
<1>2. h2 \in [Keys -> [Days -> [Models -> Counts]]] /\ h2[k][d][m] = c
  BY <1>1 DEF Puts
<1>3. ASSUME NEW k2 \in Keys, NEW d2 \in Days, NEW m2 \in Models,
             ~(k2 = k /\ d2 = d /\ m2 = m)
      PROVE  h2[k2][d2][m2] = h[k2][d2][m2]
  BY <1>1, <1>3 DEF Puts
<1>4. QED
  BY <1>2, <1>3 DEF Ledgers, Accounts, DayCounts

LEMMA CountsOf ==
  ASSUME NEW c, c \in [Quantities -> Nat], c.requests <= MaxRecords, c.unmetered <= MaxRecords
  PROVE  c \in Counts
<1>1. DOMAIN c = {"requests", "unmetered", "prompt", "completion"} /\ c = [f \in DOMAIN c |-> c[f]]
  BY DEF Quantities
<1>2. /\ c.requests \in 0 .. MaxRecords /\ c.unmetered \in 0 .. MaxRecords
      /\ c.prompt \in Nat /\ c.completion \in Nat
  BY LedgerAssumption DEF Quantities
<1>3. QED
  BY <1>1, <1>2 DEF Counts

\* A request is handed over, and nothing of it has reached Redis yet.
LEMMA RecordStep ==
  ASSUME IInv, NEW j \in Jobs, NEW k \in Keys, NEW s \in Spent, Record(j, k, s)
  PROVE  IInv'
<1>1. PICK day \in Days : day = DayOf(now)
  BY StateFacts, DayInDays DEF IInv
<1>2. PICK y : y = [at |-> "recording", key |-> k, since |-> now, spent |-> s, command |-> 1]
  OBVIOUS
<1>3. /\ job[j].at = "idle" /\ settled < MaxRecords /\ settled' = settled + 1
      /\ job' = [job EXCEPT ![j] = y] /\ UNCHANGED <<now, hash, ttl>>
      /\ owed' = [owed EXCEPT ![k][day][s.model] = Plus(@, s.usage)]
  BY <1>1, <1>2 DEF Record
<1>4. /\ y.at = "recording" /\ y.key = k /\ y.since = now /\ y.spent = s /\ y.command = 1
      /\ y \in Recording
  BY <1>2, StateFacts DEF IInv, Recording
<1>5. y \in AJob /\ job \in [Jobs -> AJob] /\ Moves(job, j, y, job')
  BY <1>3, <1>4, RecordingFacts DEF IInv, Typed, Moves
<1>6. \A l \in Jobs : job'[l] \in AJob /\ (l # j => job'[l] = job[l]) /\ job'[j] = y
  BY <1>3, <1>5
<1>7. /\ s.model \in Models /\ \A f \in Quantities : s.usage[f] \in Nat
      /\ s.usage.requests = 1 /\ s.usage.unmetered <= 1
  BY SpentFacts
<1>8. PICK m : m = s.model /\ m \in Models
  BY <1>7
<1>9. PICK c \in Counts : c = owed[k][day][m]
  BY <1>8, LedgerFacts, AccountFacts DEF IInv, Typed
<1>10. /\ DOMAIN c = Quantities /\ \A f \in Quantities : c[f] \in Nat
       /\ c.requests \in Nat /\ c.unmetered \in Nat
       /\ c.unmetered <= c.requests /\ c.requests <= settled
  BY <1>8, <1>9, CountFacts, LedgerAssumption DEF IInv, Handed
<1>11. PICK p : p = Plus(c, s.usage)
  OBVIOUS
<1>12. p = [f \in Quantities |-> c[f] + s.usage[f]]
  BY <1>10, <1>11 DEF Plus
<1>13. p \in [Quantities -> Nat]
  BY <1>7, <1>10, <1>12
<1>14. settled \in Nat /\ settled' \in 0 .. MaxRecords
  BY <1>3, LedgerAssumption DEF IInv, Typed
<1>15. s.usage.unmetered \in Nat
  BY <1>7 DEF Quantities
<1>16. p.requests = c.requests + 1 /\ p.unmetered = c.unmetered + s.usage.unmetered
  BY <1>7, <1>12 DEF Quantities
<1>17. p.unmetered <= p.requests /\ p.requests <= settled'
  BY <1>3, <1>7, <1>10, <1>14, <1>15, <1>16
<1>18. p \in Counts
  <2>1. p.requests \in Nat /\ p.unmetered \in Nat
    BY <1>10, <1>15, <1>16
  <2>2. settled' \in Nat /\ settled' <= MaxRecords /\ MaxRecords \in Nat
    BY <1>14, LedgerAssumption
  <2>3. p.requests <= MaxRecords
    BY <1>17, <2>1, <2>2
  <2>4. p.unmetered <= MaxRecords
    BY <1>17, <2>1, <2>2, <2>3
  <2>5. QED
    BY <1>13, <2>3, <2>4, CountsOf
<1>19. Puts(owed, k, day, m, p, owed')
  BY <1>3, <1>8, <1>9, <1>11 DEF Puts, IInv, Typed, Ledgers, Accounts
<1>20. /\ owed' \in Ledgers /\ owed'[k][day][m] = p
       /\ \A k2 \in Keys, d2 \in Days, m2 \in Models :
            ~(k2 = k /\ d2 = day /\ m2 = m) => owed'[k2][d2][m2] = owed[k2][d2][m2]
  BY <1>8, <1>18, <1>19, PutFacts DEF IInv, Typed
<1>21. Typed'
  <2>1. job' \in [Jobs -> AJob]
    BY <1>5, <1>3
  <2>2. \A l \in Jobs : job'[l].at # "idle" => job'[l].since <= now
    BY <1>4, <1>6, StateFacts DEF IInv, Typed
  <2>3. QED
    BY <1>3, <1>14, <1>20, <2>1, <2>2 DEF IInv, Typed
<1>22. Handed'
  <2>1. SUFFICES ASSUME NEW k2 \in Keys, NEW d2 \in Days, NEW m2 \in Models
                 PROVE  /\ owed'[k2][d2][m2].unmetered <= owed'[k2][d2][m2].requests
                        /\ owed'[k2][d2][m2].requests <= settled'
    BY DEF Handed
  <2>2. CASE k2 = k /\ d2 = day /\ m2 = m
    BY <1>17, <1>20, <2>2
  <2>3. CASE ~(k2 = k /\ d2 = day /\ m2 = m)
    <3>1. owed'[k2][d2][m2] = owed[k2][d2][m2]
      BY <1>20, <2>3
    <3>2. owed[k2][d2][m2].requests \in Nat
      BY LedgerFacts, AccountFacts, CountFacts DEF IInv, Typed, Quantities
    <3>3. /\ owed[k2][d2][m2].unmetered <= owed[k2][d2][m2].requests
          /\ owed[k2][d2][m2].requests <= settled
      BY DEF IInv, Handed
    <3>4. QED
      BY <1>3, <1>14, <3>1, <3>2, <3>3
  <2>4. QED
    BY <2>2, <2>3
<1>23. ASSUME NEW k2 \in Keys, NEW d2 \in Days, NEW m2 \in Models, NEW f \in Quantities
       PROVE  /\ hash[k2][d2][m2][f] + InFlight(job', k2, d2, m2, f) <= owed'[k2][d2][m2][f]
              /\ owed[k2][d2][m2][f] <= owed'[k2][d2][m2][f]
  <2>1. hash[k2][d2][m2][f] \in Nat /\ owed[k2][d2][m2][f] \in Nat
    BY StateFacts DEF IInv
  <2>2. hash[k2][d2][m2][f] + InFlight(job, k2, d2, m2, f) <= owed[k2][d2][m2][f]
    BY DEF IInv, Held
  <2>3. Pending(job[j], k2, d2, m2, f) = 0 /\ Pending(y, k2, d2, m2, f) \in Nat
    BY <1>3, <1>5, PendingFacts
  <2>4. owed'[k2][d2][m2][f] = owed[k2][d2][m2][f] + Pending(y, k2, d2, m2, f)
    <3>1. CASE k2 = k /\ d2 = day /\ m2 = m
      <4>1. Writes(y, k2, d2, m2)
        BY <1>1, <1>4, <1>8, <3>1 DEF Writes
      <4>2. Place[f] >= y.command
        BY <1>4, PlaceFacts
      <4>3. Pending(y, k2, d2, m2, f) = s.usage[f]
        BY <1>4, <4>1, <4>2 DEF Pending
      <4>4. QED
        BY <1>9, <1>12, <1>20, <3>1, <4>3
    <3>2. CASE ~(k2 = k /\ d2 = day /\ m2 = m)
      <4>1. ~Writes(y, k2, d2, m2)
        BY <1>1, <1>4, <1>8, <3>2 DEF Writes
      <4>2. Pending(y, k2, d2, m2, f) = 0
        BY <4>1 DEF Pending
      <4>3. QED
        BY <1>20, <2>1, <3>2, <4>2
    <3>3. QED
      BY <3>1, <3>2
  <2>5. owed'[k2][d2][m2][f] \in Nat /\ owed[k2][d2][m2][f] <= owed'[k2][d2][m2][f]
    BY <2>1, <2>3, <2>4
  <2>6. hash[k2][d2][m2][f] + Pending(y, k2, d2, m2, f) + owed[k2][d2][m2][f]
          <= hash[k2][d2][m2][f] + Pending(job[j], k2, d2, m2, f) + owed'[k2][d2][m2][f]
    BY <2>1, <2>3, <2>4
  <2>7. hash[k2][d2][m2][f] + InFlight(job', k2, d2, m2, f) <= owed'[k2][d2][m2][f]
    BY <1>5, <2>1, <2>2, <2>5, <2>6, HeldAcross
  <2>8. QED
    BY <2>5, <2>7
<1>24. Held'
  BY <1>3, <1>23 DEF Held
<1>25. Behind'
  <2>1. SUFFICES ASSUME NEW k2 \in Keys, NEW d2 \in Days, NEW m2 \in Models,
                        Retained > 1 \/ d2 >= DayOf(now)
                 PROVE  hash[k2][d2][m2].unmetered + Marks(job', k2, d2, m2)
                          <= hash[k2][d2][m2].requests
    BY <1>3 DEF Behind
  <2>2. hash[k2][d2][m2].unmetered \in Nat /\ hash[k2][d2][m2].requests \in Nat
    BY StateFacts DEF IInv
  <2>3. hash[k2][d2][m2].unmetered + Marks(job, k2, d2, m2) <= hash[k2][d2][m2].requests
    BY <2>1 DEF IInv, Behind
  <2>4. Marked(y, k2, d2, m2) = 0
    BY <1>4 DEF Marked
  <2>5. Marked(job[j], k2, d2, m2) \in Nat
    BY <1>5, PendingFacts DEF Quantities
  <2>6. hash[k2][d2][m2].unmetered + Marked(y, k2, d2, m2) + hash[k2][d2][m2].requests
          <= hash[k2][d2][m2].unmetered + Marked(job[j], k2, d2, m2) + hash[k2][d2][m2].requests
    BY <2>2, <2>4, <2>5
  <2>7. QED
    BY <1>5, <2>2, <2>3, <2>6, BehindAcross
<1>26. Finite' /\ Lasts'
  BY <1>3, LastsKept DEF IInv, Finite
<1>27. Reporting'
  <2>1. \A k2 \in Keys, d2 \in Days : Within(owed[k2][d2], owed'[k2][d2])
    BY <1>23 DEF Within
  <2>2. ASSUME NEW k2 \in Keys PROVE Grows(hash[k2], hash'[k2], now')
    <3>1. \A d2 \in Days : Within(hash[k2][d2], hash[k2][d2])
      BY LedgerFacts, AccountFacts, WithinReflexive DEF IInv, Typed
    <3>2. QED
      BY <1>3, <3>1 DEF Grows
  <2>3. \A l \in Jobs : job'[l].at \in Reads => job'[l] = job[l]
    BY <1>4, <1>6 DEF Reads
  <2>4. now <= now'
    BY <1>3, StateFacts DEF IInv
  <2>5. QED
    BY <1>21, <2>1, <2>2, <2>3, <2>4, ReportsKept
<1>28. QED
  BY <1>21, <1>22, <1>24, <1>25, <1>26, <1>27 DEF IInv

\* A command reaches Redis: what was on its way is held.
LEMMA IncrementStep ==
  ASSUME IInv, NEW j \in Jobs, Increment(j)
  PROVE  IInv' /\ \A k \in Keys, d \in Days : Within(hash[k][d], hash'[k][d])
<1>1. PICK x : x = job[j]
  OBVIOUS
<1>2. /\ x \in Recording /\ x.at = "recording" /\ x.key \in Keys /\ x.since \in Nat
      /\ x.since <= now /\ x.spent \in Spent /\ x.command \in 1 .. 5 /\ x \in AJob
  <2>1. x \in Recording /\ x.at = "recording"
    BY <1>1, JobFacts DEF Increment, IInv, Typed
  <2>2. x.since <= now
    BY <1>1, <2>1 DEF IInv, Typed
  <2>3. QED
    BY <2>1, <2>2, RecordingFacts
<1>3. PICK field : field = Pipeline[x.command]
  OBVIOUS
<1>4. field # "expire" /\ x.command # 5
  BY <1>1, <1>2, <1>3, PlaceFacts DEF Increment
<1>5. x.command \in 1 .. 4 /\ field \in Quantities /\ Place[field] = x.command
  BY <1>2, <1>3, <1>4, PlaceFacts
<1>6. PICK day \in Days : day = Day(x) /\ day = DayOf(x.since)
  <2>1. x.since \in 0 .. MaxTicks
    BY <1>2, StateFacts, LedgerAssumption DEF IInv
  <2>2. QED
    BY <2>1, DayInDays DEF Day
<1>7. PICK k \in Keys : k = x.key
  BY <1>2
<1>8. PICK m \in Models : m = x.spent.model
  BY <1>2, SpentFacts
<1>9. /\ \A f \in Quantities : x.spent.usage[f] \in Nat
      /\ x.spent.usage.requests = 1 /\ x.spent.usage.unmetered <= 1
      /\ x.spent.usage.unmetered \in Nat
  BY <1>2, SpentFacts DEF Quantities
<1>10. PICK c \in Counts : c = hash[k][day][m]
  BY LedgerFacts, AccountFacts DEF IInv, Typed
<1>11. DOMAIN c = Quantities /\ \A f \in Quantities : c[f] \in Nat
  BY CountFacts
<1>12. PICK v \in Nat : v = c[field] + x.spent.usage[field]
  BY <1>5, <1>9, <1>11
<1>13. PICK p : p = [c EXCEPT ![field] = v]
  OBVIOUS
<1>14. p = [f \in Quantities |-> IF f = field THEN v ELSE c[f]]
  BY <1>5, <1>11, <1>13
<1>15. Puts(hash, k, day, m, p, hash')
  <2>1. hash' = [hash EXCEPT ![k][day][m][field] = @ + x.spent.usage[field]]
    BY <1>1, <1>3, <1>6, <1>7, <1>8 DEF Increment
  <2>2. hash \in [Keys -> [Days -> [Models -> Counts]]]
    BY DEF IInv, Typed, Ledgers, Accounts, DayCounts
  <2>3. hash' = [hash EXCEPT ![k][day][m] = [c EXCEPT ![field] = v]]
    BY <1>10, <1>12, <2>1, <2>2
  <2>4. QED
    BY <1>13, <2>3 DEF Puts
<1>16. PICK y : y = [at |-> "recording", key |-> x.key, since |-> x.since, spent |-> x.spent,
                     command |-> x.command + 1]
  OBVIOUS
<1>17. job' = [job EXCEPT ![j] = y] /\ UNCHANGED <<now, ttl, owed, settled>>
  BY <1>1, <1>2, <1>4, <1>16, SentFacts DEF Increment, IInv, history
<1>18. /\ y.at = "recording" /\ y.key = x.key /\ y.since = x.since /\ y.spent = x.spent
       /\ y.command = x.command + 1
  BY <1>16
<1>19. y \in AJob
  BY <1>2, <1>5, <1>16, RecordingFacts DEF Recording
<1>20. job \in [Jobs -> AJob] /\ Moves(job, j, y, job')
  BY <1>17 DEF IInv, Typed, Moves
<1>21. \A l \in Jobs : job'[l] \in AJob /\ (l # j => job'[l] = job[l]) /\ job'[j] = y
  BY <1>17, <1>19, <1>20
<1>22. \A k2, d2, m2 : Writes(x, k2, d2, m2) <=> k2 = k /\ d2 = day /\ m2 = m
  BY <1>2, <1>6, <1>7, <1>8 DEF Writes
<1>23. \A k2, d2, m2 : Writes(y, k2, d2, m2) <=> k2 = k /\ d2 = day /\ m2 = m
  BY <1>6, <1>7, <1>8, <1>18 DEF Writes
\* What is held and on its way is within what was handed over, so it counts.
<1>24. ASSUME field \in {"requests", "unmetered"} PROVE v <= settled
  <2>1. Pending(x, k, day, m, field) = x.spent.usage[field]
    BY <1>5, <1>22 DEF Pending
  <2>2. Pending(x, k, day, m, field) <= InFlight(job, k, day, m, field)
    BY <1>1, <1>5, <1>20, PartOfFlight
  <2>3. c[field] + InFlight(job, k, day, m, field) <= owed[k][day][m][field]
    BY <1>5, <1>10 DEF IInv, Held
  <2>4. InFlight(job, k, day, m, field) \in Nat
    BY <1>5, <1>20, NothingInFlight
  <2>5. owed[k][day][m][field] \in Nat
    BY <1>5, StateFacts DEF IInv
  <2>6. v <= owed[k][day][m][field]
    BY <1>5, <1>9, <1>11, <1>12, <2>1, <2>2, <2>3, <2>4, <2>5
  <2>7. /\ owed[k][day][m].unmetered <= owed[k][day][m].requests
        /\ owed[k][day][m].requests <= settled
    BY DEF IInv, Handed
  <2>8. owed[k][day][m].unmetered \in Nat /\ owed[k][day][m].requests \in Nat
        /\ settled \in Nat
    BY StateFacts, LedgerAssumption DEF IInv, Typed, Quantities
  <2>9. CASE field = "requests"
    BY <1>12, <2>6, <2>7, <2>8, <2>9
  <2>10. CASE field = "unmetered"
    BY <1>12, <2>6, <2>7, <2>8, <2>10
  <2>11. QED
    BY <1>24, <2>9, <2>10
<1>25. p \in Counts
  <2>1. p \in [Quantities -> Nat]
    BY <1>11, <1>12, <1>14
  <2>2. settled \in Nat /\ settled <= MaxRecords /\ MaxRecords \in Nat
    BY LedgerAssumption DEF IInv, Typed
  <2>3. c.requests \in 0 .. MaxRecords /\ c.unmetered \in 0 .. MaxRecords
    BY CountFacts
  <2>4. p.requests = (IF field = "requests" THEN v ELSE c.requests)
        /\ p.unmetered = (IF field = "unmetered" THEN v ELSE c.unmetered)
    BY <1>14 DEF Quantities
  <2>5. p.requests <= MaxRecords
    BY <1>12, <1>24, <2>2, <2>3, <2>4
  <2>6. p.unmetered <= MaxRecords
    BY <1>12, <1>24, <2>2, <2>3, <2>4
  <2>7. QED
    BY <2>1, <2>5, <2>6, CountsOf
<1>26. /\ hash' \in Ledgers /\ hash'[k][day][m] = p
       /\ \A k2 \in Keys, d2 \in Days, m2 \in Models :
            ~(k2 = k /\ d2 = day /\ m2 = m) => hash'[k2][d2][m2] = hash[k2][d2][m2]
  BY <1>15, <1>25, PutFacts DEF IInv, Typed
<1>27. Typed'
  <2>1. job' \in [Jobs -> AJob]
    BY <1>17, <1>19, <1>20
  <2>2. \A l \in Jobs : job'[l].at # "idle" => job'[l].since <= now
    BY <1>2, <1>18, <1>21 DEF IInv, Typed
  <2>3. QED
    BY <1>17, <1>26, <2>1, <2>2 DEF IInv, Typed
<1>28. Handed' /\ Lasts'
  BY <1>17, LastsKept DEF IInv, Handed
<1>29. ASSUME NEW k2 \in Keys, NEW d2 \in Days, NEW m2 \in Models, NEW f \in Quantities
       PROVE  /\ hash'[k2][d2][m2][f] + InFlight(job', k2, d2, m2, f) <= owed[k2][d2][m2][f]
              /\ hash[k2][d2][m2][f] <= hash'[k2][d2][m2][f]
  <2>1. hash[k2][d2][m2][f] \in Nat /\ owed[k2][d2][m2][f] \in Nat
    BY StateFacts DEF IInv
  <2>2. hash[k2][d2][m2][f] + InFlight(job, k2, d2, m2, f) <= owed[k2][d2][m2][f]
    BY DEF IInv, Held
  <2>3. Pending(x, k2, d2, m2, f) \in Nat /\ Pending(y, k2, d2, m2, f) \in Nat
    BY <1>2, <1>19, PendingFacts
  <2>4. /\ hash'[k2][d2][m2][f] \in Nat /\ hash[k2][d2][m2][f] <= hash'[k2][d2][m2][f]
        /\ hash'[k2][d2][m2][f] + Pending(y, k2, d2, m2, f)
             <= hash[k2][d2][m2][f] + Pending(x, k2, d2, m2, f)
    <3>1. CASE ~(k2 = k /\ d2 = day /\ m2 = m)
      <4>1. Pending(x, k2, d2, m2, f) = 0 /\ Pending(y, k2, d2, m2, f) = 0
        BY <1>22, <1>23, <3>1 DEF Pending
      <4>2. hash'[k2][d2][m2][f] = hash[k2][d2][m2][f]
        BY <1>26, <3>1
      <4>3. QED
        BY <2>1, <4>1, <4>2
    <3>2. CASE k2 = k /\ d2 = day /\ m2 = m /\ f = field
      <4>1. Pending(x, k2, d2, m2, f) = x.spent.usage[f]
        BY <1>5, <1>22, <3>2 DEF Pending
      <4>2. Pending(y, k2, d2, m2, f) = 0
        <5>1. ~(Place[f] >= y.command)
          BY <1>5, <1>18, <3>2
        <5>2. QED
          BY <5>1 DEF Pending
      <4>3. hash'[k2][d2][m2][f] = v /\ hash[k2][d2][m2][f] = c[field]
        BY <1>5, <1>10, <1>14, <1>26, <3>2
      <4>4. v = c[field] + x.spent.usage[f]
        BY <1>12, <3>2
      <4>5. c[field] \in Nat /\ x.spent.usage[f] \in Nat
        BY <1>5, <1>9, <1>11
      <4>6. QED
        BY <1>12, <4>1, <4>2, <4>3, <4>4, <4>5
    <3>3. CASE k2 = k /\ d2 = day /\ m2 = m /\ f # field
      <4>1. Place[f] \in Nat
        BY PlaceFacts
      <4>2. Place[f] >= y.command => Place[f] >= x.command
        BY <1>5, <1>18, <4>1
      <4>3. Pending(y, k2, d2, m2, f) <= Pending(x, k2, d2, m2, f)
        BY <1>9, <1>18, <1>22, <1>23, <3>3, <4>2 DEF Pending
      <4>4. hash'[k2][d2][m2][f] = hash[k2][d2][m2][f]
        BY <1>10, <1>14, <1>26, <3>3
      <4>5. QED
        BY <2>1, <2>3, <4>3, <4>4
    <3>4. QED
      BY <3>1, <3>2, <3>3
  <2>5. hash'[k2][d2][m2][f] + Pending(y, k2, d2, m2, f) + owed[k2][d2][m2][f]
          <= hash[k2][d2][m2][f] + Pending(x, k2, d2, m2, f) + owed[k2][d2][m2][f]
    BY <2>1, <2>3, <2>4
  <2>6. QED
    BY <1>1, <1>19, <1>20, <2>1, <2>2, <2>4, <2>5, HeldAcross
<1>30. Held'
  BY <1>17, <1>29 DEF Held
<1>31. Behind'
  <2>1. SUFFICES ASSUME NEW k2 \in Keys, NEW d2 \in Days, NEW m2 \in Models,
                        Retained > 1 \/ d2 >= DayOf(now)
                 PROVE  hash'[k2][d2][m2].unmetered + Marks(job', k2, d2, m2)
                          <= hash'[k2][d2][m2].requests
    BY <1>17 DEF Behind
  <2>2. hash[k2][d2][m2].unmetered \in Nat /\ hash[k2][d2][m2].requests \in Nat
    BY StateFacts DEF IInv
  <2>3. hash[k2][d2][m2].unmetered + Marks(job, k2, d2, m2) <= hash[k2][d2][m2].requests
    BY <2>1 DEF IInv, Behind
  <2>4. /\ hash'[k2][d2][m2].unmetered \in Nat /\ hash'[k2][d2][m2].requests \in Nat
        /\ hash'[k2][d2][m2].unmetered + Marked(y, k2, d2, m2) + hash[k2][d2][m2].requests
             <= hash[k2][d2][m2].unmetered + Marked(x, k2, d2, m2)
                + hash'[k2][d2][m2].requests
    <3>1. CASE ~(k2 = k /\ d2 = day /\ m2 = m)
      <4>1. Marked(x, k2, d2, m2) = 0 /\ Marked(y, k2, d2, m2) = 0
        BY <1>22, <1>23, <3>1 DEF Marked
      <4>2. hash'[k2][d2][m2] = hash[k2][d2][m2]
        BY <1>26, <3>1
      <4>3. QED
        BY <2>2, <4>1, <4>2
    <3>2. CASE k2 = k /\ d2 = day /\ m2 = m
      <4>1. PICK mark \in Nat : mark = x.spent.usage.unmetered /\ mark <= 1
        BY <1>9
      <4>2. Marked(x, k2, d2, m2) = IF x.command = 2 THEN mark ELSE 0
        BY <1>22, <3>2, <4>1 DEF Marked
      <4>3. Marked(y, k2, d2, m2) = IF x.command = 1 THEN mark ELSE 0
        BY <1>5, <1>18, <1>23, <3>2, <4>1 DEF Marked
      <4>4. /\ hash[k2][d2][m2] = c /\ hash'[k2][d2][m2] = p
            /\ c.unmetered \in Nat /\ c.requests \in Nat
        BY <1>10, <1>26, <2>2, <3>2
      <4>5. CASE x.command = 1
        <5>1. field = "requests"
          BY <1>3, <4>5 DEF Pipeline
        <5>2. p.requests = c.requests + 1 /\ p.unmetered = c.unmetered
          BY <1>9, <1>12, <1>14, <5>1 DEF Quantities
        <5>3. QED
          BY <4>1, <4>2, <4>3, <4>4, <4>5, <5>2
      <4>6. CASE x.command = 2
        <5>1. field = "unmetered"
          BY <1>3, <4>6 DEF Pipeline
        <5>2. p.requests = c.requests /\ p.unmetered = c.unmetered + mark
          BY <1>12, <1>14, <4>1, <5>1 DEF Quantities
        <5>3. QED
          BY <4>1, <4>2, <4>3, <4>4, <4>6, <5>2
      <4>7. CASE x.command \notin {1, 2}
        <5>1. field # "requests" /\ field # "unmetered"
          BY <1>5, <4>7 DEF Place
        <5>2. p.requests = c.requests /\ p.unmetered = c.unmetered
          BY <1>14, <5>1 DEF Quantities
        <5>3. QED
          BY <4>1, <4>2, <4>3, <4>4, <4>7, <5>2
      <4>8. QED
        BY <4>5, <4>6, <4>7
    <3>3. QED
      BY <3>1, <3>2
  <2>5. PICK h \in Nat : h = hash[k2][d2][m2].unmetered
    BY <2>2
  <2>6. PICK o \in Nat : o = hash[k2][d2][m2].requests
    BY <2>2
  <2>7. PICK h2 \in Nat : h2 = hash'[k2][d2][m2].unmetered
    BY <2>4
  <2>8. PICK o2 \in Nat : o2 = hash'[k2][d2][m2].requests
    BY <2>4
  <2>9. /\ h + Marks(job, k2, d2, m2) <= o
        /\ h2 + Marked(y, k2, d2, m2) + o <= h + Marked(job[j], k2, d2, m2) + o2
    BY <1>1, <2>3, <2>4, <2>5, <2>6, <2>7, <2>8
  <2>10. h \in Nat /\ h2 \in Nat /\ o \in Nat /\ o2 \in Nat
    BY <2>5, <2>6, <2>7, <2>8
  <2>11. h2 + Marks(job', k2, d2, m2) <= o2
    BY <1>19, <1>20, <2>9, <2>10, BehindAcross
  <2>12. QED
    BY <2>7, <2>8, <2>11
<1>32. Finite'
  <2>1. SUFFICES ASSUME NEW k2 \in Keys, NEW d2 \in Days
                 PROVE  IsFiniteSet(Present(hash'[k2][d2]))
    BY DEF Finite
  <2>2. Present(hash'[k2][d2]) \subseteq Present(hash[k2][d2]) \cup {m}
    BY <1>26 DEF Present
  <2>3. IsFiniteSet(Present(hash[k2][d2]) \cup {m})
    BY FS_AddElement DEF IInv, Finite
  <2>4. QED
    BY <2>2, <2>3, FS_Subset
<1>33. Reporting'
  <2>1. ASSUME NEW k2 \in Keys, NEW d2 \in Days
        PROVE  Within(owed[k2][d2], owed'[k2][d2])
    BY <1>17, LedgerFacts, AccountFacts, WithinReflexive DEF IInv, Typed
  <2>2. ASSUME NEW k2 \in Keys PROVE Grows(hash[k2], hash'[k2], now')
    BY <1>29 DEF Grows, Within
  <2>3. \A l \in Jobs : job'[l].at \in Reads => job'[l] = job[l]
    BY <1>18, <1>21 DEF Reads
  <2>4. now <= now'
    BY <1>17, StateFacts DEF IInv
  <2>5. QED
    BY <1>27, <2>1, <2>2, <2>3, <2>4, ReportsKept
<1>34. QED
  BY <1>27, <1>28, <1>29, <1>30, <1>31, <1>32, <1>33 DEF IInv, Within

LEMMA NeverFacts ==
  /\ Never \in Nat /\ EmptyDay \in DayCounts
  /\ \A d \in Days : Never >= (d + Retained) * TicksPerDay
<1>1. PICK n \in Nat : n = TicksPerDay
  BY LedgerAssumption
<1>2. PICK keep \in Nat : keep = Retained /\ keep <= RetentionDays + 1
  BY RetainedFacts
<1>3. PICK most \in Nat : most = RetentionDays + 1
  BY LedgerAssumption
<1>4. PICK end \in Nat : end = MaxTicks
  BY LedgerAssumption
<1>5. keep * n \in Nat /\ most * n \in Nat /\ keep * n <= most * n
  BY <1>2, <1>3, TimesMonotone
<1>6. Never = end + most * n + 1
  BY <1>1, <1>3, <1>4 DEF Never
<1>7. ASSUME NEW d \in Days PROVE Never >= (d + Retained) * TicksPerDay
  <2>1. d \in Nat /\ d <= DayOf(end)
    <3>1. DayOf(end) \in Nat
      BY DayBounds
    <3>2. QED
      BY <1>4, <3>1 DEF Days, DayOf
  <2>2. d * n <= end /\ d * n \in Nat
    BY <1>1, <2>1, DayBegun
  <2>3. (d + keep) * n = d * n + keep * n
    BY <2>1
  <2>4. QED
    BY <1>1, <1>2, <1>5, <1>6, <2>2, <2>3
<1>8. QED
  BY <1>5, <1>6, <1>7, EmptyFacts

\* A tick: what expires is beyond every report.
LEMMA TickStep ==
  ASSUME IInv, Tick
  PROVE  IInv' /\ \A k \in Keys : Grows(hash[k], hash'[k], now')
<1>1. PICK time \in Nat : time = now /\ time < MaxTicks /\ time + 1 = now'
  BY StateFacts DEF IInv, Tick
<1>2. /\ UNCHANGED <<job, owed, settled>>
      /\ \A j \in Jobs : job[j].at # "idle" => job[j].since = time
  BY <1>1 DEF Tick, history
<1>3. /\ hash' = [k \in Keys |-> [d \in Days |->
                    IF ttl[k][d] <= time + 1 THEN EmptyDay ELSE hash[k][d]]]
      /\ ttl' = [k \in Keys |-> [d \in Days |->
                    IF ttl[k][d] <= time + 1 THEN Never ELSE ttl[k][d]]]
  BY <1>1 DEF Tick
<1>4. PICK today \in Nat : today = DayOf(time)
  BY DayBounds
<1>5. PICK tomorrow \in Nat : tomorrow = DayOf(time + 1)
  BY DayBounds
<1>6. PICK keep \in Nat : keep = Retained /\ keep >= 1
  BY RetainedFacts
<1>7. PICK n \in Nat : n = TicksPerDay /\ n > 0
  BY LedgerAssumption
<1>8. today <= tomorrow /\ tomorrow <= today + 1
  <2>1. today <= tomorrow
    BY <1>4, <1>5, DayMonotone
  <2>2. time < (today + 1) * n
    BY <1>4, <1>7, DayBounds
  <2>3. (today + 2) * n = (today + 1) * n + n /\ (today + 1) * n \in Nat
    BY <1>7
  <2>4. ~((today + 2) * n <= time + 1)
    BY <1>7, <2>2, <2>3
  <2>5. ~(today + 2 <= DayOf(time + 1))
    BY <1>7, <2>4, DayBegun
  <2>6. QED
    BY <1>5, <2>1, <2>5
<1>9. ASSUME NEW k \in Keys, NEW d \in Days, ttl[k][d] <= time + 1
      PROVE  d \in Nat /\ d + keep <= tomorrow
  <2>1. d \in Nat
    BY DEF Days
  <2>2. ttl[k][d] \in Nat
    BY NeverFacts DEF IInv, Lasts
  <2>3. (d + keep) * TicksPerDay <= ttl[k][d] /\ (d + keep) * TicksPerDay \in Nat
    BY <1>6, <1>7, <2>1, <2>2 DEF IInv, Lasts
  <2>4. (d + keep) * TicksPerDay <= time + 1
    BY <1>9, <2>2, <2>3
  <2>5. d + keep <= DayOf(time + 1)
    BY <2>1, <2>4, DayBegun
  <2>6. QED
    BY <1>5, <2>1, <2>5
<1>10. ASSUME NEW k \in Keys, NEW d \in Days
       PROVE  /\ ttl[k][d] <= time + 1 => hash'[k][d] = EmptyDay /\ ttl'[k][d] = Never
              /\ ~(ttl[k][d] <= time + 1) => hash'[k][d] = hash[k][d] /\ ttl'[k][d] = ttl[k][d]
  BY <1>3
<1>11. hash' \in Ledgers
  <2>1. \A k \in Keys, d \in Days : hash[k][d] \in DayCounts
    BY LedgerFacts, AccountFacts DEF IInv, Typed
  <2>2. QED
    BY <1>3, <2>1, EmptyFacts DEF Ledgers, Accounts
<1>12. Typed'
  <2>1. now' \in 0 .. MaxTicks
    BY <1>1, LedgerAssumption
  <2>2. \A j \in Jobs : job[j].at # "idle" => job[j].since <= now'
    BY <1>1, <1>2
  <2>3. QED
    BY <1>2, <1>11, <2>1, <2>2 DEF IInv, Typed
<1>13. Handed'
  BY <1>2 DEF IInv, Handed
<1>14. Held'
  <2>1. SUFFICES ASSUME NEW k \in Keys, NEW d \in Days, NEW m \in Models, NEW f \in Quantities
                 PROVE  hash'[k][d][m][f] + InFlight(job, k, d, m, f) <= owed[k][d][m][f]
    BY <1>2 DEF Held
  <2>2. hash[k][d][m][f] \in Nat /\ owed[k][d][m][f] \in Nat
    BY StateFacts DEF IInv
  <2>3. InFlight(job, k, d, m, f) \in Nat
    BY NothingInFlight DEF IInv, Typed
  <2>4. hash[k][d][m][f] + InFlight(job, k, d, m, f) <= owed[k][d][m][f]
    BY DEF IInv, Held
  <2>5. hash'[k][d][m][f] = hash[k][d][m][f] \/ hash'[k][d][m][f] = 0
    BY <1>10, EmptyFacts
  <2>6. QED
    BY <2>2, <2>3, <2>4, <2>5
<1>15. Behind'
  <2>1. SUFFICES ASSUME NEW k \in Keys, NEW d \in Days, NEW m \in Models,
                        keep > 1 \/ d >= tomorrow
                 PROVE  hash'[k][d][m].unmetered + Marks(job, k, d, m) <= hash'[k][d][m].requests
    BY <1>1, <1>2, <1>5, <1>6 DEF Behind
  <2>2. CASE ~(ttl[k][d] <= time + 1)
    <3>1. d \in Nat
      BY DEF Days
    <3>2. Retained > 1 \/ d >= DayOf(now)
      BY <1>1, <1>4, <1>6, <1>8, <2>1, <3>1
    <3>3. hash[k][d][m].unmetered + Marks(job, k, d, m) <= hash[k][d][m].requests
      BY <3>2 DEF IInv, Behind
    <3>4. QED
      BY <1>10, <2>2, <3>3
  <2>3. CASE ttl[k][d] <= time + 1
    <3>1. d \in Nat /\ d < today
      BY <1>6, <1>8, <1>9, <2>1, <2>3
    <3>2. ASSUME NEW j \in Jobs PROVE Marked(job[j], k, d, m) = 0
      <4>1. ~Writes(job[j], k, d, m)
        BY <1>2, <1>4, <3>1 DEF Writes
      <4>2. QED
        BY <4>1 DEF Marked
    <3>3. Marks(job, k, d, m) = 0
      BY <3>2, NothingInFlight DEF IInv, Typed
    <3>4. hash'[k][d][m].unmetered = 0 /\ hash'[k][d][m].requests = 0
      BY <1>10, <2>3, EmptyFacts DEF Quantities
    <3>5. QED
      BY <3>3, <3>4
  <2>4. QED
    BY <2>2, <2>3
<1>16. Finite'
  <2>1. SUFFICES ASSUME NEW k \in Keys, NEW d \in Days
                 PROVE  IsFiniteSet(Present(hash'[k][d]))
    BY DEF Finite
  <2>2. IsFiniteSet(Present(hash[k][d])) /\ IsFiniteSet(Present(EmptyDay))
    BY EmptyFacts, FS_EmptySet DEF IInv, Finite
  <2>3. QED
    BY <1>10, <2>2
<1>17. Lasts'
  <2>1. ttl \in [Keys -> [Days -> 0 .. Never]]
    BY DEF IInv, Lasts
  <2>2. ttl' \in [Keys -> [Days -> 0 .. Never]]
    BY <1>3, <2>1, NeverFacts
  <2>3. ASSUME NEW k \in Keys, NEW d \in Days
        PROVE  ttl'[k][d] >= (d + Retained) * TicksPerDay
    BY <1>10, NeverFacts DEF IInv, Lasts
  <2>4. QED
    BY <2>2, <2>3 DEF Lasts
<1>18. ASSUME NEW k \in Keys PROVE Grows(hash[k], hash'[k], now')
  <2>1. SUFFICES ASSUME NEW d \in Days, d > DayOf(now') - Retained
                 PROVE  Within(hash[k][d], hash'[k][d])
    BY DEF Grows
  <2>2. d \in Nat /\ d > tomorrow - keep
    BY <1>1, <1>5, <1>6, <2>1 DEF Days
  <2>3. ~(ttl[k][d] <= time + 1)
    BY <1>5, <1>6, <1>9, <2>2
  <2>4. hash'[k][d] = hash[k][d]
    BY <1>10, <2>3
  <2>5. QED
    BY <2>4, LedgerFacts, AccountFacts, WithinReflexive DEF IInv, Typed
<1>19. Reporting'
  <2>1. ASSUME NEW k \in Keys, NEW d \in Days
        PROVE  Within(owed[k][d], owed'[k][d])
    BY <1>2, LedgerFacts, AccountFacts, WithinReflexive DEF IInv, Typed
  <2>2. now <= now' /\ \A l \in Jobs : job'[l] = job[l]
    BY <1>1, <1>2
  <2>3. QED
    BY <1>12, <1>18, <2>1, <2>2, ReportsKept
<1>20. QED
  BY <1>12, <1>13, <1>14, <1>15, <1>16, <1>17, <1>18, <1>19 DEF IInv

\* Nothing is handed over, held or on its way at first.
LEMMA InitIInv == Init => IInv
<1>. SUFFICES ASSUME Init PROVE IInv
  OBVIOUS
<1>1. /\ now = 0 /\ settled = 0
      /\ \A k \in Keys, d \in Days : hash[k][d] = EmptyDay /\ owed[k][d] = EmptyDay
      /\ \A k \in Keys, d \in Days : ttl[k][d] = Never
      /\ \A j \in Jobs : job[j] = Idle /\ job[j].at = "idle"
  BY IdleFacts DEF Init
<1>2. \A m \in Models, f \in Quantities : EmptyDay[m][f] = 0
  BY EmptyFacts
<1>3. Typed
  <2>1. hash \in Ledgers /\ owed \in Ledgers
    BY EmptyFacts DEF Init, Ledgers, Accounts
  <2>2. job \in [Jobs -> AJob]
    BY IdleFacts DEF Init
  <2>3. QED
    BY <1>1, <2>1, <2>2, LedgerAssumption DEF Typed
<1>4. Handed
  BY <1>1, <1>2 DEF Handed, Quantities
<1>5. ASSUME NEW k \in Keys, NEW d \in Days, NEW m \in Models
      PROVE  /\ \A f \in Quantities : InFlight(job, k, d, m, f) = 0
             /\ Marks(job, k, d, m) = 0
  <2>1. ASSUME NEW j \in Jobs, NEW f \in Quantities
        PROVE  Pending(job[j], k, d, m, f) = 0 /\ Marked(job[j], k, d, m) = 0
    BY <1>1, IdleFacts, PendingFacts
  <2>2. "requests" \in Quantities
    BY DEF Quantities
  <2>3. QED
    BY <2>1, <2>2, NothingInFlight, <1>3 DEF Typed
<1>6. Held
  BY <1>1, <1>2, <1>5 DEF Held
<1>7. Behind
  BY <1>1, <1>2, <1>5 DEF Behind, Quantities
<1>8. Finite
  BY <1>1, EmptyFacts, FS_EmptySet DEF Finite
<1>9. Reporting
  BY <1>1 DEF Reporting, Reads
<1>10. Lasts
  <2>1. ttl \in [Keys -> [Days -> 0 .. Never]]
    BY NeverFacts DEF Init
  <2>2. QED
    BY <1>1, <2>1, NeverFacts DEF Lasts
<1>11. QED
  BY <1>3, <1>4, <1>6, <1>7, <1>8, <1>9, <1>10 DEF IInv

LEMMA NextIInv == IInv /\ [Next]_vars => IInv'
<1>. SUFFICES ASSUME IInv, [Next]_vars PROVE IInv'
  OBVIOUS
<1>1. CASE Tick
  BY <1>1, TickStep
<1>2. ASSUME NEW j \in Jobs, NEW k \in Keys, NEW s \in Spent, Record(j, k, s) PROVE IInv'
  BY <1>2, RecordStep
<1>3. ASSUME NEW j \in Jobs, Increment(j) PROVE IInv'
  BY <1>3, IncrementStep
<1>4. ASSUME NEW j \in Jobs, Expire(j) PROVE IInv'
  BY <1>4, ExpireStep
<1>5. ASSUME NEW j \in Jobs, Cut(j) PROVE IInv'
  BY <1>5, CutStep
<1>6. ASSUME NEW j \in Jobs, NEW k \in Keys, NEW days \in AskedDays, Report(j, k, days)
      PROVE  IInv'
  BY <1>6, ReportStep
<1>7. ASSUME NEW j \in Jobs, ReadDay(j) PROVE IInv'
  BY <1>7, ReadDayStep
<1>8. ASSUME NEW j \in Jobs, ReadBreaks(j) PROVE IInv'
  BY <1>8, ReadBreaksStep
<1>9. ASSUME NEW j \in Jobs, Answer(j) PROVE IInv'
  BY <1>9, AnswerStep
<1>10. CASE UNCHANGED vars
  BY <1>10 DEF vars, IInv, Typed, Handed, Held, Behind, Finite, Reporting, Lasts
<1>11. QED
  BY <1>1, <1>2, <1>3, <1>4, <1>5, <1>6, <1>7, <1>8, <1>9, <1>10 DEF Next

\* What Redis holds, with what is on its way, never exceeds what was handed
\* over; the marks never outnumber the requests; no hash outlives its window
\* too soon; and a report has read nothing that was not so.
THEOREM Invariant == Spec => []IInv
BY InitIInv, NextIInv, PTL DEF Spec

\* Every counter keeps its range and a report has a line for every day it was
\* asked about, whole or degraded.
THEOREM Types == Spec => []TypeOK
<1>1. IInv => TypeOK
  <2>. SUFFICES ASSUME IInv PROVE TypeOK
    OBVIOUS
  <2>1. /\ now \in 0 .. MaxTicks /\ settled \in 0 .. MaxRecords
        /\ hash \in [Keys -> [Days -> [Models -> Counts]]]
        /\ owed \in [Keys -> [Days -> [Models -> Counts]]]
        /\ ttl \in [Keys -> [Days -> 0 .. Never]]
    BY DEF IInv, Typed, Lasts, Ledgers, Accounts, DayCounts
  <2>2. ASSUME NEW j \in Jobs
        PROVE  LET x == job[j]
               IN \/ x = Idle
                  \/ /\ x.at = "recording"
                     /\ x.key \in Keys /\ x.since \in 0 .. now
                     /\ x.spent \in Spent /\ x.command \in 1 .. 5
                  \/ /\ x.at \in {"reading", "reported", "degraded"}
                     /\ x.key \in Keys /\ Len(x.raw) <= Len(x.wanted)
                     /\ x.at # "reading" <=> Len(x.raw) = Len(x.wanted)
    <3>1. PICK x \in AJob : x = job[j]
      BY DEF IInv, Typed
    <3>2. CASE x.at = "idle"
      BY <3>1, <3>2, JobFacts
    <3>3. CASE x.at = "recording"
      <4>1. x \in Recording /\ x.since <= now /\ now \in Nat
        BY <3>1, <3>3, JobFacts, StateFacts DEF IInv, Typed
      <4>2. /\ x.key \in Keys /\ x.since \in 0 .. now
            /\ x.spent \in Spent /\ x.command \in 1 .. 5
        BY <4>1, RecordingFacts
      <4>3. QED
        BY <3>1, <3>3, <4>2
    <3>4. CASE x.at \in Reads
      <4>1. x.key \in Keys
        BY <3>1, <3>4, JobFacts, ReadingFacts
      <4>2. Len(x.raw) <= Len(x.wanted) /\ (x.at # "reading" <=> Len(x.raw) = Len(x.wanted))
        BY <3>1, <3>4 DEF IInv, Reporting, Faithful, Shape
      <4>3. QED
        BY <3>1, <3>4, <4>1, <4>2 DEF Reads
    <3>5. QED
      BY <3>1, <3>2, <3>3, <3>4, JobFacts
  <2>3. QED
    BY <2>1, <2>2 DEF TypeOK
<1>2. QED
  BY <1>1, Invariant, PTL

\* Wherever writers and readers meet and wherever a pipeline is cut, a report
\* counts nothing twice, of another key or of another day, loses nothing Redis
\* held when it began, shows no more unmetered requests than requests, names
\* exactly the models without a price, and is empty if its connection broke.
THEOREM Reports == Spec => []ReportsAddUp
<1>1. IInv => ReportsAddUp
  <2>. SUFFICES ASSUME IInv, NEW j \in Jobs
                PROVE  LET x == job[j]
                           Below(a, b) == \A m \in Models, f \in DOMAIN None : a[m][f] <= b[m][f]
                           total == Summarise(x.raw)
                           shown == UNION {Present(x.raw[i]) : i \in DOMAIN x.raw}
                           listed == {m \in Models : \E i \in DOMAIN PriceTable :
                                                        m \in PriceTable[i].covers}
                       IN /\ x.at = "reported" =>
                               /\ \A i \in DOMAIN x.wanted :
                                    /\ Below(x.raw[i], owed[x.key][x.wanted[i]])
                                    /\ x.wanted[i] > DayOf(now) - Retained
                                         => Below(x.floor[i], x.raw[i])
                               /\ (Retained > 1 \/ DayOf(now) = DayOf(x.since)) =>
                                    total.unmetered <= total.requests
                               /\ total.unpriced = shown \ listed
                               /\ total.cost = NoPrice <=> shown \cap listed = {}
                          /\ x.at = "degraded" => shown = {}
    BY DEF ReportsAddUp
  <2> DEFINE x == job[j]
  <2>1. x \in AJob
    BY DEF IInv, Typed
  <2>2. PICK total : total = Summarise(x.raw)
    OBVIOUS
  <2>3. PICK shown : shown = Shown(x.raw)
    OBVIOUS
  <2>4. DOMAIN None = Quantities
    BY CountFacts
  <2>5. ASSUME x.at \in Reads
        PROVE  x \in Reading /\ Faithful(x, now, hash[x.key], owed[x.key])
    BY <2>1, <2>5, JobFacts DEF IInv, Reporting
  <2>6. ASSUME x.at = "reported"
        PROVE  /\ \A i \in DOMAIN x.wanted :
                    /\ Within(x.raw[i], owed[x.key][x.wanted[i]])
                    /\ x.wanted[i] > DayOf(now) - Retained => Within(x.floor[i], x.raw[i])
               /\ (Retained > 1 \/ DayOf(now) = DayOf(x.since)) =>
                    total.unmetered <= total.requests
               /\ total.unpriced = shown \ Priced
               /\ total.cost = NoPrice <=> shown \cap Priced = {}
    <3>1. x \in Reading /\ Shape(x) /\ Read(x, now, owed[x.key])
      BY <2>5, <2>6 DEF Faithful, Reads
    <3>2. PICK n \in Nat : /\ n = Len(x.raw) /\ x.raw \in [1 .. n -> DayCounts]
                           /\ DOMAIN x.wanted = 1 .. n
      <4>1. x.raw \in Seq(DayCounts) /\ x.wanted \in Seq(Days) /\ Len(x.raw) = Len(x.wanted)
        BY <2>6, <3>1, ReadingFacts DEF Shape
      <4>2. QED
        BY <4>1
    <3>3. \A i \in 1 .. n :
             /\ IsFiniteSet(Present(x.raw[i])) /\ Within(x.raw[i], owed[x.key][x.wanted[i]])
             /\ (Retained > 1 \/ DayOf(now) = DayOf(x.since)) => Ahead(x.raw[i])
             /\ x.wanted[i] > DayOf(now) - Retained => Within(x.floor[i], x.raw[i])
      BY <3>1, <3>2 DEF Read
    <3>4. ASSUME Retained > 1 \/ DayOf(now) = DayOf(x.since)
          PROVE  \A i \in 1 .. n, m \in Models : x.raw[i][m].unmetered <= x.raw[i][m].requests
      BY <3>3, <3>4 DEF Ahead
    <3>5. /\ (\A i \in 1 .. n, m \in Models : x.raw[i][m].unmetered <= x.raw[i][m].requests)
                => total.unmetered <= total.requests
          /\ total.unpriced = shown \ Priced
          /\ total.cost = NoPrice <=> shown \cap Priced = {}
      BY <2>2, <2>3, <3>2, <3>3, SummaryFacts
    <3>6. QED
      BY <3>2, <3>3, <3>4, <3>5
  <2>7. ASSUME x.at = "degraded" PROVE shown = {}
    <3>1. x \in Reading /\ \A i \in 1 .. Len(x.raw) : x.raw[i] = EmptyDay
      BY <2>5, <2>7 DEF Faithful, Reads
    <3>2. x.raw \in Seq(DayCounts)
      BY <3>1, ReadingFacts
    <3>3. \A i \in DOMAIN x.raw : Present(x.raw[i]) = {}
      BY <3>1, <3>2, EmptyFacts
    <3>4. QED
      BY <2>3, <3>3 DEF Shown
  <2>8. x.at = "reported" =>
          /\ \A i \in DOMAIN x.wanted :
                /\ \A m \in Models, f \in DOMAIN None :
                      x.raw[i][m][f] <= owed[x.key][x.wanted[i]][m][f]
                /\ x.wanted[i] > DayOf(now) - Retained =>
                      \A m \in Models, f \in DOMAIN None : x.floor[i][m][f] <= x.raw[i][m][f]
          /\ (Retained > 1 \/ DayOf(now) = DayOf(x.since)) => total.unmetered <= total.requests
          /\ total.unpriced = shown \ Priced
          /\ total.cost = NoPrice <=> shown \cap Priced = {}
    BY <2>4, <2>6 DEF Within
  <2>9. shown = UNION {Present(x.raw[i]) : i \in DOMAIN x.raw}
    BY <2>3 DEF Shown
  <2>10. Priced = {m \in Models : \E i \in DOMAIN PriceTable : m \in PriceTable[i].covers}
    BY DEF Priced
  <2>11. QED
    BY <2>2, <2>7, <2>8, <2>9, <2>10
<1>2. QED
  BY <1>1, Invariant, PTL

\* No step loses what Redis holds of a day that a report still reaches.
THEOREM Window == Spec => WindowIsKept
<1>1. ASSUME IInv, [Next]_vars
      PROVE  [\A k \in Keys, d \in Days :
                (d > DayOf(now') - Retained) =>
                   \A m \in Models, f \in DOMAIN None : hash[k][d][m][f] <= hash'[k][d][m][f]]_vars
  <2>1. DOMAIN None = Quantities
    BY CountFacts
  <2>2. SUFFICES ASSUME NEW k \in Keys, NEW d \in Days, d > DayOf(now') - Retained
                 PROVE  Within(hash[k][d], hash'[k][d])
    BY <2>1 DEF Within
  <2>3. Within(hash[k][d], hash[k][d])
    BY <1>1, LedgerFacts, AccountFacts, WithinReflexive DEF IInv, Typed
  <2>4. CASE Tick
    BY <1>1, <2>2, <2>4, TickStep DEF Grows
  <2>5. ASSUME NEW j \in Jobs, Increment(j) PROVE Within(hash[k][d], hash'[k][d])
    BY <1>1, <2>5, IncrementStep
  <2>6. CASE UNCHANGED hash
    BY <2>3, <2>6
  <2>7. Tick \/ (\E j \in Jobs : Increment(j)) \/ UNCHANGED hash
    BY <1>1 DEF Next, vars, Record, Expire, Cut, Report, ReadDay, ReadBreaks, Answer
  <2>8. QED
    BY <2>4, <2>5, <2>6, <2>7
<1>2. QED
  BY <1>1, Invariant, PTL DEF Spec, WindowIsKept

=============================================================================
