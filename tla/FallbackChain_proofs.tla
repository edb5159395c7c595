------------------------ MODULE FallbackChain_proofs ------------------------
(***************************************************************************)
(* For any routing table, chains of any length, any number of requests and *)
(* any policy: the types, the order in which a chain is tried, that a body *)
(* is one provider's, whom a caller may blame, that no call is left open,  *)
(* that verdicts stay with the provider they are about, and that seen from *)
(* each provider the whole of it is a step of UpstreamGate.                *)
(***************************************************************************)
EXTENDS FallbackChain, FiniteSetTheorems, TLAPS

-----------------------------------------------------------------------------
(* What every method of a circuit breaker preserves and leaves behind; as  *)
(* in ResilientProvider_proofs.                                            *)

\* The windows a breaker may have next: the first one, or one within the maximum.
Windows == {w \in Nat : /\ w = BaseOpen \/ w <= MaxOpen
                        /\ Lesser(BaseOpen, MaxOpen) <= w}

\* What the invariant says of the breaker alone; every method preserves it.
BreakerInv(b) == /\ b \in Breaker
                 /\ b.trial # NoPermit => b.state = "half_open"
                 /\ b.state = "closed" => b.failures < Threshold
                 /\ b.window \in Windows
                 /\ b.left > MaxOpen => /\ b.left <= BaseOpen
                                        /\ b.window = Escalated(BaseOpen)
                 /\ b.left > 0 => b.state = "open"

LEMMA NewBreakerInv == BreakerInv(NewBreaker)
<1>1. NewBreaker \in Breaker
  BY BreakerAssumption DEF NewBreaker, Breaker
<1>2. NewBreaker.window \in Windows
  BY BreakerAssumption DEF NewBreaker, Windows, Lesser
<1>3. QED
  BY <1>1, <1>2, BreakerAssumption DEF BreakerInv, NewBreaker

LEMMA ScalingGrows ==
  ASSUME NEW w \in Nat, NEW m \in Nat, m >= 1
  PROVE  w * m \in Nat /\ w * m >= w
<1>1. w * m \in Nat
  BY SMT
<1>2. w * m >= w
  BY SMT
<1>3. QED
  BY <1>1, <1>2

\* Escalation keeps a window above the lesser of the two, and within the cap.
LEMMA EscalatedWindow ==
  ASSUME NEW w \in Windows
  PROVE  Lesser(w * Multiplier, MaxOpen) \in Windows
<1>1. w \in Nat /\ Lesser(BaseOpen, MaxOpen) <= w /\ Multiplier \in Nat /\ Multiplier >= 1
  BY BreakerAssumption DEF Windows
<1>2. w * Multiplier \in Nat /\ w * Multiplier >= w
  BY <1>1, ScalingGrows
<1> DEFINE scaled == w * Multiplier
<1> HIDE DEF scaled
<1>3. scaled \in Nat /\ scaled >= w
  BY <1>2 DEF scaled
<1>4. Lesser(scaled, MaxOpen) \in Windows
  BY <1>1, <1>3, BreakerAssumption DEF Lesser, Windows
<1>5. QED
  BY <1>4 DEF scaled

LEMMA OpenedInv ==
  ASSUME NEW b \in Breaker, b.window \in Windows, b.trial = NoPermit
  PROVE  BreakerInv(Opened(b)) /\ Opened(b).trial = NoPermit /\ Opened(b).state = "open"
         /\ Opened(b).left > 0
<1> DEFINE next == Lesser(b.window * Multiplier, MaxOpen)
<1>1. next \in Windows
  BY EscalatedWindow
<1>2. b.window > MaxOpen => b.window = BaseOpen /\ next = Escalated(BaseOpen)
  BY BreakerAssumption DEF Windows, Escalated
<1> HIDE DEF next
<1>3. next \in Nat /\ b.window \in Nat /\ b.window > 0
  BY <1>1, BreakerAssumption DEF Windows, Lesser
<1>4. Opened(b) = [b EXCEPT !.state = "open", !.failures = 0,
                            !.left = b.window, !.window = next]
  BY DEF Opened, next, Escalated
<1>5. Opened(b) \in Breaker
  <2>1. [b EXCEPT !.state = "open", !.failures = 0,
                  !.left = b.window, !.window = next] \in Breaker
    BY <1>3 DEF Breaker
  <2>2. QED
    BY <1>4, <2>1
<1>6. /\ Opened(b).state = "open" /\ Opened(b).trial = NoPermit
      /\ Opened(b).left = b.window /\ Opened(b).window = next
  BY <1>4 DEF Breaker
<1>7. QED
  BY <1>1, <1>2, <1>3, <1>5, <1>6, BreakerAssumption DEF BreakerInv

LEMMA AllowInv ==
  ASSUME NEW b, NEW c \in Callers, BreakerInv(b), Admits(b)
  PROVE  /\ BreakerInv(Allow(b, c))
         /\ Allow(b, c).trial = IF b.state = "closed" THEN NoPermit ELSE c
         /\ b.state # "closed" => Allow(b, c).state = "half_open"
<1>1. CASE b.state = "closed"
  BY <1>1 DEF Allow, BreakerInv
<1>2. CASE b.state # "closed"
  <2>1. Allow(b, c) = [b EXCEPT !.state = "half_open", !.trial = c]
    BY <1>2 DEF Allow
  <2>2. [b EXCEPT !.state = "half_open", !.trial = c] \in Breaker
    BY DEF BreakerInv, Breaker
  <2>3. b.left = 0
    BY DEF BreakerInv, Breaker, Admits
  <2>4. /\ Allow(b, c).state = "half_open" /\ Allow(b, c).trial = c
        /\ Allow(b, c).window = b.window /\ Allow(b, c).left = b.left
    BY <2>1 DEF BreakerInv, Breaker
  <2>5. QED
    BY <1>2, <2>1, <2>2, <2>3, <2>4, BreakerAssumption DEF BreakerInv
<1>3. QED
  BY <1>1, <1>2

LEMMA RecordFailureInv ==
  ASSUME NEW b, BreakerInv(b)
  PROVE  /\ BreakerInv(RecordFailure(b)) /\ RecordFailure(b).trial = NoPermit
         /\ b.state = "half_open" => RecordFailure(b).state = "open"
<1> DEFINE counted == [b EXCEPT !.failures = @ + 1]
<1>1. counted \in Breaker /\ counted.window = b.window /\ counted.trial = b.trial
      /\ counted.failures = b.failures + 1 /\ counted.state = b.state /\ counted.left = b.left
  BY DEF BreakerInv, Breaker
<1>2. CASE b.state = "half_open"
  <2>1. [counted EXCEPT !.trial = NoPermit] \in Breaker
    BY <1>1 DEF Breaker
  <2>2. [counted EXCEPT !.trial = NoPermit].window \in Windows
        /\ [counted EXCEPT !.trial = NoPermit].trial = NoPermit
    BY <1>1 DEF BreakerInv, Breaker
  <2>3. QED
    BY <1>2, <2>1, <2>2, OpenedInv DEF RecordFailure, Trips
<1>3. CASE b.state = "closed" /\ counted.failures >= Threshold
  BY <1>1, <1>3, OpenedInv DEF RecordFailure, BreakerInv, Trips
<1>4. CASE b.state # "half_open" /\ ~(b.state = "closed" /\ counted.failures >= Threshold)
  <2>1. RecordFailure(b) = counted
    BY <1>4 DEF RecordFailure, Trips
  <2>2. QED
    BY <1>1, <1>4, <2>1, BreakerAssumption DEF BreakerInv, Breaker
<1>5. QED
  BY <1>2, <1>3, <1>4

LEMMA ReleaseTrialInv ==
  ASSUME NEW b, NEW p \in Permits, BreakerInv(b)
  PROVE  /\ BreakerInv(ReleaseTrial(b, p))
         /\ ReleaseTrial(b, p).trial = IF b.trial = p THEN NoPermit ELSE b.trial
  BY DEF BreakerInv, Breaker, ReleaseTrial

LEMMA ElapseInv ==
  ASSUME NEW b, BreakerInv(b)
  PROVE  /\ BreakerInv(Elapse(b)) /\ Elapse(b).trial = b.trial
         /\ Elapse(b).state = b.state /\ Elapse(b).left <= b.left
<1> DEFINE rest == IF b.left > 0 THEN b.left - 1 ELSE 0
<1>1. rest \in Nat /\ rest <= b.left /\ (rest > 0 => b.left > 0)
  BY DEF BreakerInv, Breaker
<1> HIDE DEF rest
<1>2. Elapse(b) = [b EXCEPT !.left = rest]
  BY DEF Elapse, rest
<1>3. [b EXCEPT !.left = rest] \in Breaker
  BY <1>1 DEF BreakerInv, Breaker
<1>4. /\ Elapse(b).trial = b.trial /\ Elapse(b).state = b.state
      /\ Elapse(b).left = rest /\ Elapse(b).window = b.window
      /\ Elapse(b).failures = b.failures
  BY <1>2 DEF BreakerInv, Breaker
<1>5. QED
  BY <1>1, <1>2, <1>3, <1>4, BreakerAssumption DEF BreakerInv, Breaker

-----------------------------------------------------------------------------
(* The invariant.                                                          *)

Passed(fate) == fate \in {"refused", "failed"}

\* Members before the position have passed the request on, members after it
\* have not been asked.
Behind(x) == \A i \in DOMAIN x.chain : i < x.position => Passed(x.fate[x.chain[i]])
Beyond(x) == \A i \in DOMAIN x.chain : i > x.position => x.fate[x.chain[i]] = "untried"

\* A request between its arrival and its end.
UnderWay(r, x) ==
    /\ x.position \in DOMAIN x.chain /\ Behind(x) /\ Beyond(x)
    /\ x.at \in {"calling", "backoff"} => x.source = {} /\ x.fate[At(x)] = "untried"
    /\ x.at = "calling" => x.open = {At(x)} /\ x.permit \in {Admitted, r}
    /\ x.at = "backoff" => x.open = {} /\ x.attempt < MaxAttempts - 1 /\ x.permit = Admitted
    /\ x.at = "relaying" => x.open = {At(x)} /\ x.source = {At(x)} /\ x.permit = NoPermit

\* What the last member said is what the caller is told, if it was told to
\* come back or that its upstream is broken.
LastSaid(x, error) ==
    x.fate[x.chain[Len(x.chain)]] = IF KindOf(error) = "circuit_open" THEN "refused" ELSE "failed"

InOrder(x) ==
    /\ \A i, j \in DOMAIN x.chain :
          (i < j /\ (j <= x.position \/ x.fate[x.chain[j]] # "untried"))
          => Passed(x.fate[x.chain[i]])
    /\ (x.at = "done" /\ x.source = {} /\ Hoppable(KindOf(x.error))) =>
          /\ \A i \in DOMAIN x.chain : Passed(x.fate[x.chain[i]])
          /\ LastSaid(x, x.error)

\* A request that has not begun, or is over.
AtRest(x) == /\ x.open = {}
             /\ x.source # {} => x.at = "done" /\ x.position \in DOMAIN x.chain /\ x.source = {At(x)}
             /\ (x.at = "done" /\ x.source = {}) => x.error.what # "broken"
             /\ (x.at = "done" /\ x.source = {} /\ x.error.what \notin {"none", "cancelled", "unroutable"})
                => x.error \in Failings \cup {Own("circuit_open")}

Chain(c) == c = <<>> \/ \E head \in Routed : c = Members(head)

ReqInv(r, x) == /\ x \in Request /\ Chain(x.chain)
                /\ x.at \in Stages \ Ended => UnderWay(r, x)
                /\ x.at \in Ended => AtRest(x)
                /\ InOrder(x)

\* Whoever holds a breaker's half-open slot is calling that breaker's
\* provider, with the permit that frees the slot.
Holds(r, x, p) == x.at = "calling" /\ At(x) = p /\ x.permit = r

IInv == /\ req \in [Callers -> Request] /\ brk \in [Providers -> Breaker]
        /\ \A p \in Providers : BreakerInv(brk[p])
        /\ \A r \in Callers : ReqInv(r, req[r])
        /\ \A p \in Providers, r \in Callers : brk[p].trial = r => Holds(r, req[r], p)

-----------------------------------------------------------------------------
(* Routing and classification: what the constants' assumptions give. *)

\* A set of naturals with a member has a least one.
LEMMA LeastNatural ==
  ASSUME NEW T, T \subseteq Nat, T # {}
  PROVE  \E x \in T : \A y \in T : x <= y
<1>1. PICK top \in T : TRUE
  OBVIOUS
<1> DEFINE S == 0 .. top
           Upto(y) == 0 .. y
           F == {Upto(y) : y \in T \cap S}
<1>2. IsWellFoundedOn(StrictSubsetOrdering(S), SUBSET S)
  <2>1. IsFiniteSet(S)
    BY FS_Interval
  <2>2. QED
    BY <2>1, FS_StrictSubsetOrderingWellFounded, FS_FiniteSubsetsOfFinite
<1>3. F \subseteq SUBSET S /\ F # {}
  BY <1>1
<1> HIDE DEF F
<1>4. PICK least \in F : \A other \in F : <<other, least>> \notin StrictSubsetOrdering(S)
  BY <1>2, <1>3, WFMin
<1>5. PICK x \in T \cap S : least = Upto(x)
  BY DEF F
<1>6. ASSUME NEW y \in T, y < x PROVE FALSE
  <2>1. Upto(y) \in F /\ Upto(y) \subseteq Upto(x) /\ x \notin Upto(y) /\ x \in Upto(x)
    BY <1>5, <1>6 DEF F
  <2>2. <<Upto(y), Upto(x)>> \in StrictSubsetOrdering(S)
    BY <2>1, <1>3, <1>5 DEF StrictSubsetOrdering
  <2>3. QED
    BY <2>1, <2>2, <1>4, <1>5
<1>7. QED
  BY <1>5, <1>6

\* The first rule that claims a model is a rule: a routed provider or none.
LEMMA ProviderForIsRouted ==
  ASSUME NEW model
  PROVE  ProviderFor(model) \in Routed \cup {NoProvider}
<1> DEFINE claiming == {i \in DOMAIN Routes : model \in Routes[i].claims}
<1>1. CASE claiming = {}
  BY <1>1, RoutingAssumption DEF ProviderFor, Routed
<1>2. CASE claiming # {}
  <2>1. DOMAIN Routes \subseteq Nat
    BY RoutingAssumption
  <2>2. \E i \in claiming : \A j \in claiming : i <= j
    BY <1>2, <2>1, LeastNatural
  <2>3. PICK i \in DOMAIN Routes : ProviderFor(model) = Routes[i].provider
    BY <1>2, <2>2 DEF ProviderFor
  <2>4. QED
    BY <2>3 DEF Routed
<1>3. QED
  BY <1>1, <1>2

\* A chain a request travels names bare providers, none of them twice.
LEMMA MembersFacts ==
  ASSUME NEW head \in Routed
  PROVE  /\ Members(head) \in Seq(Providers) /\ Len(Members(head)) >= 1
         /\ \A i, j \in DOMAIN Members(head) : Members(head)[i] = Members(head)[j] => i = j
<1>1. head \in Providers
  <2>1. \A i \in DOMAIN Routes : Routes[i].provider \in Providers
    <3> DEFINE Rule == [claims : SUBSET Models, provider : Providers]
    <3>1. Routes \in Seq(Rule)
      BY RoutingAssumption
    <3> HIDE DEF Rule
    <3>2. \A i \in DOMAIN Routes : Routes[i] \in Rule
      BY <3>1
    <3>3. QED
      BY <3>2 DEF Rule
  <2>2. QED
    BY <2>1, RoutingAssumption DEF Routed
<1>2. CASE head \in DOMAIN Chains
  BY <1>2, RoutingAssumption DEF Members
<1>3. CASE head \notin DOMAIN Chains
  BY <1>1, <1>3 DEF Members
<1>4. QED
  BY <1>2, <1>3

LEMMA ChainFacts ==
  ASSUME NEW c, Chain(c)
  PROVE  /\ c \in Seq(Providers) /\ Len(c) \in Nat /\ DOMAIN c = 1 .. Len(c)
         /\ \A i \in DOMAIN c : c[i] \in Providers
         /\ \A i, j \in DOMAIN c : c[i] = c[j] => i = j
<1>1. c \in Seq(Providers) /\ \A i, j \in DOMAIN c : c[i] = c[j] => i = j
  <2>1. CASE c = <<>>
    BY <2>1
  <2>2. CASE c # <<>>
    BY <2>2, MembersFacts DEF Chain
  <2>3. QED
    BY <2>1, <2>2
<1>2. QED
  BY <1>1

\* What an attempt may fail for is never the gateway's own refusal.
LEMMA CauseKinds ==
  ASSUME NEW cause \in Causes
  PROVE  KindOf(cause) \in {"timeout", "auth", "rate_limited", "unavailable", "bad_request",
                            "protocol", "foreign"}
<1>1. CASE cause.what = "status"
  <2>1. KindOf(cause) = StatusError(cause.status)
    BY <1>1 DEF KindOf
  <2>2. cause.status \in Int
    BY <1>1 DEF Causes, Mishaps
  <2>3. StatusError(cause.status) \in {"timeout", "auth", "rate_limited", "unavailable", "bad_request"}
    BY <2>2 DEF StatusError
  <2>4. QED
    BY <2>1, <2>3
<1>2. CASE cause.what # "status"
  <2>1. cause.what \in Mishaps
    BY <1>2 DEF Causes
  <2>2. QED
    BY <2>1 DEF Mishaps, KindOf, TransportError
<1>3. QED
  BY <1>1, <1>2

LEMMA OwnKinds ==
  /\ Own("circuit_open").what = "circuit_open" /\ KindOf(Own("circuit_open")) = "circuit_open"
  /\ \A what \in {"unroutable", "cancelled", "broken", "none"} :
        /\ Own(what).what = what /\ KindOf(Own(what)) = what /\ ~Hoppable(KindOf(Own(what)))
        /\ Own(what) \in OwnCauses
  /\ Own("circuit_open") \in OwnCauses
  BY DEF Own, KindOf, Hoppable, Retryable, OwnCauses

-----------------------------------------------------------------------------
(* The steps of one request.  Every action but Tick moves one request and   *)
(* some breakers; what is left to show for each is that request's own part, *)
(* the breakers, and who holds their slots afterwards.                      *)

Healthy(bs) == bs \in [Providers -> Breaker] /\ \A p \in Providers : BreakerInv(bs[p])

\* Breakers as r leaves them once it has handed its permit back: it holds no
\* slot, and nobody else has come by one.
LeftBy(r, bs) == \A p \in Providers, s \in Callers : bs[p].trial = s => s # r /\ brk[p].trial = s

LEMMA RequestStep ==
  ASSUME IInv, NEW r \in Callers, NEW x, Becomes(r, x), ReqInv(r, x), Healthy(brk'),
         \A p \in Providers, s \in Callers :
            brk'[p].trial = s => IF s = r THEN Holds(r, x, p) ELSE brk[p].trial = s
  PROVE  IInv'
<1>1. req' \in [Callers -> Request] /\ req'[r] = x /\ \A s \in Callers \ {r} : req'[s] = req[s]
  BY DEF IInv, Becomes, ReqInv
<1>2. \A s \in Callers : ReqInv(s, req'[s])
  BY <1>1 DEF IInv
<1>3. \A p \in Providers, s \in Callers : brk'[p].trial = s => Holds(s, req'[s], p)
  BY <1>1 DEF IInv
<1>4. QED
  BY <1>1, <1>2, <1>3 DEF IInv, Healthy

LEMMA OverFacts ==
  ASSUME NEW x \in Request, NEW error \in Failings \cup OwnCauses
  PROVE  /\ Over(x, error) \in Request
         /\ Over(x, error).at = "done" /\ Over(x, error).error = error
         /\ Over(x, error).chain = x.chain /\ Over(x, error).position = x.position
         /\ Over(x, error).open = x.open /\ Over(x, error).source = x.source
         /\ Over(x, error).fate = x.fate /\ Over(x, error).permit = x.permit
<1>1. 0 \in 0 .. MaxAttempts - 1
  BY RoutingAssumption
<1>2. QED
  BY <1>1 DEF Over, Request, Stages, Ended

\* A request that ends, its permit handed back.
LEMMA EndInv ==
  ASSUME IInv, NEW r \in Callers, NEW bs, Healthy(bs), LeftBy(r, bs), brk' = bs,
         NEW x \in Request, Chain(x.chain), NEW error \in Failings \cup OwnCauses,
         Becomes(r, Over(x, error)), AtRest(Over(x, error)), InOrder(Over(x, error))
  PROVE  IInv'
<1>1. ReqInv(r, Over(x, error))
  BY OverFacts DEF ReqInv, Stages, Ended
<1>2. \A p \in Providers, s \in Callers :
         brk'[p].trial = s => IF s = r THEN Holds(r, Over(x, error), p) ELSE brk[p].trial = s
  BY DEF LeftBy
<1>3. QED
  BY <1>1, <1>2, RequestStep

\* An attempt is admitted by the member in position i, all before it having
\* passed the request on and it and all after it being untried.
LEMMA AttemptInv ==
  ASSUME IInv, NEW r \in Callers, NEW bs, Healthy(bs), LeftBy(r, bs),
         NEW x \in Request, Chain(x.chain), x.source = {}, NEW i \in DOMAIN x.chain,
         \A k \in DOMAIN x.chain : k < i => Passed(x.fate[x.chain[k]]),
         \A k \in DOMAIN x.chain : k >= i => x.fate[x.chain[k]] = "untried",
         NEW n \in 0 .. MaxAttempts - 1, Attempt(r, bs, x, i, n)
  PROVE  IInv'
<1> DEFINE p == x.chain[i]
<1> PICK y : y = [x EXCEPT !.at = "calling", !.position = i, !.attempt = n,
                           !.permit = PermitFor(bs[p], r), !.open = {p}]
  OBVIOUS
<1>1. p \in Providers /\ i \in Nat /\ DOMAIN x.chain \subseteq Nat
  BY ChainFacts
<1>2. PermitFor(bs[p], r) \in {Admitted, r} /\ PermitFor(bs[p], r) \in Permits
  BY DEF PermitFor, Permits
<1>3. /\ y \in Request /\ y.at = "calling" /\ y.position = i /\ y.chain = x.chain
      /\ y.permit = PermitFor(bs[p], r) /\ y.open = {p} /\ y.fate = x.fate /\ y.source = {}
  BY <1>1, <1>2 DEF Request, Stages
<1>4. Admits(bs[p]) /\ brk' = [bs EXCEPT ![p] = Allow(@, r)] /\ Becomes(r, y)
  BY DEF Attempt
<1>5. ReqInv(r, y)
  <2>1. UnderWay(r, y)
    BY <1>1, <1>2, <1>3 DEF UnderWay, Behind, Beyond, At
  <2>2. InOrder(y)
    BY <1>1, <1>3 DEF InOrder
  <2>3. QED
    BY <1>3, <2>1, <2>2 DEF ReqInv, Ended
<1>6. /\ BreakerInv(Allow(bs[p], r))
      /\ Allow(bs[p], r).trial = IF bs[p].state = "closed" THEN NoPermit ELSE r
  BY <1>1, <1>4, AllowInv DEF Healthy
<1>7. Healthy(brk')
  BY <1>1, <1>4, <1>6 DEF Healthy, BreakerInv
<1>8. ASSUME NEW q \in Providers, NEW s \in Callers, brk'[q].trial = s
      PROVE  IF s = r THEN Holds(r, y, q) ELSE brk[q].trial = s
  <2>1. CASE q = p
    <3>1. brk'[q] = Allow(bs[p], r)
      BY <1>1, <1>4, <2>1 DEF Healthy
    <3>2. s = r /\ bs[p].state # "closed"
      BY <1>6, <1>8, <3>1, BreakerAssumption
    <3>3. QED
      BY <1>3, <2>1, <3>2 DEF Holds, At, PermitFor
  <2>2. CASE q # p
    BY <1>1, <1>4, <1>8, <2>2 DEF Healthy, LeftBy
  <2>3. QED
    BY <2>1, <2>2
<1>9. \A q \in Providers, s \in Callers :
         brk'[q].trial = s => IF s = r THEN Holds(r, y, q) ELSE brk[q].trial = s
  BY <1>8
<1>10. Becomes(r, y)
  BY <1>4
<1>11. QED
  BY <1>10, <1>5, <1>7, <1>9, RequestStep

-----------------------------------------------------------------------------
(* Hopping along the chain. *)

\* A request between two members: every one up to its position has passed it
\* on, none after it has been asked, and nothing of it is open.
Between(x) == /\ x \in Request /\ Chain(x.chain) /\ x.position \in 0 .. Len(x.chain)
              /\ x.open = {} /\ x.source = {}
              /\ \A k \in DOMAIN x.chain : k <= x.position => Passed(x.fate[x.chain[k]])
              /\ Beyond(x)

LEMMA SkippedFacts ==
  ASSUME NEW x, Between(x), NEW i \in x.position + 1 .. Len(x.chain) + 1
  PROVE  /\ SkippedTo(x, i) \in Request
         /\ SkippedTo(x, i).chain = x.chain /\ SkippedTo(x, i).position = x.position
         /\ SkippedTo(x, i).open = {} /\ SkippedTo(x, i).source = {}
         /\ \A k \in DOMAIN x.chain : k < i => Passed(SkippedTo(x, i).fate[x.chain[k]])
         /\ \A k \in DOMAIN x.chain : k >= i => SkippedTo(x, i).fate[x.chain[k]] = "untried"
         /\ \A k \in x.position + 1 .. i - 1 :
               k \in DOMAIN x.chain => SkippedTo(x, i).fate[x.chain[k]] = "refused"
         /\ i = x.position + 1 => \A k \in DOMAIN x.chain :
                                     SkippedTo(x, i).fate[x.chain[k]] = x.fate[x.chain[k]]
         /\ \A k \in DOMAIN x.chain :
               k <= x.position => SkippedTo(x, i).fate[x.chain[k]] = x.fate[x.chain[k]]
<1> DEFINE skipped(p) == \E j \in x.position + 1 .. i - 1 : x.chain[j] = p
<1> PICK fate : fate = [p \in Providers |-> IF skipped(p) THEN "refused" ELSE x.fate[p]]
  OBVIOUS
<1>1. /\ DOMAIN x.chain = 1 .. Len(x.chain) /\ Len(x.chain) \in Nat /\ x.position \in Nat
      /\ \A k \in DOMAIN x.chain : x.chain[k] \in Providers
      /\ \A k, j \in DOMAIN x.chain : x.chain[k] = x.chain[j] => k = j
      /\ x \in Request /\ x.fate \in [Providers -> Fates]
  BY ChainFacts DEF Between, Request
<1>2. SkippedTo(x, i) = [x EXCEPT !.fate = fate]
  BY DEF SkippedTo
<1>3. fate \in [Providers -> Fates]
  BY <1>1 DEF Fates
<1>4. /\ SkippedTo(x, i) \in Request /\ SkippedTo(x, i).chain = x.chain
      /\ SkippedTo(x, i).position = x.position /\ SkippedTo(x, i).open = x.open
      /\ SkippedTo(x, i).source = x.source /\ SkippedTo(x, i).fate = fate
  BY <1>1, <1>2, <1>3 DEF Request
<1>5. ASSUME NEW k \in DOMAIN x.chain
      PROVE  fate[x.chain[k]] = IF x.position < k /\ k < i THEN "refused" ELSE x.fate[x.chain[k]]
  <2>1. k \in Nat /\ i \in Nat /\ i <= Len(x.chain) + 1
    BY <1>1
  <2>2. ASSUME x.position < k, k < i PROVE skipped(x.chain[k])
    <3>1. k \in x.position + 1 .. i - 1
      BY <1>1, <2>1, <2>2
    <3>2. QED
      BY <3>1
  <2>3. ASSUME NEW j \in x.position + 1 .. i - 1, x.chain[j] = x.chain[k]
        PROVE  x.position < k /\ k < i
    <3>1. j \in DOMAIN x.chain
      BY <1>1, <2>1
    <3>2. j = k
      BY <1>1, <2>3, <3>1
    <3>3. QED
      BY <1>1, <2>1, <3>2
  <2>4. fate[x.chain[k]] = IF skipped(x.chain[k]) THEN "refused" ELSE x.fate[x.chain[k]]
    BY <1>1
  <2>5. QED
    BY <2>2, <2>3, <2>4
<1>6. \A k \in DOMAIN x.chain :
         /\ k <= x.position => Passed(x.fate[x.chain[k]])
         /\ k > x.position => x.fate[x.chain[k]] = "untried"
  BY DEF Between, Beyond
<1>7. /\ \A k \in DOMAIN x.chain : k < i => Passed(fate[x.chain[k]])
      /\ \A k \in DOMAIN x.chain : k >= i => fate[x.chain[k]] = "untried"
  <2>1. DOMAIN x.chain \subseteq Nat /\ i \in Nat /\ i > x.position
    BY <1>1
  <2>2. ASSUME NEW k \in DOMAIN x.chain, k < i PROVE Passed(fate[x.chain[k]])
    <3>1. CASE k <= x.position
      BY <1>1, <1>5, <1>6, <2>1, <3>1
    <3>2. CASE k > x.position
      BY <1>1, <1>5, <2>1, <2>2, <3>2 DEF Passed
    <3>3. QED
      BY <1>1, <2>1, <3>1, <3>2
  <2>3. ASSUME NEW k \in DOMAIN x.chain, k >= i PROVE fate[x.chain[k]] = "untried"
    BY <1>1, <1>5, <1>6, <2>1, <2>3
  <2>4. QED
    BY <2>2, <2>3
<1>8. \A k \in x.position + 1 .. i - 1 : k \in DOMAIN x.chain => fate[x.chain[k]] = "refused"
  BY <1>1, <1>5
<1>9. i = x.position + 1 => \A k \in DOMAIN x.chain : fate[x.chain[k]] = x.fate[x.chain[k]]
  BY <1>1, <1>5
<1> PICK y : y = SkippedTo(x, i)
  OBVIOUS
<1>10. y \in Request /\ y.chain = x.chain /\ y.position = x.position /\ y.open = {} /\ y.source = {}
       /\ y.fate = fate
  BY <1>4 DEF Between
<1>11. \A k \in DOMAIN x.chain : k <= x.position => fate[x.chain[k]] = x.fate[x.chain[k]]
  BY <1>1, <1>5
<1>12. QED
  BY <1>7, <1>8, <1>9, <1>10, <1>11

\* A hop keeps the invariant: to the next member that admits it, or to the
\* end of the chain with what the last member said.
LEMMA HopInv ==
  ASSUME IInv, NEW r \in Callers, NEW bs, Healthy(bs), LeftBy(r, bs), NEW x, Between(x),
         Len(x.chain) >= 1, NEW error \in Failings \cup OwnCauses,
         x.position = Len(x.chain) =>
            LastSaid(x, error) /\ error \in Failings \cup {Own("circuit_open")},
         Hop(r, bs, x, error)
  PROVE  IInv'
<1>1. /\ DOMAIN x.chain = 1 .. Len(x.chain) /\ Len(x.chain) \in Nat /\ x.position \in Nat
      /\ x.position <= Len(x.chain) /\ Chain(x.chain) /\ x \in Request
  BY ChainFacts DEF Between
<1>2. ASSUME NEW i \in x.position + 1 .. Len(x.chain), Attempt(r, bs, SkippedTo(x, i), i, 0)
      PROVE  IInv'
  <2>1. i \in x.position + 1 .. Len(x.chain) + 1 /\ i \in DOMAIN x.chain
    BY <1>1
  <2>2. 0 \in 0 .. MaxAttempts - 1
    BY RoutingAssumption
  <2> PICK y : y = SkippedTo(x, i)
    OBVIOUS
  <2>3. /\ y \in Request /\ y.chain = x.chain /\ y.source = {}
        /\ \A k \in DOMAIN x.chain : k < i => Passed(y.fate[x.chain[k]])
        /\ \A k \in DOMAIN x.chain : k >= i => y.fate[x.chain[k]] = "untried"
    BY <2>1, SkippedFacts
  <2>4. Attempt(r, bs, y, i, 0)
    BY <1>2
  <2>5. QED
    BY <1>1, <2>1, <2>2, <2>3, <2>4, AttemptInv
<1>3. ASSUME brk' = bs,
             Becomes(r, Over(SkippedTo(x, Len(x.chain) + 1),
                             IF x.position < Len(x.chain) THEN Own("circuit_open") ELSE error))
      PROVE  IInv'
  <2> PICK y : y = SkippedTo(x, Len(x.chain) + 1)
    OBVIOUS
  <2> PICK told : told = IF x.position < Len(x.chain) THEN Own("circuit_open") ELSE error
    OBVIOUS
  <2>1. /\ y \in Request /\ y.chain = x.chain /\ y.position = x.position /\ y.open = {} /\ y.source = {}
        /\ \A k \in DOMAIN x.chain : Passed(y.fate[x.chain[k]])
        /\ x.position < Len(x.chain) => y.fate[x.chain[Len(x.chain)]] = "refused"
        /\ x.position = Len(x.chain) => y.fate[x.chain[Len(x.chain)]] = x.fate[x.chain[Len(x.chain)]]
    <3>1. /\ Len(x.chain) + 1 \in x.position + 1 .. Len(x.chain) + 1
          /\ \A k \in DOMAIN x.chain : k < Len(x.chain) + 1
          /\ Len(x.chain) \in DOMAIN x.chain
          /\ x.position < Len(x.chain) => Len(x.chain) \in x.position + 1 .. (Len(x.chain) + 1) - 1
      BY <1>1
    <3>2. QED
      BY <1>1, <3>1, SkippedFacts
  <2>2. told \in Failings \cup OwnCauses /\ told \in Failings \cup {Own("circuit_open")}
    BY <1>1, OwnKinds
  <2>3. LastSaid(y, told)
    BY <1>1, <2>1, OwnKinds DEF LastSaid
  <2>4. told.what # "broken"
    BY <2>2, OwnKinds, RoutingAssumption DEF Causes, Mishaps
  <2> PICK z : z = Over(y, told)
    OBVIOUS
  <2>5. /\ z.at = "done" /\ z.error = told /\ z.chain = x.chain /\ z.position = x.position
        /\ z.open = {} /\ z.source = {} /\ z.fate = y.fate
    BY <2>1, <2>2, OverFacts
  <2>6. AtRest(z)
    BY <2>2, <2>4, <2>5 DEF AtRest
  <2>7. InOrder(z)
    BY <2>1, <2>3, <2>5 DEF InOrder, LastSaid
  <2>8. Becomes(r, Over(y, told))
    BY <1>3
  <2>9. QED
    BY <1>1, <1>3, <2>1, <2>2, <2>6, <2>7, <2>8, EndInv
<1>4. QED
  BY <1>2, <1>3 DEF Hop

-----------------------------------------------------------------------------
(* What a request leaves behind at the provider it was with. *)

LEMMA UnderWayFacts ==
  ASSUME NEW r \in Callers, NEW x, ReqInv(r, x), x.at \in {"calling", "backoff", "relaying"}
  PROVE  /\ x \in Request /\ Chain(x.chain) /\ UnderWay(r, x)
         /\ DOMAIN x.chain = 1 .. Len(x.chain) /\ Len(x.chain) \in Nat
         /\ Len(x.chain) >= 1 /\ x.position \in 1 .. Len(x.chain)
         /\ At(x) \in Providers /\ At(x) = x.chain[x.position]
         /\ \A k \in 1 .. Len(x.chain) : x.chain[k] \in Providers
         /\ \A k \in 1 .. Len(x.chain) : x.chain[k] = At(x) => k = x.position
<1>1. UnderWay(r, x) /\ x \in Request /\ Chain(x.chain)
  BY DEF ReqInv, Stages, Ended
<1>2. QED
  BY <1>1, ChainFacts DEF UnderWay, At

\* Writing down what came of it at its current member moves no other fate.
Fated(x, fate) == [x.fate EXCEPT ![At(x)] = fate]

LEMMA FateFacts ==
  ASSUME NEW r \in Callers, NEW x, ReqInv(r, x), x.at \in {"calling", "backoff", "relaying"},
         NEW fate \in Fates
  PROVE  /\ Fated(x, fate) \in [Providers -> Fates] /\ Fated(x, fate)[At(x)] = fate
         /\ \A k \in 1 .. Len(x.chain) :
               /\ k < x.position => Passed(Fated(x, fate)[x.chain[k]])
               /\ k > x.position => Fated(x, fate)[x.chain[k]] = "untried"
<1>1. x.fate \in [Providers -> Fates]
  BY UnderWayFacts DEF Request
<1>2. \A k \in 1 .. Len(x.chain) :
         /\ k < x.position => Passed(x.fate[x.chain[k]])
         /\ k > x.position => x.fate[x.chain[k]] = "untried"
  BY UnderWayFacts DEF UnderWay, Behind, Beyond
<1>3. /\ Fated(x, fate) \in [Providers -> Fates] /\ Fated(x, fate)[At(x)] = fate
      /\ \A p \in Providers \ {At(x)} : Fated(x, fate)[p] = x.fate[p]
  BY <1>1, UnderWayFacts DEF Fated
<1>4. \A k \in 1 .. Len(x.chain) :
         k # x.position => Fated(x, fate)[x.chain[k]] = x.fate[x.chain[k]]
  BY <1>3, UnderWayFacts
<1>5. ASSUME NEW k \in 1 .. Len(x.chain)
      PROVE  /\ k < x.position => Passed(Fated(x, fate)[x.chain[k]])
             /\ k > x.position => Fated(x, fate)[x.chain[k]] = "untried"
  <2>1. (k < x.position \/ k > x.position) => Fated(x, fate)[x.chain[k]] = x.fate[x.chain[k]]
    BY <1>4, UnderWayFacts
  <2>2. k < x.position => Passed(x.fate[x.chain[k]])
    BY <1>2
  <2>3. k > x.position => x.fate[x.chain[k]] = "untried"
    BY <1>2
  <2>4. QED
    BY <2>1, <2>2, <2>3 DEF Passed
<1>6. QED
  BY <1>3, <1>5

\* The permit is handed back in the `finally`: r holds no slot afterwards.
LEMMA FreedFacts ==
  ASSUME IInv, NEW r \in Callers, req[r].at \in {"calling", "backoff", "relaying"},
         NEW b, BreakerInv(b), b.trial \in {NoPermit, brk[At(req[r])].trial}
  PROVE  LET bs == [brk EXCEPT ![At(req[r])] = Freed(r, b)]
         IN Healthy(bs) /\ LeftBy(r, bs)
<1> DEFINE p == At(req[r])
<1>1. p \in Providers /\ req[r].permit \in Permits
  BY UnderWayFacts DEF IInv, Request
<1>2. /\ BreakerInv(Freed(r, b))
      /\ Freed(r, b).trial = IF b.trial = req[r].permit THEN NoPermit ELSE b.trial
  BY <1>1, ReleaseTrialInv DEF Freed
<1> PICK freed : freed = Freed(r, b)
  OBVIOUS
<1> PICK bs : bs = [brk EXCEPT ![p] = freed]
  OBVIOUS
<1>3. /\ bs \in [Providers -> Breaker] /\ bs[p] = freed
      /\ \A q \in Providers \ {p} : bs[q] = brk[q]
  BY <1>1, <1>2 DEF IInv, BreakerInv
<1>4. Healthy(bs)
  BY <1>2, <1>3 DEF Healthy, IInv
<1>5. ASSUME NEW q \in Providers, NEW s \in Callers, bs[q].trial = s
      PROVE  s # r /\ brk[q].trial = s
  <2>1. \A o \in Providers : brk[o].trial = r => o = p /\ req[r].permit = r
    BY DEF IInv, Holds
  <2>2. CASE q # p
    BY <1>3, <1>5, <2>1, <2>2
  <2>3. CASE q = p
    <3>1. b.trial = s /\ b.trial # req[r].permit
      BY <1>2, <1>3, <1>5, <2>3, BreakerAssumption
    <3>2. brk[p].trial = s
      BY <3>1, BreakerAssumption
    <3>3. QED
      BY <1>1, <2>1, <2>3, <3>1, <3>2
  <2>4. QED
    BY <2>2, <2>3
<1>6. LeftBy(r, bs)
  BY <1>5 DEF LeftBy
<1>7. QED
  BY <1>4, <1>6

\* The member was left with a fate, its stream closed.
LEMMA LeftFacts ==
  ASSUME NEW r \in Callers, NEW x, ReqInv(r, x), x.at \in {"calling", "backoff", "relaying"},
         NEW fate \in Fates
  PROVE  /\ Left(x, fate) \in Request
         /\ Left(x, fate).chain = x.chain /\ Left(x, fate).position = x.position
         /\ Left(x, fate).open = {} /\ Left(x, fate).source = x.source
         /\ Left(x, fate).at = x.at /\ Left(x, fate).fate = Fated(x, fate)
<1>1. Fated(x, fate) \in [Providers -> Fates] /\ NoPermit \in Permits /\ x \in Request
  BY FateFacts, UnderWayFacts DEF Permits
<1>2. Left(x, fate) = [x EXCEPT !.open = {}, !.permit = NoPermit, !.fate = Fated(x, fate)]
  BY <1>1 DEF Left, Fated, Request
<1>3. QED
  BY <1>1, <1>2 DEF Request

\* And with a fate that passes the request on, it is between two members.
LEMMA BetweenFacts ==
  ASSUME NEW r \in Callers, NEW x, ReqInv(r, x), x.at \in {"calling", "backoff"},
         NEW fate \in {"refused", "failed"}
  PROVE  Between(Left(x, fate)) /\ Left(x, fate).fate[At(x)] = fate
<1>1. fate \in Fates /\ Passed(fate) /\ x.at \in {"calling", "backoff", "relaying"}
  BY DEF Fates, Passed
<1> PICK y : y = Left(x, fate)
  OBVIOUS
<1>2. /\ y \in Request /\ y.chain = x.chain /\ y.position = x.position
      /\ y.open = {} /\ y.source = {} /\ y.fate = Fated(x, fate)
  <2>1. x.source = {}
    BY <1>1, UnderWayFacts DEF UnderWay
  <2>2. QED
    BY <1>1, <2>1, LeftFacts
<1>3. /\ Fated(x, fate)[At(x)] = fate
      /\ \A k \in 1 .. Len(x.chain) :
            /\ k < x.position => Passed(Fated(x, fate)[x.chain[k]])
            /\ k > x.position => Fated(x, fate)[x.chain[k]] = "untried"
  BY <1>1, FateFacts
<1>4. /\ DOMAIN x.chain = 1 .. Len(x.chain) /\ x.position \in 1 .. Len(x.chain)
      /\ Len(x.chain) \in Nat /\ Chain(x.chain) /\ At(x) = x.chain[x.position]
  BY <1>1, UnderWayFacts
<1>5. \A k \in 1 .. Len(x.chain) : k <= x.position => k < x.position \/ k = x.position
  BY <1>4
<1>6. \A k \in DOMAIN y.chain : k <= y.position => Passed(y.fate[y.chain[k]])
  BY <1>1, <1>2, <1>3, <1>4, <1>5
<1>7. Beyond(y)
  BY <1>2, <1>3, <1>4 DEF Beyond
<1>8. y.position \in 0 .. Len(y.chain)
  BY <1>2, <1>4
<1>9. QED
  BY <1>2, <1>3, <1>4, <1>6, <1>7, <1>8 DEF Between

\* A member that refuses or is given up on, its breaker left as it is.
LEMMA PassOnInv ==
  ASSUME IInv, NEW r \in Callers, req[r].at \in {"calling", "backoff"},
         NEW bs, Healthy(bs), LeftBy(r, bs), NEW fate \in {"refused", "failed"},
         NEW error \in Failings \cup {Own("circuit_open")}, Hoppable(KindOf(error)),
         fate = IF KindOf(error) = "circuit_open" THEN "refused" ELSE "failed",
         Raise(r, bs, Left(req[r], fate), error)
  PROVE  IInv'
<1> PICK x : x = Left(req[r], fate)
  OBVIOUS
<1>1. Between(x) /\ x.fate[At(req[r])] = fate
  BY BetweenFacts DEF IInv
<1>2. x.chain = req[r].chain /\ x.position = req[r].position
  BY LeftFacts DEF Fates, IInv
<1>3. Len(x.chain) >= 1 /\ error \in Failings \cup OwnCauses
  BY <1>2, UnderWayFacts, OwnKinds DEF IInv
<1>4. x.position = Len(x.chain) => LastSaid(x, error)
  BY <1>1, <1>2 DEF LastSaid, At
<1>5. Hop(r, bs, x, error)
  BY DEF Raise
<1>6. QED
  BY <1>1, <1>3, <1>4, <1>5, HopInv

-----------------------------------------------------------------------------
(* One lemma per action. *)

LEMMA ArriveInv ==
  ASSUME IInv, NEW r \in Callers, Arrive(r)
  PROVE  IInv'
<1>1. req[r].at \in Ended
  BY DEF Arrive
<1>2. Healthy(brk) /\ LeftBy(r, brk)
  BY <1>1 DEF IInv, Healthy, LeftBy, Holds, Ended
<1>3. 0 \in 0 .. MaxAttempts - 1 /\ 0 \in Nat
  BY RoutingAssumption
<1>4. ASSUME Becomes(r, Over(Fresh, Own("unroutable"))), UNCHANGED brk
      PROVE  IInv'
  <2> PICK x : x = Fresh
    OBVIOUS
  <2>1. /\ x \in Request /\ x.chain = <<>> /\ x.open = {} /\ x.source = {}
    BY <1>3, OwnKinds DEF Fresh, Request, Stages, Ended, Permits, Fates
  <2> PICK z : z = Over(x, Own("unroutable"))
    OBVIOUS
  <2> PICK error : error = Own("unroutable")
    OBVIOUS
  <2>6. error \in Failings \cup OwnCauses
    BY OwnKinds
  <2>2. z.chain = <<>> /\ z.open = {} /\ z.source = {} /\ z.error = error
    BY <2>1, <2>6, OverFacts
  <2>3. AtRest(z) /\ InOrder(z)
    BY <2>2, OwnKinds DEF AtRest, InOrder
  <2>4. Becomes(r, Over(x, Own("unroutable"))) /\ Chain(x.chain)
    BY <1>4, <2>1 DEF Chain
  <2>5. QED
    BY <1>2, <1>4, <2>1, <2>3, <2>4, OwnKinds, EndInv
<1>5. ASSUME NEW head \in Routed, NEW stream \in BOOLEAN,
             Hop(r, brk, [Fresh EXCEPT !.stream = stream, !.chain = Members(head)], Own("none"))
      PROVE  IInv'
  <2> PICK x : x = [Fresh EXCEPT !.stream = stream, !.chain = Members(head)]
    OBVIOUS
  <2>1. /\ x.chain = Members(head) /\ x.position = 0 /\ x.open = {} /\ x.source = {}
        /\ x.fate = [p \in Providers |-> "untried"] /\ x \in Request
    BY <1>3, OwnKinds, MembersFacts DEF Fresh, Request, Stages, Ended, Permits, Fates
  <2>2. Chain(x.chain) /\ Len(x.chain) >= 1 /\ DOMAIN x.chain = 1 .. Len(x.chain)
        /\ Len(x.chain) \in Nat /\ \A k \in DOMAIN x.chain : x.chain[k] \in Providers
    BY <2>1, MembersFacts, ChainFacts DEF Chain
  <2>3. Between(x)
    BY <2>1, <2>2 DEF Between, Beyond
  <2>4. x.position # Len(x.chain) /\ Hop(r, brk, x, Own("none"))
    BY <1>5, <2>1, <2>2
  <2>5. QED
    BY <1>2, <2>2, <2>3, <2>4, OwnKinds, HopInv
<1>6. QED
  BY <1>4, <1>5, ProviderForIsRouted DEF Arrive

\* A provider that served is the one source of the body from then on.
LEMMA ServeInv ==
  ASSUME IInv, NEW r \in Callers, Serve(r)
  PROVE  IInv'
<1> PICK old : old = req[r]
  OBVIOUS
<1> PICK p : p = At(old)
  OBVIOUS
<1>1. old.at = "calling" /\ ReqInv(r, old)
  BY DEF Serve, IInv
<1>2. /\ old \in Request /\ Chain(old.chain) /\ UnderWay(r, old) /\ old.open = {p} /\ p \in Providers
      /\ DOMAIN old.chain = 1 .. Len(old.chain) /\ Len(old.chain) \in Nat
      /\ old.position \in 1 .. Len(old.chain) /\ p = old.chain[old.position]
  BY <1>1, UnderWayFacts DEF UnderWay
<1>3. /\ Fated(old, "served") \in [Providers -> Fates]
      /\ \A k \in 1 .. Len(old.chain) :
            /\ k < old.position => Passed(Fated(old, "served")[old.chain[k]])
            /\ k > old.position => Fated(old, "served")[old.chain[k]] = "untried"
  BY <1>1, FateFacts DEF Fates
<1>4. PICK fate : fate = Fated(old, "served")
  OBVIOUS
<1>5. ASSUME NEW y, y.chain = old.chain, y.position = old.position, y.fate = fate, y.source = {p}
      PROVE  InOrder(y) /\ Behind(y) /\ Beyond(y)
  <2>1. \A k \in DOMAIN y.chain : /\ k < y.position => Passed(y.fate[y.chain[k]])
                                  /\ k > y.position => y.fate[y.chain[k]] = "untried"
    BY <1>2, <1>3, <1>4, <1>5
  <2>2. \A i, j \in DOMAIN y.chain : (i < j /\ j <= y.position) => i < y.position
    BY <1>2, <1>5
  <2>3. \A i, j \in DOMAIN y.chain : (i < j /\ ~(j <= y.position)) => j > y.position
    BY <1>2, <1>5
  <2>4. \A i, j \in DOMAIN y.chain :
           (i < j /\ (j <= y.position \/ y.fate[y.chain[j]] # "untried")) => Passed(y.fate[y.chain[i]])
    BY <2>1, <2>2, <2>3
  <2>5. QED
    BY <1>5, <2>1, <2>4 DEF InOrder, Behind, Beyond
<1>6. PICK x : x = [old EXCEPT !.permit = NoPermit, !.source = {p}, !.fate[p] = "served"]
  OBVIOUS
<1>7. /\ x \in Request /\ x.chain = old.chain /\ x.position = old.position /\ x.open = {p}
      /\ x.source = {p} /\ x.fate = fate /\ x.at = "calling" /\ x.permit = NoPermit
  <2>1. NoPermit \in Permits
    BY DEF Permits
  <2>2. x = [old EXCEPT !.permit = NoPermit, !.source = {p}, !.fate = Fated(old, "served")]
    BY <1>2, <1>6 DEF Fated, Request
  <2>3. QED
    BY <1>1, <1>2, <1>3, <1>4, <2>1, <2>2 DEF Request
<1>8. PICK bs : bs = [brk EXCEPT ![p] = Freed(r, RecordSuccess(@))]
  OBVIOUS
<1>9. brk' = bs
  BY <1>8 DEF Serve
<1>10. Healthy(bs) /\ LeftBy(r, bs)
  <2>1. BreakerInv(NewBreaker) /\ NewBreaker.trial = NoPermit
    BY NewBreakerInv DEF NewBreaker
  <2>2. bs = [brk EXCEPT ![At(req[r])] = Freed(r, NewBreaker)]
    BY <1>8 DEF RecordSuccess
  <2>3. req[r].at \in {"calling", "backoff", "relaying"}
    BY <1>1
  <2>4. QED
    BY <2>1, <2>2, <2>3, FreedFacts
<1>11. CASE x.stream
  <2>1. PICK y : y = [x EXCEPT !.at = "relaying"]
    OBVIOUS
  <2>2. /\ y \in Request /\ y.at = "relaying" /\ y.chain = old.chain /\ y.position = old.position
        /\ y.open = {p} /\ y.source = {p} /\ y.fate = fate /\ y.permit = NoPermit
    BY <1>7, <2>1 DEF Request, Stages
  <2>3. InOrder(y) /\ Behind(y) /\ Beyond(y)
    BY <1>5, <2>2
  <2>4. ReqInv(r, y)
    BY <1>2, <2>2, <2>3 DEF ReqInv, UnderWay, Ended, At
  <2>5. Becomes(r, y)
    BY <1>6, <1>11, <2>1 DEF Serve
  <2>6. \A q \in Providers, s \in Callers :
           brk'[q].trial = s => IF s = r THEN Holds(r, y, q) ELSE brk[q].trial = s
    BY <1>9, <1>10 DEF LeftBy
  <2>7. Healthy(brk')
    BY <1>9, <1>10
  <2>8. QED
    BY <2>4, <2>5, <2>6, <2>7, RequestStep
<1>12. CASE ~x.stream
  <2>1. PICK y : y = [x EXCEPT !.open = {}]
    OBVIOUS
  <2>2. /\ y \in Request /\ y.chain = old.chain /\ y.position = old.position
        /\ y.open = {} /\ y.source = {p} /\ y.fate = fate
    BY <1>7, <2>1 DEF Request
  <2>3. Own("none") \in Failings \cup OwnCauses
    BY OwnKinds
  <2>4. PICK z : z = Over(y, Own("none"))
    OBVIOUS
  <2>5. /\ z.chain = old.chain /\ z.position = old.position /\ z.at = "done"
        /\ z.open = {} /\ z.source = {p} /\ z.fate = fate
    BY <2>2, <2>3, <2>4, OverFacts
  <2>6. InOrder(z)
    BY <1>5, <2>5
  <2>7. AtRest(z)
    BY <1>2, <2>5 DEF AtRest, At
  <2>8. Becomes(r, Over(y, Own("none"))) /\ Chain(y.chain)
    BY <1>2, <1>6, <1>12, <2>1, <2>2 DEF Serve
  <2>9. QED
    BY <1>9, <1>10, <2>2, <2>3, <2>4, <2>6, <2>7, <2>8, EndInv
<1>13. QED
  BY <1>11, <1>12

\* A rejection ends the request where it is: nobody is asked after it.
LEMMA RejectInv ==
  ASSUME IInv, NEW r \in Callers, Reject(r)
  PROVE  IInv'
<1> PICK old : old = req[r]
  OBVIOUS
<1>1. old.at = "calling" /\ ReqInv(r, old) /\ req[r].at \in {"calling", "backoff", "relaying"}
  BY DEF Reject, IInv
<1>2. PICK cause \in Failings :
         /\ ~Retryable(KindOf(cause))
         /\ Raise(r, [brk EXCEPT ![At(req[r])] = Freed(r, @)], Left(req[r], "rejected"), cause)
  BY DEF Reject
<1>3. ~Hoppable(KindOf(cause)) /\ cause.what # "broken" /\ cause \in Failings \cup OwnCauses
  <2>1. cause \in Causes
    BY <1>2, RoutingAssumption
  <2>2. cause.what # "broken"
    BY <2>1 DEF Causes, Mishaps
  <2>3. KindOf(cause) # "circuit_open"
    BY <2>1, CauseKinds
  <2>4. QED
    BY <1>2, <2>2, <2>3 DEF Hoppable
<1>4. PICK bs : bs = [brk EXCEPT ![At(req[r])] = Freed(r, @)]
  OBVIOUS
<1>5. Healthy(bs) /\ LeftBy(r, bs)
  <2>1. BreakerInv(brk[At(req[r])]) /\ bs = [brk EXCEPT ![At(req[r])] = Freed(r, brk[At(req[r])])]
    BY <1>1, <1>4, UnderWayFacts DEF IInv
  <2>2. QED
    BY <1>1, <2>1, FreedFacts
<1>6. PICK x : x = Left(old, "rejected")
  OBVIOUS
<1>7. /\ x \in Request /\ x.chain = old.chain /\ x.position = old.position /\ x.open = {} /\ x.source = {}
      /\ x.fate = Fated(old, "rejected") /\ Chain(x.chain)
  BY <1>1, <1>6, LeftFacts, UnderWayFacts DEF Fates, UnderWay
<1>8. brk' = bs /\ Becomes(r, Over(x, cause))
  BY <1>2, <1>3, <1>4, <1>6 DEF Raise
<1>9. PICK z : z = Over(x, cause)
  OBVIOUS
<1>10. /\ z.chain = old.chain /\ z.position = old.position /\ z.at = "done" /\ z.error = cause
       /\ z.open = {} /\ z.source = {} /\ z.fate = Fated(old, "rejected")
  BY <1>3, <1>7, <1>9, OverFacts
<1>11. AtRest(z)
  BY <1>3, <1>10 DEF AtRest
<1>12. InOrder(z)
  <2>1. \A k \in 1 .. Len(old.chain) :
           /\ k < old.position => Passed(Fated(old, "rejected")[old.chain[k]])
           /\ k > old.position => Fated(old, "rejected")[old.chain[k]] = "untried"
    BY <1>1, FateFacts DEF Fates
  <2>2. /\ DOMAIN old.chain = 1 .. Len(old.chain) /\ Len(old.chain) \in Nat
        /\ old.position \in 1 .. Len(old.chain)
    BY <1>1, UnderWayFacts
  <2>3. ASSUME NEW i \in DOMAIN z.chain, NEW j \in DOMAIN z.chain, i < j,
               j <= z.position \/ z.fate[z.chain[j]] # "untried"
        PROVE  Passed(z.fate[z.chain[i]])
    <3>1. j <= old.position
      BY <1>10, <2>1, <2>2, <2>3
    <3>2. i < old.position
      BY <1>10, <2>2, <2>3, <3>1
    <3>3. QED
      BY <1>10, <2>1, <2>2, <3>2
  <2>4. QED
    BY <1>3, <1>10, <2>3 DEF InOrder
<1>13. QED
  BY <1>3, <1>5, <1>7, <1>8, <1>9, <1>11, <1>12, EndInv

\* Between two attempts at one member nothing is open and no slot is held.
LEMMA BackoffInv ==
  ASSUME IInv, NEW r \in Callers, Backoff(r)
  PROVE  IInv'
<1> PICK old : old = req[r]
  OBVIOUS
<1>1. /\ old.at = "calling" /\ ReqInv(r, old) /\ old.permit # r /\ old.attempt < MaxAttempts - 1
  BY DEF Backoff, IInv
<1>2. /\ old \in Request /\ Chain(old.chain) /\ UnderWay(r, old)
  BY <1>1, UnderWayFacts
<1>3. PICK x : x = [old EXCEPT !.at = "backoff", !.open = {}]
  OBVIOUS
<1>4. /\ x \in Request /\ x.at = "backoff" /\ x.chain = old.chain /\ x.position = old.position
      /\ x.open = {} /\ x.source = old.source /\ x.fate = old.fate /\ x.attempt = old.attempt
      /\ x.permit = old.permit
  BY <1>2, <1>3 DEF Request, Stages
<1>5. UnderWay(r, x)
  BY <1>1, <1>2, <1>4 DEF UnderWay, Behind, Beyond, At
<1>6. InOrder(x)
  BY <1>1, <1>4 DEF ReqInv, InOrder
<1>7. ReqInv(r, x)
  BY <1>2, <1>4, <1>5, <1>6 DEF ReqInv, Ended
<1>8. brk' = brk /\ Becomes(r, x)
  BY <1>3 DEF Backoff
<1>9. \A p \in Providers, s \in Callers :
         brk'[p].trial = s => IF s = r THEN Holds(r, x, p) ELSE brk[p].trial = s
  BY <1>1, <1>8 DEF IInv, Holds
<1>10. Healthy(brk')
  BY <1>8 DEF IInv, Healthy
<1>11. QED
  BY <1>7, <1>8, <1>9, <1>10, RequestStep

LEMMA WakeInv ==
  ASSUME IInv, NEW r \in Callers, Wake(r)
  PROVE  IInv'
<1> PICK old : old = req[r]
  OBVIOUS
<1>1. /\ old.at = "backoff" /\ ReqInv(r, old)
  BY DEF Wake, IInv
<1>2. /\ old \in Request /\ Chain(old.chain) /\ UnderWay(r, old) /\ DOMAIN old.chain = 1 .. Len(old.chain)
      /\ old.position \in 1 .. Len(old.chain) /\ Len(old.chain) \in Nat /\ At(old) = old.chain[old.position]
      /\ \A k \in 1 .. Len(old.chain) : old.chain[k] = At(old) => k = old.position
  BY <1>1, UnderWayFacts
<1>3. Healthy(brk) /\ LeftBy(r, brk)
  BY <1>1 DEF IInv, Healthy, LeftBy, Holds
<1>4. CASE Attempt(r, brk, old, old.position, old.attempt + 1)
  <2>1. old.attempt + 1 \in 0 .. MaxAttempts - 1
    BY <1>1, <1>2, RoutingAssumption DEF UnderWay, Request
  <2>2. \A k \in DOMAIN old.chain : k < old.position => Passed(old.fate[old.chain[k]])
    BY <1>2 DEF UnderWay, Behind
  <2>3. \A k \in DOMAIN old.chain : k > old.position => old.fate[old.chain[k]] = "untried"
    BY <1>2 DEF UnderWay, Beyond
  <2>4. old.fate[At(old)] = "untried" /\ old.source = {}
    BY <1>1, <1>2 DEF UnderWay
  <2>5. \A k \in DOMAIN old.chain : k >= old.position => old.fate[old.chain[k]] = "untried"
    BY <1>2, <2>3, <2>4
  <2>6. old.position \in DOMAIN old.chain
    BY <1>2
  <2>7. QED
    BY <1>2, <1>3, <1>4, <2>1, <2>2, <2>4, <2>5, <2>6, AttemptInv
<1>5. CASE Raise(r, brk, Left(old, "refused"), Own("circuit_open"))
  <2>1. Hoppable(KindOf(Own("circuit_open"))) /\ KindOf(Own("circuit_open")) = "circuit_open"
    BY OwnKinds DEF Hoppable
  <2>2. QED
    BY <1>1, <1>3, <1>5, <2>1, PassOnInv
<1>6. QED
  BY <1>4, <1>5 DEF Wake

LEMMA GiveUpInv ==
  ASSUME IInv, NEW r \in Callers, GiveUp(r)
  PROVE  IInv'
<1>1. req[r].at \in {"calling", "backoff"} /\ ReqInv(r, req[r]) /\ At(req[r]) \in Providers
  BY UnderWayFacts DEF GiveUp, IInv
<1>2. PICK b : b = RecordFailure(brk[At(req[r])])
  OBVIOUS
<1>3. PICK bs : bs = [brk EXCEPT ![At(req[r])] = Freed(r, b)]
  OBVIOUS
<1>4. PICK cause \in Failings :
         /\ Retryable(KindOf(cause))
         /\ Raise(r, bs, Left(req[r], "failed"), cause)
  BY <1>1, <1>2, <1>3 DEF GiveUp, IInv
<1>5. Hoppable(KindOf(cause)) /\ KindOf(cause) # "circuit_open"
  BY <1>4, CauseKinds, RoutingAssumption DEF Hoppable
<1>6. BreakerInv(b) /\ b.trial \in {NoPermit, brk[At(req[r])].trial}
  BY <1>1, <1>2, RecordFailureInv DEF IInv
<1>7. Healthy(bs) /\ LeftBy(r, bs)
  BY <1>1, <1>3, <1>6, FreedFacts
<1>8. QED
  BY <1>1, <1>4, <1>5, <1>7, PassOnInv

\* A request that ends by itself after its first chunk, or at its caller's
\* wish: its stream is closed and no fate but its own is known.
LEMMA LeaveInv ==
  ASSUME IInv, NEW r \in Callers, req[r].at \in {"calling", "backoff", "relaying"},
         NEW bs, Healthy(bs), LeftBy(r, bs), brk' = bs, NEW permit \in Permits,
         NEW error \in {Own("none"), Own("cancelled"), Own("broken")},
         error = Own("broken") => req[r].at = "relaying",
         Becomes(r, Over([req[r] EXCEPT !.permit = permit, !.open = {}], error))
  PROVE  IInv'
<1>1. PICK old : old = req[r]
  OBVIOUS
<1>2. ReqInv(r, old) /\ old.at \in {"calling", "backoff", "relaying"}
  BY <1>1 DEF IInv
<1>3. old \in Request /\ Chain(old.chain) /\ UnderWay(r, old) /\ InOrder(old)
  BY <1>2, UnderWayFacts DEF ReqInv
<1>4. PICK x : x = [old EXCEPT !.permit = permit, !.open = {}]
  OBVIOUS
<1>5. /\ x \in Request /\ x.chain = old.chain /\ x.position = old.position
      /\ x.open = {} /\ x.source = old.source /\ x.fate = old.fate
  BY <1>3, <1>4 DEF Request
<1>6. /\ error \in Failings \cup OwnCauses /\ ~Hoppable(KindOf(error))
      /\ error.what \in {"none", "cancelled", "broken"}
      /\ error.what = "broken" => old.at = "relaying"
  BY <1>1, OwnKinds
<1>7. PICK z : z = Over(x, error)
  OBVIOUS
<1>8. /\ z.chain = old.chain /\ z.position = old.position /\ z.at = "done" /\ z.error = error
      /\ z.open = {} /\ z.source = old.source /\ z.fate = old.fate
  BY <1>5, <1>6, <1>7, OverFacts
<1>9. AtRest(z)
  <2>1. CASE old.at = "relaying"
    <3>1. old.source = {At(old)} /\ old.position \in DOMAIN old.chain
      BY <1>3, <2>1 DEF UnderWay
    <3>2. QED
      BY <1>8, <3>1 DEF AtRest, At
  <2>2. CASE old.at # "relaying"
    <3>1. old.source = {} /\ error.what \in {"none", "cancelled"}
      BY <1>2, <1>3, <1>6, <2>2 DEF UnderWay
    <3>2. QED
      BY <1>8, <3>1 DEF AtRest
  <2>3. QED
    BY <2>1, <2>2
<1>10. InOrder(z)
  BY <1>3, <1>6, <1>8 DEF InOrder
<1>11. Becomes(r, Over(x, error))
  BY <1>1, <1>4
<1>12. QED
  BY <1>3, <1>5, <1>6, <1>7, <1>9, <1>10, <1>11, EndInv

LEMMA BreakOffInv ==
  ASSUME IInv, NEW r \in Callers, BreakOff(r) \/ StreamEnds(r)
  PROVE  IInv'
<1>1. /\ req[r].at = "relaying" /\ brk' = brk /\ req[r].permit \in Permits
      /\ req[r] \in Request /\ [req[r] EXCEPT !.open = {}] = [req[r] EXCEPT !.permit = req[r].permit, !.open = {}]
  BY DEF BreakOff, StreamEnds, IInv, Request
<1>2. Healthy(brk) /\ LeftBy(r, brk)
  BY <1>1 DEF IInv, Healthy, LeftBy, Holds
<1>3. PICK error \in {Own("none"), Own("broken")} :
         Becomes(r, Over([req[r] EXCEPT !.permit = req[r].permit, !.open = {}], error))
  BY <1>1 DEF BreakOff, StreamEnds
<1>4. QED
  BY <1>1, <1>2, <1>3, LeaveInv

LEMMA CancelInv ==
  ASSUME IInv, NEW r \in Callers, Cancel(r)
  PROVE  IInv'
<1>1. req[r].at \in {"calling", "backoff", "relaying"} /\ ReqInv(r, req[r])
  BY DEF Cancel, IInv
<1>2. PICK bs : bs = [brk EXCEPT ![At(req[r])] = Freed(r, @)]
  OBVIOUS
<1>3. Healthy(bs) /\ LeftBy(r, bs)
  <2>1. BreakerInv(brk[At(req[r])]) /\ bs = [brk EXCEPT ![At(req[r])] = Freed(r, brk[At(req[r])])]
    BY <1>1, <1>2, UnderWayFacts DEF IInv
  <2>2. QED
    BY <1>1, <2>1, FreedFacts
<1>4. Becomes(r, Over([req[r] EXCEPT !.permit = NoPermit, !.open = {}], Own("cancelled"))) /\ brk' = bs
  BY <1>2 DEF Cancel
<1>5. Own("cancelled") # Own("broken") /\ NoPermit \in Permits
  BY OwnKinds DEF Permits
<1>6. QED
  BY <1>1, <1>3, <1>4, <1>5, LeaveInv

LEMMA TickInv ==
  ASSUME IInv, Tick
  PROVE  IInv'
<1>1. \A p \in Providers : brk'[p] = Elapse(brk[p])
  BY DEF Tick
<1>2. \A p \in Providers : BreakerInv(brk'[p]) /\ brk'[p].trial = brk[p].trial
  BY <1>1, ElapseInv DEF IInv
<1>3. brk' \in [Providers -> Breaker] /\ req' = req
  BY <1>1, <1>2 DEF Tick, BreakerInv
<1>4. QED
  BY <1>2, <1>3 DEF IInv

LEMMA InitInv ==
  ASSUME Init
  PROVE  IInv
<1>1. 0 \in 0 .. MaxAttempts - 1 /\ 0 \in Nat
  BY RoutingAssumption
<1>2. /\ Fresh \in Request /\ Fresh.chain = <<>> /\ Fresh.open = {} /\ Fresh.source = {} /\ Fresh.at = "new"
  BY <1>1, OwnKinds DEF Fresh, Request, Stages, Ended, Permits, Fates
<1>3. \A r \in Callers : ReqInv(r, Fresh)
  BY <1>2 DEF ReqInv, Chain, AtRest, InOrder, Ended, Stages
<1>4. BreakerInv(NewBreaker) /\ NewBreaker.trial = NoPermit
  BY NewBreakerInv DEF NewBreaker
<1>5. QED
  BY <1>2, <1>3, <1>4, BreakerAssumption DEF Init, IInv, BreakerInv

LEMMA NextInv ==
  ASSUME IInv, [Next]_vars
  PROVE  IInv'
<1>1. ASSUME UNCHANGED vars PROVE IInv'
  BY <1>1 DEF vars, IInv
<1>2. QED
  BY <1>1, TickInv, ArriveInv, ServeInv, RejectInv, BackoffInv, WakeInv, GiveUpInv, BreakOffInv, CancelInv
  DEF Next

\* What every step preserves: where each request is on its chain, what has
\* come of it at each member so far, and who holds which breaker's slot.
THEOREM Invariant == Spec => []IInv
<1>1. Init => IInv
  BY InitInv
<1>2. IInv /\ [Next]_vars => IInv'
  BY NextInv
<1>3. QED
  BY <1>1, <1>2, PTL DEF Spec

-----------------------------------------------------------------------------
(* The properties of the chain. *)

\* The types, for any routing table and chains of any length: a request that
\* is under way is at a member of a chain the router knows.
THEOREM Types == Spec => []TypeOK
<1>1. IInv => TypeOK
  <2>1. ASSUME IInv, NEW r \in Callers
        PROVE  LET x == req[r]
               IN /\ x \in Request
                  /\ x.chain = <<>> \/ \E head \in Routed : x.chain = Members(head)
                  /\ x.at \in Stages \ Ended => x.position \in DOMAIN x.chain
    BY <2>1 DEF IInv, ReqInv, Chain, UnderWay
  <2>2. QED
    BY <2>1 DEF TypeOK, IInv
<1>2. QED
  BY <1>1, Invariant, PTL

\* No member is asked before every one in front of it has passed the request
\* on, and a caller told that it was out of providers was.
THEOREM Order == Spec => []TriedInOrder
<1>1. IInv => TriedInOrder
  BY DEF IInv, ReqInv, InOrder, LastSaid, Passed, Hoppable, TriedInOrder
<1>2. QED
  BY <1>1, Invariant, PTL

\* A body is one provider's, whatever becomes of its stream.
THEOREM OneSource == Spec => []NoSplice
<1>1. ASSUME IInv, NEW r \in Callers, req[r].source # {}
      PROVE  \E p \in Providers : /\ req[r].source = {p}
                                  /\ req[r].open \subseteq {p}
                                  /\ At(req[r]) = p
  <2>1. ReqInv(r, req[r])
    BY <1>1 DEF IInv
  <2>2. CASE req[r].at \in {"calling", "backoff", "relaying"}
    BY <1>1, <2>1, <2>2, UnderWayFacts DEF UnderWay
  <2>3. CASE req[r].at \in Ended
    <3>1. req[r].position \in DOMAIN req[r].chain /\ req[r].source = {At(req[r])} /\ req[r].open = {}
      BY <1>1, <2>1, <2>3 DEF ReqInv, AtRest
    <3>2. At(req[r]) \in Providers
      BY <2>1, <3>1, ChainFacts DEF ReqInv, At
    <3>3. QED
      BY <3>1, <3>2
  <2>4. QED
    BY <2>1, <2>2, <2>3 DEF ReqInv, Request, Stages, Ended
<1>2. IInv => NoSplice
  BY <1>1 DEF NoSplice
<1>3. QED
  BY <1>2, Invariant, PTL

\* What a caller may be blamed for: the classes that are answered 400 or 404
\* come only from the caller's own mistake.
LEMMA BlamedClasses ==
  ASSUME NEW cause \in Causes, FailureStatus(KindOf(cause)) \in {400, 404}
  PROVE  \/ cause.what = "inexpressible"
         \/ cause.status \in 400 .. 499 \ {401, 403, 408, 429}
<1>1. KindOf(cause) = "bad_request"
  BY CauseKinds DEF FailureStatus
<1>2. CASE cause.what = "status"
  <2>1. cause.status \in 400 .. 599
    BY <1>2 DEF Causes, Mishaps
  <2>2. StatusError(cause.status) = "bad_request"
    BY <1>1, <1>2 DEF KindOf
  <2>3. cause.status \notin {401, 403, 408, 429} /\ ~(cause.status >= 500)
    BY <2>1, <2>2 DEF StatusError
  <2>4. QED
    BY <2>1, <2>3
<1>3. CASE cause.what # "status"
  <2>1. cause.what \in Mishaps
    BY <1>3 DEF Causes
  <2>2. QED
    BY <1>1, <2>1 DEF Mishaps, KindOf, TransportError
<1>4. QED
  BY <1>2, <1>3

\* Nobody is told 400 or 404 for what a vendor, or our key with it, did.
THEOREM Blame == Spec => []CallerNotBlamed
<1>1. ASSUME IInv, NEW r \in Callers, req[r].at = "done", req[r].source = {},
             req[r].error.what \notin {"none", "cancelled"},
             FailureStatus(KindOf(req[r].error)) \in {400, 404}
      PROVE  \/ req[r].error.what \in {"unroutable", "inexpressible"}
             \/ req[r].error.status \in 400 .. 499 \ {401, 403, 408, 429}
  <2>1. CASE req[r].error.what = "unroutable"
    BY <2>1
  <2>2. CASE req[r].error.what # "unroutable"
    <3>1. req[r].error \in Failings \cup {Own("circuit_open")}
      BY <1>1, <2>2 DEF IInv, ReqInv, AtRest, Ended
    <3>2. req[r].error # Own("circuit_open")
      BY <1>1, OwnKinds DEF FailureStatus
    <3>3. req[r].error \in Causes
      BY <3>1, <3>2, RoutingAssumption
    <3>4. QED
      BY <1>1, <3>3, BlamedClasses
  <2>3. QED
    BY <2>1, <2>2
<1>2. IInv => CallerNotBlamed
  BY <1>1 DEF CallerNotBlamed
<1>3. QED
  BY <1>2, Invariant, PTL

\* However a request ends, and while it sleeps, no call of its is open.
THEOREM Closed == Spec => []NoCallLeftOpen
<1>1. IInv => NoCallLeftOpen
  BY DEF IInv, ReqInv, UnderWay, AtRest, NoCallLeftOpen, Stages, Ended
<1>2. QED
  BY <1>1, Invariant, PTL

-----------------------------------------------------------------------------
(* What a step of one request does at each provider: nothing, an end of its *)
(* call there, with a verdict or without, or the start of one.              *)

Asks(x, p) == x.at = "calling" /\ At(x) = p

\* What r makes of the breaker of p, when its call there ends.
Judged(r, p, b) ==
    \/ b = brk[p]
    \/ b = NewBreaker /\ req'[r].fate[p] = "served"
    \/ b = RecordFailure(brk[p]) /\ req'[r].fate[p] = "failed"

Passes(r, p) == ~Asks(req[r], p) /\ ~Asks(req'[r], p) /\ brk'[p] = brk[p]

Ends(r, p) == /\ Asks(req[r], p) /\ ~Asks(req'[r], p)
              /\ \E b : Judged(r, p, b) /\ brk'[p] = Freed(r, b)

Begins(r, p) == /\ ~Asks(req[r], p) /\ Asks(req'[r], p)
                /\ Admits(brk[p]) /\ brk'[p] = Allow(brk[p], r)

Step(r) == /\ \A s \in Callers \ {r} : req'[s] = req[s]
           /\ \A p \in Providers : Passes(r, p) \/ Ends(r, p) \/ Begins(r, p)

\* A hop begins a call at a member behind the position or at none, and what
\* came of the request up to its position stays written.
LEMMA HopShape ==
  ASSUME IInv, NEW r \in Callers, NEW bs \in [Providers -> Breaker], NEW x, Between(x),
         NEW error \in Failings \cup OwnCauses, Hop(r, bs, x, error)
  PROVE  /\ \A s \in Callers \ {r} : req'[s] = req[s]
         /\ \A k \in DOMAIN x.chain :
               k <= x.position => req'[r].fate[x.chain[k]] = x.fate[x.chain[k]]
         /\ \A p \in Providers :
               \/ ~Asks(req'[r], p) /\ brk'[p] = bs[p]
               \/ /\ Asks(req'[r], p) /\ Admits(bs[p]) /\ brk'[p] = Allow(bs[p], r)
                  /\ \A k \in DOMAIN x.chain : k <= x.position => x.chain[k] # p
<1>1. /\ DOMAIN x.chain = 1 .. Len(x.chain) /\ Len(x.chain) \in Nat /\ x.position \in Nat
      /\ x.position <= Len(x.chain) /\ x \in Request
      /\ \A k \in DOMAIN x.chain : x.chain[k] \in Providers
      /\ \A k, j \in DOMAIN x.chain : x.chain[k] = x.chain[j] => k = j
  BY ChainFacts DEF Between
<1>2. req \in [Callers -> Request]
  BY DEF IInv
<1>3. CASE \E i \in x.position + 1 .. Len(x.chain) : Attempt(r, bs, SkippedTo(x, i), i, 0)
  <2>1. PICK i \in x.position + 1 .. Len(x.chain) : Attempt(r, bs, SkippedTo(x, i), i, 0)
    BY <1>3
  <2>2. i \in x.position + 1 .. Len(x.chain) + 1 /\ i \in DOMAIN x.chain /\ i > x.position
    BY <1>1
  <2>3. PICK y : y = SkippedTo(x, i)
    OBVIOUS
  <2>4. /\ y \in Request /\ y.chain = x.chain
        /\ \A k \in DOMAIN x.chain : k <= x.position => y.fate[x.chain[k]] = x.fate[x.chain[k]]
    BY <2>2, <2>3, SkippedFacts
  <2>5. PICK p \in Providers : p = x.chain[i]
    BY <1>1, <2>2
  <2>6. Attempt(r, bs, y, i, 0)
    BY <2>1, <2>3
  <2>7. PICK z : z = [y EXCEPT !.at = "calling", !.position = i, !.attempt = 0,
                               !.permit = PermitFor(bs[p], r), !.open = {p}]
    OBVIOUS
  <2>8. Admits(bs[p]) /\ brk' = [bs EXCEPT ![p] = Allow(@, r)] /\ Becomes(r, z)
    BY <2>4, <2>5, <2>6, <2>7 DEF Attempt
  <2>9. z.at = "calling" /\ z.chain = x.chain /\ z.position = i /\ z.fate = y.fate
    BY <2>4, <2>7 DEF Request
  <2>10. req'[r] = z /\ \A s \in Callers \ {r} : req'[s] = req[s]
    BY <1>2, <2>8 DEF Becomes
  <2>11. \A q \in Providers : Asks(z, q) <=> q = p
    BY <2>5, <2>9 DEF Asks, At
  <2>12. \A k \in DOMAIN x.chain : k <= x.position => x.chain[k] # p
    BY <1>1, <2>2, <2>5
  <2>13. brk'[p] = Allow(bs[p], r) /\ \A q \in Providers \ {p} : brk'[q] = bs[q]
    BY <2>8
  <2>14. QED
    BY <2>4, <2>8, <2>9, <2>10, <2>11, <2>12, <2>13
<1>4. CASE /\ brk' = bs
           /\ Becomes(r, Over(SkippedTo(x, Len(x.chain) + 1),
                              IF x.position < Len(x.chain) THEN Own("circuit_open") ELSE error))
  <2>1. PICK y : y = SkippedTo(x, Len(x.chain) + 1)
    OBVIOUS
  <2>2. /\ y \in Request
        /\ \A k \in DOMAIN x.chain : k <= x.position => y.fate[x.chain[k]] = x.fate[x.chain[k]]
    <3>1. Len(x.chain) + 1 \in x.position + 1 .. Len(x.chain) + 1
      BY <1>1
    <3>2. QED
      BY <2>1, <3>1, SkippedFacts
  <2>3. PICK told : told = IF x.position < Len(x.chain) THEN Own("circuit_open") ELSE error
    OBVIOUS
  <2>4. told \in Failings \cup OwnCauses
    BY <2>3, OwnKinds
  <2>5. PICK z : z = Over(y, told)
    OBVIOUS
  <2>6. z.at = "done" /\ z.fate = y.fate
    BY <2>2, <2>4, <2>5, OverFacts
  <2>7. req'[r] = z /\ \A s \in Callers \ {r} : req'[s] = req[s]
    BY <1>2, <1>4, <2>1, <2>3, <2>5 DEF Becomes
  <2>8. QED
    BY <1>4, <2>2, <2>6, <2>7 DEF Asks
<1>5. QED
  BY <1>3, <1>4 DEF Hop

\* A request that is over, or waits, asks nobody.
LEMMA AtEase ==
  ASSUME IInv, NEW r \in Callers, NEW x, Becomes(r, x), x.at # "calling"
  PROVE  /\ req'[r] = x /\ \A s \in Callers \ {r} : req'[s] = req[s]
         /\ \A p \in Providers : ~Asks(req'[r], p)
<1>1. req' = [req EXCEPT ![r] = x] /\ req \in [Callers -> Request]
  BY DEF IInv, Becomes
<1>2. QED
  BY <1>1 DEF Asks

\* The member a request was at is left with the breaker it made of it; the
\* request ends there or begins a call at another that admits it.
LEMMA RaiseShape ==
  ASSUME IInv, NEW r \in Callers, req[r].at \in {"calling", "backoff"},
         NEW bs \in [Providers -> Breaker],
         \A q \in Providers \ {At(req[r])} : bs[q] = brk[q],
         NEW fate \in {"refused", "failed", "rejected"}, NEW error \in Failings \cup OwnCauses,
         fate = "rejected" => ~Hoppable(KindOf(error)),
         Raise(r, bs, Left(req[r], fate), error)
  PROVE  /\ \A s \in Callers \ {r} : req'[s] = req[s]
         /\ req'[r].fate[At(req[r])] = fate
         /\ ~Asks(req'[r], At(req[r])) /\ brk'[At(req[r])] = bs[At(req[r])]
         /\ \A q \in Providers \ {At(req[r])} : Passes(r, q) \/ Begins(r, q)
<1>1. PICK old : old = req[r]
  OBVIOUS
<1>2. PICK p : p = At(old)
  OBVIOUS
<1>3. /\ ReqInv(r, old) /\ old.at \in {"calling", "backoff", "relaying"} /\ fate \in Fates
  BY <1>1 DEF IInv, Fates
<1>4. PICK x : x = Left(old, fate)
  OBVIOUS
<1>5. x \in Request /\ x.chain = old.chain /\ x.position = old.position /\ x.fate[p] = fate
  BY <1>2, <1>3, <1>4, LeftFacts, FateFacts
<1>6. /\ old.position \in DOMAIN old.chain /\ old.position \in Nat /\ p = old.chain[old.position]
      /\ p \in Providers
  BY <1>2, <1>3, UnderWayFacts
<1>7. \A q \in Providers \ {p} : ~Asks(req[r], q) /\ bs[q] = brk[q]
  BY <1>1, <1>2 DEF Asks
<1>8. CASE ~Hoppable(KindOf(error))
  <2>1. PICK z : z = Over(x, error)
    OBVIOUS
  <2>2. z.at = "done" /\ z.fate = x.fate
    BY <1>5, <2>1, OverFacts
  <2>3. Becomes(r, z) /\ brk' = bs
    BY <1>1, <1>4, <1>8, <2>1 DEF Raise
  <2>4. /\ req'[r] = z /\ \A s \in Callers \ {r} : req'[s] = req[s]
        /\ \A q \in Providers : ~Asks(req'[r], q)
    BY <2>2, <2>3, AtEase
  <2>5. QED
    BY <1>1, <1>2, <1>5, <1>6, <1>7, <2>2, <2>3, <2>4 DEF Passes
<1>9. CASE Hoppable(KindOf(error))
  <2>1. Hop(r, bs, x, error)
    BY <1>1, <1>4, <1>9 DEF Raise
  <2>2. Between(x)
    BY <1>1, <1>3, <1>4, <1>9, BetweenFacts
  <2>3. /\ \A s \in Callers \ {r} : req'[s] = req[s]
        /\ \A k \in DOMAIN x.chain :
              k <= x.position => req'[r].fate[x.chain[k]] = x.fate[x.chain[k]]
        /\ \A q \in Providers :
              \/ ~Asks(req'[r], q) /\ brk'[q] = bs[q]
              \/ /\ Asks(req'[r], q) /\ Admits(bs[q]) /\ brk'[q] = Allow(bs[q], r)
                 /\ \A k \in DOMAIN x.chain : k <= x.position => x.chain[k] # q
    BY <2>1, <2>2, HopShape
  <2>4. x.position \in DOMAIN x.chain /\ x.position <= x.position /\ x.chain[x.position] = p
    BY <1>5, <1>6
  <2>5. req'[r].fate[p] = fate
    BY <1>5, <2>3, <2>4
  <2>6. ~Asks(req'[r], p) /\ brk'[p] = bs[p]
    BY <1>6, <2>3, <2>4
  <2>7. \A q \in Providers \ {p} : Passes(r, q) \/ Begins(r, q)
    BY <1>7, <2>3 DEF Passes, Begins
  <2>8. QED
    BY <1>1, <1>2, <2>3, <2>5, <2>6, <2>7
<1>10. QED
  BY <1>8, <1>9

\* A permit that is not the slot's frees nothing.
LEMMA NothingFreed ==
  ASSUME NEW b, BreakerInv(b), NEW r \in Callers, req[r].permit \in {NoPermit, Admitted}
  PROVE  Freed(r, b) = b
  BY BreakerAssumption DEF BreakerInv, Breaker, Freed, ReleaseTrial

LEMMA ArriveShape ==
  ASSUME IInv, NEW r \in Callers, Arrive(r)
  PROVE  Step(r)
<1>1. \A p \in Providers : ~Asks(req[r], p)
  BY DEF Arrive, Ended, Asks
<1>2. 0 \in 0 .. MaxAttempts - 1 /\ 0 \in Nat
  BY RoutingAssumption
<1>3. CASE Becomes(r, Over(Fresh, Own("unroutable"))) /\ UNCHANGED brk
  <2>1. Over(Fresh, Own("unroutable")).at = "done"
    BY DEF Over, Fresh
  <2>2. PICK z : z = Over(Fresh, Own("unroutable"))
    OBVIOUS
  <2>3. Becomes(r, z) /\ z.at # "calling"
    BY <1>3, <2>1, <2>2
  <2>4. QED
    BY <1>1, <1>3, <2>3, AtEase DEF Step, Passes
<1>4. ASSUME NEW head \in Routed, NEW stream \in BOOLEAN,
             Hop(r, brk, [Fresh EXCEPT !.stream = stream, !.chain = Members(head)], Own("none"))
      PROVE  Step(r)
  <2>1. PICK x : x = [Fresh EXCEPT !.stream = stream, !.chain = Members(head)]
    OBVIOUS
  <2>2. /\ x.chain = Members(head) /\ x.position = 0 /\ x.open = {} /\ x.source = {}
        /\ x.fate = [p \in Providers |-> "untried"] /\ x \in Request
    BY <1>2, <2>1, OwnKinds, MembersFacts DEF Fresh, Request, Stages, Ended, Permits, Fates
  <2>3. Chain(x.chain) /\ DOMAIN x.chain = 1 .. Len(x.chain)
        /\ Len(x.chain) \in Nat /\ \A k \in DOMAIN x.chain : x.chain[k] \in Providers
    BY <2>2, MembersFacts, ChainFacts DEF Chain
  <2>4. Between(x)
    BY <2>2, <2>3 DEF Between, Beyond
  <2>5. Hop(r, brk, x, Own("none")) /\ Own("none") \in Failings \cup OwnCauses
    BY <1>4, <2>1, OwnKinds
  <2>6. brk \in [Providers -> Breaker]
    BY DEF IInv
  <2>7. QED
    BY <1>1, <2>4, <2>5, <2>6, HopShape DEF Step, Passes, Begins
<1>5. QED
  BY <1>3, <1>4, ProviderForIsRouted DEF Arrive

\* A call that ends with the request going nowhere else.
LEMMA StopShape ==
  ASSUME IInv, NEW r \in Callers, req[r].at \in {"calling", "backoff", "relaying"},
         NEW x, Becomes(r, x), x.at # "calling", NEW b \in Breaker,
         brk' = [brk EXCEPT ![At(req[r])] = Freed(r, b)],
         req[r].at = "calling" => Judged(r, At(req[r]), b),
         req[r].at # "calling" => Freed(r, b) = brk[At(req[r])]
  PROVE  Step(r)
<1>1. At(req[r]) \in Providers /\ brk \in [Providers -> Breaker]
  BY UnderWayFacts DEF IInv
<1>2. /\ brk'[At(req[r])] = Freed(r, b)
      /\ \A q \in Providers \ {At(req[r])} : brk'[q] = brk[q]
  BY <1>1
<1>3. /\ \A s \in Callers \ {r} : req'[s] = req[s]
      /\ \A p \in Providers : ~Asks(req'[r], p)
  BY AtEase
<1>4. \A q \in Providers \ {At(req[r])} : Passes(r, q)
  BY <1>2, <1>3 DEF Passes, Asks
<1>5. Ends(r, At(req[r])) \/ Passes(r, At(req[r]))
  BY <1>1, <1>2, <1>3 DEF Ends, Passes, Asks
<1>6. QED
  BY <1>3, <1>4, <1>5 DEF Step

LEMMA ServeShape ==
  ASSUME IInv, NEW r \in Callers, Serve(r)
  PROVE  Step(r)
<1>1. req[r].at = "calling" /\ At(req[r]) \in Providers /\ req[r] \in Request /\ ReqInv(r, req[r])
  BY UnderWayFacts DEF Serve, IInv
<1>2. PICK p : p = At(req[r])
  OBVIOUS
<1>3. PICK x : x = [req[r] EXCEPT !.permit = NoPermit, !.source = {p}, !.fate[p] = "served"]
  OBVIOUS
<1>4. /\ x \in Request /\ x.fate[p] = "served"
  BY <1>1, <1>2, <1>3 DEF Request, Permits, Fates
<1>5. PICK z : z = IF x.stream THEN [x EXCEPT !.at = "relaying"]
                   ELSE Over([x EXCEPT !.open = {}], Own("none"))
  OBVIOUS
<1>6. Becomes(r, z) /\ brk' = [brk EXCEPT ![p] = Freed(r, NewBreaker)]
  BY <1>2, <1>3, <1>5 DEF Serve, RecordSuccess
<1>7. z.at # "calling" /\ z.fate = x.fate
  <2>1. CASE x.stream
    BY <1>4, <1>5, <2>1 DEF Request
  <2>2. CASE ~x.stream
    <3>1. PICK y : y = [x EXCEPT !.open = {}]
      OBVIOUS
    <3>2. y \in Request /\ y.fate = x.fate
      BY <1>4, <3>1 DEF Request
    <3>3. z = Over(y, Own("none"))
      BY <1>5, <2>2, <3>1
    <3>4. QED
      BY <3>2, <3>3, OwnKinds, OverFacts
  <2>3. QED
    BY <2>1, <2>2
<1>8. req'[r].fate[p] = "served"
  BY <1>4, <1>6, <1>7, AtEase
<1>9. NewBreaker \in Breaker
  BY NewBreakerInv DEF BreakerInv
<1>10. Judged(r, p, NewBreaker)
  BY <1>8 DEF Judged
<1>11. QED
  BY <1>1, <1>2, <1>6, <1>7, <1>9, <1>10, StopShape

\* A verdict or none, and the request raises: it ends or moves on.
LEMMA VerdictShape ==
  ASSUME IInv, NEW r \in Callers, req[r].at = "calling",
         NEW fate \in {"failed", "rejected"}, NEW b, BreakerInv(b),
         b = IF fate = "failed" THEN RecordFailure(brk[At(req[r])]) ELSE brk[At(req[r])],
         NEW cause \in Failings, fate = "rejected" => ~Hoppable(KindOf(cause)),
         Raise(r, [brk EXCEPT ![At(req[r])] = Freed(r, b)], Left(req[r], fate), cause)
  PROVE  Step(r)
<1>1. At(req[r]) \in Providers /\ brk \in [Providers -> Breaker] /\ req[r].permit \in Permits
  BY UnderWayFacts DEF IInv, Request
<1>2. PICK bs : bs = [brk EXCEPT ![At(req[r])] = Freed(r, b)]
  OBVIOUS
<1>3. Freed(r, b) \in Breaker
  BY <1>1, ReleaseTrialInv DEF Freed, BreakerInv
<1>4. /\ bs \in [Providers -> Breaker] /\ bs[At(req[r])] = Freed(r, b)
      /\ \A q \in Providers \ {At(req[r])} : bs[q] = brk[q]
  BY <1>1, <1>2, <1>3
<1>5. /\ \A s \in Callers \ {r} : req'[s] = req[s]
      /\ req'[r].fate[At(req[r])] = fate
      /\ ~Asks(req'[r], At(req[r])) /\ brk'[At(req[r])] = Freed(r, b)
      /\ \A q \in Providers \ {At(req[r])} : Passes(r, q) \/ Begins(r, q)
  <2>1. Raise(r, bs, Left(req[r], fate), cause) /\ cause \in Failings \cup OwnCauses
    BY <1>2
  <2>2. QED
    BY <1>4, <2>1, RaiseShape
<1>6. Judged(r, At(req[r]), b)
  BY <1>5 DEF Judged
<1>7. Ends(r, At(req[r]))
  BY <1>5, <1>6 DEF Ends, Asks
<1>8. QED
  BY <1>5, <1>7 DEF Step

LEMMA RejectShape ==
  ASSUME IInv, NEW r \in Callers, Reject(r)
  PROVE  Step(r)
<1>1. req[r].at = "calling" /\ At(req[r]) \in Providers /\ BreakerInv(brk[At(req[r])])
  BY UnderWayFacts DEF Reject, IInv
<1>2. PICK cause \in Failings :
         /\ ~Retryable(KindOf(cause))
         /\ Raise(r, [brk EXCEPT ![At(req[r])] = Freed(r, @)], Left(req[r], "rejected"), cause)
  BY DEF Reject
<1>3. ~Hoppable(KindOf(cause))
  BY <1>2, CauseKinds, RoutingAssumption DEF Hoppable
<1>4. PICK b : b = brk[At(req[r])]
  OBVIOUS
<1>5. Raise(r, [brk EXCEPT ![At(req[r])] = Freed(r, b)], Left(req[r], "rejected"), cause)
  BY <1>1, <1>2, <1>4
<1>6. QED
  BY <1>1, <1>3, <1>4, <1>5, VerdictShape

LEMMA GiveUpShape ==
  ASSUME IInv, NEW r \in Callers, GiveUp(r)
  PROVE  Step(r)
<1>1. req[r].at = "calling" /\ At(req[r]) \in Providers /\ BreakerInv(brk[At(req[r])])
  BY UnderWayFacts DEF GiveUp, IInv
<1>2. PICK b : b = RecordFailure(brk[At(req[r])])
  OBVIOUS
<1>3. PICK cause \in Failings :
         Raise(r, [brk EXCEPT ![At(req[r])] = Freed(r, b)], Left(req[r], "failed"), cause)
  BY <1>1, <1>2 DEF GiveUp, IInv
<1>4. BreakerInv(b)
  BY <1>1, <1>2, RecordFailureInv
<1>5. QED
  BY <1>1, <1>2, <1>3, <1>4, VerdictShape

LEMMA BackoffShape ==
  ASSUME IInv, NEW r \in Callers, Backoff(r)
  PROVE  Step(r)
<1>1. /\ req[r].at = "calling" /\ req[r].permit = Admitted /\ At(req[r]) \in Providers
      /\ BreakerInv(brk[At(req[r])]) /\ req[r] \in Request
  BY UnderWayFacts DEF Backoff, IInv, UnderWay
<1>2. PICK b : b = brk[At(req[r])]
  OBVIOUS
<1>3. Freed(r, b) = b /\ b \in Breaker
  BY <1>1, <1>2, NothingFreed DEF BreakerInv
<1>4. brk' = [brk EXCEPT ![At(req[r])] = Freed(r, b)]
  BY <1>2, <1>3 DEF Backoff, IInv
<1>5. PICK x : x = [req[r] EXCEPT !.at = "backoff", !.open = {}]
  OBVIOUS
<1>6. Becomes(r, x) /\ x.at # "calling"
  BY <1>1, <1>5 DEF Backoff, Request
<1>7. Judged(r, At(req[r]), b)
  BY <1>2 DEF Judged
<1>8. QED
  BY <1>1, <1>3, <1>4, <1>6, <1>7, StopShape

LEMMA WakeShape ==
  ASSUME IInv, NEW r \in Callers, Wake(r)
  PROVE  Step(r)
<1>1. /\ req[r].at = "backoff" /\ req[r] \in Request /\ brk \in [Providers -> Breaker]
      /\ req \in [Callers -> Request] /\ At(req[r]) \in Providers
      /\ At(req[r]) = req[r].chain[req[r].position]
  BY UnderWayFacts DEF Wake, IInv
<1>2. \A p \in Providers : ~Asks(req[r], p)
  BY <1>1 DEF Asks
<1>3. CASE Attempt(r, brk, req[r], req[r].position, req[r].attempt + 1)
  <2>1. PICK p : p = At(req[r])
    OBVIOUS
  <2>2. PICK z : z = [req[r] EXCEPT !.at = "calling", !.position = req[r].position,
                                    !.attempt = req[r].attempt + 1,
                                    !.permit = PermitFor(brk[p], r), !.open = {p}]
    OBVIOUS
  <2>3. Admits(brk[p]) /\ brk' = [brk EXCEPT ![p] = Allow(@, r)] /\ Becomes(r, z)
    BY <1>1, <1>3, <2>1, <2>2 DEF Attempt
  <2>4. z.at = "calling" /\ z.chain = req[r].chain /\ z.position = req[r].position
    BY <1>1, <2>2 DEF Request
  <2>5. req'[r] = z /\ \A s \in Callers \ {r} : req'[s] = req[s]
    BY <1>1, <2>3 DEF Becomes
  <2>6. \A q \in Providers : Asks(req'[r], q) <=> q = p
    BY <1>1, <2>1, <2>4, <2>5 DEF Asks, At
  <2>7. brk'[p] = Allow(brk[p], r) /\ \A q \in Providers \ {p} : brk'[q] = brk[q]
    BY <1>1, <2>1, <2>3
  <2>8. QED
    BY <1>2, <2>3, <2>5, <2>6, <2>7 DEF Step, Passes, Begins
<1>4. CASE Raise(r, brk, Left(req[r], "refused"), Own("circuit_open"))
  <2>1. Own("circuit_open") \in Failings \cup OwnCauses
    BY OwnKinds
  <2>2. /\ \A s \in Callers \ {r} : req'[s] = req[s]
        /\ ~Asks(req'[r], At(req[r])) /\ brk'[At(req[r])] = brk[At(req[r])]
        /\ \A q \in Providers \ {At(req[r])} : Passes(r, q) \/ Begins(r, q)
    BY <1>1, <1>4, <2>1, RaiseShape
  <2>3. QED
    BY <1>2, <2>2 DEF Step, Passes
<1>5. QED
  BY <1>3, <1>4 DEF Wake

LEMMA BreakOffShape ==
  ASSUME IInv, NEW r \in Callers, BreakOff(r) \/ StreamEnds(r)
  PROVE  Step(r)
<1>1. req[r].at = "relaying" /\ brk' = brk
  BY DEF BreakOff, StreamEnds
<1>2. PICK error : Becomes(r, Over([req[r] EXCEPT !.open = {}], error))
  BY DEF BreakOff, StreamEnds
<1>3. PICK z : z = Over([req[r] EXCEPT !.open = {}], error)
  OBVIOUS
<1>4. Becomes(r, z) /\ z.at # "calling"
  <2>1. req[r] \in Request
    BY DEF IInv
  <2>2. z.at = "done"
    BY <1>3, <2>1 DEF Over, Request
  <2>3. QED
    BY <1>2, <1>3, <2>2
<1>5. QED
  BY <1>1, <1>4, AtEase DEF Step, Passes, Asks

LEMMA CancelShape ==
  ASSUME IInv, NEW r \in Callers, Cancel(r)
  PROVE  Step(r)
<1>1. /\ req[r].at \in {"calling", "backoff", "relaying"} /\ BreakerInv(brk[At(req[r])])
      /\ req[r] \in Request /\ UnderWay(r, req[r]) /\ At(req[r]) \in Providers
  BY UnderWayFacts DEF Cancel, IInv
<1>2. PICK b : b = brk[At(req[r])]
  OBVIOUS
<1>3. PICK z : z = Over([req[r] EXCEPT !.permit = NoPermit, !.open = {}], Own("cancelled"))
  OBVIOUS
<1>4. z.at # "calling"
  BY <1>1, <1>3 DEF Over, Request
<1>5. Becomes(r, z) /\ brk' = [brk EXCEPT ![At(req[r])] = Freed(r, b)]
  BY <1>1, <1>2, <1>3 DEF Cancel
<1>6. req[r].at # "calling" => Freed(r, b) = b
  BY <1>1, <1>2, NothingFreed DEF UnderWay
<1>7. Judged(r, At(req[r]), b) /\ b \in Breaker
  BY <1>1, <1>2 DEF Judged, BreakerInv
<1>8. QED
  BY <1>1, <1>2, <1>4, <1>5, <1>6, <1>7, StopShape

LEMMA NextShape ==
  ASSUME IInv, Next
  PROVE  Tick \/ \E r \in Callers : Step(r)
  BY ArriveShape, ServeShape, RejectShape, BackoffShape, WakeShape, GiveUpShape, BreakOffShape,
     CancelShape
  DEF Next

-----------------------------------------------------------------------------
(* Verdicts stay with their provider. *)

\* A breaker that neither counted, nor changed its window, nor opened or
\* closed: at most it put somebody on trial or took the trial's slot back.
Unjudged(b, c) == /\ c.failures = b.failures /\ c.window = b.window
                  /\ c.state = b.state \/ c.state = "half_open"

LEMMA UnjudgedMethods ==
  ASSUME NEW b, BreakerInv(b), NEW r \in Callers
  PROVE  Unjudged(b, Freed(r, b)) /\ Unjudged(b, Allow(b, r)) /\ Unjudged(b, Elapse(b))
<1>1. b \in Breaker
  BY DEF BreakerInv
<1>2. Unjudged(b, Freed(r, b))
  BY <1>1 DEF Unjudged, Freed, ReleaseTrial, Breaker
<1>3. Unjudged(b, Allow(b, r))
  BY <1>1 DEF Unjudged, Allow, Breaker
<1>4. Unjudged(b, Elapse(b))
  BY <1>1 DEF Unjudged, Elapse, Breaker
<1>5. QED
  BY <1>2, <1>3, <1>4

\* One vendor's outage opens no other vendor's circuit, for any number of
\* chains that share any providers: only a request that was calling a
\* provider, served by it or giving up on it, judges its breaker.
THEOREM Home == Spec => VerdictsStayHome
<1> DEFINE Moved(p) == \/ brk'[p].failures # brk[p].failures
                       \/ brk'[p].window # brk[p].window
                       \/ brk'[p].state # brk[p].state /\ brk'[p].state # "half_open"
           Judge(p) == \E r \in Callers : /\ req[r].at = "calling" /\ At(req[r]) = p
                                          /\ req'[r].fate[p] \in {"served", "failed"}
<1>1. ASSUME IInv, [Next]_vars, NEW p \in Providers, Moved(p)
      PROVE  Judge(p)
  <2>1. BreakerInv(brk[p])
    BY <1>1 DEF IInv
  <2>2. ~Unjudged(brk[p], brk'[p])
    BY <1>1 DEF Unjudged
  <2>3. CASE UNCHANGED vars
    BY <1>1, <2>3 DEF vars
  <2>4. CASE Tick
    <3>1. brk'[p] = Elapse(brk[p])
      BY <2>4 DEF Tick
    <3>2. PICK b : b = brk[p]
      OBVIOUS
    <3>3. b.failures = Elapse(b).failures /\ b.window = Elapse(b).window /\ b.state = Elapse(b).state
      BY <2>1, <3>2 DEF Elapse, BreakerInv, Breaker
    <3>4. QED
      BY <1>1, <3>1, <3>2, <3>3
  <2>5. ASSUME NEW r \in Callers, Step(r) PROVE Judge(p)
    <3>1. ~Passes(r, p)
      BY <1>1 DEF Passes
    <3>2. ~Begins(r, p)
      BY <2>1, <2>2, UnjudgedMethods DEF Begins
    <3>3. Ends(r, p)
      BY <2>5, <3>1, <3>2 DEF Step
    <3>4. PICK b : Judged(r, p, b) /\ brk'[p] = Freed(r, b)
      BY <3>3 DEF Ends
    <3>5. b # brk[p]
      BY <2>1, <2>2, <3>4, UnjudgedMethods
    <3>6. req'[r].fate[p] \in {"served", "failed"}
      BY <3>4, <3>5 DEF Judged
    <3>7. QED
      BY <3>3, <3>6 DEF Ends, Asks
  <2>6. QED
    BY <1>1, <2>3, <2>4, <2>5, NextShape
<1>2. IInv /\ [Next]_vars => [\A p \in Providers : Moved(p) => Judge(p)]_vars
  BY <1>1
<1>3. QED
  BY <1>2, Invariant, PTL DEF Spec, VerdictsStayHome

-----------------------------------------------------------------------------
(* Seen from one provider, any step of any request is a step of the gate.   *)

Calling(p) == {r \in Callers : req[r].at = "calling" /\ At(req[r]) = p}

\* Whoever's slot it is, ending a call frees no other's.
LEMMA FreedTrial ==
  ASSUME IInv, NEW r \in Callers, NEW p \in Providers, Asks(req[r], p)
  PROVE  LET b == Freed(r, brk[p])
         IN /\ b.trial = IF brk[p].trial = r THEN NoPermit ELSE brk[p].trial
            /\ b.state = brk[p].state /\ b.left = brk[p].left
<1>1. brk[p] \in Breaker /\ BreakerInv(brk[p]) /\ req[r].permit \in Permits
  BY DEF IInv, BreakerInv, Request
<1>2. req[r].permit \in {Admitted, r}
  BY UnderWayFacts DEF IInv, UnderWay, Asks
<1>3. brk[p].trial = r => req[r].permit = r
  BY DEF IInv, Holds
<1>4. brk[p].trial # Admitted
  BY <1>1, BreakerAssumption DEF Breaker
<1>5. Freed(r, brk[p]) = IF brk[p].trial = req[r].permit
                         THEN [brk[p] EXCEPT !.trial = NoPermit] ELSE brk[p]
  BY DEF Freed, ReleaseTrial
<1>6. QED
  BY <1>1, <1>2, <1>3, <1>4, <1>5 DEF Breaker

\* A verdict of failure, in whatever state it lands.
LEMMA GateBad ==
  ASSUME NEW p \in Providers, BreakerInv(brk[p]), NEW r \in Callers, req[r].permit \in Permits,
         brk'[p] = Freed(r, RecordFailure(brk[p]))
  PROVE  Gate(p)!Bad
<1>1. PICK b : b = brk[p]
  OBVIOUS
<1>2. BreakerInv(b) /\ b \in Breaker
  BY <1>1 DEF BreakerInv
<1>3. brk'[p] = RecordFailure(b)
  <2>1. RecordFailure(b) \in Breaker /\ RecordFailure(b).trial = NoPermit
    BY <1>2, RecordFailureInv DEF BreakerInv
  <2>2. [RecordFailure(b) EXCEPT !.trial = NoPermit] = RecordFailure(b)
    BY <2>1 DEF Breaker
  <2>3. QED
    BY <1>1, <2>1, <2>2 DEF Freed, ReleaseTrial
<1> DEFINE counted == [b EXCEPT !.failures = @ + 1]
<1>4. /\ counted \in Breaker /\ counted.state = b.state /\ counted.left = b.left
      /\ counted.trial = b.trial /\ counted.window = b.window
  BY <1>2 DEF Breaker
<1>5. CASE b.state = "half_open"
  <2> DEFINE freed == [counted EXCEPT !.trial = NoPermit]
  <2>1. freed \in Breaker /\ freed.trial = NoPermit /\ freed.window \in Windows
    BY <1>2, <1>4 DEF Breaker, BreakerInv
  <2>2. brk'[p] = Opened(freed)
    BY <1>3, <1>5 DEF RecordFailure, Trips
  <2>3. QED
    BY <1>1, <1>5, <2>1, <2>2, OpenedInv DEF Gate!Bad, Gate!Shut
<1>6. CASE b.state = "closed" /\ counted.failures >= Threshold
  <2>1. brk'[p] = Opened(counted) /\ counted.trial = NoPermit
    BY <1>2, <1>3, <1>4, <1>6 DEF RecordFailure, BreakerInv, Trips
  <2>2. QED
    BY <1>1, <1>2, <1>4, <1>6, <2>1, OpenedInv DEF Gate!Bad, Gate!Shut, BreakerInv
<1>7. CASE b.state # "half_open" /\ ~(b.state = "closed" /\ counted.failures >= Threshold)
  <2>1. brk'[p] = counted
    BY <1>3, <1>7 DEF RecordFailure, Trips
  <2>2. QED
    BY <1>1, <1>2, <1>4, <1>7, <2>1 DEF Gate!Bad, Breaker
<1>8. QED
  BY <1>5, <1>6, <1>7

\* A call that ends leaves the gate; one that begins passes it or probes.
LEMMA GateEnds ==
  ASSUME IInv, NEW r \in Callers, NEW p \in Providers, Ends(r, p),
         \A s \in Callers \ {r} : req'[s] = req[s]
  PROVE  Gate(p)!Leave(r)
<1>1. r \in Calling(p) /\ Calling(p)' = Calling(p) \ {r}
  BY DEF Ends, Asks, Calling
<1>2. PICK b : Judged(r, p, b) /\ brk'[p] = Freed(r, b)
  BY DEF Ends
<1>3. CASE b = brk[p]
  <2>1. /\ brk'[p].trial = IF brk[p].trial = r THEN NoPermit ELSE brk[p].trial
        /\ brk'[p].state = brk[p].state /\ brk'[p].left = brk[p].left
    BY <1>2, <1>3, FreedTrial DEF Ends
  <2>2. Gate(p)!Quiet(r)
    BY <2>1 DEF Gate!Quiet
  <2>3. QED
    BY <1>1, <2>2 DEF Gate!Leave, Calling
<1>4. CASE b = NewBreaker
  <2>1. brk'[p].state = "closed" /\ brk'[p].left = 0 /\ brk'[p].trial = NoPermit
    BY <1>2, <1>4 DEF Freed, ReleaseTrial, NewBreaker
  <2>2. Gate(p)!Good
    BY <2>1 DEF Gate!Good
  <2>3. QED
    BY <1>1, <2>2 DEF Gate!Leave, Calling
<1>5. CASE b = RecordFailure(brk[p])
  <2>1. BreakerInv(brk[p]) /\ req[r].permit \in Permits
    BY DEF IInv, Request
  <2>2. Gate(p)!Bad
    BY <1>2, <1>5, <2>1, GateBad
  <2>3. QED
    BY <1>1, <2>2 DEF Gate!Leave, Calling
<1>6. QED
  BY <1>2, <1>3, <1>4, <1>5 DEF Judged

LEMMA GateBegins ==
  ASSUME IInv, NEW r \in Callers, NEW p \in Providers, Begins(r, p),
         \A s \in Callers \ {r} : req'[s] = req[s]
  PROVE  Gate(p)!Pass(r) \/ Gate(p)!Probe(r)
<1>1. r \notin Calling(p) /\ Calling(p)' = Calling(p) \cup {r}
  BY DEF Begins, Asks, Calling
<1>2. BreakerInv(brk[p]) /\ Admits(brk[p]) /\ brk'[p] = Allow(brk[p], r)
  BY DEF Begins, IInv
<1>3. CASE brk[p].state = "closed"
  BY <1>1, <1>2, <1>3 DEF Allow, Gate!Pass, Calling
<1>4. CASE brk[p].state # "closed"
  <2>1. brk'[p].state = "half_open" /\ brk'[p].trial = r /\ brk'[p].left = brk[p].left
    BY <1>2, <1>4 DEF Allow, BreakerInv, Breaker
  <2>2. ~(brk[p].left > 0) /\ (brk[p].state = "open" \/ (brk[p].state = "half_open" /\ brk[p].trial = NoPermit))
    BY <1>2, <1>4 DEF Admits, BreakerInv, Breaker
  <2>3. QED
    BY <1>1, <2>1, <2>2 DEF Gate!Probe, Calling
<1>5. QED
  BY <1>3, <1>4

LEMMA GateStep ==
  ASSUME IInv, [Next]_vars, NEW p \in Providers
  PROVE  Gate(p)!Next \/ UNCHANGED Gate(p)!vars
<1>1. CASE UNCHANGED vars
  BY <1>1 DEF vars, Gate!vars
<1>2. CASE Tick
  <2>1. BreakerInv(brk[p]) /\ brk'[p] = Elapse(brk[p]) /\ Calling(p)' = Calling(p)
    BY <1>2 DEF Tick, IInv, Calling
  <2>2. /\ brk'[p].state = brk[p].state /\ brk'[p].trial = brk[p].trial
        /\ brk'[p].left <= brk[p].left /\ brk[p].left \in Nat /\ brk'[p].left \in Nat
    BY <2>1, ElapseInv DEF BreakerInv, Breaker
  <2>3. QED
    BY <2>1, <2>2 DEF Gate!Next, Gate!WindowElapses, Gate!vars, Calling
<1>3. ASSUME NEW r \in Callers, Step(r)
      PROVE  Gate(p)!Next \/ UNCHANGED Gate(p)!vars
  <2>1. \A s \in Callers \ {r} : req'[s] = req[s]
    BY <1>3 DEF Step
  <2>2. CASE Passes(r, p)
    <3>1. Calling(p)' = Calling(p)
      BY <2>1, <2>2 DEF Passes, Asks, Calling
    <3>2. QED
      BY <2>2, <3>1 DEF Passes, Gate!vars, Calling
  <2>3. CASE Ends(r, p)
    BY <2>1, <2>3, GateEnds DEF Gate!Next
  <2>4. CASE Begins(r, p)
    BY <2>1, <2>4, GateBegins DEF Gate!Next
  <2>5. QED
    BY <1>3, <2>2, <2>3, <2>4 DEF Step
<1>4. QED
  BY <1>1, <1>2, <1>3, NextShape

\* Whatever chains share a provider, it sees a gate: nothing while it is
\* shut, one probe at a time, and no slot lost.
THEOREM GatesKept == Spec => KeepsGates
<1>1. Init => \A p \in Providers : Gate(p)!Init
  BY BreakerAssumption DEF Init, Gate!Init, NewBreaker, Fresh
<1>2. IInv /\ [Next]_vars => [\A p \in Providers : Gate(p)!Next \/ UNCHANGED Gate(p)!vars]_vars
  BY GateStep
<1>3. QED
  BY <1>1, <1>2, Invariant, PTL DEF Spec, KeepsGates

=============================================================================
