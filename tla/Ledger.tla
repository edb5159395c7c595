------------------------------- MODULE Ledger -------------------------------
(***************************************************************************)
(* The spend ledger (spend.py), the price table it is read through         *)
(* (pricing.py) and GET /v1/usage (routes.py).  One hash per key and UTC   *)
(* day in Redis; a settled request is a pipeline of five commands, which   *)
(* is not a transaction: Redis serves other clients between any two of     *)
(* them and a lost connection cuts it anywhere.  A report is a pipeline of *)
(* one HGETALL a day, with the same gaps.                                  *)
(*                                                                         *)
(* Time is in ticks, TicksPerDay of them to a day.  A pipeline is sent     *)
(* once: the gateway asks redis-py for no retry.                           *)
(***************************************************************************)
EXTENDS Integers, Sequences, FiniteSets, SequencesExt, FiniteSetsExt

CONSTANTS Keys,         \* the callers' key ids
          Models,
          Jobs,         \* requests being settled or reported at one time
          Nobody,       \* no key: the job is idle
          RetentionDays,
          TicksPerDay,
          MaxTicks,     \* bound: the last tick of a behaviour
          MaxRecords,   \* bound: requests settled in a behaviour
          Spent,        \* what record() may be handed: [model, usage], the counts to add
          AskedDays,    \* what ?days= may ask for
          Overrides,    \* the operator's price file and the built-in table:
          BuiltIn       \* sequences of rules [covers, prompt, completion]

ASSUME LedgerAssumption ==
    /\ RetentionDays \in Nat /\ TicksPerDay \in Nat \ {0}
    /\ MaxTicks \in Nat /\ MaxRecords \in Nat
    \* One request, counted apart and without tokens when its usage never came.
    /\ \A s \in Spent :
          /\ s.model \in Models
          /\ s.usage \in [requests: {1}, unmetered: {0}, prompt: Nat, completion: Nat]
                        \cup [requests: {1}, unmetered: {1}, prompt: {0}, completion: {0}]
    /\ AskedDays \subseteq Nat
    /\ Nobody \notin Keys
    /\ IsFiniteSet(Jobs)
    \* A price file with a negative price stops the gateway.
    /\ Overrides \in Seq([covers: SUBSET Models, prompt: Nat, completion: Nat])
    /\ BuiltIn \in Seq([covers: SUBSET Models, prompt: Nat, completion: Nat])

VARIABLES now,    \* the clock every worker reads
          hash,   \* hash[k][d]: what Redis holds for key k and day d
          ttl,    \* ttl[k][d]: the tick it expires at, or Never
          job,    \* job[j]: a record() or a report() under way
          owed,   \* owed[k][d]: every request handed to record(); history
          settled \* how many they are, for the bound

vars == <<now, hash, ttl, job, owed, settled>>
history == <<owed, settled>>

Days == 0 .. MaxTicks \div TicksPerDay
Never == MaxTicks + (RetentionDays + 1) * TicksPerDay + 1
DayOf(t) == t \div TicksPerDay
Retained == Max({1, RetentionDays})

Counts == [requests: 0 .. MaxRecords, unmetered: 0 .. MaxRecords, prompt: Nat, completion: Nat]

\* The counters of a model that has no field in the hash.
None == [requests |-> 0, unmetered |-> 0, prompt |-> 0, completion |-> 0]
EmptyDay == [m \in Models |-> None]

-----------------------------------------------------------------------------
(* Prices.  The first rule that covers a model decides, the operator's     *)
(* rules in front of the built-in ones; a model no rule covers has no      *)
(* price, which is not the price zero.                                     *)

NoPrice == -1

PriceTable == Overrides \o BuiltIn

Cost(m, c) ==
    LET i == SelectInSeq(PriceTable, LAMBDA rule : m \in rule.covers)
    IN IF i = 0 THEN NoPrice
       ELSE PriceTable[i].prompt * c.prompt + PriceTable[i].completion * c.completion

\* The sums of a sequence up to each of its elements, and of all of it.
Upto(s) == LET sum[i \in Nat] == IF i = 0 THEN 0 ELSE sum[i - 1] + s[i]
           IN sum
Total(s) == Upto(s)[Len(s)]

\* The sum of what could be priced, or no price if nothing could.
TotalCost(costs) ==
    IF \A i \in DOMAIN costs : costs[i] = NoPrice THEN NoPrice
    ELSE Total([i \in DOMAIN costs |-> IF costs[i] = NoPrice THEN 0 ELSE costs[i]])

-----------------------------------------------------------------------------
(* A report: the lines of a day, and the days rolled up.                   *)

Present(fields) == {m \in Models : fields[m] # None}

Column(fields, lines, field) == [i \in DOMAIN lines |-> fields[lines[i]][field]]
Costs(fields, lines) == [i \in DOMAIN lines |-> Cost(lines[i], fields[lines[i]])]

DayReport(fields) ==
    LET lines == SetToSeq(Present(fields))
    IN [requests |-> Total(Column(fields, lines, "requests")),
        unmetered |-> Total(Column(fields, lines, "unmetered")),
        tokens |-> Total(Column(fields, lines, "prompt")) + Total(Column(fields, lines, "completion")),
        cost |-> TotalCost(Costs(fields, lines)),
        unpriced |-> {m \in Present(fields) : Cost(m, fields[m]) = NoPrice}]

Summarise(raw) ==
    LET daily == [i \in DOMAIN raw |-> DayReport(raw[i])]
    IN [requests |-> Total([i \in DOMAIN raw |-> daily[i].requests]),
        unmetered |-> Total([i \in DOMAIN raw |-> daily[i].unmetered]),
        tokens |-> Total([i \in DOMAIN raw |-> daily[i].tokens]),
        cost |-> TotalCost([i \in DOMAIN raw |-> daily[i].cost]),
        unpriced |-> UNION {daily[i].unpriced : i \in DOMAIN raw}]

\* The days a report of `days` covers, oldest first, today included.
Wanted(days) ==
    LET window == Max({1, Min({days, Retained})})
        first == Max({0, DayOf(now) - window + 1})
    IN [i \in 1 .. DayOf(now) - first + 1 |-> first + i - 1]

-----------------------------------------------------------------------------

Idle == [at |-> "idle", key |-> Nobody]

Init == /\ now = 0
        /\ hash = [k \in Keys |-> [d \in Days |-> EmptyDay]]
        /\ ttl = [k \in Keys |-> [d \in Days |-> Never]]
        /\ owed = [k \in Keys |-> [d \in Days |-> EmptyDay]]
        /\ settled = 0
        /\ job = [j \in Jobs |-> Idle]

Plus(c, usage) == [f \in DOMAIN c |-> c[f] + usage[f]]

\* The day is read here, and not again when the commands reach Redis.
Day(x) == DayOf(x.since)

Record(j, k, s) ==
    /\ job[j].at = "idle"
    /\ settled < MaxRecords
    /\ job' = [job EXCEPT ![j] = [at |-> "recording", key |-> k, since |-> now,
                                  spent |-> s, command |-> 1]]
    /\ owed' = [owed EXCEPT ![k][DayOf(now)][s.model] = Plus(@, s.usage)]
    /\ settled' = settled + 1
    /\ UNCHANGED <<now, hash, ttl>>

\* Mutant: the unmetered mark is written ahead of the request it is a part of.
PipelineUnmeteredFirst == <<"unmetered", "requests", "prompt", "completion", "expire">>

Pipeline == <<"requests", "unmetered", "prompt", "completion", "expire">>

Sent(j) == IF job[j].command = Len(Pipeline)
           THEN [job EXCEPT ![j] = Idle]
           ELSE [job EXCEPT ![j].command = @ + 1]

\* One HINCRBY; Redis makes a hash that is not there, without a TTL.
Increment(j) ==
    /\ job[j].at = "recording"
    /\ LET x == job[j]
           field == Pipeline[x.command]
       IN /\ field # "expire"
          /\ hash' = [hash EXCEPT ![x.key][Day(x)][x.spent.model][field] = @ + x.spent.usage[field]]
    /\ job' = Sent(j)
    /\ UNCHANGED <<now, ttl, history>>

\* Mutant: the hash is kept a day less than the reports reach back.
ExpireEarly(j) ==
    /\ job[j].at = "recording"
    /\ Pipeline[job[j].command] = "expire"
    /\ ttl' = [ttl EXCEPT ![job[j].key][Day(job[j])] = now + (Retained - 1) * TicksPerDay]
    /\ job' = Sent(j)
    /\ UNCHANGED <<now, hash, history>>

\* The last command, refreshed on every write.  The hash may have gone.
Expire(j) ==
    /\ job[j].at = "recording"
    /\ LET x == job[j]
       IN /\ Pipeline[x.command] = "expire"
          /\ ttl' = [ttl EXCEPT ![x.key][Day(x)] =
                       IF hash[x.key][Day(x)] = EmptyDay THEN @
                       ELSE now + Retained * TicksPerDay]
    /\ job' = Sent(j)
    /\ UNCHANGED <<now, hash, history>>

\* The connection is lost: what was executed stays, the rest is dropped, and
\* nobody is told but the log.
Cut(j) == /\ job[j].at = "recording"
          /\ job' = [job EXCEPT ![j] = Idle]
          /\ UNCHANGED <<now, hash, ttl, history>>

-----------------------------------------------------------------------------

\* GET /v1/usage, for the key that asks and no other.  `floor` is history: what
\* Redis held when the report began.
Report(j, k, days) ==
    /\ job[j].at = "idle"
    /\ LET wanted == Wanted(days)
       IN job' = [job EXCEPT ![j] = [at |-> "reading", key |-> k, since |-> now, wanted |-> wanted,
                                     raw |-> <<>>,
                                     floor |-> [i \in DOMAIN wanted |-> hash[k][wanted[i]]]]]
    /\ UNCHANGED <<now, hash, ttl, history>>

\* One HGETALL of the pipeline.
ReadDay(j) ==
    /\ job[j].at = "reading"
    /\ LET x == job[j]
           raw == Append(x.raw, hash[x.key][x.wanted[Len(x.raw) + 1]])
       IN job' = [job EXCEPT ![j].raw = raw,
                             ![j].at = IF Len(raw) = Len(x.wanted) THEN "reported" ELSE @]
    /\ UNCHANGED <<now, hash, ttl, history>>

\* Mutant: the days read before the connection broke are reported, and no other.
ReadBreaksShort(j) ==
    /\ job[j].at = "reading"
    /\ job' = [job EXCEPT ![j].at = "degraded"]
    /\ UNCHANGED <<now, hash, ttl, history>>

\* The connection breaks: every day is reported empty, those already read too.
ReadBreaks(j) ==
    /\ job[j].at = "reading"
    /\ job' = [job EXCEPT ![j].raw = [i \in DOMAIN job[j].wanted |-> EmptyDay],
                          ![j].at = "degraded"]
    /\ UNCHANGED <<now, hash, ttl, history>>

\* The report is handed over in the same breath as its last day was read.
Answer(j) == /\ job[j].at \in {"reported", "degraded"}
             /\ job' = [job EXCEPT ![j] = Idle]
             /\ UNCHANGED <<now, hash, ttl, history>>

\* A tick, and Redis drops the hashes whose time has come.  The socket timeout
\* bounds a pipeline: it may run into the next tick, not through it.
Tick == /\ now < MaxTicks
        /\ \A j \in Jobs : /\ job[j].at # "idle" => job[j].since = now
                            /\ job[j].at \notin {"reported", "degraded"}
        /\ now' = now + 1
        /\ LET gone(k, d) == ttl[k][d] <= now + 1
           IN /\ hash' = [k \in Keys |-> [d \in Days |-> IF gone(k, d) THEN EmptyDay ELSE hash[k][d]]]
              /\ ttl' = [k \in Keys |-> [d \in Days |-> IF gone(k, d) THEN Never ELSE ttl[k][d]]]
        /\ UNCHANGED <<job, history>>

Next == \/ Tick
        \/ \E j \in Jobs :
              \/ \E k \in Keys, s \in Spent : Record(j, k, s)
              \/ Increment(j) \/ Expire(j) \/ Cut(j)
              \/ \E k \in Keys, days \in AskedDays : Report(j, k, days)
              \/ ReadDay(j) \/ ReadBreaks(j) \/ Answer(j)

Spec == Init /\ [][Next]_vars

-----------------------------------------------------------------------------

\* The type invariant: no counter is negative, and a report, whole or degraded,
\* has a line for every day it was asked about (spend.py:172).
TypeOK ==
    /\ now \in 0 .. MaxTicks
    /\ hash \in [Keys -> [Days -> [Models -> Counts]]]
    /\ owed \in [Keys -> [Days -> [Models -> Counts]]] /\ settled \in 0 .. MaxRecords
    /\ ttl \in [Keys -> [Days -> 0 .. Never]]
    /\ \A j \in Jobs :
          LET x == job[j]
          IN \/ x = Idle
             \/ /\ x.at = "recording"
                /\ x.key \in Keys /\ x.since \in 0 .. now
                /\ x.spent \in Spent /\ x.command \in 1 .. 5
             \/ /\ x.at \in {"reading", "reported", "degraded"}
                /\ x.key \in Keys /\ Len(x.raw) <= Len(x.wanted)
                /\ x.at # "reading" <=> Len(x.raw) = Len(x.wanted)

\* Wherever the writers and the reader meet and wherever a pipeline is cut, a
\* report counts nothing twice, nothing of another key and nothing of another
\* day (at most what this key was handed for it), loses nothing Redis held when
\* it began, and never shows more unmetered requests than requests: the request
\* is counted before the mark on it (spend.py:139-142).  (Where one day is kept
\* a hash may expire between the two, at midnight, and a report that straddles
\* midnight may then see the mark alone.)  A model without a price is named
\* exactly when it has a line, and is worth no price, not zero
\* (contracts/spend.py:24-26).  A report whose connection broke is empty rather
\* than short of days (spend.py:168-170).
ReportsAddUp ==
    \A j \in Jobs :
        LET x == job[j]
            Below(a, b) == \A m \in Models, f \in DOMAIN None : a[m][f] <= b[m][f]
            total == Summarise(x.raw)
            shown == UNION {Present(x.raw[i]) : i \in DOMAIN x.raw}
            listed == {m \in Models : \E i \in DOMAIN PriceTable : m \in PriceTable[i].covers}
        IN /\ x.at = "reported" =>
                 /\ \A i \in DOMAIN x.wanted :
                       /\ Below(x.raw[i], owed[x.key][x.wanted[i]])
                       /\ x.wanted[i] > DayOf(now) - Retained => Below(x.floor[i], x.raw[i])
                 /\ (Retained > 1 \/ DayOf(now) = DayOf(x.since)) =>
                       total.unmetered <= total.requests
                 /\ total.unpriced = shown \ listed
                 /\ total.cost = NoPrice <=> shown \cap listed = {}
           /\ x.at = "degraded" => shown = {}

\* No hash expires while a report, of as many days as are retained, still
\* reaches its day: whatever the hour of the last write, retention in seconds
\* from that write outlasts retention in calendar days (spend.py:143-145, 159).
WindowIsKept ==
    [][\A k \in Keys, d \in Days :
          (d > DayOf(now') - Retained) =>
             \A m \in Models, f \in DOMAIN None : hash[k][d][m][f] <= hash'[k][d][m][f]]_vars

=============================================================================
