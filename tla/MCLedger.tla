------------------------------ MODULE MCLedger ------------------------------
(* Constants of the ledger's run. *)
EXTENDS Ledger

CONSTANTS k1, k2, j1, j2

TwoKeys == {k1, k2}
TwoJobs == {j1, j2}

\* A rule and a usage share fields and name them in one order: TLC sorts the
\* fields of a record on first use, and its workers share these.
OneOfEach ==
    {[model |-> "list",
      usage |-> [requests |-> 1, unmetered |-> 0, prompt |-> 2, completion |-> 1]],
     [model |-> "odd",
      usage |-> [requests |-> 1, unmetered |-> 1, prompt |-> 0, completion |-> 0]]}

\* "list" has a built-in price the operator's file overrides, "odd" has none.
TwoModels == {"list", "odd"}
Corrected == <<[prompt |-> 2, completion |-> 3, covers |-> {"list"}]>>
Vendor == <<[prompt |-> 1, completion |-> 1, covers |-> {"list"}]>>
Asked == {5}

Symmetries == Permutations(TwoKeys) \cup Permutations(TwoJobs)
=============================================================================
