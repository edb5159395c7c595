------------------------------- MODULE Accounts -------------------------------
(***************************************************************************)
(* What the gateway's metering promises about one request, with no routes, *)
(* streams or tasks (metering.py, ADR-019, ADR-022): a reservation is taken *)
(* once and decided once; a ledger row is written once, after the decision, *)
(* and agrees with it: what is billed as free was given back, what is      *)
(* billed by count was charged, and what nobody knows keeps its hold.      *)
(* ChatCompletion is shown to implement it.                                *)
(***************************************************************************)
CONSTANT Requests

VARIABLES reserve, \* what became of each request's reservation
          bill     \* the kind of row the ledger has for it

vars == <<reserve, bill>>

Init == /\ reserve = [r \in Requests |-> "none"]
        /\ bill = [r \in Requests |-> "none"]

Take(r) == /\ reserve[r] = "none"
           /\ bill[r] = "none"
           /\ reserve' = [reserve EXCEPT ![r] = "held"]
           /\ UNCHANGED bill

\* Given back in full, charged what was used, or left as it is because Redis
\* could not be told.
Decide(r, how) == /\ reserve[r] = "held"
                  /\ bill[r] = "none"
                  /\ reserve' = [reserve EXCEPT ![r] = how]
                  /\ UNCHANGED bill

Agrees(kind) == CASE kind = "zero"    -> {"none", "returned", "kept"}
                  [] kind = "known"   -> {"none", "charged", "kept"}
                  [] kind = "unknown" -> {"none", "held"}
                  [] kind = "lost"    -> {"none", "returned", "charged", "kept", "held"}

Bill(r, kind) == /\ bill[r] = "none"
                 /\ reserve[r] \in Agrees(kind)
                 /\ bill' = [bill EXCEPT ![r] = kind]
                 /\ UNCHANGED reserve

Next == \E r \in Requests :
           \/ Take(r)
           \/ \E how \in {"returned", "charged", "kept"} : Decide(r, how)
           \/ \E kind \in {"zero", "known", "unknown", "lost"} : Bill(r, kind)

Spec == Init /\ [][Next]_vars

=============================================================================
