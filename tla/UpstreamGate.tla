----------------------------- MODULE UpstreamGate -----------------------------
(***************************************************************************)
(* What a circuit breaker promises about the calls that reach an upstream, *)
(* with no counting, no budget and no clock (ADR-002, ADR-030):            *)
(*   - while it is shut nothing goes through, until its window has elapsed;*)
(*   - a probe is admitted alone, and holds the only slot;                 *)
(*   - a slot is given back by its owner, or with a verdict, never lost;   *)
(*   - a verdict comes only from a call that was let through, and a bad    *)
(*     one during half-open shuts the gate again.                          *)
(* ResilientProvider is shown to implement it.                             *)
(***************************************************************************)
CONSTANTS Callers, Nobody

VARIABLES state,    \* "closed", "open" or "half_open"
          shut,     \* the open window is still running
          probe,    \* whoever holds the half-open slot
          upstream  \* the callers whose call is with the provider

vars == <<state, shut, probe, upstream>>

Init == state = "closed" /\ shut = FALSE /\ probe = Nobody /\ upstream = {}

Pass(c) == /\ state = "closed"
           /\ c \notin upstream
           /\ upstream' = upstream \cup {c}
           /\ UNCHANGED <<state, shut, probe>>

Probe(c) == /\ \/ state = "open" /\ ~shut
               \/ state = "half_open" /\ probe = Nobody
            /\ c \notin upstream
            /\ state' = "half_open"
            /\ probe' = c
            /\ upstream' = upstream \cup {c}
            /\ UNCHANGED shut

Shut == state' = "open" /\ shut' = TRUE /\ probe' = Nobody

\* No verdict: at most the leaver's own slot comes free.
Quiet(c) == /\ probe' = IF probe = c THEN Nobody ELSE probe
            /\ UNCHANGED <<state, shut>>

Good == state' = "closed" /\ shut' = FALSE /\ probe' = Nobody

Bad == \/ state = "half_open" /\ Shut
       \/ state = "closed" /\ (Shut \/ UNCHANGED <<state, shut, probe>>)
       \/ state = "open" /\ UNCHANGED <<state, shut, probe>>

Leave(c) == /\ c \in upstream
            /\ upstream' = upstream \ {c}
            /\ Quiet(c) \/ Good \/ Bad

WindowElapses == shut /\ shut' = FALSE /\ UNCHANGED <<state, probe, upstream>>

Next == WindowElapses \/ \E c \in Callers : Pass(c) \/ Probe(c) \/ Leave(c)

Spec == Init /\ [][Next]_vars

=============================================================================
