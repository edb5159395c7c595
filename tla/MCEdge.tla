------------------------------- MODULE MCEdge -------------------------------
(* Constants of the edge's run. *)
EXTENDS Edge, TLC

CONSTANTS r1, k1, k2, m1, m2, trace

OneRequest == {r1}
TwoKeys == {k1, k2}
TwoModels == {m1, m2}
OneId == {trace}

Symmetries == Permutations(TwoKeys) \cup Permutations(TwoModels)
=============================================================================
