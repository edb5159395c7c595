--------------------------- MODULE MCChatCompletion ---------------------------
(* Small instances of ChatCompletion for TLC. *)
EXTENDS ChatCompletion, TLC

CONSTANTS r1, r2

OneRequest == {r1}
TwoRequests == {r1, r2}
RequestSymmetry == Permutations(Requests)
=============================================================================
