------------------------- MODULE MCResilientProvider -------------------------
(* Small instances of ResilientProvider for TLC. *)
EXTENDS ResilientProvider

CONSTANTS c1, c2, c3

ThreeCallers == {c1, c2, c3}

OneWait == {2}
=============================================================================
