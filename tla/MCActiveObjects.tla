--------------------------- MODULE MCActiveObjects ---------------------------
(***************************************************************************)
(* Instances of ActiveObjects.                                             *)
(***************************************************************************)
EXTENDS ActiveObjects, TLC

CONSTANTS e1, e2, b1, b2, c1, i1, i2

Sameness == Permutations({e1, e2}) \cup Permutations({b1, b2}) \cup Permutations({i1, i2})
=============================================================================
