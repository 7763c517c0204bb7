--------------------------- MODULE MCBlockTransfer ---------------------------
(* BlockTransfer with a block next to the player and one at the limit of    *)
(* the range, three blocks away.                                            *)
EXTENDS BlockTransfer, TLC

CONSTANTS near, far

NearAndFar   == {near, far}
NearThenFar  == <<near, far>>
Distances    == near :> 1 @@ far :> 3
JustNear     == {near}
OnlyNear     == <<near>>
NearDistance == near :> 1
=============================================================================
