------------------------------ MODULE MCEmerge ------------------------------
(***************************************************************************)
(* Instances of Emerge for TLC: the blocks, their chunks, and the areas   *)
(* scripts ask for.                                                        *)
(***************************************************************************)
EXTENDS Emerge, TLC

CONSTANTS b1, b2, b3, k1, k2, c1, c2

\* A chunk of two blocks.
ChunkOfTwo == b1 :> k1 @@ b2 :> k1
AroundTwo  == k1 :> {b1, b2}

\* Two blocks side by side with a chunk each, and one over the limit.
ChunkOfEdge == b1 :> k1 @@ b2 :> k2 @@ b3 :> k2
AroundEdge  == k1 :> {b1, b2} @@ k2 :> {b1, b2, b3}

NoArea    == [c \in {} |-> <<>>]
OneBlock  == c1 :> <<b1>>
OneArea   == c1 :> <<b1, b3>>
TwoBlocks == c1 :> <<b1>> @@ c2 :> <<b2>>
TwoAreas  == c1 :> <<b1, b3>> @@ c2 :> <<b1, b2>>
=============================================================================
