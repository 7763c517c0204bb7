---------------------------- MODULE MCMeshQueue ----------------------------
(* Two blocks side by side and two threads that make meshes.  Both the blocks *)
(* and the threads are alike, and no property is temporal.                    *)
EXTENDS MeshQueue

CONSTANTS b1, b2

Pair == (b1 :> {b2}) @@ (b2 :> {b1})
Symmetry == Permutations(Blocks) \union Permutations(Workers)
============================================================================
