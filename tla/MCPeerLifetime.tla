--------------------------- MODULE MCPeerLifetime ---------------------------
(***************************************************************************)
(* Instances of PeerLifetime for TLC: the send thread, the receive thread  *)
(* with two nested helpers, and an application thread.                     *)
(***************************************************************************)
EXTENDS PeerLifetime, TLC

CONSTANTS send, receive, app, s1, r1, r2, a1

OwnerOfThree == s1 :> send @@ r1 :> receive @@ r2 :> receive @@ a1 :> app
OwnerOfTwo   == s1 :> send @@ r1 :> receive

Interchangeable == Permutations(Objects)
=============================================================================
