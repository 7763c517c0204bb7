--------------------------- MODULE MCServerPeers ----------------------------
(***************************************************************************)
(* Instances of ServerPeers for TLC: the send thread with one helper and   *)
(* the receive thread with two nested ones; the events are taken by the    *)
(* server thread, which needs no helper for it.                            *)
(***************************************************************************)
EXTENDS ServerPeers, TLC

CONSTANTS send, receive, s1, r1, r2

OwnerOfTwo == s1 :> send @@ r1 :> receive @@ r2 :> receive
=============================================================================
