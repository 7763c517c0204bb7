---------------------------- MODULE MCBlinkDelay ----------------------------
(***************************************************************************)
(* Instances of BlinkDelay for TLC: two threads of one client, or the      *)
(* client and the server of a singleplayer game.                           *)
(***************************************************************************)
EXTENDS BlinkDelay

CONSTANTS client, server

OneConnection == [s \in Senders |-> client]
OwnConnection == [s \in Senders |-> IF s = 1 THEN client ELSE server]
=============================================================================
