---------------------------- MODULE MCPlayerSession ----------------------------
(* Instances of PlayerSession: three connections that log in with one name, or *)
(* with two.  Peers and names are alike where no property is temporal.         *)
EXTENDS PlayerSession, TLC

CONSTANTS p1, p2, p3, anna, bert

Sameness == Permutations({p1, p2, p3}) \cup Permutations({anna, bert})
================================================================================
