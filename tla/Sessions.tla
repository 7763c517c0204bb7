------------------------------- MODULE Sessions -------------------------------
(***************************************************************************)
(* What a server promises of its players: a name has one session at a      *)
(* time, a connection plays under one name, and who comes back goes on     *)
(* with what the name had before, until it is erased.                      *)
(***************************************************************************)
EXTENDS Naturals

CONSTANTS Names, Peers

VARIABLES
    holders,    \* per name: the connections that play under it
    value,      \* per name: what has been achieved under it, 0 for nothing
    epoch       \* per name: whether it was erased an odd number of times

Init ==
    /\ holders = [n \in Names |-> {}]
    /\ value = [n \in Names |-> 0]
    /\ epoch = [n \in Names |-> FALSE]

Begin(n, p) ==
    /\ holders[n] = {} /\ \A m \in Names : p \notin holders[m]
    /\ holders' = [holders EXCEPT ![n] = {p}]
    /\ UNCHANGED <<value, epoch>>

Play(n) ==
    /\ holders[n] # {}
    /\ value' = [value EXCEPT ![n] = @ + 1]
    /\ UNCHANGED <<holders, epoch>>

\* One session ends, or all of them.
End(ns) ==
    /\ holders' = [n \in Names |-> IF n \in ns THEN {} ELSE holders[n]]
    /\ UNCHANGED <<value, epoch>>

Erase(n) ==
    /\ holders[n] = {}
    /\ value' = [value EXCEPT ![n] = 0]
    /\ epoch' = [epoch EXCEPT ![n] = ~@]
    /\ UNCHANGED holders

Next ==
    \/ \E n \in Names, p \in Peers : Begin(n, p)
    \/ \E n \in Names : Play(n) \/ Erase(n)
    \/ \E ns \in SUBSET Names : End(ns)

Spec == Init /\ [][Next]_<<holders, value, epoch>>
===============================================================================
