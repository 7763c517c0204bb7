---------------------------- MODULE PeerLifetime ----------------------------
(***************************************************************************)
(* The life of Peer objects: m_peers under m_peers_mutex, the use count    *)
(* that PeerHelper keeps under the m_exclusive_access_mutex of each peer,  *)
(* and the two places that delete a peer.  The send thread, the receive    *)
(* thread and the threads of the application all take helpers; timeouts    *)
(* and pending disconnects delete peers from the send thread, a DISCO      *)
(* packet deletes the peer whose packet the receive thread is processing,  *)
(* with helpers of its own alive.                                          *)
(*                                                                         *)
(* A step is a critical section, or the code between two of them.  A       *)
(* helper is a C++ variable of one thread: at[h] is its m_peer.            *)
(***************************************************************************)
EXTENDS Integers, Sequences, FiniteSets

CONSTANTS Objects,   \* the Peer objects a behaviour may create
          Ids,       \* the peer ids createPeer draws from
          Threads,   \* send and receive thread, threads of the application
          Helpers,   \* the PeerHelper variables
          Owner,     \* Owner[h]: the thread whose variable h is
          Closer,    \* the thread that runs ~Connection
          None       \* nullptr

ASSUME PeerAssumption == /\ IsFiniteSet(Helpers)
                         /\ Owner \in [Helpers -> Threads]
                         /\ Closer \in Threads
                         /\ None \notin Objects \cup Ids \cup Threads \cup Helpers

VARIABLES
    peers,    \* m_peers: id -> object
    mutex,    \* the holder of m_peers_mutex between two steps
    life,     \* "unborn", "live" or "freed", for every object
    id,       \* Peer::id, given when the object is created
    usage,    \* Peer::m_usage
    pending,  \* Peer::m_pending_deletion
    at,       \* PeerHelper::m_peer
    pc,       \* where each thread is
    arg,      \* the raw Peer pointer a thread works with there
    dest,     \* the helper getPeerNoEx is filling
    events    \* m_event_queue, the peer events ever put

vars == <<peers, mutex, life, id, usage, pending, at, pc, arg, dest, events>>

TypeOK ==
    /\ peers \in [Ids -> Objects \cup {None}]
    /\ mutex \in Threads \cup {None}
    /\ life \in [Objects -> {"unborn", "live", "freed"}]
    /\ id \in [Objects -> Ids \cup {None}]
    /\ usage \in [Objects -> Int]
    /\ pending \in [Objects -> BOOLEAN]
    /\ at \in [Helpers -> Objects \cup {None}]
    /\ pc \in [Threads -> {"idle", "found", "erased", "announced", "freeing", "stopped"}]
    /\ arg \in [Threads -> Objects \cup {None}]
    /\ dest \in [Threads -> Helpers \cup {None}]
    /\ events \in Seq([kind : {"added", "removed"}, peer : Objects])

Init ==
    /\ peers = [i \in Ids |-> None]
    /\ mutex = None
    /\ life = [o \in Objects |-> "unborn"]
    /\ id = [o \in Objects |-> None]
    /\ usage = [o \in Objects |-> 0]
    /\ pending = [o \in Objects |-> FALSE]
    /\ at = [h \in Helpers |-> None]
    /\ pc = [t \in Threads |-> "idle"]
    /\ arg = [t \in Threads |-> None]
    /\ dest = [t \in Threads |-> None]
    /\ events = <<>>
-----------------------------------------------------------------------------
Goto(t, label, o) == /\ pc' = [pc EXCEPT ![t] = label]
                     /\ arg' = [arg EXCEPT ![t] = o]

\* createPeer: one critical section, with the event inside it.
CreatePeer(t, i, o) ==
    /\ pc[t] = "idle" /\ mutex = None
    /\ peers[i] = None /\ life[o] = "unborn"
    /\ peers' = [peers EXCEPT ![i] = o]
    /\ life' = [life EXCEPT ![o] = "live"]
    /\ id' = [id EXCEPT ![o] = i]
    /\ events' = Append(events, [kind |-> "added", peer |-> o])
    /\ UNCHANGED <<mutex, usage, pending, at, pc, arg, dest>>

\* Broken variant: the container is unlocked before the use count goes up.
FindPeer_Unlocked(t, i, h) ==
    /\ pc[t] = "idle" /\ mutex = None
    /\ Owner[h] = t /\ at[h] = None
    /\ peers[i] # None
    /\ dest' = [dest EXCEPT ![t] = h]
    /\ Goto(t, "found", peers[i])
    /\ UNCHANGED <<peers, mutex, life, id, usage, pending, at, events>>

\* getPeerNoEx finds the peer and makes a helper of it, both inside the
\* critical section of m_peers_mutex.
FindPeer(t, i, h) ==
    /\ pc[t] = "idle" /\ mutex = None
    /\ Owner[h] = t /\ at[h] = None
    /\ peers[i] # None
    /\ mutex' = t
    /\ dest' = [dest EXCEPT ![t] = h]
    /\ Goto(t, "found", peers[i])
    /\ UNCHANGED <<peers, life, id, usage, pending, at, events>>

\* Broken variant: the use count of a marked peer goes up as well, and the
\* helper counts twice.
IncUseCount_Twice(t) ==
    /\ pc[t] = "found"
    /\ usage' = [usage EXCEPT ![arg[t]] = @ + 2]
    /\ at' = [at EXCEPT ![dest[t]] = arg[t]]
    /\ mutex' = None
    /\ dest' = [dest EXCEPT ![t] = None]
    /\ Goto(t, "idle", None)
    /\ UNCHANGED <<peers, life, id, pending, events>>

\* PeerHelper::operator= with IncUseCount, which refuses a marked peer.
IncUseCount(t) ==
    /\ pc[t] = "found"
    /\ IF pending[arg[t]]
       THEN UNCHANGED <<usage, at>>
       ELSE /\ usage' = [usage EXCEPT ![arg[t]] = @ + 1]
            /\ at' = [at EXCEPT ![dest[t]] = arg[t]]
    /\ mutex' = None
    /\ dest' = [dest EXCEPT ![t] = None]
    /\ Goto(t, "idle", None)
    /\ UNCHANGED <<peers, life, id, pending, events>>

\* Broken variant: only Drop frees peers.
DecUseCount_NeverFrees(t, h) ==
    /\ pc[t] = "idle"
    /\ Owner[h] = t /\ at[h] # None
    /\ usage' = [usage EXCEPT ![at[h]] = @ - 1]
    /\ at' = [at EXCEPT ![h] = None]
    /\ UNCHANGED <<peers, mutex, life, id, pending, pc, arg, dest, events>>

\* ~PeerHelper with DecUseCount: the last user of a dropped peer frees it.
DecUseCount(t, h) ==
    /\ pc[t] = "idle"
    /\ Owner[h] = t /\ at[h] # None
    /\ usage' = [usage EXCEPT ![at[h]] = @ - 1]
    /\ at' = [at EXCEPT ![h] = None]
    /\ IF pending[at[h]] /\ usage'[at[h]] = 0
       THEN Goto(t, "freeing", at[h])
       ELSE UNCHANGED <<pc, arg>>
    /\ UNCHANGED <<peers, mutex, life, id, pending, dest, events>>

\* "delete this", and ~Peer.
Free(t) ==
    /\ pc[t] = "freeing"
    /\ life' = [life EXCEPT ![arg[t]] = "freed"]
    /\ Goto(t, "idle", None)
    /\ UNCHANGED <<peers, mutex, id, usage, pending, at, dest, events>>

\* Broken variant: the peer stays in the container.
ErasePeer_Kept(t, i) ==
    /\ pc[t] = "idle" /\ mutex = None
    /\ peers[i] # None
    /\ Goto(t, "erased", peers[i])
    /\ UNCHANGED <<peers, mutex, life, id, usage, pending, at, dest, events>>

\* deletePeer, in three steps: it takes the peer out of the container, puts
\* the event, and drops the peer.
ErasePeer(t, i) ==
    /\ pc[t] = "idle" /\ mutex = None
    /\ peers[i] # None
    /\ peers' = [peers EXCEPT ![i] = None]
    /\ Goto(t, "erased", peers[i])
    /\ UNCHANGED <<mutex, life, id, usage, pending, at, dest, events>>

\* putEvent(peerRemoved), after m_peers_mutex has been released.
AnnounceRemoval(t) ==
    /\ pc[t] = "erased"
    /\ events' = Append(events, [kind |-> "removed", peer |-> arg[t]])
    /\ Goto(t, "announced", arg[t])
    /\ UNCHANGED <<peers, mutex, life, id, usage, pending, at, dest>>

\* Broken variant: a peer in use is not marked.
Drop_Unmarked(t) ==
    /\ pc[t] = "announced"
    /\ IF usage[arg[t]] = 0
       THEN Goto(t, "freeing", arg[t]) /\ pending' = [pending EXCEPT ![arg[t]] = TRUE]
       ELSE Goto(t, "idle", None) /\ UNCHANGED pending
    /\ UNCHANGED <<peers, mutex, life, id, usage, at, dest, events>>

\* Drop marks the peer, and the deletion falls to it when nobody uses the peer.
Drop(t) ==
    /\ pc[t] = "announced"
    /\ pending' = [pending EXCEPT ![arg[t]] = TRUE]
    /\ IF usage[arg[t]] = 0 THEN Goto(t, "freeing", arg[t]) ELSE Goto(t, "idle", None)
    /\ UNCHANGED <<peers, mutex, life, id, usage, at, dest, events>>

\* run() of a thread returns, or an application thread is done with the
\* connection: its helpers have left their scopes.
ThreadExit(t) ==
    /\ t # Closer
    /\ pc[t] = "idle"
    /\ \A h \in Helpers : Owner[h] = t => at[h] = None
    /\ Goto(t, "stopped", None)
    /\ UNCHANGED <<peers, mutex, life, id, usage, pending, at, dest, events>>

\* ~Connection, after it has waited for the threads, deletes the peers left.
DestroyConnection ==
    /\ pc[Closer] = "idle"
    /\ \A t \in Threads \ {Closer} : pc[t] = "stopped"
    /\ \A h \in Helpers : Owner[h] = Closer => at[h] = None
    /\ life' = [o \in Objects |-> IF \E i \in Ids : peers[i] = o THEN "freed" ELSE life[o]]
    /\ peers' = [i \in Ids |-> None]
    /\ Goto(Closer, "stopped", None)
    /\ UNCHANGED <<mutex, id, usage, pending, at, dest, events>>

Next ==
    \/ \E t \in Threads :
        \/ \E i \in Ids, o \in Objects : CreatePeer(t, i, o)
        \/ \E i \in Ids, h \in Helpers : FindPeer(t, i, h)
        \/ IncUseCount(t)
        \/ \E h \in Helpers : DecUseCount(t, h)
        \/ Free(t)
        \/ \E i \in Ids : ErasePeer(t, i)
        \/ AnnounceRemoval(t)
        \/ Drop(t)
        \/ ThreadExit(t)
    \/ DestroyConnection

Spec == Init /\ [][Next]_vars

(***************************************************************************)
(* Fairness: a thread inside a function of the connection runs on, and a   *)
(* helper, a local variable, leaves its scope whatever its thread does     *)
(* meanwhile.                                                              *)
(***************************************************************************)
Fairness == \A t \in Threads :
                /\ WF_vars(IncUseCount(t))
                /\ WF_vars(Free(t))
                /\ WF_vars(AnnounceRemoval(t))
                /\ WF_vars(Drop(t))
                /\ \A h \in Helpers : SF_vars(DecUseCount(t, h))

FairSpec == Spec /\ Fairness
-----------------------------------------------------------------------------
InContainer(o) == \E i \in Ids : peers[i] = o

\* No pointer outlives its peer: neither one in the container, which every
\* loop over m_peers follows, nor a helper's, nor the raw pointer of a
\* thread between two critical sections of getPeerNoEx or deletePeer.
NoDanglingPointer ==
    /\ \A i \in Ids : peers[i] # None => life[peers[i]] = "live"
    /\ \A h \in Helpers : at[h] # None => life[at[h]] = "live"
    /\ \A t \in Threads : arg[t] # None => life[arg[t]] = "live"

\* Two threads never free one peer.
FreedByOne ==
    \A t, u \in Threads : pc[t] = "freeing" /\ pc[u] = "freeing" /\ t # u
                                => arg[t] # arg[u]

\* m_usage is the number of helpers, and a peer that is freed, also by
\* ~Connection, has none: ~Peer never reports a reference counting failure.
UsageIsExact ==
    \A o \in Objects : /\ usage[o] = Cardinality({h \in Helpers : at[h] = o})
                       /\ life[o] = "freed" => usage[o] = 0

\* A peer out of the container is never leaked: a thread is deleting it, or
\* it is marked and the last of its helpers will.
NoOrphan ==
    \A o \in Objects :
        life[o] = "live" /\ ~ InContainer(o) =>
            \/ \E t \in Threads : arg[t] = o
            \/ pending[o] /\ usage[o] > 0

\* A peer in the container is not marked for deletion, so that getPeerNoEx
\* never fails on a peer it has found.
ContainerIsUsable == \A i \in Ids : peers[i] # None => ~ pending[peers[i]]

\* The application hears of every peer once when it comes and at most once
\* when it goes, in this order, whichever threads delete it.
EventsArePaired ==
    /\ \A j, k \in DOMAIN events : events[j] = events[k] => j = k
    /\ \A k \in DOMAIN events : events[k].kind = "removed" =>
            \E j \in 1 .. k : events[j] = [kind |-> "added", peer |-> events[k].peer]

\* Every removed peer is freed in the end.
RemovedIsFreed ==
    \A o \in Objects : life[o] = "live" /\ ~ InContainer(o) ~> life[o] = "freed"
=============================================================================
