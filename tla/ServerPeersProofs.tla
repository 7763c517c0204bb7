------------------------- MODULE ServerPeersProofs --------------------------
(***************************************************************************)
(* Proof that the server's clients go with their peers, for any number of  *)
(* peers, ids, threads and helpers, over the invariants of the peers and   *)
(* of their events.                                                        *)
(***************************************************************************)
EXTENDS ServerPeers, PeerLifetimeProofs

\* Once event k is handled, a client i is right or will be removed: a peer has
\* the id, a later event removes the client, a thread is about to put one, or
\* ~Connection has ended everything.
Promise(i, k) ==
    \/ peers[i] # None
    \/ \E m \in k + 1 .. Len(events) : events[m].kind = "removed" /\ id[events[m].peer] = i
    \/ \E t \in Threads : pc[t] = "erased" /\ id[arg[t]] = i
    \/ pc[Closer] = "stopped"

IdInv ==
    /\ \A i \in Ids : peers[i] # None => id[peers[i]] = i
    /\ \A o \in Objects : life[o] # "unborn" => id[o] \in Ids

ClientInv ==
    /\ handled \in 0 .. Len(events) /\ clients \subseteq Ids
    /\ \A i \in clients : Promise(i, handled)
    /\ \A k \in handled + 1 .. Len(events) :
            events[k].kind = "added" => Promise(id[events[k].peer], k)

PeersInv == IInv /\ EventInv /\ IdInv
-----------------------------------------------------------------------------
\* The peers that events tell of have an id.
LEMMA EventIds ==
    ASSUME PeersInv, NEW k \in 1 .. Len(events)
    PROVE  /\ events[k].peer \in Objects /\ life[events[k].peer] # "unborn"
           /\ id[events[k].peer] \in Ids /\ events[k].kind \in {"added", "removed"}
<1> DEFINE Event == [kind : {"added", "removed"}, peer : Objects]
<1>1. events \in Seq(Event)
  BY DEF PeersInv, IInv, TypeOK
<1>2. k \in DOMAIN events /\ events[k].peer \in Objects /\ events[k].kind \in {"added", "removed"}
  <2>1. \A e \in Event : e.peer \in Objects /\ e.kind \in {"added", "removed"}
    OBVIOUS
  <2> HIDE DEF Event
  <2>2. k \in DOMAIN events /\ events[k] \in Event
    BY <1>1
  <2> QED BY <2>1, <2>2
<1>3. life[events[k].peer] # "unborn"
  BY <1>2 DEF PeersInv, EventInv
<1>4. QED
  BY <1>2, <1>3 DEF PeersInv, IdInv

\* An id is given with the creation and never changes, and the list of events
\* only grows.
LEMMA StepShape ==
    ASSUME PeersInv, [Next]_vars
    PROVE  /\ \A o \in Objects : life[o] # "unborn" => id'[o] = id[o]
           /\ events' \in Seq([kind : {"added", "removed"}, peer : Objects])
           /\ Len(events') \in {Len(events), Len(events) + 1}
           /\ \A k \in 1 .. Len(events) : events'[k] = events[k]
<1> DEFINE Event == [kind : {"added", "removed"}, peer : Objects]
<1>1. TypeOK /\ events \in Seq(Event) /\ Len(events) \in Nat
  BY DEF PeersInv, IInv, TypeOK
<1>2. ASSUME NEW t \in Threads, NEW i \in Ids, NEW o \in Objects, CreatePeer(t, i, o)
      PROVE  /\ \A p \in Objects : life[p] # "unborn" => id'[p] = id[p]
             /\ \E e \in Event : events' = Append(events, e)
  BY <1>1, <1>2 DEF CreatePeer, TypeOK
<1>3. ASSUME NEW t \in Threads, AnnounceRemoval(t)
      PROVE  id' = id /\ \E e \in Event : events' = Append(events, e)
  <2>1. arg[t] \in Objects
    BY <1>3 DEF AnnounceRemoval, PeersInv, IInv, PointerInv
  <2>2. QED
    BY <1>3, <2>1 DEF AnnounceRemoval
<1>4. CASE UNCHANGED <<id, events>>
  BY <1>1, <1>4
<1>5. ASSUME NEW e \in Event, events' = Append(events, e)
      PROVE  /\ events' \in Seq(Event)
             /\ Len(events') = Len(events) + 1
             /\ \A k \in 1 .. Len(events) : events'[k] = events[k]
  <2> HIDE DEF Event
  <2> QED BY <1>1, <1>5
<1>6. CASE \E t \in Threads, i \in Ids, o \in Objects : CreatePeer(t, i, o)
  BY <1>2, <1>5, <1>6
<1>7. CASE \E t \in Threads : AnnounceRemoval(t)
  BY <1>3, <1>5, <1>7
<1>8. QED
  BY <1>4, <1>6, <1>7
  DEF Next, vars, FindPeer, IncUseCount, DecUseCount, Free, ErasePeer, Drop, ThreadExit,
      DestroyConnection

\* What the ids say of the peers stays true.
LEMMA StepKeepsIds ==
    ASSUME PeersInv, [Next]_vars
    PROVE  IdInv'
<1> USE PeerAssumption
<1>1. TypeOK /\ IdInv /\ PointerInv /\ ContainerInv
  BY DEF PeersInv, IInv
<1>2. ASSUME NEW t \in Threads, NEW i \in Ids, NEW o \in Objects, CreatePeer(t, i, o)
      PROVE  IdInv'
  <2>1. \A p \in Objects \ {o} : id'[p] = id[p] /\ life'[p] = life[p]
    BY <1>1, <1>2 DEF CreatePeer, TypeOK
  <2>2. id'[o] = i /\ peers'[i] = o /\ \A j \in Ids \ {i} : peers'[j] = peers[j]
    BY <1>1, <1>2 DEF CreatePeer, TypeOK
  <2>3. \A j \in Ids : peers[j] # o
    BY <1>1, <1>2 DEF CreatePeer, ContainerInv
  <2>4. \A j \in Ids : peers[j] \in Objects \cup {None}
    BY <1>1 DEF TypeOK
  <2>5. QED
    BY <1>1, <2>1, <2>2, <2>3, <2>4 DEF IdInv
<1>3. ASSUME id' = id, \A i \in Ids : peers'[i] \in {peers[i], None},
             \A o \in Objects : life'[o] # "unborn" => life[o] # "unborn"
      PROVE  IdInv'
  <2>1. \A i \in Ids : peers'[i] # None => peers'[i] = peers[i]
    BY <1>3
  <2>2. /\ \A i \in Ids : peers[i] # None => id'[peers[i]] = i
        /\ \A o \in Objects : life[o] # "unborn" => id'[o] \in Ids
    BY <1>1, <1>3 DEF IdInv
  <2>3. QED
    BY <1>3, <2>1, <2>2 DEF IdInv
<1>4. ASSUME NEW t \in Threads, Free(t)
      PROVE  IdInv'
  <2>1. arg[t] \in Objects /\ life[arg[t]] # "unborn"
    BY <1>1, <1>4 DEF Free, PointerInv
  <2>2. id' = id /\ peers' = peers /\ \A o \in Objects \ {arg[t]} : life'[o] = life[o]
    BY <1>1, <1>4 DEF Free, TypeOK
  <2>3. QED
    BY <1>3, <2>1, <2>2
<1>5. ASSUME NEW t \in Threads, NEW i \in Ids, ErasePeer(t, i)
      PROVE  IdInv'
  BY <1>1, <1>3, <1>5 DEF ErasePeer, TypeOK
<1>6. CASE DestroyConnection
  BY <1>1, <1>3, <1>6 DEF DestroyConnection, ContainerInv, TypeOK
<1>7. CASE UNCHANGED <<id, peers, life>>
  BY <1>3, <1>7
<1>8. QED
  BY <1>2, <1>4, <1>5, <1>6, <1>7
  DEF Next, vars, FindPeer, IncUseCount, DecUseCount, AnnounceRemoval, Drop, ThreadExit
-----------------------------------------------------------------------------
\* A promise is kept by every step of the connection: what a thread erases it
\* is about to announce, and what it announces is a later event.
LEMMA PromiseKept ==
    ASSUME PeersInv, [Next]_vars, NEW i \in Ids, NEW k \in 0 .. Len(events), Promise(i, k)
    PROVE  Promise(i, k)'
<1> USE PeerAssumption
<1>1. TypeOK /\ IdInv /\ PointerInv /\ Len(events) \in Nat /\ Len(events') \in Nat
      /\ Len(events') >= Len(events)
  BY StepShape DEF PeersInv, IInv, TypeOK
<1>2. CASE \E m \in k + 1 .. Len(events) : events[m].kind = "removed" /\ id[events[m].peer] = i
  <2>1. PICK m \in k + 1 .. Len(events) : events[m].kind = "removed" /\ id[events[m].peer] = i
    BY <1>2
  <2>2. m \in 1 .. Len(events) /\ m \in k + 1 .. Len(events')
    BY <1>1
  <2>3. events'[m] = events[m] /\ id'[events[m].peer] = i
    BY <2>1, <2>2, StepShape, EventIds
  <2>4. QED
    BY <2>1, <2>2, <2>3 DEF Promise
<1>3. CASE pc[Closer] = "stopped"
  <2>1. ASSUME NEW t \in Threads \ {Closer}, NEW label, NEW o, Goto(t, label, o)
        PROVE  pc'[Closer] = "stopped"
    BY <1>1, <1>3, <2>1 DEF Goto, TypeOK
  <2>2. ASSUME NEW t \in Threads,
               \/ \E j \in Ids, o \in Objects : CreatePeer(t, j, o)
               \/ \E j \in Ids, h \in Helpers : FindPeer(t, j, h)
               \/ \E h \in Helpers : DecUseCount(t, h)
               \/ \E j \in Ids : ErasePeer(t, j)
        PROVE  pc'[Closer] = "stopped"
    BY <1>3, <2>1, <2>2 DEF CreatePeer, FindPeer, DecUseCount, ErasePeer
  <2>3. ASSUME NEW t \in Threads,
               IncUseCount(t) \/ Free(t) \/ AnnounceRemoval(t) \/ Drop(t) \/ ThreadExit(t)
        PROVE  pc'[Closer] = "stopped"
    BY <1>3, <2>1, <2>3 DEF IncUseCount, Free, AnnounceRemoval, Drop, ThreadExit
  <2>4. pc'[Closer] = "stopped"
    BY <1>3, <2>2, <2>3 DEF Next, vars, DestroyConnection
  <2>5. QED
    BY <2>4 DEF Promise
<1>4. CASE peers[i] # None
  <2>1. ASSUME NEW t \in Threads, NEW j \in Ids, ErasePeer(t, j)
        PROVE  Promise(i, k)'
    <3>1. CASE j = i
      <4>1. pc'[t] = "erased" /\ arg'[t] = peers[i] /\ id' = id /\ id[peers[i]] = i
        BY <1>1, <1>4, <2>1, <3>1 DEF ErasePeer, Goto, TypeOK, IdInv
      <4>2. QED
        BY <4>1 DEF Promise
    <3>2. CASE j # i
      <4>1. peers'[i] = peers[i]
        BY <1>1, <2>1, <3>2 DEF ErasePeer, TypeOK
      <4>2. QED
        BY <1>4, <4>1 DEF Promise
    <3>3. QED
      BY <3>1, <3>2
  <2>2. CASE DestroyConnection
    <3>1. pc'[Closer] = "stopped"
      BY <1>1, <2>2 DEF DestroyConnection, Goto, TypeOK
    <3>2. QED
      BY <3>1 DEF Promise
  <2>3. ASSUME NEW t \in Threads, NEW j \in Ids, NEW o \in Objects, CreatePeer(t, j, o)
        PROVE  Promise(i, k)'
    <3>1. peers'[i] # None
      BY <1>1, <1>4, <2>3 DEF CreatePeer, TypeOK
    <3>2. QED
      BY <3>1 DEF Promise
  <2>4. CASE peers' = peers
    BY <1>4, <2>4 DEF Promise
  <2>5. QED
    BY <2>1, <2>2, <2>3, <2>4
    DEF Next, vars, FindPeer, IncUseCount, DecUseCount, Free, AnnounceRemoval, Drop, ThreadExit
<1>5. CASE \E t \in Threads : pc[t] = "erased" /\ id[arg[t]] = i
  <2>1. PICK t \in Threads : pc[t] = "erased" /\ id[arg[t]] = i
    BY <1>5
  <2>2. arg[t] \in Objects /\ life[arg[t]] = "live"
    BY <1>1, <2>1 DEF PointerInv
  <2>3. CASE AnnounceRemoval(t)
    <3>1. events' = Append(events, [kind |-> "removed", peer |-> arg[t]]) /\ id' = id
      BY <2>3 DEF AnnounceRemoval
    <3>2. /\ Len(events) + 1 \in k + 1 .. Len(events')
          /\ events'[Len(events) + 1] = [kind |-> "removed", peer |-> arg[t]]
      BY <1>1, <3>1 DEF TypeOK
    <3>3. QED
      BY <2>1, <3>1, <3>2 DEF Promise
  <2>4. CASE pc'[t] = pc[t] /\ arg'[t] = arg[t]
    <3>1. id'[arg[t]] = i
      BY <2>1, <2>2, StepShape
    <3>2. QED
      BY <2>1, <2>4, <3>1 DEF Promise
  <2>5. QED
    <3>1. ASSUME NEW u \in Threads \ {t}, NEW label, NEW o, Goto(u, label, o)
          PROVE  pc'[t] = pc[t] /\ arg'[t] = arg[t]
      BY <1>1, <3>1 DEF Goto, TypeOK
    <3>2. CASE DestroyConnection
      BY <1>1, <2>1, <2>4, <3>1, <3>2 DEF DestroyConnection
    <3>3. CASE UNCHANGED <<pc, arg>>
      BY <2>4, <3>3
    <3>4. QED
      BY <2>1, <2>3, <2>4, <3>1, <3>2, <3>3
      DEF Next, vars, CreatePeer, FindPeer, IncUseCount, DecUseCount, Free, ErasePeer,
          AnnounceRemoval, Drop, ThreadExit
<1>6. QED
  BY <1>2, <1>3, <1>4, <1>5 DEF Promise

\* A step of the connection: a new peer is in the container when its event is
\* put.
LEMMA ConnectionKeepsClients ==
    ASSUME PeersInv, ClientInv, [Next]_vars, UNCHANGED <<clients, handled>>
    PROVE  ClientInv'
<1> USE PeerAssumption
<1>1. TypeOK /\ Len(events) \in Nat /\ handled \in Nat
      /\ handled <= Len(events) /\ clients \subseteq Ids
  BY DEF PeersInv, IInv, TypeOK, ClientInv
<1>2. handled' \in 0 .. Len(events') /\ clients' \subseteq Ids
  BY <1>1, StepShape
<1>3. \A i \in clients' : Promise(i, handled)'
  BY <1>1, PromiseKept DEF ClientInv
<1>4. ASSUME NEW k \in handled + 1 .. Len(events'), events'[k].kind = "added"
      PROVE  Promise(id[events[k].peer], k)'
  <2>1. CASE k \in 1 .. Len(events)
    <3>1. events'[k] = events[k] /\ id'[events[k].peer] = id[events[k].peer]
      BY <2>1, StepShape, EventIds
    <3>2. id[events[k].peer] \in Ids /\ Promise(id[events[k].peer], k)
      BY <1>1, <1>4, <2>1, <3>1, EventIds DEF ClientInv
    <3>3. QED
      BY <1>1, <2>1, <3>1, <3>2, PromiseKept DEF Promise
  <2>2. CASE k = Len(events) + 1
    <3>1. ASSUME NEW t \in Threads, AnnounceRemoval(t)
          PROVE  FALSE
      <4>1. events'[k].kind = "removed"
        BY <1>1, <2>2, <3>1 DEF AnnounceRemoval, TypeOK
      <4>2. QED
        BY <1>4, <4>1
    <3>2. PICK t \in Threads, i \in Ids, o \in Objects : CreatePeer(t, i, o)
      <4>1. events' # events
        BY <1>1, <1>4, <2>2
      <4>2. QED
        BY <3>1, <4>1
        DEF Next, vars, FindPeer, IncUseCount, DecUseCount, Free, ErasePeer, Drop,
            ThreadExit, DestroyConnection
    <3>3. events'[k].peer = o
      BY <1>1, <2>2, <3>2 DEF CreatePeer, TypeOK
    <3>4. id'[o] = i /\ peers'[i] = o /\ o # None
      BY <1>1, <3>2 DEF CreatePeer, TypeOK
    <3>5. QED
      BY <3>3, <3>4 DEF Promise
  <2>3. QED
    BY <1>1, <1>4, <2>1, <2>2, StepShape
<1>5. QED
  BY <1>2, <1>3, <1>4 DEF ClientInv

\* The server takes an event: whom it adds and keeps has a promise of its own.
LEMMA ServerKeepsClients ==
    ASSUME PeersInv, ClientInv, PeerAdded \/ DeletingPeer
    PROVE  ClientInv'
<1> DEFINE k == handled + 1
<1> DEFINE i == id[events[k].peer]
<1>1. /\ Len(events) \in Nat /\ handled \in Nat /\ k \in 1 .. Len(events) /\ k \in 0 .. Len(events)
      /\ handled' = k /\ UNCHANGED vars
      /\ clients \subseteq Ids
  BY DEF PeersInv, IInv, TypeOK, ClientInv, PeerAdded, DeletingPeer
<1>2. i \in Ids
  BY <1>1, EventIds
<1>3. \A j \in k + 1 .. Len(events) : events[j].kind = "added" => Promise(id[events[j].peer], j)
  BY <1>1 DEF ClientInv
<1>4. ASSUME NEW j \in Ids, Promise(j, handled), ~ (events[k].kind = "removed" /\ i = j)
      PROVE  Promise(j, k)
  BY <1>1, <1>4 DEF Promise
<1>5. CASE PeerAdded
  <2>1. clients' = clients \cup {i} /\ events[k].kind = "added"
    BY <1>5 DEF PeerAdded, NextEvent
  <2>2. Promise(i, k)
    BY <1>1, <2>1 DEF ClientInv
  <2>3. \A j \in clients' : Promise(j, k)
    BY <1>1, <1>4, <2>1, <2>2 DEF ClientInv
  <2>4. QED
    BY <1>1, <1>2, <1>3, <2>1, <2>3 DEF ClientInv, Promise, vars
<1>6. CASE DeletingPeer
  <2>1. clients' = clients \ {i}
    BY <1>6 DEF DeletingPeer, NextEvent
  <2>2. \A j \in clients' : Promise(j, k)
    BY <1>1, <1>4, <2>1 DEF ClientInv
  <2>3. QED
    BY <1>1, <1>3, <2>1, <2>2 DEF ClientInv, Promise, vars
<1>7. QED
  BY <1>5, <1>6

\* When the server has handled all events and no thread is inside the
\* connection, every client has its peer, however deletions, creations and
\* the events of both were interleaved, and whichever ids were used again.
THEOREM ClientsGoWithPeers == ServerSpec => []NoGhostClient
<1>1. ServerInit => ClientInv /\ IdInv
  BY DEF ServerInit, Init, ClientInv, IdInv
<1>2. ServerInit => EventInv
  BY DEF ServerInit, Init, EventInv, EventsArePaired
<1>3. [ServerNext]_serverVars => [Next]_vars
  BY DEF ServerNext, serverVars, PeerAdded, DeletingPeer
<1>4. ServerInit => Init
  BY DEF ServerInit
<1>5. PeersInv /\ [Next]_vars => IdInv'
  BY StepKeepsIds
<1>6. IInv /\ EventInv /\ [Next]_vars => EventInv'
  BY StepKeepsEvents
<1>7. PeersInv /\ ClientInv /\ [ServerNext]_serverVars => ClientInv'
  BY ConnectionKeepsClients, ServerKeepsClients DEF ServerNext, serverVars, vars
<1>8. PeersInv /\ ClientInv => NoGhostClient
  <2> SUFFICES ASSUME PeersInv, ClientInv, handled = Len(events),
                      \A t \in Threads : pc[t] = "idle", NEW i \in clients
               PROVE  i \in Ids /\ peers[i] # None
    BY DEF NoGhostClient
  <2>1. Promise(i, handled) /\ i \in Ids /\ Len(events) \in Nat
    BY DEF ClientInv, PeersInv, IInv, TypeOK
  <2>2. QED
    BY <2>1, PeerAssumption DEF Promise
<1>9. QED
  BY <1>1, <1>2, <1>3, <1>4, <1>5, <1>6, <1>7, <1>8, Invariance, PTL
  DEF ServerSpec, Spec, PeersInv
=============================================================================
