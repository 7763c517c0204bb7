------------------------- MODULE PeerLifetimeProofs -------------------------
(***************************************************************************)
(* Proofs about PeerLifetime, for any number of peers, ids, threads and    *)
(* helpers: an inductive invariant, and the safety properties of the peers *)
(* that follow from it.                                                    *)
(***************************************************************************)
EXTENDS PeerLifetime, FiniteSetTheorems, TLAPS

Users(o) == {h \in Helpers : at[h] = o}

Deleting(t) == pc[t] \in {"erased", "announced", "freeing"}

\* What a thread knows of its raw pointer, wherever it is.
PointerInv ==
    \A t \in Threads :
        /\ pc[t] \in {"idle", "stopped"} => arg[t] = None
        /\ pc[t] \notin {"idle", "stopped"} => arg[t] \in Objects /\ life[arg[t]] = "live"
        /\ pc[t] = "found" =>
                /\ mutex = t
                /\ dest[t] \in Helpers /\ Owner[dest[t]] = t /\ at[dest[t]] = None
                /\ InContainer(arg[t])
        /\ Deleting(t) => ~ InContainer(arg[t])
        /\ pc[t] \in {"erased", "announced"} => ~ pending[arg[t]]
        /\ pc[t] = "freeing" => pending[arg[t]] /\ usage[arg[t]] = 0
        /\ pc[t] = "stopped" => \A h \in Helpers : Owner[h] = t => at[h] = None

\* At most one thread deletes a peer.
DeletersDiffer ==
    \A t, u \in Threads : Deleting(t) /\ Deleting(u) /\ t # u => arg[t] # arg[u]

\* The container holds each peer once, alive and not marked.
ContainerInv ==
    /\ \A i \in Ids : peers[i] # None => life[peers[i]] = "live" /\ ~ pending[peers[i]]
    /\ \A i, j \in Ids : peers[i] = peers[j] /\ peers[i] # None => i = j

HelperInv == \A h \in Helpers : at[h] # None => life[at[h]] = "live"

UnbornInv == \A o \in Objects : life[o] = "unborn" => ~ pending[o]

CountInv == \A o \in Objects : usage[o] = Cardinality(Users(o))

IInv == /\ TypeOK /\ PointerInv /\ DeletersDiffer /\ ContainerInv
        /\ HelperInv /\ UnbornInv /\ CountInv /\ NoOrphan
-----------------------------------------------------------------------------
\* The use count as a set of helpers: it is zero when the set is empty, and
\* a helper more or less is one more or less.
LEMMA UserSets ==
    ASSUME NEW S \in SUBSET Helpers
    PROVE  /\ Cardinality(S) \in Nat
           /\ Cardinality(S) = 0 <=> S = {}
           /\ \A h \in Helpers \ S : Cardinality(S \cup {h}) = Cardinality(S) + 1
           /\ \A h \in S : Cardinality(S \ {h}) = Cardinality(S) - 1
<1>1. IsFiniteSet(S)
  BY PeerAssumption, FS_Subset
<1>2. QED
  BY <1>1, FS_CardinalityType, FS_EmptySet, FS_AddElement, FS_RemoveElement

\* The use count of a peer is the number of its helpers, in particular not
\* negative, and positive when there is one.
LEMMA UsageCounts ==
    ASSUME CountInv, NEW o \in Objects
    PROVE  /\ usage[o] \in Nat
           /\ usage[o] = 0 <=> \A h \in Helpers : at[h] # o
<1>1. Users(o) \in SUBSET Helpers
  BY DEF Users
<1>2. usage[o] = Cardinality(Users(o))
  BY DEF CountInv
<1>3. usage[o] \in Nat /\ (usage[o] = 0 <=> Users(o) = {})
  BY <1>1, <1>2, UserSets
<1>4. QED
  BY <1>3 DEF Users

\* A step that changes no use count and no helper keeps the count exact.
LEMMA CountStays ==
    ASSUME CountInv, UNCHANGED <<usage, at>>
    PROVE  CountInv'
BY DEF CountInv, Users

\* No peer is born and nobody has begun: the invariant holds at the start.
LEMMA Initially == Init => IInv
<1> SUFFICES ASSUME Init PROVE IInv
  OBVIOUS
<1> USE PeerAssumption DEF Init
<1>1. TypeOK
  BY DEF TypeOK
<1>2. PointerInv /\ DeletersDiffer
  BY DEF PointerInv, DeletersDiffer, Deleting
<1>3. ContainerInv /\ HelperInv /\ UnbornInv
  BY DEF ContainerInv, HelperInv, UnbornInv
<1>4. CountInv
  <2>1. \A o \in Objects : Users(o) = {}
    BY DEF Users
  <2>2. QED
    BY <2>1, FS_EmptySet DEF CountInv
<1>5. NoOrphan
  BY DEF NoOrphan
<1>6. QED
  BY <1>1, <1>2, <1>3, <1>4, <1>5 DEF IInv

\* One step keeps the invariant, action by action.
LEMMA CreatePeerKeeps ==
    ASSUME IInv, NEW t \in Threads, NEW i \in Ids, NEW o \in Objects, CreatePeer(t, i, o)
    PROVE  IInv'
<1> USE PeerAssumption DEF IInv, CreatePeer
<1>1. \A p \in Objects \ {o} : InContainer(p)' = InContainer(p)
  BY DEF TypeOK, InContainer
<1>2. InContainer(o)'
  BY DEF TypeOK, InContainer
<1>3. \A u \in Threads : arg[u] # o
  BY DEF TypeOK, PointerInv
<1>4. TypeOK'
  BY DEF TypeOK
<1>5. PointerInv' /\ DeletersDiffer'
  BY <1>1, <1>2, <1>3 DEF TypeOK, PointerInv, DeletersDiffer, Deleting
<1>6. ContainerInv' /\ HelperInv' /\ UnbornInv'
  BY DEF TypeOK, ContainerInv, HelperInv, UnbornInv
<1>7. CountInv'
  BY CountStays
<1>8. NoOrphan'
  BY <1>1, <1>2 DEF TypeOK, NoOrphan
<1>9. QED
  BY <1>4, <1>5, <1>6, <1>7, <1>8

\* getPeerNoEx: the peer found is in the container, whose mutex is held from here.
LEMMA FindPeerKeeps ==
    ASSUME IInv, NEW t \in Threads, NEW i \in Ids, NEW h \in Helpers, FindPeer(t, i, h)
    PROVE  IInv'
<1> USE PeerAssumption DEF IInv, FindPeer, Goto
<1>1. peers[i] \in Objects /\ life[peers[i]] = "live" /\ InContainer(peers[i])
  BY DEF TypeOK, ContainerInv, InContainer
<1>2. TypeOK'
  BY <1>1 DEF TypeOK
<1>3. PointerInv' /\ DeletersDiffer'
  BY <1>1 DEF TypeOK, PointerInv, DeletersDiffer, Deleting, InContainer
<1>4. ContainerInv' /\ HelperInv' /\ UnbornInv'
  BY DEF ContainerInv, HelperInv, UnbornInv
<1>5. CountInv'
  BY CountStays
<1>6. NoOrphan'
  <2>1. \A u \in Threads : arg[u] # None => arg'[u] = arg[u]
    BY DEF TypeOK, PointerInv
  <2>2. \A p \in Objects : InContainer(p)' = InContainer(p)
    BY DEF InContainer
  <2>3. QED
    BY <2>1, <2>2 DEF NoOrphan
<1>7. QED
  BY <1>2, <1>3, <1>4, <1>5, <1>6

\* The peer is still in the container, so it is neither freed nor marked.
LEMMA IncUseCountKeeps ==
    ASSUME IInv, NEW t \in Threads, IncUseCount(t)
    PROVE  IInv'
<1> USE PeerAssumption DEF IInv
\* The peer was found in the container, so that it is not marked, and the
\* count goes up.
<1>1. PICK o \in Objects, h \in Helpers :
        /\ o = arg[t] /\ life[o] = "live" /\ InContainer(o) /\ ~ pending[o]
        /\ h = dest[t] /\ Owner[h] = t /\ at[h] = None
  BY DEF IncUseCount, PointerInv, ContainerInv, InContainer
<1>2. /\ usage' = [usage EXCEPT ![o] = @ + 1]
      /\ at' = [at EXCEPT ![h] = o]
      /\ pc' = [pc EXCEPT ![t] = "idle"]
      /\ arg' = [arg EXCEPT ![t] = None]
      /\ dest' = [dest EXCEPT ![t] = None]
      /\ mutex' = None
      /\ UNCHANGED <<peers, life, id, pending, events>>
  BY <1>1 DEF IncUseCount, Goto
<1>3. pc[t] = "found" /\ mutex = t
  BY DEF IncUseCount, PointerInv
<1>4. \A u \in Threads \ {t} : pc[u] # "found"
  BY <1>3 DEF PointerInv
<1>5. TypeOK'
  BY <1>1, <1>2 DEF TypeOK
<1>6. PointerInv' /\ DeletersDiffer'
  <2>1. \A u \in Threads \ {t} : Deleting(u) => arg[u] # o
    BY <1>1 DEF PointerInv
  <2>2. QED
    BY <1>1, <1>2, <1>3, <1>4, <2>1
    DEF TypeOK, PointerInv, DeletersDiffer, Deleting, InContainer
<1>7. ContainerInv' /\ HelperInv' /\ UnbornInv'
  BY <1>1, <1>2 DEF TypeOK, ContainerInv, HelperInv, UnbornInv
<1>8. CountInv'
  <2>1. Users(o)' = Users(o) \cup {h} /\ h \notin Users(o) /\ Users(o) \in SUBSET Helpers
    BY <1>1, <1>2 DEF TypeOK, Users
  <2>2. Cardinality(Users(o)') = Cardinality(Users(o)) + 1
    BY <1>1, <2>1, UserSets
  <2>3. \A p \in Objects \ {o} : Users(p)' = Users(p)
    BY <1>1, <1>2 DEF TypeOK, Users
  <2>4. QED
    BY <1>1, <1>2, <2>2, <2>3 DEF TypeOK, CountInv
<1>9. NoOrphan'
  <2>1. \A p \in Objects : InContainer(p)' = InContainer(p)
    BY <1>2 DEF InContainer
  <2>2. QED
    BY <1>1, <1>2, <2>1 DEF TypeOK, NoOrphan
<1>10. QED
  BY <1>5, <1>6, <1>7, <1>8, <1>9

\* The last user of a marked peer becomes the one who frees it.
LEMMA DecUseCountKeeps ==
    ASSUME IInv, NEW t \in Threads, NEW h \in Helpers, DecUseCount(t, h)
    PROVE  IInv'
<1> USE PeerAssumption DEF IInv
<1>1. PICK o \in Objects : /\ o = at[h] /\ life[o] = "live"
                           /\ Owner[h] = t /\ pc[t] = "idle" /\ arg[t] = None
  BY DEF DecUseCount, TypeOK, HelperInv, PointerInv
<1> DEFINE last == pending[o] /\ usage[o] = 1
<1>2. usage[o] \in Nat /\ usage[o] > 0
  BY <1>1, UsageCounts
<1>3. /\ usage' = [usage EXCEPT ![o] = @ - 1]
      /\ at' = [at EXCEPT ![h] = None]
      /\ pc' = IF last THEN [pc EXCEPT ![t] = "freeing"] ELSE pc
      /\ arg' = IF last THEN [arg EXCEPT ![t] = o] ELSE arg
      /\ UNCHANGED <<peers, mutex, life, id, pending, dest, events>>
  BY <1>1, <1>2 DEF DecUseCount, Goto, TypeOK
<1>4. pending[o] => ~ InContainer(o)
  BY <1>1 DEF ContainerInv, InContainer
<1>5. \A u \in Threads : Deleting(u) /\ arg[u] = o => ~ pending[o]
  BY <1>1, <1>2 DEF Deleting, PointerInv
<1>6. \A p \in Objects : InContainer(p)' = InContainer(p)
  BY <1>3 DEF InContainer
<1>7. TypeOK'
  BY <1>1, <1>2, <1>3 DEF TypeOK
<1>8. PointerInv'
  <2>1. \A u \in Threads \ {t} : pc'[u] = pc[u] /\ arg'[u] = arg[u]
    BY <1>1, <1>3 DEF TypeOK
  <2>2. \A u \in Threads \ {t} : pc[u] = "freeing" => usage'[arg[u]] = 0
    BY <1>1, <1>3, <1>5 DEF TypeOK, PointerInv, Deleting
  <2>3. last => pc'[t] = "freeing" /\ arg'[t] = o /\ usage'[o] = 0 /\ pending'[o]
    BY <1>1, <1>3 DEF TypeOK
  <2>4. ~ last => pc'[t] = "idle" /\ arg'[t] = None
    BY <1>1, <1>3
  <2>5. \A g \in Helpers : at'[g] = None \/ at'[g] = at[g]
    BY <1>3 DEF TypeOK
  <2> HIDE DEF last
  <2>6. UNCHANGED <<mutex, life, pending, dest>>
    BY <1>3
  <2>7. ASSUME NEW u \in Threads \ {t}
        PROVE  /\ pc'[u] \in {"idle", "stopped"} => arg'[u] = None
               /\ pc'[u] \notin {"idle", "stopped"} =>
                    arg'[u] \in Objects /\ life'[arg'[u]] = "live"
               /\ pc'[u] \in {"erased", "announced"} => ~ pending'[arg'[u]]
               /\ pc'[u] = "freeing" => pending'[arg'[u]] /\ usage'[arg'[u]] = 0
    BY <2>1, <2>2, <2>6 DEF PointerInv
  <2>8. ASSUME NEW u \in Threads \ {t}
        PROVE  /\ Deleting(u)' => ~ InContainer(arg[u])'
               /\ pc'[u] = "found" =>
                    /\ mutex' = u
                    /\ dest'[u] \in Helpers /\ Owner[dest'[u]] = u /\ at'[dest'[u]] = None
                    /\ InContainer(arg[u])'
               /\ pc'[u] = "stopped" => \A g \in Helpers : Owner[g] = u => at'[g] = None
    <3>1. Deleting(u)' => ~ InContainer(arg[u])'
      BY <1>3, <2>1 DEF PointerInv, Deleting, InContainer
    <3>2. pc'[u] = "found" => /\ dest'[u] \in Helpers /\ Owner[dest'[u]] = u
                              /\ at'[dest'[u]] = None
                              /\ mutex' = u
      BY <2>1, <2>5, <2>6 DEF PointerInv
    <3>3. pc'[u] = "found" => InContainer(arg[u])'
      BY <1>3, <2>1 DEF PointerInv, InContainer
    <3>4. pc'[u] = "stopped" => \A g \in Helpers : Owner[g] = u => at'[g] = None
      BY <2>1, <2>5 DEF PointerInv
    <3>5. QED
      BY <3>1, <3>2, <3>3, <3>4
  <2>9. QED
    BY <1>1, <1>3, <1>4, <1>6, <2>1, <2>3, <2>4, <2>7, <2>8 DEF PointerInv, Deleting
<1>9. DeletersDiffer'
  BY <1>1, <1>3, <1>5 DEF TypeOK, DeletersDiffer, Deleting
<1>10. ContainerInv' /\ HelperInv' /\ UnbornInv'
  BY <1>3 DEF TypeOK, ContainerInv, HelperInv, UnbornInv
<1>11. CountInv'
  <2>1. Users(o)' = Users(o) \ {h} /\ h \in Users(o) /\ Users(o) \in SUBSET Helpers
    BY <1>1, <1>3 DEF TypeOK, Users
  <2>2. Cardinality(Users(o)') = Cardinality(Users(o)) - 1
    BY <2>1, UserSets
  <2>3. \A p \in Objects \ {o} : Users(p)' = Users(p)
    BY <1>1, <1>3 DEF TypeOK, Users
  <2>4. QED
    BY <1>1, <1>3, <2>2, <2>3 DEF TypeOK, CountInv
<1>12. NoOrphan'
  <2>1. \A u \in Threads : arg[u] # None => arg'[u] = arg[u]
    BY <1>1, <1>3 DEF TypeOK
  <2>2. \A p \in Objects \ {o} : usage'[p] = usage[p]
    BY <1>1, <1>3 DEF TypeOK
  <2>3. pending[o] => usage'[o] > 0 \/ arg'[t] = o
    BY <1>1, <1>2, <1>3 DEF TypeOK
  <2> HIDE DEF last
  <2>4. QED
    BY <1>1, <1>3, <1>6, <2>1, <2>2, <2>3 DEF TypeOK, NoOrphan
<1>13. QED
  BY <1>7, <1>8, <1>9, <1>10, <1>11, <1>12

\* The freed peer has no user and no other deleter.
LEMMA FreeKeeps ==
    ASSUME IInv, NEW t \in Threads, Free(t)
    PROVE  IInv'
<1> USE PeerAssumption DEF IInv
<1>1. PICK o \in Objects : /\ o = arg[t] /\ pc[t] = "freeing"
                           /\ ~ InContainer(o) /\ usage[o] = 0
  BY DEF Free, PointerInv, Deleting
<1>2. /\ life' = [life EXCEPT ![o] = "freed"]
      /\ pc' = [pc EXCEPT ![t] = "idle"]
      /\ arg' = [arg EXCEPT ![t] = None]
      /\ UNCHANGED <<peers, mutex, id, usage, pending, at, dest, events>>
  BY <1>1 DEF Free, Goto
\* Nobody else knows the peer.
<1>3. \A h \in Helpers : at[h] # o
  BY <1>1, UsageCounts
<1>4. ASSUME NEW u \in Threads \ {t} PROVE arg[u] # o
  <2>1. CASE pc[u] \in {"idle", "stopped"}
    BY <2>1 DEF PointerInv
  <2>2. CASE pc[u] = "found"
    BY <1>1, <2>2 DEF PointerInv
  <2>3. CASE Deleting(u)
    BY <1>1, <2>3 DEF DeletersDiffer, Deleting
  <2>4. QED
    BY <2>1, <2>2, <2>3 DEF TypeOK, Deleting
<1>5. \A p \in Objects : InContainer(p)' = InContainer(p)
  BY <1>2 DEF InContainer
<1>6. TypeOK'
  BY <1>2 DEF TypeOK
<1>7. PointerInv' /\ DeletersDiffer'
  BY <1>1, <1>2, <1>4, <1>5 DEF TypeOK, PointerInv, DeletersDiffer, Deleting
<1>8. ContainerInv' /\ HelperInv' /\ UnbornInv'
  BY <1>1, <1>2, <1>3 DEF TypeOK, ContainerInv, HelperInv, UnbornInv, InContainer
<1>9. CountInv'
  BY <1>2, CountStays
<1>10. NoOrphan'
  <2>1. ASSUME NEW p \in Objects, life'[p] = "live" PROVE p # o /\ life[p] = "live"
    BY <1>1, <1>2, <2>1 DEF TypeOK
  <2>2. \A u \in Threads : arg[u] # o => arg'[u] = arg[u]
    BY <1>1, <1>2 DEF TypeOK
  <2>3. QED
    BY <1>2, <1>5, <2>1, <2>2 DEF NoOrphan
<1>11. QED
  BY <1>6, <1>7, <1>8, <1>9, <1>10

\* The thread that takes a peer out of the container is its only deleter.
LEMMA ErasePeerKeeps ==
    ASSUME IInv, NEW t \in Threads, NEW i \in Ids, ErasePeer(t, i)
    PROVE  IInv'
<1> USE PeerAssumption DEF IInv, ErasePeer, Goto
<1>1. PICK o \in Objects : o = peers[i] /\ life[o] = "live" /\ ~ pending[o]
  BY DEF TypeOK, ContainerInv
<1>2. ~ InContainer(o)' /\ \A p \in Objects \ {o} : InContainer(p)' = InContainer(p)
  BY <1>1 DEF TypeOK, ContainerInv, InContainer
<1>3. \A u \in Threads : Deleting(u) => arg[u] # o
  BY <1>1 DEF PointerInv, InContainer
<1>4. TypeOK'
  BY <1>1 DEF TypeOK
<1>5. PointerInv' /\ DeletersDiffer'
  BY <1>1, <1>2, <1>3 DEF TypeOK, PointerInv, DeletersDiffer, Deleting
<1>6. ContainerInv' /\ HelperInv' /\ UnbornInv'
  BY DEF TypeOK, ContainerInv, HelperInv, UnbornInv
<1>7. CountInv'
  BY CountStays
<1>8. NoOrphan'
  BY <1>1, <1>2 DEF TypeOK, PointerInv, NoOrphan
<1>9. QED
  BY <1>4, <1>5, <1>6, <1>7, <1>8

\* The event is put between two steps of the deleter; no peer changes.
LEMMA AnnounceRemovalKeeps ==
    ASSUME IInv, NEW t \in Threads, AnnounceRemoval(t)
    PROVE  IInv'
<1> USE PeerAssumption DEF IInv, AnnounceRemoval, Goto
<1>1. arg[t] \in Objects /\ arg' = arg
  BY DEF TypeOK, PointerInv
<1>2. TypeOK'
  BY <1>1 DEF TypeOK
<1>3. PointerInv' /\ DeletersDiffer'
  BY <1>1 DEF TypeOK, PointerInv, DeletersDiffer, Deleting, InContainer
<1>4. ContainerInv' /\ HelperInv' /\ UnbornInv'
  BY DEF ContainerInv, HelperInv, UnbornInv
<1>5. CountInv'
  BY CountStays
<1>6. NoOrphan'
  BY <1>1 DEF NoOrphan, InContainer
<1>7. QED
  BY <1>2, <1>3, <1>4, <1>5, <1>6

\* The deleter marks the peer, or frees it when nobody uses it.
LEMMA DropKeeps ==
    ASSUME IInv, NEW t \in Threads, Drop(t)
    PROVE  IInv'
<1> USE PeerAssumption DEF IInv
<1>1. PICK o \in Objects : /\ o = arg[t] /\ pc[t] = "announced"
                           /\ life[o] = "live" /\ ~ InContainer(o)
  BY DEF Drop, PointerInv, Deleting
<1>2. usage[o] \in Nat
  BY <1>1, UsageCounts
<1>3. /\ pending' = [pending EXCEPT ![o] = TRUE]
      /\ usage[o] = 0 => /\ pc' = [pc EXCEPT ![t] = "freeing"]
                         /\ arg' = arg
      /\ usage[o] # 0 => /\ pc' = [pc EXCEPT ![t] = "idle"]
                         /\ arg' = [arg EXCEPT ![t] = None]
      /\ UNCHANGED <<peers, mutex, life, id, usage, at, dest, events>>
  BY <1>1 DEF Drop, Goto, TypeOK
<1>4. \A u \in Threads \ {t} : Deleting(u) => arg[u] # o
  BY <1>1 DEF DeletersDiffer, Deleting
<1>5. \A p \in Objects : InContainer(p)' = InContainer(p)
  BY <1>3 DEF InContainer
<1>6. TypeOK'
  <2>1. pc' \in [Threads -> {"idle", "found", "erased", "announced", "freeing", "stopped"}]
    BY <1>3 DEF TypeOK
  <2>2. arg' \in [Threads -> Objects \cup {None}]
    BY <1>3 DEF TypeOK
  <2>3. QED
    BY <1>3, <2>1, <2>2 DEF TypeOK
<1>7. PointerInv' /\ DeletersDiffer'
  <2>1. CASE usage[o] = 0
    BY <1>1, <1>3, <1>4, <1>5, <2>1 DEF TypeOK, PointerInv, DeletersDiffer, Deleting
  <2>2. CASE usage[o] # 0
    <3>1. pc'[t] = "idle" /\ arg'[t] = None
      BY <1>3, <2>2 DEF TypeOK
    <3>2. \A u \in Threads \ {t} : pc'[u] = pc[u] /\ arg'[u] = arg[u]
      BY <1>3, <2>2 DEF TypeOK
    <3>3. \A p \in Objects \ {o} : pending'[p] = pending[p]
      BY <1>3 DEF TypeOK
    <3>4. DeletersDiffer'
      BY <3>1, <3>2 DEF DeletersDiffer, Deleting
    <3>5. PointerInv'
      BY <1>3, <1>4, <1>5, <3>1, <3>2, <3>3 DEF PointerInv, Deleting
    <3>6. QED
      BY <3>4, <3>5
  <2>3. QED
    BY <2>1, <2>2
<1>8. ContainerInv' /\ HelperInv' /\ UnbornInv'
  BY <1>1, <1>3 DEF TypeOK, ContainerInv, HelperInv, UnbornInv, InContainer
<1>9. CountInv'
  BY <1>3, CountStays
<1>10. NoOrphan'
  <2>1. usage[o] = 0 => arg'[t] = o
    BY <1>1, <1>3
  <2>2. usage[o] # 0 => pending'[o] /\ usage'[o] > 0
    BY <1>1, <1>2, <1>3 DEF TypeOK
  <2>3. \A u \in Threads : arg[u] # o => arg'[u] = arg[u]
    BY <1>1, <1>3 DEF TypeOK
  <2>4. \A p \in Objects \ {o} : pending'[p] = pending[p]
    BY <1>3 DEF TypeOK
  <2>5. QED
    BY <1>3, <1>5, <2>1, <2>2, <2>3, <2>4 DEF NoOrphan
<1>11. QED
  BY <1>6, <1>7, <1>8, <1>9, <1>10

\* A thread leaves only when it holds no pointer.
LEMMA ThreadExitKeeps ==
    ASSUME IInv, NEW t \in Threads, ThreadExit(t)
    PROVE  IInv'
<1> USE PeerAssumption DEF IInv, ThreadExit, Goto
<1>1. arg' = arg
  BY DEF TypeOK, PointerInv
<1>2. TypeOK'
  BY <1>1 DEF TypeOK
<1>3. PointerInv' /\ DeletersDiffer'
  BY <1>1 DEF TypeOK, PointerInv, DeletersDiffer, Deleting, InContainer
<1>4. ContainerInv' /\ HelperInv' /\ UnbornInv'
  BY DEF ContainerInv, HelperInv, UnbornInv
<1>5. CountInv'
  BY CountStays
<1>6. NoOrphan'
  BY <1>1 DEF NoOrphan, InContainer
<1>7. QED
  BY <1>2, <1>3, <1>4, <1>5, <1>6

\* All threads have ended: what is left in the container is freed.
LEMMA DestroyConnectionKeeps ==
    ASSUME IInv, DestroyConnection
    PROVE  IInv'
<1> USE PeerAssumption DEF IInv, DestroyConnection, Goto
\* All is quiet when the connection is destroyed.
<1>1. \A t \in Threads : pc[t] \in {"idle", "stopped"} /\ arg[t] = None
  BY DEF PointerInv
<1>2. \A h \in Helpers : at[h] = None
  BY DEF PointerInv
<1>3. arg' = arg /\ \A p \in Objects : ~ InContainer(p)'
  BY <1>1 DEF TypeOK, InContainer
<1>4. TypeOK'
  BY <1>1 DEF TypeOK
<1>5. PointerInv' /\ DeletersDiffer'
  BY <1>1, <1>2, <1>3 DEF TypeOK, PointerInv, DeletersDiffer, Deleting
<1>6. ContainerInv' /\ HelperInv' /\ UnbornInv'
  BY <1>2 DEF TypeOK, ContainerInv, HelperInv, UnbornInv
<1>7. CountInv'
  BY CountStays
\* No peer is left over: one outside the container would have a helper.
<1>8. NoOrphan'
  <2>1. ASSUME NEW p \in Objects, life[p] = "live" PROVE InContainer(p)
    <3>1. \A t \in Threads : arg[t] # p
      BY <1>1
    <3>2. usage[p] = 0
      BY <1>2, UsageCounts
    <3>3. QED
      BY <2>1, <3>1, <3>2 DEF NoOrphan
  <2>2. \A p \in Objects : life'[p] # "live"
    BY <2>1 DEF TypeOK, InContainer
  <2>3. QED
    BY <2>2 DEF NoOrphan
<1>9. QED
  BY <1>4, <1>5, <1>6, <1>7, <1>8
-----------------------------------------------------------------------------
LEMMA StepKeeps == IInv /\ [Next]_vars => IInv'
<1> SUFFICES ASSUME IInv, [Next]_vars PROVE IInv'
  OBVIOUS
<1>1. CASE UNCHANGED vars
  BY <1>1 DEF vars, IInv, TypeOK, PointerInv, DeletersDiffer, Deleting, ContainerInv,
     HelperInv, UnbornInv, CountInv, Users, NoOrphan, InContainer
<1>2. CASE DestroyConnection
  BY <1>2, DestroyConnectionKeeps
<1>3. CASE \E t \in Threads :
              \/ \E i \in Ids, o \in Objects : CreatePeer(t, i, o)
              \/ \E i \in Ids, h \in Helpers : FindPeer(t, i, h)
              \/ \E h \in Helpers : DecUseCount(t, h)
              \/ \E i \in Ids : ErasePeer(t, i)
  BY <1>3, CreatePeerKeeps, FindPeerKeeps, DecUseCountKeeps, ErasePeerKeeps
<1>4. CASE \E t \in Threads : IncUseCount(t) \/ Free(t) \/ AnnounceRemoval(t) \/ Drop(t)
                              \/ ThreadExit(t)
  BY <1>4, IncUseCountKeeps, FreeKeeps, AnnounceRemovalKeeps, DropKeeps, ThreadExitKeeps
<1>5. QED
  BY <1>1, <1>2, <1>3, <1>4 DEF Next

\* The invariant holds in every reachable state.
THEOREM Invariance == Spec => []IInv
BY Initially, StepKeeps, PTL DEF Spec

\* Every state has the types that TypeOK names; in particular the pointer of
\* a removed event is never null.
THEOREM TypeCorrect == Spec => []TypeOK
<1>1. IInv => TypeOK
  BY DEF IInv
<1>2. QED
  BY <1>1, Invariance, PTL

\* No pointer to a peer, in m_peers, in a PeerHelper or between two critical
\* sections of getPeerNoEx and deletePeer, outlives the peer.
THEOREM PointersAreSafe == Spec => []NoDanglingPointer
<1>1. IInv => NoDanglingPointer
  BY DEF IInv, TypeOK, PointerInv, ContainerInv, HelperInv, NoDanglingPointer
<1>2. QED
  BY <1>1, Invariance, PTL

\* Drop, the last DecUseCount and ~Connection never free a peer twice.
THEOREM FreesOnce == Spec => []FreedByOne
<1>1. IInv => FreedByOne
  BY DEF IInv, DeletersDiffer, Deleting, FreedByOne
<1>2. QED
  BY <1>1, Invariance, PTL

\* m_usage counts the helpers, and is zero when ~Peer looks at it.
THEOREM UsageCorrect == Spec => []UsageIsExact
<1>1. ASSUME IInv PROVE UsageIsExact
  <2>1. \A o \in Objects : usage[o] = Cardinality({h \in Helpers : at[h] = o})
    BY <1>1 DEF IInv, CountInv, Users
  <2>2. ASSUME NEW o \in Objects, life[o] = "freed" PROVE usage[o] = 0
    BY <1>1, <2>2, UsageCounts, PeerAssumption DEF IInv, HelperInv
  <2>3. QED
    BY <2>1, <2>2 DEF UsageIsExact
<1>2. QED
  BY <1>1, Invariance, PTL

\* A peer out of the container always has somebody who will free it.
THEOREM NothingLeaks == Spec => []NoOrphan
<1>1. IInv => NoOrphan
  BY DEF IInv
<1>2. QED
  BY <1>1, Invariance, PTL

\* A peer found in m_peers is never marked for deletion.
THEOREM FoundIsUsable == Spec => []ContainerIsUsable
<1>1. IInv => ContainerIsUsable
  BY DEF IInv, ContainerInv, ContainerIsUsable
<1>2. QED
  BY <1>1, Invariance, PTL
-----------------------------------------------------------------------------
(***************************************************************************)
(* The events.  A peer with any event was born, one with a removed event   *)
(* is out of the container and past the step that announces it, and one    *)
(* that was born has its added event.                                      *)
(***************************************************************************)
EventInv ==
    /\ \A k \in DOMAIN events :
        /\ life[events[k].peer] # "unborn"
        /\ events[k].kind = "removed" =>
            /\ ~ InContainer(events[k].peer)
            /\ \A t \in Threads : pc[t] = "erased" => arg[t] # events[k].peer
    /\ \A o \in Objects : life[o] # "unborn" =>
            \E k \in DOMAIN events : events[k] = [kind |-> "added", peer |-> o]
    /\ EventsArePaired

\* Events are records of a kind and a peer.
LEMMA EventTypes ==
    ASSUME TypeOK
    PROVE  \A k \in DOMAIN events : events[k].peer \in Objects
<1> DEFINE Event == [kind : {"added", "removed"}, peer : Objects]
<1>1. events \in Seq(Event)
  BY DEF TypeOK
<1>2. \A e \in Event : e.peer \in Objects
  OBVIOUS
<1> HIDE DEF Event
<1>3. \A k \in DOMAIN events : events[k] \in Event
  BY <1>1
<1>4. QED
  BY <1>2, <1>3

\* A step that puts no event and moves no deleter keeps the events' invariant.
LEMMA QuietStep ==
    ASSUME TypeOK, EventInv, events' = events,
           \A o \in Objects : life'[o] = "unborn" <=> life[o] = "unborn",
           \A o \in Objects : InContainer(o)' => InContainer(o),
           \A t \in Threads : pc'[t] = "erased" => pc[t] = "erased" /\ arg'[t] = arg[t]
    PROVE  EventInv'
<1>1. \A k \in DOMAIN events : events[k].peer \in Objects
  BY EventTypes
<1>2. EventsArePaired'
  BY DEF EventInv, EventsArePaired
<1>3. QED
  BY <1>1, <1>2 DEF EventInv

\* A new peer is announced in the section that puts it into the container.
LEMMA CreateKeepsEvents ==
    ASSUME IInv, EventInv,
           NEW t \in Threads, NEW i \in Ids, NEW o \in Objects, CreatePeer(t, i, o)
    PROVE  EventInv'
<1> USE PeerAssumption DEF IInv, CreatePeer
<1> DEFINE e == [kind |-> "added", peer |-> o]
<1>1. /\ events' = Append(events, e) /\ Len(events) \in Nat
      /\ DOMAIN events = 1 .. Len(events)
      /\ DOMAIN events' = 1 .. Len(events) + 1
      /\ \A k \in DOMAIN events : events'[k] = events[k]
      /\ events'[Len(events) + 1] = e
  BY DEF TypeOK
<1>2. \A k \in DOMAIN events : events[k].peer \in Objects \ {o}
  BY EventTypes DEF EventInv
<1>3. \A p \in Objects \ {o} : InContainer(p)' = InContainer(p) /\ life'[p] = life[p]
  BY DEF TypeOK, InContainer
<1>4. life'[o] = "live" /\ pc' = pc /\ arg' = arg
  BY DEF TypeOK
<1>5. ASSUME NEW k \in DOMAIN events'
      PROVE  /\ life'[events'[k].peer] # "unborn"
             /\ events'[k].kind = "removed" =>
                    /\ ~ InContainer(events[k].peer)'
                    /\ \A u \in Threads : pc'[u] = "erased" => arg'[u] # events'[k].peer
  BY <1>1, <1>2, <1>3, <1>4 DEF EventInv
<1>6. ASSUME NEW p \in Objects, life'[p] # "unborn"
      PROVE  \E k \in DOMAIN events' : events'[k] = [kind |-> "added", peer |-> p]
  <2>1. CASE p = o
    BY <1>1, <2>1
  <2>2. CASE p # o
    <3>1. PICK k \in DOMAIN events : events[k] = [kind |-> "added", peer |-> p]
      BY <1>3, <1>6, <2>2 DEF EventInv
    <3>2. k \in DOMAIN events' /\ events'[k] = events[k]
      BY <1>1
    <3>3. QED
      BY <3>1, <3>2
  <2>3. QED
    BY <2>1, <2>2
<1>7. EventsArePaired'
  BY <1>1, <1>2 DEF EventInv, EventsArePaired
<1>8. QED
  BY <1>1, <1>2, <1>5, <1>6, <1>7 DEF EventInv

\* The removal is announced by the only deleter, once, after the creation.
LEMMA AnnounceKeepsEvents ==
    ASSUME IInv, EventInv, NEW t \in Threads, AnnounceRemoval(t)
    PROVE  EventInv'
<1> USE PeerAssumption DEF IInv
<1>1. PICK o \in Objects : o = arg[t] /\ pc[t] = "erased" /\ life[o] = "live" /\ ~ InContainer(o)
  BY DEF AnnounceRemoval, PointerInv, Deleting
<1> DEFINE e == [kind |-> "removed", peer |-> o]
<1>2. /\ events' = Append(events, e) /\ Len(events) \in Nat
      /\ DOMAIN events = 1 .. Len(events)
      /\ DOMAIN events' = 1 .. Len(events) + 1
      /\ \A k \in DOMAIN events : events'[k] = events[k]
      /\ events'[Len(events) + 1] = e
  BY <1>1 DEF AnnounceRemoval, TypeOK
<1>3. \A k \in DOMAIN events : events[k] # e
  BY <1>1 DEF EventInv
<1>4. PICK a \in DOMAIN events : events[a] = [kind |-> "added", peer |-> o]
  BY <1>1 DEF EventInv
<1>5. /\ life' = life /\ \A p \in Objects : InContainer(p)' = InContainer(p)
      /\ pc'[t] # "erased"
      /\ \A u \in Threads \ {t} : pc'[u] = pc[u] /\ arg'[u] = arg[u]
  BY DEF AnnounceRemoval, Goto, TypeOK, InContainer
<1>6. \A u \in Threads : pc'[u] = "erased" => pc[u] = "erased" /\ arg'[u] = arg[u] /\ arg[u] # o
  BY <1>1, <1>5 DEF DeletersDiffer, Deleting
<1>7. \A k \in DOMAIN events : events[k].peer \in Objects
  BY EventTypes
<1>8. EventsArePaired'
  <2>1. \A j, k \in DOMAIN events' : events'[j] = events'[k] => j = k
    BY <1>2, <1>3 DEF EventInv, EventsArePaired
  <2>2. ASSUME NEW k \in DOMAIN events', events'[k].kind = "removed"
        PROVE  \E j \in 1 .. k : events'[j] = [kind |-> "added", peer |-> events'[k].peer]
    <3>1. CASE k \in DOMAIN events
      BY <1>2, <2>2, <3>1 DEF EventInv, EventsArePaired
    <3>2. CASE k = Len(events) + 1
      BY <1>2, <1>4, <3>2
    <3>3. QED
      BY <1>2, <3>1, <3>2
  <2>3. QED
    BY <2>1, <2>2 DEF EventsArePaired
<1>9. ASSUME NEW p \in Objects, life'[p] # "unborn"
      PROVE  \E k \in DOMAIN events' : events'[k] = [kind |-> "added", peer |-> p]
  <2>1. PICK k \in DOMAIN events : events[k] = [kind |-> "added", peer |-> p]
    BY <1>5, <1>9 DEF EventInv
  <2>2. k \in DOMAIN events' /\ events'[k] = events[k]
    BY <1>2
  <2>3. QED
    BY <2>1, <2>2
<1>10. ASSUME NEW k \in DOMAIN events'
       PROVE  /\ life'[events'[k].peer] # "unborn"
              /\ events'[k].kind = "removed" =>
                    /\ ~ (\E i \in Ids : peers'[i] = events'[k].peer)
                    /\ \A u \in Threads : pc'[u] = "erased" => arg'[u] # events'[k].peer
  <2>1. CASE k \in DOMAIN events
    BY <1>2, <1>5, <1>6, <1>7, <2>1 DEF EventInv, InContainer, AnnounceRemoval
  <2>2. CASE k = Len(events) + 1
    BY <1>1, <1>2, <1>5, <1>6, <2>2 DEF InContainer, AnnounceRemoval
  <2>3. QED
    BY <1>2, <2>1, <2>2
<1>11. QED
  BY <1>8, <1>9, <1>10 DEF EventInv, InContainer

\* Every step keeps the events' invariant.
LEMMA StepKeepsEvents ==
    ASSUME IInv, EventInv, [Next]_vars
    PROVE  EventInv'
<1> USE PeerAssumption DEF IInv
<1>1. ASSUME NEW t \in Threads, NEW i \in Ids, NEW o \in Objects, CreatePeer(t, i, o)
      PROVE  EventInv'
  BY <1>1, CreateKeepsEvents
<1>2. ASSUME NEW t \in Threads, AnnounceRemoval(t)
      PROVE  EventInv'
  BY <1>2, AnnounceKeepsEvents
<1>3. ASSUME NEW t \in Threads, NEW i \in Ids, ErasePeer(t, i)
      PROVE  EventInv'
  <2>1. PICK o \in Objects : o = peers[i] /\ InContainer(o)
    BY <1>3 DEF ErasePeer, TypeOK, InContainer
  <2>2. \A p \in Objects : InContainer(p)' => InContainer(p)
    BY <1>3 DEF ErasePeer, TypeOK, InContainer
  <2>3. \A u \in Threads : pc'[u] = "erased" =>
            arg'[u] = o \/ (pc[u] = "erased" /\ arg'[u] = arg[u])
    BY <1>3, <2>1 DEF ErasePeer, Goto, TypeOK
  <2>4. \A k \in DOMAIN events : events[k].peer \in Objects
    BY EventTypes
  <2>5. events' = events /\ life' = life
    BY <1>3 DEF ErasePeer
  <2>6. QED
    BY <2>1, <2>2, <2>3, <2>4, <2>5 DEF EventInv, EventsArePaired
<1>4. ASSUME NEW t \in Threads,
             \/ \E i \in Ids, h \in Helpers : FindPeer(t, i, h)
             \/ IncUseCount(t)
             \/ \E h \in Helpers : DecUseCount(t, h)
             \/ Drop(t)
             \/ ThreadExit(t)
      PROVE  EventInv'
  <2>1. events' = events /\ life' = life /\ peers' = peers
    BY <1>4 DEF FindPeer, IncUseCount, DecUseCount, Drop, ThreadExit
  <2>2. \A u \in Threads : pc'[u] = "erased" => pc[u] = "erased" /\ arg'[u] = arg[u]
    BY <1>4 DEF FindPeer, IncUseCount, DecUseCount, Drop, ThreadExit, Goto, TypeOK
  <2>3. QED
    BY <2>1, <2>2, QuietStep DEF InContainer
<1>5. ASSUME NEW t \in Threads, Free(t)
      PROVE  EventInv'
  <2>1. arg[t] \in Objects /\ life[arg[t]] = "live"
    BY <1>5 DEF Free, PointerInv
  <2>2. \A o \in Objects : life'[o] = "unborn" <=> life[o] = "unborn"
    BY <1>5, <2>1 DEF Free, TypeOK
  <2>3. \A u \in Threads : pc'[u] = "erased" => pc[u] = "erased" /\ arg'[u] = arg[u]
    BY <1>5 DEF Free, Goto, TypeOK
  <2>4. QED
    BY <1>5, <2>2, <2>3, QuietStep DEF Free, InContainer
<1>6. CASE DestroyConnection
  <2>1. \A o \in Objects : life'[o] = "unborn" <=> life[o] = "unborn"
    BY <1>6 DEF DestroyConnection, TypeOK, ContainerInv
  <2>2. \A u \in Threads : pc'[u] = "erased" => pc[u] = "erased" /\ arg'[u] = arg[u]
    BY <1>6 DEF DestroyConnection, Goto, TypeOK
  <2>3. \A o \in Objects : ~ InContainer(o)'
    BY <1>6 DEF DestroyConnection, InContainer
  <2>4. QED
    BY <1>6, <2>1, <2>2, <2>3, QuietStep DEF DestroyConnection
<1>7. CASE UNCHANGED vars
  BY <1>7, QuietStep DEF vars, InContainer
<1>8. QED
  BY <1>1, <1>2, <1>3, <1>4, <1>5, <1>6, <1>7 DEF Next

\* The application hears of every peer once when it comes and at most once
\* when it goes, whichever threads delete it.
THEOREM EventsCorrect == Spec => []EventsArePaired
<1>1. Init => EventInv
  BY DEF Init, EventInv, EventsArePaired
<1>2. EventInv => EventsArePaired
  BY DEF EventInv
<1>3. QED
  BY <1>1, <1>2, StepKeepsEvents, Invariance, PTL DEF Spec
=============================================================================
