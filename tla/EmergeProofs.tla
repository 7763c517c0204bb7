---------------------------- MODULE EmergeProofs ------------------------------
(***************************************************************************)
(* Proofs about Emerge, for any number of threads, any finite set of       *)
(* blocks, any limits and any calls of emerge_area, errors and nested      *)
(* calls included.                                                         *)
(***************************************************************************)
EXTENDS Emerge, FiniteSetTheorems, SequenceTheorems, WellFoundedInduction, TLAPS

\* A position is asked for exactly when one queue has it, at one place.
TableInv ==
    /\ \A b \in Blocks : enqueued[b] # None <=> \E t \in Threads : Occurs(b, blockQueue[t])
    /\ \A t, u \in Threads : \A i \in DOMAIN blockQueue[t], j \in DOMAIN blockQueue[u] :
            blockQueue[t][i] = blockQueue[u][j] => t = u /\ i = j

\* Only the holder of m_env_mutex has requests to make, and only those of
\* emerge_area, which come from no peer, are forced.
RequestInv ==
    \A p \in Processes :
        /\ want[p] # <<>> => envMutex = p
        /\ \A i \in DOMAIN want[p] : want[p][i].force => want[p][i].peer = NoPeer

\* A thread that works on a block has it in its hand.
HandInv == \A t \in Threads : pc[t] \in {"get", "make", "report"} => hand[t].pos \in Blocks

\* What was generated once is never written over by something blank.
MemoryAhead ==
    \A b \in Blocks :
        disk[b] = "generated" => memory[b] \in {"absent", "generated"}

Wanted(c, b) == \E p \in Processes : \E i \in DOMAIN want[p] :
                    want[p][i].call = c /\ want[p][i].pos = b
Asked(c, b)   == enqueued[b] # None /\ Occurs(c, enqueued[b].calls)
Held(c, b, t) == hand[t].pos = b /\ Occurs(c, hand[t].calls)

\* The positions whose callback for the call c is still to come.
Open(c) == {b \in Blocks : \/ Wanted(c, b) \/ Asked(c, b)
                           \/ \E t \in Threads : Held(c, b, t)}

\* The callback of c for a position is in one place.
OnePlace(c) ==
    \A b \in Blocks :
        /\ ~ (Wanted(c, b) /\ Asked(c, b))
        /\ \A t \in Threads : Held(c, b, t) =>
            /\ ~ Wanted(c, b) /\ ~ Asked(c, b)
            /\ \A u \in Threads : Held(c, b, u) => t = u

Counted(c) == /\ c \notin begun => Open(c) = {}
              /\ Cardinality(Open(c)) <= refcount[c]

\* No list has a callback twice.
ListsInv ==
    /\ \A p \in Processes : \A i, j \in DOMAIN want[p] :
            want[p][i].pos = want[p][j].pos /\ want[p][i].call # None => i = j
    /\ \A b \in Blocks : enqueued[b] # None => IsInjective(enqueued[b].calls)
    /\ \A t \in Threads : /\ IsInjective(hand[t].calls)
                          /\ hand[t].calls # <<>> => hand[t].pos \in Blocks

CallInv == ListsInv /\ \A c \in Calls : OnePlace(c) /\ Counted(c)

IInv == /\ TypeOK /\ TableInv /\ PeerCountIsExact /\ RequestInv /\ HandInv
        /\ MemoryAhead /\ CallInv
-----------------------------------------------------------------------------
(***************************************************************************)
(* Sets of naturals, sequences, and getOptimalThread.                      *)
(***************************************************************************)

LEMMA NatIsWellFounded ==
    \E R : IsWellFoundedOn(R, Nat) /\ \A m, n \in Nat : m < n => <<m, n>> \in R
BY NatLessThanWellFounded DEF OpToRel

LEMMA LeastExists ==
    ASSUME NEW N, N \subseteq Nat, N # {}
    PROVE  \E m \in N : \A n \in N : m <= n
<1>1. PICK R : IsWellFoundedOn(R, Nat) /\ \A m, n \in Nat : m < n => <<m, n>> \in R
    BY NatIsWellFounded
<1>2. IsWellFoundedOn(R, Nat)
    BY <1>1
<1>3. \E m \in N : \A n \in N : ~ (<<n, m>> \in R)
    BY <1>2, WFMin
<1>4. PICK m \in N : \A n \in N : ~ (<<n, m>> \in R)
    BY <1>3
<1>5. m \in Nat /\ \A n \in N : n \in Nat /\ ~ (n < m)
    BY <1>1, <1>4
<1> QED BY <1>5

LEMMA ConstantFacts ==
    /\ Threads \subseteq Nat /\ 1 \in Threads /\ IsFiniteSet(Threads)
    /\ Server \in Processes /\ Server \notin Threads
    /\ Threads \subseteq Processes /\ Processes = Threads \cup {Server}
    /\ None \notin Processes /\ None \notin Blocks /\ None \notin Calls /\ None \notin Entries
    /\ NoPeer \notin Peers /\ IsFiniteSet(Blocks)
<1>1. NumThreads \in Nat \ {0} /\ None \notin Processes \cup Blocks \cup Calls \cup Entries
    BY EmergeAssumption
<1>2. IsFiniteSet(Threads)
    BY <1>1, FS_Interval DEF Threads
<1> QED BY <1>1, <1>2, EmergeAssumption DEF Threads, Processes, Server

\* There is a first among the threads with the shortest queue.
LEMMA OptimalIsThread == ASSUME TypeOK PROVE OptimalThread \in Threads
<1> DEFINE lens == {Len(blockQueue[t]) : t \in Threads}
           short(n) == {t \in Threads : Len(blockQueue[t]) = n}
<1>1. Threads \subseteq Nat /\ Threads # {}
    BY ConstantFacts
<1>2. \A t \in Threads : Len(blockQueue[t]) \in Nat
    BY DEF TypeOK
<1>3. PICK n \in lens : \A m \in lens : n <= m
  <2>1. lens \subseteq Nat /\ lens # {}
    BY <1>1, <1>2
  <2> HIDE DEF lens
  <2> QED BY <2>1, LeastExists
<1>4. PICK t \in short(n) : \A u \in short(n) : t <= u
  <2>1. short(n) \subseteq Nat /\ short(n) # {}
    BY <1>1, <1>3
  <2> HIDE DEF short
  <2> QED BY <2>1, LeastExists
<1>5. \A u \in Threads : \/ Len(blockQueue[t]) < Len(blockQueue[u])
                         \/ Len(blockQueue[t]) = Len(blockQueue[u]) /\ t <= u
    BY <1>2, <1>3, <1>4
<1> QED BY <1>4, <1>5 DEF OptimalThread

LEMMA TailOf ==
    ASSUME NEW S, NEW s \in Seq(S), s # <<>>
    PROVE  /\ Head(s) = s[1] /\ s[1] \in S /\ 1 \in DOMAIN s
           /\ Tail(s) \in Seq(S)
           /\ \A i \in DOMAIN Tail(s) : i + 1 \in DOMAIN s /\ Tail(s)[i] = s[i + 1]
           /\ \A i \in DOMAIN s \ {1} : i - 1 \in DOMAIN Tail(s) /\ Tail(s)[i - 1] = s[i]
OBVIOUS

LEMMA AppendOf ==
    ASSUME NEW S, NEW s \in Seq(S), NEW e \in S
    PROVE  /\ Append(s, e) \in Seq(S)
           /\ Append(s, e)[Len(s) + 1] = e
           /\ DOMAIN Append(s, e) = DOMAIN s \cup {Len(s) + 1}
           /\ Len(s) + 1 \notin DOMAIN s
           /\ \A i \in DOMAIN s : Append(s, e)[i] = s[i]
OBVIOUS
-----------------------------------------------------------------------------
(***************************************************************************)
(* The types.                                                              *)
(***************************************************************************)

HandType == [pos : Blocks \cup {None}, gen : BOOLEAN, calls : Seq(Calls), action : Actions]

LEMMA IdleIsHand == Idle \in HandType
BY DEF Idle, HandType, Actions

LEMMA HandOf ==
    ASSUME TypeOK, NEW t \in Threads
    PROVE  /\ hand \in [Threads -> HandType] /\ hand[t] \in HandType
           /\ hand[t].pos \in Blocks \cup {None} /\ hand[t].calls \in Seq(Calls)
           /\ hand[t].gen \in BOOLEAN /\ hand[t].action \in Actions
BY DEF TypeOK, HandType

LEMMA PcOf ==
    ASSUME TypeOK, NEW p \in Processes
    PROVE  /\ pc \in [Processes -> {"run", "stop", "off", "init", "pop", "wait", "get",
                                    "make", "report", "exit", "cancel", "done"}]
BY DEF TypeOK

LEMMA CompletedTypes ==
    ASSUME TypeOK, NEW t \in Threads, NEW action \in Actions, Completed(t, action)
    PROVE  /\ hand' \in [Threads -> HandType]
           /\ pc' \in [Processes -> {"run", "stop", "off", "init", "pop", "wait", "get",
                                     "make", "report", "exit", "cancel", "done"}]
<1>1. t \in Processes
    BY ConstantFacts
<1>2. hand \in [Threads -> HandType]
    BY HandOf
<1>3. [hand[t] EXCEPT !.action = action] \in HandType
    BY HandOf DEF HandType
<1>4. hand' \in [Threads -> HandType]
    BY <1>2, <1>3, IdleIsHand DEF Completed
<1> QED BY <1>1, <1>4 DEF TypeOK, Completed, Goto

LEMMA EntryOf ==
    ASSUME TypeOK, NEW b \in Blocks, enqueued[b] # None
    PROVE  /\ enqueued[b] \in Entries /\ enqueued[b].peer \in Peers \cup {NoPeer}
           /\ enqueued[b].gen \in BOOLEAN /\ enqueued[b].calls \in Seq(Calls)
           /\ InHand(b) \in HandType
BY DEF TypeOK, Entries, InHand, HandType, Actions

LEMMA RequestOf ==
    ASSUME TypeOK, NEW p \in Processes, NEW i \in DOMAIN want[p]
    PROVE  /\ want[p] \in Seq(Requests) /\ want[p][i] \in Requests
           /\ want[p][i].pos \in Blocks /\ want[p][i].peer \in Peers \cup {NoPeer}
           /\ want[p][i].gen \in BOOLEAN /\ want[p][i].force \in BOOLEAN
           /\ want[p][i].call \in Calls \cup {None}
<1>1. want[p] \in Seq(Requests)
    BY DEF TypeOK
<1>2. want[p][i] \in Requests
    BY <1>1
<1> QED BY <1>1, <1>2 DEF Requests

\* A process takes the first of its requests.
LEMMA CallingTypes ==
    ASSUME TypeOK, NEW p \in Processes, NEW r, Calling(p, r)
    PROVE  /\ r \in Requests /\ r.pos \in Blocks /\ r.peer \in Peers \cup {NoPeer}
           /\ r.gen \in BOOLEAN /\ r.force \in BOOLEAN /\ r.call \in Calls \cup {None}
           /\ want' \in [Processes -> Seq(Requests)]
           /\ want[p] \in Seq(Requests) /\ want[p] # <<>>
           /\ want' = [want EXCEPT ![p] = Tail(want[p])]
           /\ 1 \in DOMAIN want[p] /\ r = want[p][1]
<1>1. want \in [Processes -> Seq(Requests)] /\ want[p] # <<>> /\ r = want[p][1]
    BY DEF TypeOK, Calling
<1>2. 1 \in DOMAIN want[p] /\ Tail(want[p]) \in Seq(Requests)
    BY <1>1, TailOf
<1>3. want' = [want EXCEPT ![p] = Tail(want[p])]
    BY DEF Calling
<1> QED BY <1>1, <1>2, <1>3, RequestOf

LEMMA CallsOfType ==
    ASSUME NEW r, r.call \in Calls \cup {None}
    PROVE  CallsOf(r) \in Seq(Calls)
BY ConstantFacts DEF CallsOf

\* What emerge_area is about to ask for.
LEMMA AreaRequests ==
    ASSUME NEW c \in Calls
    PROVE  /\ Len(Area[c]) \in Nat
           /\ [i \in DOMAIN Area[c] |->
                  [pos |-> Area[c][i], peer |-> NoPeer, gen |-> TRUE,
                   force |-> TRUE, call |-> c]] \in Seq(Requests)
<1>1. Area[c] \in Seq(Blocks)
    BY EmergeAssumption
<1>2. Len(Area[c]) \in Nat /\ DOMAIN Area[c] = 1 .. Len(Area[c])
    BY <1>1
<1>3. \A i \in DOMAIN Area[c] :
        [pos |-> Area[c][i], peer |-> NoPeer, gen |-> TRUE, force |-> TRUE, call |-> c]
            \in Requests
    BY <1>1, <1>2 DEF Requests
<1> QED BY <1>2, <1>3

LEMMA EmergeAreaTypes ==
    ASSUME TypeOK, NEW p \in Processes, NEW c \in Calls, EmergeArea(p, c)
    PROVE  /\ want' \in [Processes -> Seq(Requests)]
           /\ begun' \subseteq Calls /\ envMutex' \in Processes \cup {None}
           /\ toSignal' \in [Processes -> Threads \cup {None}]
BY AreaRequests DEF TypeOK, EmergeArea

LEMMA RunScriptTypes ==
    ASSUME TypeOK, NEW t \in Threads, RunScript(t)
    PROVE  /\ want' \in [Processes -> Seq(Requests)] /\ closing' \in BOOLEAN
           /\ begun' \subseteq Calls /\ envMutex' \in Processes \cup {None}
           /\ toSignal' \in [Processes -> Threads \cup {None}]
<1>1. closing' \in BOOLEAN
    BY EmergeAssumption DEF TypeOK, RunScript
<1>2. CASE UNCHANGED <<envMutex, want, toSignal, begun>>
    BY <1>1, <1>2 DEF TypeOK
<1>3. CASE \E c \in Nested : EmergeArea(t, c)
  <2>1. PICK c \in Calls : EmergeArea(t, c)
    BY <1>3, EmergeAssumption
  <2> QED BY <1>1, <2>1, EmergeAreaTypes, ConstantFacts
<1> QED BY <1>2, <1>3 DEF RunScript

LEMMA DequeueTypes ==
    ASSUME IInv, NEW t \in Threads, Dequeue(t)
    PROVE  /\ blockQueue[t] \in Seq(Blocks) /\ blockQueue[t] # <<>>
           /\ 1 \in DOMAIN blockQueue[t] /\ Head(blockQueue[t]) = blockQueue[t][1]
           /\ Head(blockQueue[t]) \in Blocks
           /\ enqueued[Head(blockQueue[t])] # None
           /\ blockQueue' \in [Threads -> Seq(Blocks)]
           /\ enqueued' \in [Blocks -> Entries \cup {None}]
           /\ peerCount' \in [Peers \cup {NoPeer} -> Nat]
<1> DEFINE b == Head(blockQueue[t])
<1>1. blockQueue[t] \in Seq(Blocks) /\ blockQueue[t] # <<>>
    BY DEF IInv, TypeOK, Dequeue
<1>2. /\ 1 \in DOMAIN blockQueue[t] /\ b = blockQueue[t][1] /\ b \in Blocks
      /\ Tail(blockQueue[t]) \in Seq(Blocks)
    BY <1>1, TailOf
<1>3. enqueued[b] # None
    BY <1>2 DEF IInv, TableInv, Occurs
<1>4. blockQueue' \in [Threads -> Seq(Blocks)] /\ enqueued' \in [Blocks -> Entries \cup {None}]
    BY <1>2 DEF IInv, TypeOK, Dequeue
<1>5. peerCount' \in [Peers \cup {NoPeer} -> Nat]
  <2> DEFINE p == enqueued[b].peer
             mine == {d \in Blocks : enqueued[d] # None /\ enqueued[d].peer = p}
  <2>1. p \in Peers \cup {NoPeer}
    BY <1>2, <1>3, EntryOf DEF IInv
  <2>2. peerCount[p] = Cardinality(mine)
    BY <2>1 DEF IInv, PeerCountIsExact
  <2>3. IsFiniteSet(mine) /\ b \in mine
    BY <1>2, <1>3, ConstantFacts, FS_Subset
  <2>4. Cardinality(mine) \in Nat /\ Cardinality(mine) # 0
    BY <2>3, FS_CardinalityType, FS_EmptySet
  <2>5. peerCount[p] - 1 \in Nat
    BY <2>2, <2>4
  <2> QED BY <2>1, <2>5 DEF IInv, TypeOK, Dequeue
<1> QED BY <1>1, <1>2, <1>3, <1>4, <1>5

\* A callback is counted as long as it has not run.
LEMMA CallbackCounted ==
    ASSUME IInv, NEW t \in Threads, hand[t].calls # <<>>
    PROVE  /\ Head(hand[t].calls) \in Calls
           /\ hand[t].pos \in Open(Head(hand[t].calls))
           /\ IsFiniteSet(Open(Head(hand[t].calls)))
           /\ refcount[Head(hand[t].calls)] \in Nat \ {0}
<1> DEFINE c == Head(hand[t].calls)
<1>1. hand[t].calls \in Seq(Calls) /\ hand[t].pos \in Blocks
    BY HandOf DEF IInv, CallInv, ListsInv
<1>2. c \in Calls /\ 1 \in DOMAIN hand[t].calls /\ c = hand[t].calls[1]
    BY <1>1, TailOf
<1>3. hand[t].pos \in Open(c)
    BY <1>1, <1>2 DEF Open, Held, Occurs
<1>4. IsFiniteSet(Open(c))
    BY ConstantFacts, FS_Subset DEF Open
<1>5. Cardinality(Open(c)) \in Nat /\ Cardinality(Open(c)) # 0
    BY <1>3, <1>4, FS_CardinalityType, FS_EmptySet
<1>6. refcount[c] \in Nat /\ Cardinality(Open(c)) <= refcount[c]
    BY <1>2 DEF IInv, CallInv, Counted, TypeOK
<1> QED BY <1>2, <1>3, <1>4, <1>5, <1>6

LEMMA CallbackTypes ==
    ASSUME IInv, NEW t \in Threads, Callback(t)
    PROVE  /\ hand[t].calls \in Seq(Calls) /\ hand[t].calls # <<>>
           /\ Tail(hand[t].calls) \in Seq(Calls)
           /\ RunScript(t)
           /\ refcount' \in [Calls -> Nat]
<1>1. hand[t].calls \in Seq(Calls) /\ hand[t].calls # <<>> /\ RunScript(t)
    BY HandOf DEF IInv, Callback
<1>2. Tail(hand[t].calls) \in Seq(Calls)
    BY <1>1, TailOf
<1>3. refcount[Head(hand[t].calls)] - 1 \in Nat
    BY <1>1, CallbackCounted
<1>4. \A c \in Calls : NumBlocks(c) \in Nat
    BY AreaRequests DEF NumBlocks
<1> QED BY <1>1, <1>2, <1>3, <1>4 DEF IInv, TypeOK, Callback

Labels == {"run", "stop", "off", "init", "pop", "wait", "get", "make", "report", "exit",
           "cancel", "done"}

LEMMA TypeStep == ASSUME IInv, [Next]_vars PROVE TypeOK'
<1> USE ConstantFacts DEF queueVars, mapVars, callVars, serverVars
<1>0. TypeOK
    BY DEF IInv
<1>1. ASSUME UNCHANGED vars PROVE TypeOK'
    BY <1>0, <1>1 DEF vars, TypeOK
<1>2. ASSUME ServerStep PROVE TypeOK'
  <2>1. ASSUME StartThreads PROVE TypeOK'
    BY <1>0, <2>1 DEF StartThreads, TypeOK
  <2>2. ASSUME RequestShutdown PROVE TypeOK'
    BY <1>0, <2>2 DEF RequestShutdown, TypeOK
  <2>3. ASSUME BeginStop PROVE TypeOK'
    BY <1>0, <2>3 DEF BeginStop, Goto, TypeOK
  <2>4. ASSUME StopThread PROVE TypeOK'
    <3>1. asked + 1 \in Threads /\ asked' \in 0 .. NumThreads
      BY <1>0, <2>4, EmergeAssumption DEF StopThread, Threads, TypeOK
    <3>2. /\ stopping' \in [Threads -> BOOLEAN]
          /\ toSignal' \in [Processes -> Threads \cup {None}]
      BY <1>0, <2>4, <3>1 DEF StopThread, TypeOK
    <3> QED BY <1>0, <2>4, <3>1, <3>2 DEF StopThread, TypeOK
  <2>5. ASSUME JoinThreads PROVE TypeOK'
    BY <1>0, <2>5 DEF JoinThreads, Goto, TypeOK
  <2>6. ASSUME NEW c \in Calls, ServerEmergeArea(c) PROVE TypeOK'
    <3>1. NumBlocks(c) \in Nat
      BY AreaRequests DEF NumBlocks
    <3>2. /\ want' \in [Processes -> Seq(Requests)]
          /\ begun' \subseteq Calls /\ envMutex' \in Processes \cup {None}
          /\ toSignal' \in [Processes -> Threads \cup {None}]
      BY <1>0, <2>6, EmergeAreaTypes DEF ServerEmergeArea
    <3> QED BY <1>0, <2>6, <3>1, <3>2 DEF ServerEmergeArea, EnterEnv, TypeOK
  <2>7. ASSUME NEW b \in Blocks, NEW peer \in Peers \cup {NoPeer}, NEW gen \in BOOLEAN,
               Ask(b, peer, gen)
        PROVE  TypeOK'
    <3>1. [pos |-> b, peer |-> peer, gen |-> gen, force |-> FALSE, call |-> None] \in Requests
      BY DEF Requests
    <3>2. want' \in [Processes -> Seq(Requests)]
      BY <1>0, <2>7, <3>1 DEF Ask, TypeOK
    <3> QED BY <1>0, <2>7, <3>2 DEF Ask, EnterEnv, TypeOK
  <2>8. ASSUME NEW b \in Blocks, Unload(b) PROVE TypeOK'
    BY <1>0, <2>8 DEF Unload, EnterEnv, TypeOK, States
  <2> QED BY <1>2, <2>1, <2>2, <2>3, <2>4, <2>5, <2>6, <2>7, <2>8
          DEF ServerStep, AskForPeer, AskForServer
<1>3. ASSUME NEW t \in Threads, ThreadStep(t) PROVE TypeOK'
  <2>0. /\ hand \in [Threads -> HandType] /\ hand[t] \in HandType
        /\ Idle \in HandType /\ t \in Processes
    BY <1>0, HandOf, IdleIsHand
  <2>1. ASSUME InitScripting(t) PROVE TypeOK'
    BY <1>0, <2>1 DEF InitScripting, Goto, TypeOK
  <2>2. ASSUME PopBlock(t) PROVE TypeOK'
    <3>1. Dequeue(t) /\ InHand(Head(blockQueue[t])) \in HandType
      BY <1>0, <2>2, DequeueTypes, EntryOf DEF PopBlock
    <3>2. hand' \in [Threads -> HandType]
      BY <2>0, <2>2, <3>1 DEF PopBlock
    <3>3. pc' \in [Processes -> Labels]
      <4>1. pc' = pc \/ pc' = [pc EXCEPT ![t] = "get"]
        BY <2>2 DEF PopBlock, Goto
      <4> QED BY <1>0, <4>1 DEF TypeOK, Labels
    <3>4. /\ blockQueue' \in [Threads -> Seq(Blocks)]
          /\ enqueued' \in [Blocks -> Entries \cup {None}]
          /\ peerCount' \in [Peers \cup {NoPeer} -> Nat]
      BY <3>1, DequeueTypes
    <3>5. UNCHANGED <<notified, stopping, serverVars, queueMutex, envMutex, mapVars, callVars>>
      BY <2>2 DEF PopBlock
    <3> QED BY <1>0, <3>2, <3>3, <3>4, <3>5
            DEF TypeOK, HandType, Labels, serverVars, mapVars, callVars
  <2>3. ASSUME PopNothing(t) PROVE TypeOK'
    BY <1>0, <2>3 DEF PopNothing, Goto, TypeOK
  <2>4. ASSUME Wake(t) PROVE TypeOK'
    BY <1>0, <2>4 DEF Wake, Goto, TypeOK
  <2>5. ASSUME GenerationFails(t) PROVE TypeOK'
    <3>1. "ERRORED" \in Actions /\ Completed(t, "ERRORED")
      BY <2>5 DEF Actions, GenerationFails
    <3>2. hand' \in [Threads -> HandType] /\ pc' \in [Processes -> Labels]
      BY <1>0, <3>1, CompletedTypes DEF Labels
    <3> QED BY <1>0, <2>5, <3>2 DEF GenerationFails, TypeOK, HandType, Labels
  <2>6. ASSUME Callback(t) PROVE [hand[t] EXCEPT !.calls = Tail(@)] \in HandType
    BY <2>0, <2>6, CallbackTypes DEF HandType
  <2>7. ASSUME RunCallback(t) PROVE TypeOK'
    <3>1. Callback(t) /\ RunScript(t) /\ refcount' \in [Calls -> Nat]
      BY <2>7, CallbackTypes DEF RunCallback
    <3>2. hand' \in [Threads -> HandType]
      BY <2>0, <2>6, <2>7, <3>1 DEF RunCallback
    <3>3. pc' \in [Processes -> Labels]
      <4>1. pc' = pc \/ pc' = [pc EXCEPT ![t] = "pop"]
        BY <2>7 DEF RunCallback, Goto
      <4> QED BY <1>0, <4>1 DEF TypeOK, Labels
    <3>4. UNCHANGED <<queueVars, notified, stopping, active, asked, queueMutex, mapVars>>
      BY <2>7 DEF RunCallback
    <3>5. /\ want' \in [Processes -> Seq(Requests)] /\ closing' \in BOOLEAN
          /\ begun' \subseteq Calls /\ envMutex' \in Processes \cup {None}
          /\ toSignal' \in [Processes -> Threads \cup {None}]
      BY <1>0, <3>1, RunScriptTypes
    <3> QED BY <1>0, <3>1, <3>2, <3>3, <3>4, <3>5
            DEF TypeOK, HandType, Labels, queueVars, mapVars
  <2>8. ASSUME BeginCancel(t) PROVE TypeOK'
    BY <1>0, <2>8 DEF BeginCancel, Goto, TypeOK
  <2>9. ASSUME CancelNext(t) PROVE TypeOK'
    <3>1. Dequeue(t) /\ hand' \in [Threads -> HandType]
      BY <1>0, <2>0, <2>9, DequeueTypes, EntryOf DEF CancelNext
    <3> QED BY <1>0, <2>9, <3>1, DequeueTypes DEF CancelNext, TypeOK, HandType
  <2>10. ASSUME CancelCallback(t) PROVE TypeOK'
    <3>1. Callback(t) /\ RunScript(t) /\ refcount' \in [Calls -> Nat]
      BY <2>10, CallbackTypes DEF CancelCallback
    <3>2. hand' \in [Threads -> HandType]
      BY <2>0, <2>6, <2>10, <3>1 DEF CancelCallback
    <3> QED BY <1>0, <2>10, <3>1, <3>2, RunScriptTypes DEF CancelCallback, TypeOK, HandType
  <2>11. ASSUME EndCancel(t) PROVE TypeOK'
    <3>1. hand' \in [Threads -> HandType]
      BY <2>0, <2>11 DEF EndCancel
    <3> QED BY <1>0, <2>11, <3>1 DEF EndCancel, Goto, TypeOK, HandType
  <2>12. ASSUME NEW b \in Blocks, GetBlock(t, b) PROVE TypeOK'
    <3>1. PICK action \in Actions : Completed(t, action)
      BY <2>12 DEF GetBlock, Actions
    <3>2. hand' \in [Threads -> HandType] /\ pc' \in [Processes -> Labels]
      BY <1>0, <3>1, CompletedTypes DEF Labels
    <3> QED BY <1>0, <2>12, <3>2 DEF GetBlock, Getting, TypeOK, HandType, Labels, States
  <2>13. ASSUME NEW b \in Blocks, CancelBlock(t, b) PROVE TypeOK'
    <3>1. "CANCELLED" \in Actions /\ Completed(t, "CANCELLED")
      BY <2>13 DEF CancelBlock, Actions
    <3>2. hand' \in [Threads -> HandType] /\ pc' \in [Processes -> Labels]
      BY <1>0, <3>1, CompletedTypes DEF Labels
    <3>3. Loaded(b) \in States /\ ChunkOf[b] \in Chunks
      BY <1>0, EmergeAssumption DEF Loaded, TypeOK
    <3> QED BY <1>0, <2>13, <3>2, <3>3
            DEF CancelBlock, Getting, TypeOK, HandType, Labels
  <2>14. ASSUME NEW b \in Blocks, LoadFails(t, b), hand[t].pos \in Blocks PROVE TypeOK'
    <3>1. hand' \in [Threads -> HandType] /\ ChunkOf[hand[t].pos] \in Chunks
      BY <2>0, <2>14, EmergeAssumption DEF LoadFails
    <3> QED BY <1>0, <2>14, <3>1 DEF LoadFails, Getting, Goto, TypeOK, HandType
  <2>15. ASSUME NEW k \in Chunks, StartGeneration(t, k) PROVE TypeOK'
    <3>1. memory' \in [Blocks -> States]
      BY <1>0, <2>15 DEF StartGeneration, Loaded, TypeOK, States
    <3> QED BY <1>0, <2>15, <3>1 DEF StartGeneration, Getting, Goto, TypeOK
  <2>16. ASSUME NEW k \in Chunks, FinishGen(t, k) PROVE TypeOK'
    <3>1. PICK action \in Actions : Completed(t, action)
      BY <2>16 DEF FinishGen, Actions
    <3>2. hand' \in [Threads -> HandType] /\ pc' \in [Processes -> Labels]
      BY <1>0, <3>1, CompletedTypes DEF Labels
    <3>3. memory' \in [Blocks -> States]
      BY <1>0, <2>16 DEF FinishGen, TypeOK, States
    <3>4. \A c \in Calls : NumBlocks(c) \in Nat
      BY AreaRequests DEF NumBlocks
    <3>5. refcount' \in [Calls -> Nat]
      <4>1. CASE memory[hand[t].pos] = "absent"
        BY <1>0, <2>16, <4>1 DEF FinishGen, TypeOK
      <4>2. CASE memory[hand[t].pos] # "absent"
        <5>1. refcount' = [c \in Calls |-> IF c \in begun' \ begun THEN NumBlocks(c)
                                                                  ELSE refcount[c]]
          BY <2>16, <4>2 DEF FinishGen
        <5>2. refcount \in [Calls -> Nat]
          BY <1>0 DEF TypeOK
        <5> QED BY <3>4, <5>1, <5>2
      <4> QED BY <4>1, <4>2
    <3>6. /\ want' \in [Processes -> Seq(Requests)] /\ closing' \in BOOLEAN
          /\ begun' \subseteq Calls /\ envMutex' \in Processes \cup {None}
          /\ toSignal' \in [Processes -> Threads \cup {None}]
      BY <1>0, <2>16, RunScriptTypes DEF FinishGen, TypeOK
    <3> QED BY <1>0, <2>16, <3>2, <3>3, <3>5, <3>6 DEF FinishGen, TypeOK, HandType, Labels
  <2>17. \A b \in Blocks : LoadFails(t, b) => hand[t].pos \in Blocks
    BY DEF LoadFails, Getting, At, IInv, HandInv
  <2> QED BY <1>3, <2>1, <2>2, <2>3, <2>4, <2>5, <2>7, <2>8, <2>9, <2>10, <2>11, <2>12,
             <2>13, <2>14, <2>15, <2>16, <2>17 DEF ThreadStep
<1>4. ASSUME NEW p \in Processes, NEW r, Calling(p, r),
             EnqueueRefused(p, r) \/ EnqueueJoins(p, r) \/ EnqueueNew(p, r)
      PROVE  TypeOK'
  <2>0. /\ r \in Requests /\ r.pos \in Blocks /\ r.peer \in Peers \cup {NoPeer}
        /\ r.gen \in BOOLEAN /\ want' \in [Processes -> Seq(Requests)]
        /\ CallsOf(r) \in Seq(Calls)
    BY <1>0, <1>4, CallingTypes, CallsOfType
  <2>4. UNCHANGED <<notified, stopping, serverVars, pc, hand, queueMutex, envMutex, mapVars,
                    begun, refcount>>
    BY <1>4 DEF Calling
  <2>1. CASE EnqueueRefused(p, r)
    BY <1>0, <2>0, <2>1, <2>4 DEF EnqueueRefused, TypeOK, serverVars, mapVars, queueVars
  <2>2. CASE EnqueueJoins(p, r)
    <3>1. /\ enqueued[r.pos] \in Entries
          /\ enqueued[r.pos].calls \o CallsOf(r) \in Seq(Calls)
      BY <1>0, <2>0, <2>2, EntryOf, ConcatProperties DEF EnqueueJoins
    <3>2. enqueued' \in [Blocks -> Entries \cup {None}]
      <4>1. [enqueued[r.pos] EXCEPT !.gen = @ \/ r.gen, !.calls = @ \o CallsOf(r)] \in Entries
        BY <2>0, <3>1 DEF Entries
      <4>2. enqueued' = [enqueued EXCEPT ![r.pos] =
                            [enqueued[r.pos] EXCEPT !.gen = @ \/ r.gen,
                                                    !.calls = @ \o CallsOf(r)]]
        BY <2>2 DEF EnqueueJoins
      <4> QED BY <1>0, <2>0, <4>1, <4>2 DEF TypeOK
    <3> QED BY <1>0, <2>0, <2>2, <2>4, <3>2 DEF EnqueueJoins, TypeOK, serverVars, mapVars
  <2>3. CASE EnqueueNew(p, r)
    <3>1. [peer |-> r.peer, gen |-> r.gen, calls |-> CallsOf(r)] \in Entries
      BY <2>0 DEF Entries
    <3>2. enqueued' \in [Blocks -> Entries \cup {None}]
      BY <1>0, <2>0, <2>3, <3>1 DEF EnqueueNew, TypeOK
    <3>3. peerCount' \in [Peers \cup {NoPeer} -> Nat]
      <4>1. peerCount \in [Peers \cup {NoPeer} -> Nat]
        BY <1>0 DEF TypeOK
      <4>2. peerCount' = [peerCount EXCEPT ![r.peer] = @ + 1]
        BY <2>3 DEF EnqueueNew
      <4> QED BY <2>0, <4>1, <4>2
    <3>4. OptimalThread \in Threads
      BY <1>0, OptimalIsThread
    <3>5. toSignal' \in [Processes -> Threads \cup {None}]
      BY <1>0, <2>3, <3>4 DEF EnqueueNew, TypeOK
    <3>6. Append(blockQueue[OptimalThread], r.pos) \in Seq(Blocks)
      BY <1>0, <2>0, <3>4 DEF TypeOK
    <3>7. blockQueue' \in [Threads -> Seq(Blocks)]
      BY <1>0, <2>3, <3>4, <3>6 DEF EnqueueNew, TypeOK
    <3>8. UNCHANGED <<notified, stopping, active, closing, asked, pc, hand, queueMutex,
                      envMutex, inProgress, memory, disk, begun, refcount>>
      BY <1>4 DEF Calling
    <3> QED BY <1>0, <2>0, <3>2, <3>3, <3>5, <3>7, <3>8 DEF TypeOK
  <2> QED BY <1>4, <2>1, <2>2, <2>3
<1>5. ASSUME NEW p \in Processes, Signal(p) PROVE TypeOK'
    BY <1>0, <1>5 DEF Signal, TypeOK
<1>6. ASSUME NEW p \in Processes, LeaveEnv(p) PROVE TypeOK'
    BY <1>0, <1>6 DEF LeaveEnv, TypeOK
<1>7. ASSUME NEW p \in Processes, Enqueue(p) PROVE TypeOK'
    BY <1>4, <1>7 DEF Enqueue, EnqueueRefused, EnqueueJoins, EnqueueNew
<1> QED BY <1>1, <1>2, <1>3, <1>5, <1>6, <1>7 DEF Next
-----------------------------------------------------------------------------
(***************************************************************************)
(* The table, the queues and the counters of the peers.                    *)
(***************************************************************************)

\* Three kinds of steps change them.
LEMMA QueueFrame ==
    ASSUME [Next]_vars
    PROVE  \/ UNCHANGED queueVars
           \/ \E p \in Processes : \E i \in DOMAIN want[p] :
                    EnqueueJoins(p, want[p][i]) \/ EnqueueNew(p, want[p][i])
           \/ \E t \in Threads : Dequeue(t)
<1>1. CASE UNCHANGED vars
    BY <1>1 DEF vars
<1>2. CASE ServerStep
    BY <1>2 DEF ServerStep, StartThreads, RequestShutdown, BeginStop, StopThread, JoinThreads,
        ServerEmergeArea, AskForPeer, AskForServer, Unload, Ask, EnterEnv
<1>3. ASSUME NEW t \in Threads, ThreadStep(t) PROVE UNCHANGED queueVars \/ Dequeue(t)
    BY <1>3 DEF ThreadStep, InitScripting, PopBlock, PopNothing, Wake, GenerationFails,
        RunCallback, BeginCancel, CancelNext, CancelCallback, EndCancel, GetBlock,
        CancelBlock, LoadFails, StartGeneration, FinishGen, Getting
<1>4. ASSUME NEW p \in Processes, Signal(p) \/ LeaveEnv(p) PROVE UNCHANGED queueVars
    BY <1>4 DEF Signal, LeaveEnv
<1>5. ASSUME NEW p \in Processes, Enqueue(p)
      PROVE  \/ UNCHANGED queueVars
             \/ \E i \in DOMAIN want[p] :
                    EnqueueJoins(p, want[p][i]) \/ EnqueueNew(p, want[p][i])
    BY <1>5 DEF Enqueue, EnqueueRefused
<1> QED BY <1>1, <1>2, <1>3, <1>4, <1>5 DEF Next

LEMMA NewEntry ==
    ASSUME TypeOK, NEW p \in Processes, NEW r, EnqueueNew(p, r)
    PROVE  /\ r.pos \in Blocks /\ r.peer \in Peers \cup {NoPeer} /\ enqueued[r.pos] = None
           /\ enqueued'[r.pos] # None /\ enqueued'[r.pos].peer = r.peer
           /\ enqueued'[r.pos].calls = CallsOf(r)
           /\ \A b \in Blocks \ {r.pos} : enqueued'[b] = enqueued[b]
<1> DEFINE entry == [peer |-> r.peer, gen |-> r.gen, calls |-> CallsOf(r)]
<1>1. /\ r.pos \in Blocks /\ r.peer \in Peers \cup {NoPeer} /\ enqueued[r.pos] = None
      /\ entry \in Entries
    BY CallingTypes, CallsOfType DEF EnqueueNew, Entries
<1>2. enqueued' = [enqueued EXCEPT ![r.pos] = entry]
    BY DEF EnqueueNew
<1>3. entry.peer = r.peer /\ entry.calls = CallsOf(r)
    OBVIOUS
<1> HIDE DEF entry
<1> QED BY <1>1, <1>2, <1>3, ConstantFacts DEF TypeOK

LEMMA JoinedEntry ==
    ASSUME TypeOK, NEW p \in Processes, NEW r, EnqueueJoins(p, r)
    PROVE  /\ r.pos \in Blocks /\ enqueued[r.pos] # None
           /\ enqueued'[r.pos] # None /\ enqueued'[r.pos].peer = enqueued[r.pos].peer
           /\ enqueued'[r.pos].calls = enqueued[r.pos].calls \o CallsOf(r)
           /\ \A b \in Blocks \ {r.pos} : enqueued'[b] = enqueued[b]
<1> DEFINE old == enqueued[r.pos]
           new == [old EXCEPT !.gen = @ \/ r.gen, !.calls = @ \o CallsOf(r)]
<1>1. /\ r.pos \in Blocks /\ old # None /\ old \in Entries
      /\ old.calls \in Seq(Calls) /\ CallsOf(r) \in Seq(Calls)
    BY CallingTypes, CallsOfType, EntryOf DEF EnqueueJoins
<1>2. old.calls \o CallsOf(r) \in Seq(Calls)
    BY <1>1, ConcatProperties
<1>3. new \in Entries /\ new.peer = old.peer /\ new.calls = old.calls \o CallsOf(r)
    BY <1>1, <1>2 DEF Entries
<1>4. enqueued' = [enqueued EXCEPT ![r.pos] = new]
    BY <1>1, <1>3 DEF EnqueueJoins, TypeOK, Entries
<1> HIDE DEF new
<1> QED BY <1>1, <1>3, <1>4, ConstantFacts DEF TypeOK

LEMMA TableStep == ASSUME IInv, [Next]_vars PROVE TableInv'
<1> USE ConstantFacts
<1>0. TypeOK /\ TypeOK' /\ TableInv
    BY TypeStep DEF IInv
<1>1. ASSUME UNCHANGED queueVars PROVE TableInv'
    BY <1>0, <1>1 DEF queueVars, TableInv, Occurs
<1>2. ASSUME NEW p \in Processes, NEW r, EnqueueJoins(p, r) PROVE TableInv'
  <2>1. UNCHANGED blockQueue
    BY <1>2 DEF EnqueueJoins
  <2>2. \A b \in Blocks : enqueued'[b] # None <=> enqueued[b] # None
    BY <1>0, <1>2, JoinedEntry
  <2> QED BY <1>0, <2>1, <2>2 DEF TableInv, Occurs
<1>3. ASSUME NEW p \in Processes, NEW r, EnqueueNew(p, r) PROVE TableInv'
  <2> DEFINE o == OptimalThread
             b == r.pos
             place == Len(blockQueue[o]) + 1
  <2>1. b \in Blocks /\ o \in Threads /\ enqueued[b] = None /\ blockQueue[o] \in Seq(Blocks)
    BY <1>0, <1>3, CallingTypes, OptimalIsThread DEF EnqueueNew, TypeOK
  <2>2. enqueued'[b] # None /\ \A d \in Blocks \ {b} : enqueued'[d] = enqueued[d]
    BY <1>0, <1>3, NewEntry
  <2>3. blockQueue' = [blockQueue EXCEPT ![o] = Append(@, b)]
    BY <1>3 DEF EnqueueNew
  <2> HIDE DEF o, b
  <2>4. blockQueue'[o] = Append(blockQueue[o], b)
    BY <1>0, <2>1, <2>3 DEF TypeOK
  <2>5. /\ blockQueue'[o][place] = b
        /\ DOMAIN blockQueue'[o] = DOMAIN blockQueue[o] \cup {place}
        /\ place \notin DOMAIN blockQueue[o]
        /\ \A i \in DOMAIN blockQueue[o] : blockQueue'[o][i] = blockQueue[o][i]
    BY <2>1, <2>4, AppendOf
  <2>6. \A t \in Threads \ {o} : blockQueue'[t] = blockQueue[t]
    BY <1>0, <2>3 DEF TypeOK
  <2>7. \A t \in Threads : \A i \in DOMAIN blockQueue[t] : blockQueue[t][i] # b
    BY <1>0, <2>1 DEF TableInv, Occurs
  <2>8. \A d \in Blocks \ {b}, t \in Threads :
            Occurs(d, blockQueue'[t]) <=> Occurs(d, blockQueue[t])
    BY <2>5, <2>6 DEF Occurs
  <2>9. Occurs(b, blockQueue'[o])
    BY <2>5 DEF Occurs
  <2>10. \A d \in Blocks : enqueued'[d] # None <=> \E t \in Threads : Occurs(d, blockQueue'[t])
    <3>1. \A d \in Blocks : enqueued[d] # None <=> \E t \in Threads : Occurs(d, blockQueue[t])
      BY <1>0 DEF TableInv
    <3> QED BY <2>1, <2>2, <2>8, <2>9, <3>1
  <2>11. \A t, u \in Threads : \A i \in DOMAIN blockQueue'[t], j \in DOMAIN blockQueue'[u] :
            blockQueue'[t][i] = blockQueue'[u][j] => t = u /\ i = j
    <3>1. \A t, u \in Threads : \A i \in DOMAIN blockQueue[t], j \in DOMAIN blockQueue[u] :
            blockQueue[t][i] = blockQueue[u][j] => t = u /\ i = j
      BY <1>0 DEF TableInv
    <3>2. ASSUME NEW t \in Threads, NEW u \in Threads, NEW i \in DOMAIN blockQueue'[t],
                 NEW j \in DOMAIN blockQueue'[u], blockQueue'[t][i] = blockQueue'[u][j]
          PROVE  t = u /\ i = j
      <4>1. \A v \in Threads : \A n \in DOMAIN blockQueue'[v] :
                \/ v = o /\ n = place /\ blockQueue'[v][n] = b
                \/ n \in DOMAIN blockQueue[v] /\ blockQueue'[v][n] = blockQueue[v][n]
                   /\ blockQueue'[v][n] # b
        BY <2>5, <2>6, <2>7
      <4> HIDE DEF place
      <4>2. CASE blockQueue'[t][i] = b
        <5>1. t = o /\ i = place
          BY <4>1, <4>2
        <5>2. blockQueue'[u][j] = b
          BY <3>2, <4>2
        <5>3. u = o /\ j = place
          BY <4>1, <5>2
        <5> QED BY <5>1, <5>3
      <4>3. CASE blockQueue'[t][i] # b
        BY <3>1, <3>2, <4>1, <4>3
      <4> QED BY <4>2, <4>3
    <3> QED BY <3>2
  <2> QED BY <2>10, <2>11 DEF TableInv
<1>4. ASSUME NEW t \in Threads, Dequeue(t) PROVE TableInv'
  <2> DEFINE b == Head(blockQueue[t])
  <2>1. /\ b \in Blocks /\ 1 \in DOMAIN blockQueue[t] /\ b = blockQueue[t][1]
        /\ blockQueue[t] \in Seq(Blocks) /\ blockQueue[t] # <<>>
    BY <1>4, DequeueTypes
  <2>2. /\ enqueued' = [enqueued EXCEPT ![b] = None]
        /\ blockQueue' = [blockQueue EXCEPT ![t] = Tail(@)]
    BY <1>4 DEF Dequeue
  <2> HIDE DEF b
  <2>3. /\ \A i \in DOMAIN blockQueue'[t] :
                i + 1 \in DOMAIN blockQueue[t] /\ blockQueue'[t][i] = blockQueue[t][i + 1]
        /\ \A i \in DOMAIN blockQueue[t] \ {1} :
                i - 1 \in DOMAIN blockQueue'[t] /\ blockQueue'[t][i - 1] = blockQueue[t][i]
        /\ DOMAIN blockQueue'[t] \subseteq Nat \ {0}
    <3>1. blockQueue'[t] = Tail(blockQueue[t]) /\ blockQueue'[t] \in Seq(Blocks)
      BY <1>0, <2>2 DEF TypeOK
    <3>2. DOMAIN blockQueue'[t] \subseteq Nat \ {0}
      BY <3>1
    <3> QED BY <2>1, <3>1, <3>2, TailOf
  <2>4. \A u \in Threads \ {t} : blockQueue'[u] = blockQueue[u]
    BY <1>0, <2>2 DEF TypeOK
  <2>5. \A u \in Threads : \A i \in DOMAIN blockQueue[u] :
            blockQueue[u][i] = b => u = t /\ i = 1
    BY <1>0, <2>1 DEF TableInv
  <2>6. ~ \E u \in Threads : Occurs(b, blockQueue'[u])
    BY <2>3, <2>4, <2>5 DEF Occurs
  <2>7. \A d \in Blocks \ {b} : \A u \in Threads :
            Occurs(d, blockQueue'[u]) <=> Occurs(d, blockQueue[u])
    <3> SUFFICES ASSUME NEW d \in Blocks \ {b}
                 PROVE  Occurs(d, blockQueue'[t]) <=> Occurs(d, blockQueue[t])
      BY <2>4
    <3>1. ASSUME NEW i \in DOMAIN blockQueue'[t], blockQueue'[t][i] = d
          PROVE  Occurs(d, blockQueue[t])
      BY <2>3, <3>1 DEF Occurs
    <3>2. ASSUME NEW i \in DOMAIN blockQueue[t], blockQueue[t][i] = d
          PROVE  Occurs(d, blockQueue'[t])
      <4>1. i # 1
        BY <2>1, <3>2
      <4> QED BY <2>3, <3>2, <4>1 DEF Occurs
    <3> QED BY <3>1, <3>2 DEF Occurs
  <2>8. \A d \in Blocks : enqueued'[d] = IF d = b THEN None ELSE enqueued[d]
    BY <1>0, <2>1, <2>2 DEF TypeOK
  <2>9. \A d \in Blocks : enqueued'[d] # None <=> \E u \in Threads : Occurs(d, blockQueue'[u])
    <3>1. \A d \in Blocks : enqueued[d] # None <=> \E u \in Threads : Occurs(d, blockQueue[u])
      BY <1>0 DEF TableInv
    <3> QED BY <2>6, <2>7, <2>8, <3>1
  <2>10. \A u, v \in Threads : \A i \in DOMAIN blockQueue'[u], j \in DOMAIN blockQueue'[v] :
            blockQueue'[u][i] = blockQueue'[v][j] => u = v /\ i = j
    <3> SUFFICES ASSUME NEW u \in Threads, NEW v \in Threads,
                        NEW i \in DOMAIN blockQueue'[u], NEW j \in DOMAIN blockQueue'[v],
                        blockQueue'[u][i] = blockQueue'[v][j]
                 PROVE  u = v /\ i = j
      OBVIOUS
    <3>1. CASE u = t /\ v = t
      <4>1. /\ i + 1 \in DOMAIN blockQueue[t] /\ j + 1 \in DOMAIN blockQueue[t]
            /\ blockQueue[t][i + 1] = blockQueue[t][j + 1] /\ i \in Nat /\ j \in Nat
        BY <2>3, <3>1
      <4>2. i + 1 = j + 1
        BY <1>0, <4>1 DEF TableInv
      <4> QED BY <3>1, <4>1, <4>2
    <3>2. CASE u # t /\ v # t
      BY <1>0, <2>4, <3>2 DEF TableInv
    <3>3. CASE u = t /\ v # t
      BY <1>0, <2>3, <2>4, <3>3 DEF TableInv
    <3>4. CASE u # t /\ v = t
      BY <1>0, <2>3, <2>4, <3>4 DEF TableInv
    <3> QED BY <3>1, <3>2, <3>3, <3>4
  <2> QED BY <2>9, <2>10 DEF TableInv
<1> QED BY <1>1, <1>2, <1>3, <1>4, QueueFrame

\* The positions p asked for first.
First(p) == {b \in Blocks : enqueued[b] # None /\ enqueued[b].peer = p}

LEMMA CountStep == ASSUME IInv, [Next]_vars PROVE PeerCountIsExact'
<1> USE ConstantFacts
<1>0. TypeOK /\ TypeOK' /\ TableInv /\ PeerCountIsExact
    BY TypeStep DEF IInv
<1>1. \A p \in Peers \cup {NoPeer} :
        /\ peerCount[p] = Cardinality(First(p)) /\ IsFiniteSet(First(p))
        /\ peerCount[p] \in Nat
    BY <1>0, FS_Subset DEF PeerCountIsExact, First, TypeOK
<1>2. SUFFICES ASSUME NEW p \in Peers \cup {NoPeer}
               PROVE  peerCount'[p] = Cardinality(First(p)')
    BY DEF PeerCountIsExact, First
<1>3. ASSUME UNCHANGED queueVars PROVE peerCount'[p] = Cardinality(First(p)')
    BY <1>1, <1>3 DEF queueVars, First
<1>4. ASSUME NEW q \in Processes, NEW r, EnqueueJoins(q, r)
      PROVE  peerCount'[p] = Cardinality(First(p)')
  <2>1. UNCHANGED peerCount
    BY <1>4 DEF EnqueueJoins
  <2>4. First(p)' = First(p)
    BY <1>0, <1>4, JoinedEntry DEF First
  <2> QED BY <1>1, <2>1, <2>4
<1>5. ASSUME NEW q \in Processes, NEW r, EnqueueNew(q, r)
      PROVE  peerCount'[p] = Cardinality(First(p)')
  <2>1. r.pos \in Blocks /\ r.peer \in Peers \cup {NoPeer} /\ enqueued[r.pos] = None
    BY <1>0, <1>5, NewEntry
  <2>5. First(p)' = IF p = r.peer THEN First(p) \cup {r.pos} ELSE First(p)
    BY <1>0, <1>5, NewEntry DEF First
  <2>6. peerCount'[p] = IF p = r.peer THEN peerCount[p] + 1 ELSE peerCount[p]
    BY <1>0, <1>5, <2>1 DEF EnqueueNew, TypeOK
  <2>7. r.pos \notin First(p)
    BY <2>1 DEF First
  <2>8. /\ Cardinality(First(p) \cup {r.pos}) = Cardinality(First(p)) + 1
    BY <1>1, <2>7, FS_AddElement
  <2> QED BY <1>1, <2>5, <2>6, <2>8
<1>6. ASSUME NEW t \in Threads, Dequeue(t) PROVE peerCount'[p] = Cardinality(First(p)')
  <2> DEFINE b == Head(blockQueue[t])
  <2>1. b \in Blocks /\ enqueued[b] # None /\ enqueued[b].peer \in Peers \cup {NoPeer}
    BY <1>0, <1>6, DequeueTypes, EntryOf
  <2>2. /\ enqueued' = [enqueued EXCEPT ![b] = None]
        /\ peerCount' = [peerCount EXCEPT ![enqueued[b].peer] = @ - 1]
    BY <1>6 DEF Dequeue
  <2> HIDE DEF b
  <2>3. \A d \in Blocks : enqueued'[d] = IF d = b THEN None ELSE enqueued[d]
    BY <1>0, <2>1, <2>2 DEF TypeOK
  <2>4. First(p)' = First(p) \ {b}
    BY <2>1, <2>3 DEF First
  <2>5. b \in First(p) <=> p = enqueued[b].peer
    BY <2>1 DEF First
  <2>6. peerCount'[p] = IF p = enqueued[b].peer THEN peerCount[p] - 1 ELSE peerCount[p]
    BY <1>0, <2>1, <2>2 DEF TypeOK
  <2>7. Cardinality(First(p) \ {b}) = IF p = enqueued[b].peer THEN Cardinality(First(p)) - 1
                                                               ELSE Cardinality(First(p))
    BY <1>1, <2>5, FS_RemoveElement
  <2> QED BY <1>1, <2>4, <2>6, <2>7
<1> QED BY <1>3, <1>4, <1>5, <1>6, QueueFrame
-----------------------------------------------------------------------------
(***************************************************************************)
(* The requests to make, the blocks in hand, and the map.                  *)
(***************************************************************************)

\* What can become of the requests.
LEMMA WantFrame ==
    ASSUME [Next]_vars
    PROVE  \/ UNCHANGED <<want, envMutex>>
           \/ \E b \in Blocks, peer \in Peers \cup {NoPeer}, gen \in BOOLEAN : Ask(b, peer, gen)
           \/ envMutex = None /\ \E p \in Processes, c \in Calls : EmergeArea(p, c)
           \/ \E p \in Processes : \E i \in DOMAIN want[p] : Calling(p, want[p][i])
           \/ \E p \in Processes : LeaveEnv(p)
<1> USE ConstantFacts
<1>1. CASE UNCHANGED vars
    BY <1>1 DEF vars, callVars
<1>2. CASE ServerStep
  <2>1. CASE StartThreads \/ RequestShutdown \/ BeginStop \/ StopThread \/ JoinThreads
    BY <2>1 DEF StartThreads, RequestShutdown, BeginStop, StopThread, JoinThreads, callVars
  <2>2. ASSUME NEW c \in Calls, ServerEmergeArea(c)
        PROVE  envMutex = None /\ EmergeArea(Server, c)
    BY <2>2 DEF ServerEmergeArea, EnterEnv
  <2>3. ASSUME NEW b \in Blocks, Unload(b) PROVE UNCHANGED <<want, envMutex>>
    BY <2>3 DEF Unload, callVars
  <2> QED BY <1>2, <2>1, <2>2, <2>3 DEF ServerStep, AskForPeer, AskForServer
<1>3. ASSUME NEW t \in Threads, ThreadStep(t)
      PROVE  \/ UNCHANGED <<want, envMutex>>
             \/ envMutex = None /\ \E c \in Calls : EmergeArea(t, c)
  <2>1. ASSUME RunScript(t), envMutex = None
        PROVE  UNCHANGED <<want, envMutex>> \/ \E c \in Calls : EmergeArea(t, c)
    BY <2>1, EmergeAssumption DEF RunScript
  <2>2. ASSUME NEW k \in Chunks, FinishGen(t, k)
        PROVE  UNCHANGED <<want, envMutex>> \/ (RunScript(t) /\ envMutex = None)
    BY <2>2 DEF FinishGen, callVars
  <2>3. ASSUME Callback(t) PROVE RunScript(t) /\ envMutex = None
    BY <2>3 DEF Callback
  <2> QED BY <1>3, <2>1, <2>2, <2>3
          DEF ThreadStep, InitScripting, PopBlock, PopNothing, Wake, GenerationFails,
        RunCallback, BeginCancel, CancelNext, CancelCallback, EndCancel, GetBlock,
        CancelBlock, LoadFails, StartGeneration, Getting, callVars
<1>4. ASSUME NEW p \in Processes, Signal(p) PROVE UNCHANGED <<want, envMutex>>
    BY <1>4 DEF Signal
<1>5. ASSUME NEW p \in Processes, Enqueue(p)
      PROVE  \E i \in DOMAIN want[p] : Calling(p, want[p][i])
    BY <1>5 DEF Enqueue, EnqueueRefused, EnqueueJoins, EnqueueNew
<1> QED BY <1>1, <1>2, <1>3, <1>4, <1>5 DEF Next

\* The requests of an area.
LEMMA AreaWants ==
    ASSUME TypeOK, NEW p \in Processes, NEW c \in Calls, EmergeArea(p, c)
    PROVE  /\ DOMAIN want'[p] = DOMAIN Area[c]
           /\ \A i \in DOMAIN Area[c] :
                /\ want'[p][i].pos = Area[c][i] /\ want'[p][i].peer = NoPeer
                /\ want'[p][i].force /\ want'[p][i].call = c
           /\ \A q \in Processes \ {p} : want'[q] = want[q]
           /\ envMutex' = p /\ c \notin begun /\ begun' = begun \cup {c}
<1> DEFINE new == [i \in DOMAIN Area[c] |->
                      [pos |-> Area[c][i], peer |-> NoPeer, gen |-> TRUE, force |-> TRUE,
                       call |-> c]]
<1>1. /\ DOMAIN new = DOMAIN Area[c]
      /\ \A i \in DOMAIN Area[c] : /\ new[i].pos = Area[c][i] /\ new[i].peer = NoPeer
                                   /\ new[i].force /\ new[i].call = c
    OBVIOUS
<1>2. want' = [want EXCEPT ![p] = new]
    BY DEF EmergeArea
<1> HIDE DEF new
<1>3. want'[p] = new /\ \A q \in Processes \ {p} : want'[q] = want[q]
    BY <1>2 DEF TypeOK
<1> QED BY <1>1, <1>3 DEF EmergeArea

LEMMA AskWants ==
    ASSUME TypeOK, NEW b \in Blocks, NEW peer, NEW gen, Ask(b, peer, gen)
    PROVE  /\ DOMAIN want'[Server] = {1}
           /\ want'[Server][1].call = None /\ want'[Server][1].force = FALSE
           /\ \A q \in Processes \ {Server} : want'[q] = want[q]
           /\ envMutex = None /\ envMutex' = Server
<1> DEFINE new == [pos |-> b, peer |-> peer, gen |-> gen, force |-> FALSE, call |-> None]
<1>1. new.call = None /\ new.force = FALSE
    OBVIOUS
<1>2. want' = [want EXCEPT ![Server] = <<new>>] /\ envMutex = None /\ envMutex' = Server
    BY DEF Ask, EnterEnv
<1> HIDE DEF new
<1>3. want'[Server] = <<new>> /\ \A q \in Processes \ {Server} : want'[q] = want[q]
    BY <1>2, ConstantFacts DEF TypeOK
<1> QED BY <1>1, <1>2, <1>3

LEMMA CallingWants ==
    ASSUME TypeOK, NEW p \in Processes, NEW r, Calling(p, r)
    PROVE  /\ 1 \in DOMAIN want[p] /\ r = want[p][1]
           /\ \A i \in DOMAIN want'[p] : /\ i + 1 \in DOMAIN want[p] /\ i \in Nat \ {0}
                                         /\ want'[p][i] = want[p][i + 1]
           /\ \A q \in Processes \ {p} : want'[q] = want[q]
           /\ UNCHANGED envMutex
<1>1. /\ want[p] \in Seq(Requests) /\ want[p] # <<>> /\ 1 \in DOMAIN want[p] /\ r = want[p][1]
      /\ want' = [want EXCEPT ![p] = Tail(want[p])]
    BY CallingTypes
<1>2. /\ want'[p] = Tail(want[p])
      /\ \A q \in Processes \ {p} : want'[q] = want[q]
    BY <1>1 DEF TypeOK
<1>3. \A i \in DOMAIN want'[p] : i + 1 \in DOMAIN want[p] /\ want'[p][i] = want[p][i + 1]
  <2>1. \A i \in DOMAIN Tail(want[p]) :
            i + 1 \in DOMAIN want[p] /\ Tail(want[p])[i] = want[p][i + 1]
    BY <1>1, TailOf
  <2> QED BY <1>2, <2>1
<1>4. DOMAIN want'[p] \subseteq Nat \ {0}
    BY <1>1, <1>2
<1> QED BY <1>1, <1>2, <1>3, <1>4 DEF Calling

LEMMA RequestStep == ASSUME IInv, [Next]_vars PROVE RequestInv'
<1> USE ConstantFacts
<1>0. TypeOK /\ RequestInv
    BY DEF IInv
<1>1. ASSUME UNCHANGED <<want, envMutex>> PROVE RequestInv'
    BY <1>0, <1>1 DEF RequestInv
<1>2. ASSUME NEW b \in Blocks, NEW peer \in Peers \cup {NoPeer}, NEW gen \in BOOLEAN,
             Ask(b, peer, gen)
      PROVE  RequestInv'
  <2>1. \A q \in Processes : want[q] = <<>>
    BY <1>0, <1>2, AskWants DEF RequestInv
  <2>2. \A q \in Processes \ {Server} : want'[q] = <<>>
    BY <1>0, <1>2, <2>1, AskWants
  <2>3. /\ envMutex' = Server
        /\ \A i \in DOMAIN want'[Server] : want'[Server][i].force = FALSE
    BY <1>0, <1>2, AskWants
  <2> QED BY <2>2, <2>3 DEF RequestInv
<1>3. ASSUME NEW p \in Processes, NEW c \in Calls, EmergeArea(p, c), envMutex = None
      PROVE  RequestInv'
  <2>1. \A q \in Processes : want[q] = <<>>
    BY <1>0, <1>3 DEF RequestInv
  <2>2. \A q \in Processes \ {p} : want'[q] = <<>>
    BY <1>0, <1>3, <2>1, AreaWants
  <2> QED BY <1>0, <1>3, <2>2, AreaWants DEF RequestInv
<1>4. ASSUME NEW p \in Processes, NEW r, Calling(p, r) PROVE RequestInv'
  <2>1. want[p] # <<>>
    BY <1>4 DEF Calling
  <2> QED BY <1>0, <1>4, <2>1, CallingWants DEF RequestInv
<1>5. ASSUME NEW p \in Processes, LeaveEnv(p) PROVE RequestInv'
    BY <1>0, <1>5 DEF LeaveEnv, Free, callVars, RequestInv
<1> QED BY <1>1, <1>2, <1>3, <1>4, <1>5, WantFrame

LEMMA HandStep == ASSUME IInv, [Next]_vars PROVE HandInv'
<1> USE ConstantFacts DEF Goto
<1>0. TypeOK /\ HandInv
    BY DEF IInv
<1>1. ASSUME UNCHANGED <<pc, hand>> PROVE HandInv'
    BY <1>0, <1>1 DEF HandInv
<1>2. CASE ServerStep
  <2>1. UNCHANGED hand
    BY <1>2 DEF ServerStep, StartThreads, RequestShutdown, BeginStop, StopThread, JoinThreads,
        ServerEmergeArea, AskForPeer, AskForServer, Unload, Ask, EnterEnv
  <2>2. \A t \in Threads : pc'[t] \in {"init", pc[t]}
    BY <1>0, <1>2 DEF ServerStep, StartThreads, RequestShutdown, BeginStop, StopThread,
        JoinThreads, ServerEmergeArea, AskForPeer, AskForServer, Unload, Ask, EnterEnv, TypeOK
  <2> QED BY <1>0, <2>1, <2>2 DEF HandInv
<1>3. ASSUME NEW t \in Threads, ThreadStep(t) PROVE HandInv'
  <2>0. /\ \A u \in Threads \ {t} : pc'[u] = pc[u] /\ hand'[u] = hand[u]
        /\ pc'[t] \in {"get", "make", "report"} => hand'[t].pos \in Blocks
    <3>1. ASSUME NEW action, Completed(t, action), hand[t].pos \in Blocks
          PROVE  /\ \A u \in Threads \ {t} : pc'[u] = pc[u] /\ hand'[u] = hand[u]
                 /\ pc'[t] \in {"get", "make", "report"} => hand'[t].pos \in Blocks
      <4>1. CASE hand[t].calls = <<>>
        BY <1>0, <3>1, <4>1 DEF Completed, TypeOK
      <4>2. CASE hand[t].calls # <<>>
        <5>1. [hand[t] EXCEPT !.action = action].pos \in Blocks
          BY <1>0, <3>1, HandOf DEF HandType
        <5>2. hand' = [hand EXCEPT ![t] = [hand[t] EXCEPT !.action = action]]
          BY <3>1, <4>2 DEF Completed
        <5> QED BY <1>0, <3>1, <4>2, <5>1, <5>2 DEF Completed, TypeOK
      <4> QED BY <4>1, <4>2
    <3>2. CASE GenerationFails(t) \/ (\E b \in Blocks : GetBlock(t, b) \/ CancelBlock(t, b))
               \/ (\E k \in Chunks : FinishGen(t, k))
      BY <1>0, <3>1, <3>2 DEF GenerationFails, GetBlock, CancelBlock, FinishGen, Getting, At,
            HandInv
    <3>3. CASE PopBlock(t)
      <4>1. Head(blockQueue[t]) \in Blocks
        BY <3>3, DequeueTypes DEF PopBlock
      <4> QED BY <1>0, <3>3, <4>1 DEF PopBlock, TypeOK, InHand, At
    <3>4. CASE RunCallback(t)
      <4>1. hand[t].pos \in Blocks
        BY <1>0, <3>4 DEF RunCallback, At, HandInv
      <4>2. CASE Len(hand[t].calls) = 1
        BY <1>0, <3>4, <4>2 DEF RunCallback, TypeOK
      <4>3. CASE Len(hand[t].calls) # 1
        <5>1. [hand[t] EXCEPT !.calls = Tail(@)].pos \in Blocks
          BY <1>0, <4>1, HandOf DEF HandType
        <5>2. hand' = [hand EXCEPT ![t] = [hand[t] EXCEPT !.calls = Tail(@)]] /\ UNCHANGED pc
          BY <3>4, <4>3 DEF RunCallback
        <5> QED BY <1>0, <5>1, <5>2 DEF TypeOK
      <4> QED BY <4>2, <4>3
    <3>5. CASE CancelNext(t) \/ CancelCallback(t)
      BY <1>0, <3>5 DEF CancelNext, CancelCallback, TypeOK, At
    <3>6. CASE InitScripting(t) \/ PopNothing(t) \/ Wake(t) \/ BeginCancel(t) \/ EndCancel(t)
               \/ (\E b \in Blocks : LoadFails(t, b))
      BY <1>0, <3>6 DEF InitScripting, PopNothing, Wake, BeginCancel, EndCancel, LoadFails,
            TypeOK
    <3>7. CASE \E k \in Chunks : StartGeneration(t, k)
      BY <1>0, <3>7 DEF StartGeneration, Getting, At, TypeOK, HandInv
    <3> QED BY <1>3, <3>2, <3>3, <3>4, <3>5, <3>6, <3>7 DEF ThreadStep
  <2> QED BY <1>0, <2>0 DEF HandInv
<1>4. ASSUME NEW p \in Processes, Signal(p) \/ LeaveEnv(p) \/ Enqueue(p)
      PROVE UNCHANGED <<pc, hand>>
    BY <1>4 DEF Signal, LeaveEnv, Enqueue, EnqueueRefused, EnqueueJoins, EnqueueNew, Calling
<1> QED BY <1>1, <1>2, <1>3, <1>4 DEF Next, vars

LEMMA MemoryStep == ASSUME IInv, [Next]_vars PROVE MemoryAhead'
<1>0. TypeOK /\ MemoryAhead /\ HandInv
    BY DEF IInv
<1>1. ASSUME UNCHANGED <<memory, disk>> PROVE MemoryAhead'
    BY <1>0, <1>1 DEF MemoryAhead
<1>2. ASSUME ServerStep PROVE MemoryAhead'
  <2>1. ASSUME NEW b \in Blocks, Unload(b) PROVE MemoryAhead'
    BY <1>0, <2>1 DEF Unload, MemoryAhead, TypeOK
  <2>2. CASE ~ \E b \in Blocks : Unload(b)
    BY <1>1, <1>2, <2>2 DEF ServerStep, StartThreads, RequestShutdown, BeginStop, StopThread,
        JoinThreads, ServerEmergeArea, AskForPeer, AskForServer, Ask, mapVars
  <2> QED BY <2>1, <2>2
<1>3. ASSUME NEW t \in Threads, ThreadStep(t) PROVE MemoryAhead'
  <2>1. ASSUME NEW b \in Blocks, GetBlock(t, b) \/ CancelBlock(t, b) PROVE MemoryAhead'
    BY <1>0, <2>1 DEF GetBlock, CancelBlock, Getting, Loaded, MemoryAhead, TypeOK, States
  <2>2. ASSUME NEW k \in Chunks, StartGeneration(t, k) PROVE MemoryAhead'
    BY <1>0, <2>2 DEF StartGeneration, Getting, Loaded, MemoryAhead, TypeOK, States
  <2>3. ASSUME NEW k \in Chunks, FinishGen(t, k) PROVE MemoryAhead'
    BY <1>0, <2>3 DEF FinishGen, MemoryAhead, TypeOK, States
  <2> QED BY <1>1, <1>3, <2>1, <2>2, <2>3
          DEF ThreadStep, InitScripting, PopBlock, PopNothing, Wake, GenerationFails,
        RunCallback, BeginCancel, CancelNext, CancelCallback, EndCancel, LoadFails, Getting,
        mapVars
<1>4. ASSUME NEW p \in Processes, Signal(p) \/ LeaveEnv(p) \/ Enqueue(p)
      PROVE  UNCHANGED <<memory, disk>>
    BY <1>4 DEF Signal, LeaveEnv, Enqueue, EnqueueRefused, EnqueueJoins, EnqueueNew, Calling,
        mapVars
<1> QED BY <1>1, <1>2, <1>3, <1>4 DEF Next, vars, mapVars
-----------------------------------------------------------------------------
(***************************************************************************)
(* The callbacks: each is in one place, and counted until it has run.      *)
(***************************************************************************)

\* The hands of the threads give up callbacks, or keep them.
HandKept == \A t \in Threads : \/ hand'[t].calls = <<>>
                               \/ hand'[t].pos = hand[t].pos /\ hand'[t].calls = hand[t].calls

\* A callback runs: its thread gives it up.
HandRuns(t) ==
    /\ hand[t].calls # <<>> /\ hand[t].calls \in Seq(Calls)
    /\ \/ hand'[t].calls = <<>>
       \/ hand'[t].pos = hand[t].pos /\ hand'[t].calls = Tail(hand[t].calls)
    /\ \A u \in Threads \ {t} : hand'[u] = hand[u]

CallSteps ==
    \/ UNCHANGED <<want, enqueued, begun, refcount>> /\ HandKept
    \/ /\ \E b \in Blocks, peer \in Peers \cup {NoPeer}, gen \in BOOLEAN : Ask(b, peer, gen)
       /\ UNCHANGED <<enqueued, begun, refcount, hand>>
    \/ \E p \in Processes, c \in Calls :
            /\ envMutex = None /\ EmergeArea(p, c)
            /\ refcount' = [refcount EXCEPT ![c] = NumBlocks(c)]
            /\ UNCHANGED enqueued /\ HandKept
    \/ \E p \in Processes : Enqueue(p)
    \/ \E t \in Threads :
            /\ Dequeue(t)
            /\ UNCHANGED hand \/ hand' = [hand EXCEPT ![t] = InHand(Head(blockQueue[t]))]
            /\ UNCHANGED <<want, begun, refcount>>
    \/ \E t \in Threads : Callback(t) /\ HandRuns(t) /\ UNCHANGED enqueued

LEMMA CallFrame == ASSUME IInv, [Next]_vars PROVE CallSteps
<1> USE ConstantFacts
<1>0. TypeOK
    BY DEF IInv
<1>1. CASE UNCHANGED vars
    BY <1>1 DEF vars, callVars, queueVars, CallSteps, HandKept
<1>2. CASE ServerStep
  <2>1. CASE StartThreads \/ RequestShutdown \/ BeginStop \/ StopThread \/ JoinThreads
    BY <2>1 DEF StartThreads, RequestShutdown, BeginStop, StopThread, JoinThreads, callVars,
        queueVars, CallSteps, HandKept
  <2>2. ASSUME NEW c \in Calls, ServerEmergeArea(c) PROVE CallSteps
    BY <2>2 DEF ServerEmergeArea, EnterEnv, queueVars, CallSteps, HandKept
  <2>3. ASSUME NEW b \in Blocks, Unload(b) PROVE CallSteps
    BY <2>3 DEF Unload, EnterEnv, callVars, queueVars, CallSteps, HandKept
  <2>4. ASSUME NEW b \in Blocks, NEW peer \in Peers \cup {NoPeer}, NEW gen \in BOOLEAN,
               Ask(b, peer, gen)
        PROVE  CallSteps
    BY <2>4 DEF Ask, EnterEnv, queueVars, CallSteps
  <2> QED BY <1>2, <2>1, <2>2, <2>3, <2>4 DEF ServerStep, AskForPeer, AskForServer
<1>3. ASSUME NEW t \in Threads, ThreadStep(t) PROVE CallSteps
  <2>1. ASSUME NEW action, Completed(t, action) PROVE HandKept
    <3>1. CASE hand[t].calls = <<>>
      <4>1. hand' = [hand EXCEPT ![t] = Idle] /\ Idle.calls = <<>>
        BY <2>1, <3>1 DEF Completed, Idle
      <4> QED BY <1>0, <4>1 DEF TypeOK, HandKept
    <3>2. CASE hand[t].calls # <<>>
      <4>1. LET h == [hand[t] EXCEPT !.action = action]
            IN  h.pos = hand[t].pos /\ h.calls = hand[t].calls
        BY <1>0, HandOf DEF HandType
      <4>2. hand' = [hand EXCEPT ![t] = [hand[t] EXCEPT !.action = action]]
        BY <2>1, <3>2 DEF Completed
      <4> QED BY <1>0, <4>1, <4>2 DEF TypeOK, HandKept
    <3> QED BY <3>1, <3>2
  <2>2. CASE GenerationFails(t) \/ (\E b \in Blocks : GetBlock(t, b) \/ CancelBlock(t, b))
    BY <2>1, <2>2 DEF GenerationFails, GetBlock, CancelBlock, Getting, callVars, queueVars,
        CallSteps
  <2>3. CASE InitScripting(t) \/ PopNothing(t) \/ Wake(t) \/ BeginCancel(t)
             \/ (\E k \in Chunks : StartGeneration(t, k))
    BY <2>3 DEF InitScripting, PopNothing, Wake, BeginCancel, StartGeneration, Getting,
        callVars, queueVars, CallSteps, HandKept
  <2>4. CASE EndCancel(t) \/ (\E b \in Blocks : LoadFails(t, b))
    <3>1. hand' = [hand EXCEPT ![t] = Idle] /\ Idle.calls = <<>>
      BY <2>4 DEF EndCancel, LoadFails, Idle
    <3>2. HandKept
      BY <1>0, <3>1 DEF TypeOK, HandKept
    <3> QED BY <2>4, <3>2 DEF EndCancel, LoadFails, Getting, callVars, queueVars, CallSteps
  <2>5. CASE PopBlock(t) \/ CancelNext(t)
    BY <2>5 DEF PopBlock, CancelNext, callVars, CallSteps
  <2>6. CASE RunCallback(t) \/ CancelCallback(t)
    <3>1. Callback(t) /\ UNCHANGED enqueued
      BY <2>6 DEF RunCallback, CancelCallback, queueVars
    <3>2. /\ hand[t].calls # <<>> /\ hand[t].calls \in Seq(Calls)
      BY <3>1, CallbackTypes
    <3>3. LET h == [hand[t] EXCEPT !.calls = Tail(@)]
          IN  h.pos = hand[t].pos /\ h.calls = Tail(hand[t].calls)
      BY <1>0, HandOf DEF HandType
    <3>4. \/ hand' = [hand EXCEPT ![t] = Idle]
          \/ hand' = [hand EXCEPT ![t] = [hand[t] EXCEPT !.calls = Tail(@)]]
      BY <2>6 DEF RunCallback, CancelCallback
    <3>5. HandRuns(t)
      <4>1. Idle.calls = <<>>
        BY DEF Idle
      <4> QED BY <1>0, <3>2, <3>3, <3>4, <4>1 DEF TypeOK, HandRuns
    <3> QED BY <3>1, <3>5 DEF CallSteps
  <2>7. ASSUME NEW k \in Chunks, FinishGen(t, k) PROVE CallSteps
    <3>1. HandKept /\ UNCHANGED enqueued
      BY <2>1, <2>7 DEF FinishGen, queueVars
    <3>2. CASE UNCHANGED <<envMutex, callVars>>
      BY <3>1, <3>2 DEF callVars, CallSteps
    <3>3. CASE /\ RunScript(t)
               /\ refcount' = [c \in Calls |-> IF c \in begun' \ begun THEN NumBlocks(c)
                                                                       ELSE refcount[c]]
      <4>0. refcount \in [Calls -> Nat]
        BY <1>0 DEF TypeOK
      <4>1. CASE UNCHANGED <<envMutex, want, toSignal, begun>>
        <5>1. refcount' = refcount
          BY <3>3, <4>0, <4>1
        <5> QED BY <3>1, <4>1, <5>1 DEF CallSteps
      <4>2. ASSUME NEW c \in Nested, EmergeArea(t, c) PROVE CallSteps
        <5>1. c \in Calls /\ begun' \ begun = {c}
          BY <4>2, EmergeAssumption DEF EmergeArea
        <5>2. refcount' = [refcount EXCEPT ![c] = NumBlocks(c)]
          BY <3>3, <4>0, <5>1
        <5>3. envMutex = None
          BY <2>7 DEF FinishGen
        <5> QED BY <3>1, <4>2, <5>1, <5>2, <5>3 DEF CallSteps
      <4> QED BY <3>3, <4>1, <4>2 DEF RunScript
    <3> QED BY <2>7, <3>2, <3>3 DEF FinishGen
  <2> QED BY <1>3, <2>2, <2>3, <2>4, <2>5, <2>6, <2>7 DEF ThreadStep
<1>4. ASSUME NEW p \in Processes, Signal(p) \/ LeaveEnv(p) PROVE CallSteps
    BY <1>4 DEF Signal, LeaveEnv, queueVars, callVars, CallSteps, HandKept
<1>5. ASSUME NEW p \in Processes, Enqueue(p) PROVE CallSteps
    BY <1>5 DEF CallSteps
<1> QED BY <1>1, <1>2, <1>3, <1>4, <1>5 DEF Next

LEMMA OpenIsFinite ==
    /\ \A c \in Calls : IsFiniteSet(Open(c)) /\ Open(c) \subseteq Blocks
    /\ \A c \in Calls : IsFiniteSet(Open(c)') /\ Open(c)' \subseteq Blocks
<1>1. \A c \in Calls : IsFiniteSet(Open(c)) /\ Open(c) \subseteq Blocks
    BY ConstantFacts, FS_Subset DEF Open
<1>2. \A c \in Calls : IsFiniteSet(Open(c)') /\ Open(c)' \subseteq Blocks
    BY ConstantFacts, FS_Subset DEF Open
<1> QED BY <1>1, <1>2

\* With no more places, and no less on the counter, a call stays counted.
LEMMA StaysCounted ==
    ASSUME TypeOK, NEW c \in Calls, Counted(c), Open(c)' \subseteq Open(c),
           refcount'[c] = refcount[c], c \in begun => c \in begun'
    PROVE  Counted(c)'
<1>1. Cardinality(Open(c)') <= Cardinality(Open(c))
    BY OpenIsFinite, FS_Subset
<1>2. Cardinality(Open(c)') \in Nat /\ Cardinality(Open(c)) \in Nat
    BY OpenIsFinite, FS_CardinalityType
<1>3. Cardinality(Open(c)') <= refcount'[c]
  <2>1. Cardinality(Open(c)) <= refcount[c]
    BY DEF Counted
  <2>2. refcount[c] \in Nat
    BY DEF TypeOK
  <2> QED BY <2>2, <1>1, <1>2, <2>1
<1> QED BY <1>3 DEF Counted

\* A step that gives nothing of c to anyone.
LEMMA NothingNew ==
    ASSUME TypeOK, NEW c \in Calls, OnePlace(c), Counted(c),
           \A b \in Blocks : /\ Wanted(c, b)' => Wanted(c, b)
                             /\ Asked(c, b)' => Asked(c, b)
                             /\ \A t \in Threads : Held(c, b, t)' => Held(c, b, t),
           refcount'[c] = refcount[c], c \in begun => c \in begun'
    PROVE  OnePlace(c)' /\ Counted(c)'
<1>1. OnePlace(c)'
    BY DEF OnePlace
<1>2. Open(c)' \subseteq Open(c)
    BY DEF Open
<1> QED BY <1>1, <1>2, StaysCounted

LEMMA SameWanted ==
    ASSUME UNCHANGED want, NEW c, NEW b
    PROVE  Wanted(c, b)' <=> Wanted(c, b)
BY DEF Wanted

LEMMA SameAsked ==
    ASSUME UNCHANGED enqueued, NEW c, NEW b \in Blocks
    PROVE  Asked(c, b)' <=> Asked(c, b)
BY DEF Asked

LEMMA KeptIsHeld ==
    ASSUME HandKept, NEW c, NEW b, NEW t \in Threads, Held(c, b, t)'
    PROVE  Held(c, b, t)
BY DEF HandKept, Held, Occurs

LEMMA KeptLists ==
    ASSUME HandKept, ListsInv
    PROVE  \A t \in Threads : /\ IsInjective(hand'[t].calls)
                              /\ hand'[t].calls # <<>> => hand'[t].pos \in Blocks
BY DEF HandKept, ListsInv, IsInjective

\* emerge_area begins a call: its places are those of the requests.
LEMMA NewCall ==
    ASSUME IInv, NEW p \in Processes, NEW c \in Calls, envMutex = None, EmergeArea(p, c),
           UNCHANGED enqueued
    PROVE  /\ \A q \in Processes : \A i, j \in DOMAIN want'[q] :
                want'[q][i].pos = want'[q][j].pos => i = j
           /\ \A d \in Calls \ {c}, b \in Blocks : ~ Wanted(d, b)'
           /\ (\A b \in Blocks, t \in Threads : Held(c, b, t)' => Held(c, b, t))
                /\ refcount'[c] = NumBlocks(c) => OnePlace(c)' /\ Counted(c)'
<1> USE ConstantFacts
<1>0. TypeOK /\ RequestInv /\ OnePlace(c) /\ Counted(c)
    BY DEF IInv, CallInv
<1>1. \A q \in Processes \ {p} : want'[q] = <<>>
    BY <1>0, AreaWants DEF RequestInv
<1>2. \A q \in Processes : \A i, j \in DOMAIN want'[q] :
            want'[q][i].pos = want'[q][j].pos => i = j
    BY <1>0, <1>1, AreaWants, EmergeAssumption
<1>3. \A d \in Calls, b \in Blocks :
        Wanted(d, b)' => d = c /\ \E i \in DOMAIN Area[c] : b = Area[c][i]
    BY <1>0, <1>1, AreaWants DEF Wanted
<1>4. ASSUME \A b \in Blocks, t \in Threads : Held(c, b, t)' => Held(c, b, t),
             refcount'[c] = NumBlocks(c)
      PROVE  OnePlace(c)' /\ Counted(c)'
  <2>1. \A b \in Blocks : ~ Asked(c, b)' /\ \A t \in Threads : ~ Held(c, b, t)'
    <3>1. Open(c) = {}
      BY <1>0, AreaWants DEF Counted
    <3> QED BY <1>4, <3>1, SameAsked DEF Open
  <2>2. OnePlace(c)'
    BY <2>1 DEF OnePlace
  <2> DEFINE n == Len(Area[c])
             places == {Area[c][i] : i \in 1 .. n}
  <2>3. Area[c] \in Seq(Blocks) /\ n \in Nat /\ DOMAIN Area[c] = 1 .. n
    BY EmergeAssumption
  <2>4. Open(c)' \subseteq places
    BY <1>3, <2>1, <2>3 DEF Open
  <2>5. ExistsSurjection(1 .. n, places)
    <3>1. [i \in 1 .. n |-> Area[c][i]] \in Surjection(1 .. n, places)
      BY DEF Surjection
    <3> QED BY <3>1 DEF ExistsSurjection
  <2>6. IsFiniteSet(places) /\ Cardinality(places) <= n
    <3>1. places \subseteq Blocks
      BY <2>3
    <3> HIDE DEF places
    <3> QED BY <2>3, <2>5, <3>1, FS_Subset, FS_SurjCardinalityBound
  <2>7. Cardinality(Open(c)') <= n
    <3>1. Cardinality(Open(c)') <= Cardinality(places)
      BY <2>4, <2>6, FS_Subset
    <3>2. Cardinality(Open(c)') \in Nat /\ Cardinality(places) \in Nat
      BY <2>6, OpenIsFinite, FS_CardinalityType
    <3> QED BY <2>3, <2>6, <3>1, <3>2
  <2>8. c \in begun'
    BY <1>0, AreaWants
  <2> QED BY <1>4, <2>2, <2>7, <2>8 DEF Counted, NumBlocks
<1> QED BY <1>2, <1>3, <1>4

\* A process makes the first of its requests: what is wanted shrinks, and
\* the place it leaves is empty.
LEMMA CallingMoves ==
    ASSUME IInv, NEW p \in Processes, NEW r, Calling(p, r)
    PROVE  /\ \A q \in Processes : \A i, j \in DOMAIN want'[q] :
                want'[q][i].pos = want'[q][j].pos /\ want'[q][i].call # None => i = j
           /\ \A c \in Calls, b \in Blocks : Wanted(c, b)' => Wanted(c, b)
           /\ r.call \in Calls => Wanted(r.call, r.pos) /\ ~ Wanted(r.call, r.pos)'
<1> USE ConstantFacts
<1>0. TypeOK /\ RequestInv /\ ListsInv
    BY DEF IInv, CallInv
<1>1. envMutex = p /\ \A q \in Processes \ {p} : want[q] = <<>>
    BY <1>0 DEF Calling, RequestInv
<1>2. \A q \in Processes \ {p} : want'[q] = want[q] /\ want'[q] = <<>>
    BY <1>0, <1>1, CallingWants
<1>3. /\ 1 \in DOMAIN want[p] /\ r = want[p][1]
      /\ \A i \in DOMAIN want'[p] : /\ i + 1 \in DOMAIN want[p] /\ i \in Nat \ {0}
                                    /\ want'[p][i] = want[p][i + 1]
    BY <1>0, CallingWants
<1>4. \A i, j \in DOMAIN want[p] :
        want[p][i].pos = want[p][j].pos /\ want[p][i].call # None => i = j
    BY <1>0 DEF ListsInv
<1>5. \A q \in Processes : \A i, j \in DOMAIN want'[q] :
        want'[q][i].pos = want'[q][j].pos /\ want'[q][i].call # None => i = j
  <2> SUFFICES ASSUME NEW i \in DOMAIN want'[p], NEW j \in DOMAIN want'[p],
                      want'[p][i].pos = want'[p][j].pos, want'[p][i].call # None
               PROVE  i = j
    BY <1>2
  <2>1. i + 1 = j + 1 /\ i \in Nat /\ j \in Nat
    BY <1>3, <1>4
  <2> QED BY <2>1
<1>6. \A c \in Calls, b \in Blocks : Wanted(c, b)' => Wanted(c, b)
    BY <1>2, <1>3 DEF Wanted
<1>7. ASSUME r.call \in Calls PROVE Wanted(r.call, r.pos) /\ ~ Wanted(r.call, r.pos)'
  <2>1. \A i \in DOMAIN want[p] : want[p][i].pos = r.pos /\ want[p][i].call = r.call => i = 1
    BY <1>3, <1>4, <1>7
  <2>2. \A i \in DOMAIN want'[p] : i + 1 # 1
    BY <1>3
  <2> QED BY <1>2, <1>3, <2>1, <2>2 DEF Wanted
<1> QED BY <1>5, <1>6, <1>7

LEMMA OccursInConcat ==
    ASSUME NEW s \in Seq(Calls), NEW t \in Seq(Calls), NEW c
    PROVE  Occurs(c, s \o t) <=> Occurs(c, s) \/ Occurs(c, t)
<1>1. /\ Len(s) \in Nat /\ Len(t) \in Nat /\ DOMAIN s = 1 .. Len(s) /\ DOMAIN t = 1 .. Len(t)
      /\ DOMAIN (s \o t) = 1 .. Len(s) + Len(t)
      /\ \A i \in 1 .. Len(s) + Len(t) :
            (s \o t)[i] = IF i <= Len(s) THEN s[i] ELSE t[i - Len(s)]
    BY ConcatProperties
<1>2. ASSUME NEW i \in DOMAIN s, s[i] = c PROVE Occurs(c, s \o t)
    BY <1>1, <1>2 DEF Occurs
<1>3. ASSUME NEW i \in DOMAIN t, t[i] = c PROVE Occurs(c, s \o t)
  <2>1. Len(s) + i \in 1 .. Len(s) + Len(t) /\ (s \o t)[Len(s) + i] = t[i]
    BY <1>1
  <2> QED BY <1>1, <1>3, <2>1 DEF Occurs
<1>4. ASSUME NEW i \in DOMAIN (s \o t), (s \o t)[i] = c PROVE Occurs(c, s) \/ Occurs(c, t)
    BY <1>1, <1>4 DEF Occurs
<1> QED BY <1>2, <1>3, <1>4 DEF Occurs

LEMMA InjectiveWithCall ==
    ASSUME NEW s \in Seq(Calls), IsInjective(s), NEW r, r.call \in Calls \cup {None},
           r.call \in Calls => ~ Occurs(r.call, s)
    PROVE  IsInjective(s \o CallsOf(r))
<1>1. CASE r.call = None
  <2>1. s \o CallsOf(r) = s
    BY <1>1, ConcatEmptySeq DEF CallsOf
  <2> QED BY <2>1
<1>2. CASE r.call \in Calls
  <2>1. s \o CallsOf(r) = Append(s, r.call)
    BY <1>2, AppendIsConcat, ConstantFacts DEF CallsOf
  <2>2. /\ Append(s, r.call)[Len(s) + 1] = r.call
        /\ DOMAIN Append(s, r.call) = DOMAIN s \cup {Len(s) + 1}
        /\ \A i \in DOMAIN s : Append(s, r.call)[i] = s[i]
    BY <1>2, AppendOf
  <2>3. \A i \in DOMAIN s : s[i] # r.call
    BY <1>2 DEF Occurs
  <2> QED BY <2>1, <2>2, <2>3 DEF IsInjective
<1> QED BY <1>1, <1>2

\* Making a request keeps the callback in one place: the table, or nowhere.
LEMMA EnqueueKeepsCalls ==
    ASSUME IInv, NEW p \in Processes, Enqueue(p)
    PROVE  ListsInv' /\ \A c \in Calls : OnePlace(c)' /\ Counted(c)'
<1> USE ConstantFacts
<1>0. TypeOK /\ ListsInv /\ \A c \in Calls : OnePlace(c) /\ Counted(c)
    BY DEF IInv, CallInv
<1>1. PICK r : /\ Calling(p, r)
               /\ EnqueueRefused(p, r) \/ EnqueueJoins(p, r) \/ EnqueueNew(p, r)
    BY DEF Enqueue, EnqueueRefused, EnqueueJoins, EnqueueNew
<1>2. UNCHANGED <<hand, begun, refcount>>
    BY <1>1 DEF Calling
<1>3. /\ r.pos \in Blocks /\ r.call \in Calls \cup {None} /\ CallsOf(r) \in Seq(Calls)
    BY <1>0, <1>1, CallingTypes, CallsOfType
<1>4. \A c \in Calls : Occurs(c, CallsOf(r)) => c = r.call
    BY <1>3 DEF CallsOf, Occurs
<1>5. \A c \in Calls, b \in Blocks, t \in Threads : Held(c, b, t)' <=> Held(c, b, t)
    BY <1>2 DEF Held
<1>6. CASE EnqueueRefused(p, r)
  <2>1. UNCHANGED enqueued
    BY <1>6 DEF EnqueueRefused, queueVars
  <2>2. ListsInv'
    BY <1>0, <1>1, <1>2, <2>1, CallingMoves DEF ListsInv
  <2> QED BY <1>0, <1>1, <1>2, <1>5, <2>1, <2>2, CallingMoves, SameAsked, NothingNew
<1>7. CASE EnqueueJoins(p, r) \/ EnqueueNew(p, r)
  <2>1. \A b \in Blocks \ {r.pos} : enqueued'[b] = enqueued[b]
    BY <1>0, <1>7, NewEntry, JoinedEntry
  <2>2. /\ \A c \in Calls : Asked(c, r.pos)' => Asked(c, r.pos) \/ c = r.call
        /\ IsInjective(enqueued'[r.pos].calls)
    <3>1. CASE EnqueueJoins(p, r)
      <4>1. /\ enqueued[r.pos] # None /\ enqueued[r.pos].calls \in Seq(Calls)
            /\ enqueued'[r.pos].calls = enqueued[r.pos].calls \o CallsOf(r)
        BY <1>0, <3>1, JoinedEntry, EntryOf
      <4>2. r.call \in Calls => ~ Occurs(r.call, enqueued[r.pos].calls)
        BY <1>0, <1>1, <1>3, <4>1, CallingMoves DEF OnePlace, Asked
      <4>3. IsInjective(enqueued[r.pos].calls)
        BY <1>0, <1>3, <4>1 DEF ListsInv
      <4>4. IsInjective(enqueued'[r.pos].calls)
        BY <1>3, <4>1, <4>2, <4>3, InjectiveWithCall
      <4>5. \A c \in Calls : Occurs(c, enqueued'[r.pos].calls) =>
                Occurs(c, enqueued[r.pos].calls) \/ c = r.call
        BY <1>3, <1>4, <4>1, OccursInConcat
      <4> QED BY <4>1, <4>4, <4>5 DEF Asked
    <3>2. CASE EnqueueNew(p, r)
      <4>1. enqueued'[r.pos].calls = CallsOf(r)
        BY <1>0, <3>2, NewEntry
      <4>2. IsInjective(CallsOf(r))
        BY DEF CallsOf, IsInjective
      <4> QED BY <1>4, <4>1, <4>2 DEF Asked
    <3> QED BY <1>7, <3>1, <3>2
  <2>3. \A c \in Calls, b \in Blocks :
            Asked(c, b)' => Asked(c, b) \/ (c = r.call /\ b = r.pos)
    BY <2>1, <2>2 DEF Asked
  <2>4. ListsInv'
    <3>1. \A b \in Blocks : enqueued'[b] # None => IsInjective(enqueued'[b].calls)
      BY <1>0, <2>1, <2>2 DEF ListsInv
    <3> QED BY <1>0, <1>1, <1>2, <3>1, CallingMoves DEF ListsInv
  <2>5. ASSUME NEW c \in Calls PROVE OnePlace(c)' /\ Counted(c)'
    <3>1. \A b \in Blocks : Wanted(c, b)' => Wanted(c, b)
      BY <1>1, CallingMoves
    <3>2. c = r.call => Wanted(c, r.pos) /\ ~ Wanted(c, r.pos)'
      BY <1>1, CallingMoves
    <3>3. OnePlace(c)'
      BY <1>0, <1>5, <2>3, <3>1, <3>2 DEF OnePlace
    <3>4. Open(c)' \subseteq Open(c)
      BY <1>3, <1>5, <2>3, <3>1, <3>2 DEF Open
    <3> QED BY <1>0, <1>2, <3>3, <3>4, StaysCounted
  <2> QED BY <2>4, <2>5
<1> QED BY <1>1, <1>6, <1>7

\* A thread takes a block from its queue, or drops it.
LEMMA DequeueKeepsCalls ==
    ASSUME IInv, NEW t \in Threads, Dequeue(t),
           UNCHANGED hand \/ hand' = [hand EXCEPT ![t] = InHand(Head(blockQueue[t]))],
           UNCHANGED <<want, begun, refcount>>
    PROVE  ListsInv' /\ \A c \in Calls : OnePlace(c)' /\ Counted(c)'
<1> USE ConstantFacts
<1> DEFINE b == Head(blockQueue[t])
<1>0. TypeOK /\ ListsInv /\ \A c \in Calls : OnePlace(c) /\ Counted(c)
    BY DEF IInv, CallInv
<1>1. b \in Blocks /\ enqueued[b] # None
    BY DequeueTypes
<1>2. enqueued' = [enqueued EXCEPT ![b] = None]
    BY DEF Dequeue
<1>3. InHand(b).pos = b /\ InHand(b).calls = enqueued[b].calls
    BY DEF InHand
<1>4. \A d \in Blocks : enqueued'[d] = IF d = b THEN None ELSE enqueued[d]
    BY <1>0, <1>1, <1>2 DEF TypeOK
<1>5. \A c \in Calls, d \in Blocks : Asked(c, d)' <=> Asked(c, d) /\ d # b
    BY <1>4 DEF Asked
<1>6. \A c \in Calls, d \in Blocks : Wanted(c, d)' <=> Wanted(c, d)
    BY SameWanted
<1>7. CASE UNCHANGED hand
  <2>1. \A c \in Calls, d \in Blocks, u \in Threads : Held(c, d, u)' <=> Held(c, d, u)
    BY <1>7 DEF Held
  <2>2. ListsInv'
    BY <1>0, <1>4, <1>7 DEF ListsInv
  <2> QED BY <1>0, <1>5, <1>6, <2>1, <2>2, NothingNew
<1>8. CASE hand' = [hand EXCEPT ![t] = InHand(b)]
  <2>1. /\ hand'[t].pos = b /\ hand'[t].calls = enqueued[b].calls
        /\ \A u \in Threads \ {t} : hand'[u] = hand[u]
    BY <1>0, <1>3, <1>8 DEF TypeOK
  <2>2. ListsInv'
    BY <1>0, <1>1, <1>4, <2>1 DEF ListsInv
  <2>3. ASSUME NEW c \in Calls PROVE OnePlace(c)' /\ Counted(c)'
    <3>1. \A d \in Blocks, u \in Threads :
            Held(c, d, u)' => IF u = t THEN d = b /\ Asked(c, b) ELSE Held(c, d, u)
      BY <1>1, <2>1 DEF Held, Asked
    <3>2. OnePlace(c)'
      BY <1>0, <1>5, <1>6, <3>1 DEF OnePlace
    <3>3. Open(c)' \subseteq Open(c)
      BY <1>5, <1>6, <3>1 DEF Open
    <3> QED BY <1>0, <3>2, <3>3, StaysCounted
  <2> QED BY <2>2, <2>3
<1> QED BY <1>7, <1>8

\* The thread that runs a callback gives up its place.
LEMMA RunningMoves ==
    ASSUME TypeOK, ListsInv, NEW t \in Threads, HandRuns(t)
    PROVE  /\ \A u \in Threads : /\ IsInjective(hand'[u].calls)
                                 /\ hand'[u].calls # <<>> => hand'[u].pos \in Blocks
           /\ \A c \in Calls, b \in Blocks, u \in Threads : Held(c, b, u)' => Held(c, b, u)
           /\ \A c \in Calls, b \in Blocks :
                    c = Head(hand[t].calls) => ~ Held(c, b, t)'
<1>0. PICK s : s = hand[t].calls
    OBVIOUS
<1>1. /\ s # <<>> /\ s \in Seq(Calls) /\ IsInjective(s) /\ hand[t].pos \in Blocks
    BY <1>0 DEF ListsInv, HandRuns
<1>2. /\ Head(s) = s[1] /\ 1 \in DOMAIN s
      /\ \A i \in DOMAIN Tail(s) : i + 1 \in DOMAIN s /\ Tail(s)[i] = s[i + 1]
      /\ DOMAIN Tail(s) \subseteq Nat \ {0}
  <2>1. Tail(s) \in Seq(Calls)
    BY <1>1, TailOf
  <2>2. DOMAIN Tail(s) \subseteq Nat \ {0}
    BY <2>1
  <2> QED BY <1>1, <2>2, TailOf
<1>3. IsInjective(Tail(s)) /\ ~ Occurs(Head(s), Tail(s)) /\ IsInjective(<<>>)
  <2>1. ASSUME NEW i \in DOMAIN Tail(s), NEW j \in DOMAIN Tail(s), Tail(s)[i] = Tail(s)[j]
        PROVE  i = j
    <3>1. i + 1 = j + 1 /\ i \in Nat /\ j \in Nat
      BY <1>1, <1>2, <2>1 DEF IsInjective
    <3> QED BY <3>1
  <2>2. ASSUME NEW i \in DOMAIN Tail(s), Tail(s)[i] = Head(s) PROVE FALSE
    <3>1. i + 1 = 1 /\ i \in Nat \ {0}
      BY <1>1, <1>2, <2>2 DEF IsInjective
    <3> QED BY <3>1
  <2> QED BY <2>1, <2>2 DEF IsInjective, Occurs
<1>4. \A c : Occurs(c, Tail(s)) => Occurs(c, s)
    BY <1>2 DEF Occurs
<1>5. \A c : ~ Occurs(c, <<>>)
    BY DEF Occurs
<1>6. \A u \in Threads \ {t} : hand'[u] = hand[u]
    BY DEF HandRuns
<1>7. /\ IsInjective(hand'[t].calls)
      /\ hand'[t].calls # <<>> => hand'[t].pos = hand[t].pos
      /\ \A c : Occurs(c, hand'[t].calls) => Occurs(c, s) /\ c # Head(s)
  <2>1. CASE hand'[t].calls = <<>>
    BY <1>3, <1>5, <2>1
  <2>2. CASE hand'[t].pos = hand[t].pos /\ hand'[t].calls = Tail(s)
    BY <1>3, <1>4, <2>2
  <2> QED BY <1>0, <2>1, <2>2 DEF HandRuns
<1>8. \A u \in Threads : /\ IsInjective(hand'[u].calls)
                         /\ hand'[u].calls # <<>> => hand'[u].pos \in Blocks
    BY <1>1, <1>6, <1>7 DEF ListsInv
<1>9. \A c \in Calls, b \in Blocks, u \in Threads : Held(c, b, u)' => Held(c, b, u)
  <2>1. \A c \in Calls, b \in Blocks : Held(c, b, t)' => Held(c, b, t)
    <3>1. \A c : Occurs(c, hand'[t].calls) => hand'[t].calls # <<>>
      BY <1>5
    <3> QED BY <1>0, <1>7, <3>1 DEF Held
  <2> QED BY <1>6, <2>1 DEF Held
<1>10. \A c \in Calls, b \in Blocks : c = Head(hand[t].calls) => ~ Held(c, b, t)'
    BY <1>0, <1>7 DEF Held
<1> QED BY <1>8, <1>9, <1>10

\* The callback that runs leaves its place, and the counter falls by one.
LEMMA CallbackKeepsCalls ==
    ASSUME IInv, NEW t \in Threads, Callback(t), HandRuns(t), UNCHANGED enqueued
    PROVE  ListsInv' /\ \A c \in Calls : OnePlace(c)' /\ Counted(c)'
<1> USE ConstantFacts
<1>9. PICK done, b : done = Head(hand[t].calls) /\ b = hand[t].pos
    OBVIOUS
<1>0. TypeOK /\ ListsInv /\ \A c \in Calls : OnePlace(c) /\ Counted(c)
    BY DEF IInv, CallInv
<1>1. /\ done \in Calls /\ b \in Open(done) /\ b \in Blocks
      /\ refcount[done] \in Nat \ {0} /\ envMutex = None
      /\ done \in begun /\ Held(done, b, t)
  <2>1. hand[t].calls # <<>> /\ hand[t].calls \in Seq(Calls) /\ envMutex = None
    BY DEF HandRuns, Callback
  <2>2. done \in Calls /\ b \in Open(done) /\ refcount[done] \in Nat \ {0}
    BY <1>9, <2>1, CallbackCounted
  <2>3. done = hand[t].calls[1] /\ 1 \in DOMAIN hand[t].calls
    BY <1>9, <2>1, TailOf
  <2> QED BY <1>0, <1>9, <2>1, <2>2, <2>3 DEF Counted, Held, Occurs, Open
<1>2. /\ \A c \in Calls, d \in Blocks, u \in Threads : Held(c, d, u)' => Held(c, d, u)
      /\ \A d \in Blocks : ~ Held(done, d, t)'
    BY <1>0, <1>1, <1>9, RunningMoves
<1>3. \A c \in Calls, d \in Blocks : Asked(c, d)' <=> Asked(c, d)
    BY SameAsked
\* What happens to the calls that are under way.
<1>4. ASSUME NEW c \in Calls, \A d \in Blocks : Wanted(c, d)' => Wanted(c, d),
             c \in begun => c \in begun',
             refcount'[c] = IF c = done THEN refcount[c] - 1 ELSE refcount[c]
      PROVE  OnePlace(c)' /\ Counted(c)'
  <2>1. CASE c # done
    BY <1>0, <1>2, <1>3, <1>4, <2>1, NothingNew
  <2>2. CASE c = done
    <3>1. OnePlace(c)'
      BY <1>0, <1>2, <1>3, <1>4 DEF OnePlace
    <3>2. Open(c)' \subseteq Open(c) \ {b}
      <4>1. Open(c)' \subseteq Open(c)
        BY <1>2, <1>3, <1>4 DEF Open
      <4>2. ~ Wanted(c, b) /\ ~ Asked(c, b) /\ \A u \in Threads : Held(c, b, u) => u = t
        BY <1>0, <1>1, <2>2 DEF OnePlace
      <4>3. ~ Wanted(c, b)' /\ ~ Asked(c, b)' /\ \A u \in Threads : ~ Held(c, b, u)'
        BY <1>1, <1>2, <1>3, <1>4, <2>2, <4>2
      <4>4. b \notin Open(c)'
        BY <4>3 DEF Open
      <4> QED BY <4>1, <4>4
    <3>3. /\ IsFiniteSet(Open(c)) /\ IsFiniteSet(Open(c) \ {b})
          /\ Cardinality(Open(c) \ {b}) = Cardinality(Open(c)) - 1
      BY <1>1, <2>2, OpenIsFinite, FS_RemoveElement
    <3>4. Cardinality(Open(c)') <= Cardinality(Open(c) \ {b})
      BY <3>2, <3>3, FS_Subset
    <3>5. /\ Cardinality(Open(c)') \in Nat /\ Cardinality(Open(c)) \in Nat
          /\ refcount[c] \in Nat /\ Cardinality(Open(c)) <= refcount[c]
      BY <1>0, <1>1, <2>2, OpenIsFinite, FS_CardinalityType DEF Counted
    <3>6. Cardinality(Open(c)') <= refcount'[c]
      BY <1>4, <2>2, <3>3, <3>4, <3>5
    <3> QED BY <1>1, <1>4, <2>2, <3>1, <3>6 DEF Counted
  <2> QED BY <2>1, <2>2
<1>5. \A u \in Threads : /\ IsInjective(hand'[u].calls)
                         /\ hand'[u].calls # <<>> => hand'[u].pos \in Blocks
    BY <1>0, RunningMoves
<1>6. refcount' = [c \in Calls |-> CASE c = done -> refcount[c] - 1
                                     [] c \in begun' \ begun -> NumBlocks(c)
                                     [] OTHER -> refcount[c]]
    BY <1>9 DEF Callback
<1>7. CASE UNCHANGED <<envMutex, want, toSignal, begun>>
  <2>1. \A c \in Calls : refcount'[c] = IF c = done THEN refcount[c] - 1 ELSE refcount[c]
    BY <1>6, <1>7
  <2>2. ListsInv'
    BY <1>0, <1>5, <1>7 DEF ListsInv
  <2> QED BY <1>4, <1>7, <2>1, <2>2, SameWanted
<1>8. ASSUME NEW n \in Nested, EmergeArea(t, n)
      PROVE  ListsInv' /\ \A c \in Calls : OnePlace(c)' /\ Counted(c)'
  <2>1. n \in Calls /\ n \notin begun /\ begun' = begun \cup {n}
    BY <1>8, EmergeAssumption DEF EmergeArea
  <2>2. n # done
    BY <1>1, <2>1
  <2>3. \A c \in Calls : refcount'[c] = IF c = done THEN refcount[c] - 1
                                        ELSE IF c = n THEN NumBlocks(c) ELSE refcount[c]
    BY <1>6, <2>1, <2>2
  <2>4. ListsInv'
    BY <1>0, <1>1, <1>5, <1>8, <2>1, NewCall DEF ListsInv
  <2>5. OnePlace(n)' /\ Counted(n)'
    BY <1>1, <1>2, <1>8, <2>1, <2>2, <2>3, NewCall
  <2>6. \A c \in Calls \ {n} : OnePlace(c)' /\ Counted(c)'
    BY <1>1, <1>4, <1>8, <2>1, <2>3, NewCall
  <2> QED BY <2>4, <2>5, <2>6
<1> QED BY <1>7, <1>8 DEF Callback, RunScript

LEMMA CallStep == ASSUME IInv, [Next]_vars PROVE CallInv'
<1> USE ConstantFacts
<1>0. TypeOK /\ RequestInv /\ ListsInv /\ \A c \in Calls : OnePlace(c) /\ Counted(c)
    BY DEF IInv, CallInv
<1>1. CASE UNCHANGED <<want, enqueued, begun, refcount>> /\ HandKept
  <2>1. ListsInv'
    BY <1>0, <1>1, KeptLists DEF ListsInv
  <2> QED BY <1>0, <1>1, <2>1, SameWanted, SameAsked, KeptIsHeld, NothingNew DEF CallInv
<1>2. ASSUME NEW b \in Blocks, NEW peer \in Peers \cup {NoPeer}, NEW gen \in BOOLEAN,
             Ask(b, peer, gen), UNCHANGED <<enqueued, begun, refcount, hand>>
      PROVE  CallInv'
  <2>1. \A q \in Processes \ {Server} : want'[q] = <<>>
    BY <1>0, <1>2, AskWants DEF RequestInv
  <2>0. DOMAIN want'[Server] = {1} /\ want'[Server][1].call = None
    BY <1>0, <1>2, AskWants
  <2>5. \A q \in Processes : \A i \in DOMAIN want'[q] :
            q = Server /\ i = 1 /\ want'[q][i].call = None
    BY <2>0, <2>1
  <2>2. \A c \in Calls, d \in Blocks : ~ Wanted(c, d)'
    BY <2>5 DEF Wanted
  <2>3. ListsInv'
    BY <1>0, <1>2, <2>5 DEF ListsInv
  <2>4. HandKept
    BY <1>2 DEF HandKept
  <2> QED BY <1>0, <1>2, <2>2, <2>3, <2>4, SameAsked, KeptIsHeld, NothingNew DEF CallInv
<1>3. ASSUME NEW p \in Processes, NEW n \in Calls, envMutex = None, EmergeArea(p, n),
             refcount' = [refcount EXCEPT ![n] = NumBlocks(n)], UNCHANGED enqueued, HandKept
      PROVE  CallInv'
  <2>1. ListsInv'
    BY <1>0, <1>3, NewCall, KeptLists DEF ListsInv
  <2>2. /\ refcount'[n] = NumBlocks(n) /\ begun' = begun \cup {n}
        /\ \A c \in Calls \ {n} : refcount'[c] = refcount[c]
    BY <1>0, <1>3 DEF TypeOK, EmergeArea
  <2>3. OnePlace(n)' /\ Counted(n)'
    BY <1>3, <2>2, NewCall, KeptIsHeld
  <2>4. \A c \in Calls \ {n} : OnePlace(c)' /\ Counted(c)'
    BY <1>0, <1>3, <2>2, NewCall, SameAsked, KeptIsHeld, NothingNew
  <2> QED BY <2>1, <2>3, <2>4 DEF CallInv
<1>4. ASSUME NEW p \in Processes, Enqueue(p) PROVE CallInv'
    BY <1>4, EnqueueKeepsCalls DEF CallInv
<1>5. ASSUME NEW t \in Threads, Dequeue(t),
             UNCHANGED hand \/ hand' = [hand EXCEPT ![t] = InHand(Head(blockQueue[t]))],
             UNCHANGED <<want, begun, refcount>>
      PROVE  CallInv'
    BY <1>5, DequeueKeepsCalls DEF CallInv
<1>6. ASSUME NEW t \in Threads, Callback(t), HandRuns(t), UNCHANGED enqueued PROVE CallInv'
    BY <1>6, CallbackKeepsCalls DEF CallInv
<1> QED BY <1>1, <1>2, <1>3, <1>4, <1>5, <1>6, CallFrame DEF CallSteps
-----------------------------------------------------------------------------
LEMMA Initially == ASSUME Init PROVE IInv
<1> USE ConstantFacts
<1>1. TypeOK
  <2>1. Idle \in HandType
    BY IdleIsHand
  <2>2. hand \in [Threads -> HandType]
    BY <2>1 DEF Init
  <2>3. NumThreads \in Nat
    BY EmergeAssumption
  <2>4. /\ peerCount \in [Peers \cup {NoPeer} -> Nat] /\ refcount \in [Calls -> Nat]
        /\ asked \in 0 .. NumThreads
    BY <2>3 DEF Init
  <2>5. /\ blockQueue \in [Threads -> Seq(Blocks)] /\ want \in [Processes -> Seq(Requests)]
    BY DEF Init
  <2> QED BY <2>2, <2>4, <2>5 DEF Init, TypeOK, HandType, States
<1>2. TableInv /\ RequestInv /\ HandInv /\ MemoryAhead
    BY DEF Init, TableInv, RequestInv, HandInv, MemoryAhead, Occurs
<1>3. PeerCountIsExact
  <2>1. \A p \in Peers \cup {NoPeer} : First(p) = {}
    BY DEF Init, First
  <2> QED BY <2>1, FS_EmptySet DEF Init, PeerCountIsExact, First
<1>4. ListsInv
    BY DEF Init, ListsInv, Idle, IsInjective
<1>5. \A c \in Calls : OnePlace(c) /\ Counted(c)
  <2>1. \A c \in Calls, b \in Blocks : /\ ~ Wanted(c, b) /\ ~ Asked(c, b)
                                       /\ \A t \in Threads : ~ Held(c, b, t)
    BY DEF Init, Idle, Wanted, Asked, Held, Occurs
  <2>2. \A c \in Calls : Open(c) = {}
    BY <2>1 DEF Open
  <2>3. \A c \in Calls : Cardinality(Open(c)) = 0 /\ refcount[c] = 0
    BY <2>2, FS_EmptySet DEF Init
  <2> QED BY <2>1, <2>2, <2>3 DEF OnePlace, Counted
<1> QED BY <1>1, <1>2, <1>3, <1>4, <1>5 DEF IInv, CallInv

\* The invariant all the other results rest on.
THEOREM Invariance == Spec => []IInv
<1>1. IInv /\ [Next]_vars => IInv'
    BY TypeStep, TableStep, CountStep, RequestStep, HandStep, MemoryStep, CallStep DEF IInv
<1> QED BY <1>1, Initially, PTL DEF Spec
-----------------------------------------------------------------------------
(***************************************************************************)
(* What follows from the invariant.                                        *)
(***************************************************************************)

\* The variables of EmergeManager keep their types: no counter falls below
\* zero, and no thread takes a position that has no data.
THEOREM TypeCorrect == Spec => []TypeOK
<1>1. IInv => TypeOK
    BY DEF IInv
<1> QED BY <1>1, Invariance, PTL

LEMMA TableAndQueues == ASSUME IInv PROVE QueuesMatchTable
<1>1. \A t \in Threads : \A i, j \in DOMAIN blockQueue[t] :
            blockQueue[t][i] = blockQueue[t][j] => i = j
    BY DEF IInv, TableInv
<1>2. ASSUME NEW b \in Blocks
      PROVE  Cardinality({t \in Threads : Occurs(b, blockQueue[t])})
                = IF enqueued[b] = None THEN 0 ELSE 1
  <2> DEFINE holders == {t \in Threads : Occurs(b, blockQueue[t])}
  <2>1. CASE enqueued[b] = None
    <3>1. holders = {}
      BY <2>1 DEF IInv, TableInv
    <3> QED BY <2>1, <3>1, FS_EmptySet
  <2>2. CASE enqueued[b] # None
    <3>1. PICK t \in Threads : Occurs(b, blockQueue[t])
      BY <2>2 DEF IInv, TableInv
    <3>2. \A u \in Threads : Occurs(b, blockQueue[u]) => u = t
      BY <3>1 DEF IInv, TableInv, Occurs
    <3>3. holders = {t}
      BY <3>1, <3>2
    <3> QED BY <2>2, <3>3, FS_Singleton
  <2> QED BY <2>1, <2>2
<1> QED BY <1>1, <1>2 DEF QueuesMatchTable

\* m_blocks_enqueued and the queues of the threads agree: each position that
\* was asked for waits in one queue, once.
THEOREM QueuesCorrect == Spec => []QueuesMatchTable
<1>1. IInv => QueuesMatchTable
    BY TableAndQueues
<1> QED BY <1>1, Invariance, PTL

\* m_peer_queue_count counts what each peer was the first to ask for.
THEOREM PeerCountCorrect == Spec => []PeerCountIsExact
<1>1. IInv => PeerCountIsExact
    BY DEF IInv
<1> QED BY <1>1, Invariance, PTL

LEMMA DisjointSum ==
    ASSUME NEW S, NEW T, NEW U, IsFiniteSet(S), IsFiniteSet(T), IsFiniteSet(U),
           S \cap T = {}, S \cap U = {}, T \cap U = {}
    PROVE  Cardinality(S) + Cardinality(T) + Cardinality(U) = Cardinality(S \cup T \cup U)
<1>1. /\ Cardinality(S) \in Nat /\ Cardinality(T) \in Nat /\ Cardinality(U) \in Nat
      /\ IsFiniteSet(S \cup T) /\ (S \cup T) \cap U = {}
    BY FS_CardinalityType, FS_Union
<1>2. Cardinality(S \cup T) = Cardinality(S) + Cardinality(T) - Cardinality(S \cap T)
    BY FS_Union
<1>3. Cardinality((S \cup T) \cup U)
        = Cardinality(S \cup T) + Cardinality(U) - Cardinality((S \cup T) \cap U)
    BY <1>1, FS_Union
<1>4. Cardinality(S \cap T) = 0 /\ Cardinality((S \cup T) \cap U) = 0
    BY <1>1, FS_EmptySet
<1> QED BY <1>1, <1>2, <1>3, <1>4

\* A set is no larger than what it is mapped into without repetition.
LEMMA NoLarger ==
    ASSUME NEW S, NEW T, IsFiniteSet(T), NEW f, f \in [S -> T],
           \A x, y \in S : f[x] = f[y] => x = y
    PROVE  IsFiniteSet(S) /\ Cardinality(S) <= Cardinality(T)
<1>1. f \in Injection(S, T)
    BY DEF Injection, IsInjective
<1> QED BY <1>1, FS_Injection

LEMMA CallbacksCounted == ASSUME IInv PROVE StateOutlivesCallbacks
<1> USE ConstantFacts
<1>1. ASSUME NEW c \in Calls PROVE Pending(c) <= refcount[c]
  <2> DEFINE W  == {w \in Processes \X DOMAIN Area[c] :
                        w[2] \in DOMAIN want[w[1]] /\ want[w[1]][w[2]].call = c}
             Q  == {b \in Blocks : enqueued[b] # None /\ Occurs(c, enqueued[b].calls)}
             H  == {t \in Threads : Occurs(c, hand[t].calls)}
             WB == {b \in Blocks : Wanted(c, b)}
             HB == {b \in Blocks : \E t \in Threads : Held(c, b, t)}
  <2>0. TypeOK /\ RequestInv /\ ListsInv /\ OnePlace(c) /\ Counted(c) /\ c # None
    BY DEF IInv, CallInv
  <2>1. /\ IsFiniteSet(WB) /\ IsFiniteSet(Q) /\ IsFiniteSet(HB)
        /\ IsFiniteSet(Open(c)) /\ Open(c) = WB \cup Q \cup HB
    <3>1. Open(c) = WB \cup Q \cup HB
      BY DEF Open, Asked
    <3> QED BY <3>1, FS_Subset, OpenIsFinite
  <2>2. WB \cap Q = {} /\ WB \cap HB = {} /\ Q \cap HB = {}
    BY <2>0 DEF OnePlace, Asked
  <2>3. Cardinality(W) <= Cardinality(WB) /\ IsFiniteSet(W)
    <3> DEFINE f == [w \in W |-> want[w[1]][w[2]].pos]
    <3>1. ASSUME NEW w \in W
          PROVE  /\ w[1] \in Processes /\ w[2] \in DOMAIN want[w[1]]
                 /\ want[w[1]][w[2]].call = c /\ w = <<w[1], w[2]>>
                 /\ want[w[1]][w[2]].pos \in WB /\ envMutex = w[1]
      <4>1. /\ w[1] \in Processes /\ w[2] \in DOMAIN want[w[1]]
            /\ want[w[1]][w[2]].call = c /\ w = <<w[1], w[2]>>
        OBVIOUS
      <4>2. want[w[1]][w[2]].pos \in Blocks /\ want[w[1]] \in Seq(Requests)
        BY <2>0, <4>1, RequestOf
      <4>3. want[w[1]] # <<>>
        BY <4>1, <4>2
      <4> QED BY <2>0, <4>1, <4>2, <4>3 DEF Wanted, RequestInv
    <3>2. f \in [W -> WB]
      BY <3>1
    <3>3. ASSUME NEW v \in W, NEW w \in W, f[v] = f[w] PROVE v = w
      <4>1. v[1] = w[1]
        BY <3>1
      <4>2. want[v[1]][v[2]].pos = want[v[1]][w[2]].pos
        BY <3>1, <3>3, <4>1
      <4>3. /\ v[1] \in Processes /\ v[2] \in DOMAIN want[v[1]]
            /\ w[2] \in DOMAIN want[v[1]] /\ want[v[1]][v[2]].call # None
        BY <2>0, <3>1, <4>1
      <4>4. v[2] = w[2]
        BY <2>0, <4>2, <4>3 DEF ListsInv
      <4> QED BY <3>1, <4>1, <4>4
    <3> HIDE DEF f, W, WB
    <3> QED BY <2>1, <3>2, <3>3, NoLarger
  <2>4. Cardinality(H) <= Cardinality(HB) /\ IsFiniteSet(H)
    <3> DEFINE f == [t \in H |-> hand[t].pos]
    <3>1. ASSUME NEW t \in H PROVE t \in Threads /\ hand[t].pos \in HB /\ Held(c, hand[t].pos, t)
      <4>1. hand[t].calls # <<>>
        BY DEF Occurs
      <4>2. hand[t].pos \in Blocks
        BY <2>0, <4>1 DEF ListsInv
      <4> QED BY <4>2 DEF Held
    <3>2. f \in [H -> HB]
      BY <3>1
    <3>3. ASSUME NEW t \in H, NEW u \in H, f[t] = f[u] PROVE t = u
      <4>1. hand[t].pos \in Blocks /\ Held(c, hand[t].pos, t) /\ Held(c, hand[t].pos, u)
        BY <3>1, <3>3
      <4> QED BY <2>0, <3>1, <4>1 DEF OnePlace
    <3> HIDE DEF f, H, HB
    <3> QED BY <2>1, <3>2, <3>3, NoLarger
  <2>5. Cardinality(WB) + Cardinality(Q) + Cardinality(HB) = Cardinality(Open(c))
    <3> HIDE DEF WB, Q, HB
    <3> QED BY <2>1, <2>2, DisjointSum
  <2>6. /\ Cardinality(W) \in Nat /\ Cardinality(Q) \in Nat /\ Cardinality(H) \in Nat
        /\ Cardinality(WB) \in Nat /\ Cardinality(HB) \in Nat
        /\ Cardinality(Open(c)) \in Nat /\ refcount[c] \in Nat
    BY <2>0, <2>1, <2>3, <2>4, FS_CardinalityType DEF TypeOK
  <2>7. Cardinality(Open(c)) <= refcount[c]
    BY <2>0 DEF Counted
  <2>8. Pending(c) = Cardinality(W) + Cardinality(Q) + Cardinality(H)
    BY DEF Pending
  <2> HIDE DEF W, Q, H, WB, HB
  <2> QED BY <2>3, <2>4, <2>5, <2>6, <2>7, <2>8
<1> QED BY <1>1 DEF StateOutlivesCallbacks

\* The state the callbacks of emerge_area share is counted for each of them
\* until it has run, whichever thread runs it and however often requests for
\* the same position are joined.
THEOREM CallbacksCorrect == Spec => []StateOutlivesCallbacks
<1>1. IInv => StateOutlivesCallbacks
    BY CallbacksCounted
<1> QED BY <1>1, Invariance, PTL
-----------------------------------------------------------------------------
(***************************************************************************)
(* One generator for a chunk.                                              *)
(***************************************************************************)

LEMMA CompletedLeaves ==
    ASSUME TypeOK, NEW t \in Threads, NEW action, Completed(t, action)
    PROVE  /\ pc'[t] \in {"pop", "report"}
           /\ \A u \in Threads \ {t} : pc'[u] = pc[u] /\ hand'[u] = hand[u]
<1>1. pc' = [pc EXCEPT ![t] = "pop"] \/ pc' = [pc EXCEPT ![t] = "report"]
    BY DEF Completed, Goto
<1>2. \A u \in Threads \ {t} : hand'[u] = hand[u]
    BY DEF TypeOK, Completed
<1>3. pc'[t] \in {"pop", "report"} /\ \A u \in Threads \ {t} : pc'[u] = pc[u]
    BY <1>1, ConstantFacts DEF TypeOK
<1> QED BY <1>2, <1>3

LEMMA GeneratorStep ==
    ASSUME IInv, OneGeneratorPerChunk, [Next]_vars
    PROVE  OneGeneratorPerChunk'
<1> USE ConstantFacts
<1>0. TypeOK /\ HandInv
    BY DEF IInv
<1>1. ASSUME UNCHANGED <<pc, hand, inProgress>> PROVE OneGeneratorPerChunk'
    BY <1>1 DEF OneGeneratorPerChunk
<1>2. ASSUME ServerStep PROVE OneGeneratorPerChunk'
  <2>1. UNCHANGED <<hand, inProgress>>
    BY <1>2 DEF ServerStep, StartThreads, RequestShutdown, BeginStop, StopThread, JoinThreads,
        ServerEmergeArea, AskForPeer, AskForServer, Unload, Ask, EnterEnv, mapVars
  <2>2. \A t \in Threads : pc'[t] \in {"init", pc[t]}
    BY <1>0, <1>2 DEF ServerStep, StartThreads, RequestShutdown, BeginStop, StopThread,
        JoinThreads, ServerEmergeArea, AskForPeer, AskForServer, Unload, Ask, EnterEnv, TypeOK,
        Goto
  <2> QED BY <2>1, <2>2 DEF OneGeneratorPerChunk
<1>3. ASSUME NEW t \in Threads, ThreadStep(t) PROVE OneGeneratorPerChunk'
  \* Any step but the start of a generation leaves t outside, and the other
  \* threads where they are.
  <2>1. ASSUME pc'[t] # "make",
               \A u \in Threads \ {t} : pc'[u] = pc[u] /\ hand'[u] = hand[u],
               \/ inProgress \subseteq inProgress'
               \/ pc[t] = "make" /\ inProgress' = inProgress \ {ChunkOf[hand[t].pos]}
        PROVE  OneGeneratorPerChunk'
    <3>1. ASSUME NEW u \in Threads, pc'[u] = "make"
          PROVE  u # t /\ pc[u] = "make" /\ hand'[u] = hand[u]
                    /\ ChunkOf[hand[u].pos] \in inProgress'
      <4>1. u # t /\ pc[u] = "make" /\ hand'[u] = hand[u]
        BY <2>1, <3>1
      <4>2. ChunkOf[hand[u].pos] \in inProgress
        BY <4>1 DEF OneGeneratorPerChunk
      <4>3. pc[t] = "make" => ChunkOf[hand[u].pos] # ChunkOf[hand[t].pos]
        BY <4>1 DEF OneGeneratorPerChunk
      <4> QED BY <2>1, <4>1, <4>2, <4>3
    <3> QED BY <3>1 DEF OneGeneratorPerChunk
  <2>2. CASE GenerationFails(t) \/ (\E b \in Blocks : GetBlock(t, b) \/ CancelBlock(t, b))
    <3>1. inProgress \subseteq inProgress' /\ \E action : Completed(t, action)
      BY <2>2 DEF GenerationFails, GetBlock, CancelBlock, mapVars
    <3> QED BY <1>0, <2>1, <3>1, CompletedLeaves
  <2>3. CASE \E k \in Chunks : FinishGen(t, k)
    <3>1. /\ pc[t] = "make" /\ inProgress' = inProgress \ {ChunkOf[hand[t].pos]}
          /\ \E action : Completed(t, action)
      BY <2>3 DEF FinishGen, At
    <3> QED BY <1>0, <2>1, <3>1, CompletedLeaves
  <2>4. ASSUME NEW k \in Chunks, StartGeneration(t, k) PROVE OneGeneratorPerChunk'
    <3>1. /\ k = ChunkOf[hand[t].pos] /\ k \notin inProgress /\ inProgress' = inProgress \cup {k}
          /\ pc' = [pc EXCEPT ![t] = "make"] /\ UNCHANGED hand
      BY <2>4 DEF StartGeneration, MayGenerate, Goto
    <3>2. \A u \in Threads : pc'[u] = IF u = t THEN "make" ELSE pc[u]
      BY <1>0, <3>1 DEF TypeOK
    <3>3. \A u \in Threads \ {t} : pc'[u] = "make" =>
                ChunkOf[hand[u].pos] \in inProgress /\ ChunkOf[hand[u].pos] # k
      BY <3>1, <3>2 DEF OneGeneratorPerChunk
    <3>4. ASSUME NEW u \in Threads, pc'[u] = "make"
          PROVE  /\ ChunkOf[hand'[u].pos] \in inProgress'
                 /\ \A v \in Threads \ {u} : pc'[v] = "make" =>
                        ChunkOf[hand'[v].pos] # ChunkOf[hand'[u].pos]
      <4>1. CASE u = t
        BY <3>1, <3>3, <4>1
      <4>2. CASE u # t
        <5>1. pc[u] = "make" /\ ChunkOf[hand[u].pos] \in inProgress
                /\ ChunkOf[hand[u].pos] # k
          BY <3>2, <3>3, <3>4, <4>2
        <5>2. ASSUME NEW v \in Threads \ {u}, pc'[v] = "make"
              PROVE  ChunkOf[hand'[v].pos] # ChunkOf[hand'[u].pos]
          <6>1. CASE v = t
            BY <3>1, <5>1, <6>1
          <6>2. CASE v # t
            BY <3>1, <3>2, <5>1, <5>2, <6>2 DEF OneGeneratorPerChunk
          <6> QED BY <6>1, <6>2
        <5> QED BY <3>1, <5>1, <5>2
      <4> QED BY <4>1, <4>2
    <3> QED BY <3>4 DEF OneGeneratorPerChunk
  <2>5. CASE PopBlock(t) \/ CancelNext(t) \/ CancelCallback(t) \/ RunCallback(t)
    <3>1. /\ UNCHANGED inProgress
          /\ \A u \in Threads \ {t} : pc'[u] = pc[u] /\ hand'[u] = hand[u]
      BY <1>0, <2>5 DEF PopBlock, CancelNext, CancelCallback, RunCallback, Goto, mapVars, TypeOK
    <3>2. pc'[t] # "make"
      BY <1>0, <2>5 DEF PopBlock, CancelNext, CancelCallback, RunCallback, Goto, At, TypeOK
    <3> QED BY <2>1, <3>1, <3>2
  <2>6. CASE InitScripting(t) \/ PopNothing(t) \/ Wake(t) \/ BeginCancel(t) \/ EndCancel(t)
             \/ (\E b \in Blocks : LoadFails(t, b))
    <3>1. inProgress \subseteq inProgress'
      BY <2>6 DEF InitScripting, PopNothing, Wake, BeginCancel, EndCancel, LoadFails, mapVars
    <3>2. /\ pc'[t] # "make"
          /\ \A u \in Threads \ {t} : pc'[u] = pc[u] /\ hand'[u] = hand[u]
      BY <1>0, <2>6 DEF InitScripting, PopNothing, Wake, BeginCancel, EndCancel, LoadFails,
            Goto, TypeOK
    <3> QED BY <2>1, <3>1, <3>2
  <2> QED BY <1>3, <2>2, <2>3, <2>4, <2>5, <2>6 DEF ThreadStep
<1>4. ASSUME NEW p \in Processes, Signal(p) \/ LeaveEnv(p) \/ Enqueue(p)
      PROVE  UNCHANGED <<pc, hand, inProgress>>
    BY <1>4 DEF Signal, LeaveEnv, Enqueue, EnqueueRefused, EnqueueJoins, EnqueueNew, Calling,
        mapVars
<1> QED BY <1>1, <1>2, <1>3, <1>4 DEF Next, vars, mapVars

\* No two threads ever generate one chunk at the same time, and the chunk is
\* in m_chunks_in_progress as long as one does: initBlockMake and finishGen
\* keep that between them, whatever fails.
THEOREM GeneratorsCorrect == Spec => []OneGeneratorPerChunk
<1>1. Init => OneGeneratorPerChunk
    BY ConstantFacts DEF Init, OneGeneratorPerChunk
<1>2. IInv /\ OneGeneratorPerChunk /\ [Next]_vars => OneGeneratorPerChunk'
    BY GeneratorStep
<1> QED BY <1>1, <1>2, Invariance, PTL DEF Spec
-----------------------------------------------------------------------------
(***************************************************************************)
(* The signals.                                                            *)
(***************************************************************************)

LEMMA WakeupStep ==
    ASSUME IInv, NoLostWakeup, [Next]_vars
    PROVE  NoLostWakeup'
<1> USE ConstantFacts
<1>0. TypeOK
    BY DEF IInv
\* Nothing new to wake up for, and no signal taken away.
<1>1. ASSUME \A t \in Threads : /\ pc'[t] = "wait" => pc[t] = "wait"
                                /\ pc'[t] = "wait" /\ blockQueue'[t] # <<>> => blockQueue[t] # <<>>
                                /\ pc'[t] = "wait" /\ stopping'[t] => stopping[t]
                                /\ pc'[t] = "wait" /\ notified[t] => notified'[t],
             UNCHANGED toSignal
      PROVE  NoLostWakeup'
    BY <1>1 DEF NoLostWakeup
<1>2. ASSUME ServerStep PROVE NoLostWakeup'
  <2>1. CASE StopThread
    <3>1. /\ asked + 1 \in Threads /\ toSignal[Server] = None
          /\ stopping' = [stopping EXCEPT ![asked + 1] = TRUE]
          /\ toSignal' = [toSignal EXCEPT ![Server] = asked + 1]
          /\ UNCHANGED <<pc, blockQueue, notified>>
      BY <1>0, <2>1, EmergeAssumption DEF StopThread, Free, queueVars, TypeOK, Threads
    <3>2. \A p \in Processes : toSignal'[p] = IF p = Server THEN asked + 1 ELSE toSignal[p]
      BY <1>0, <3>1 DEF TypeOK
    <3>3. \A t \in Threads \ {asked + 1} : stopping'[t] = stopping[t]
      BY <1>0, <3>1 DEF TypeOK
    <3>4. ASSUME NEW t \in Threads, pc'[t] = "wait", blockQueue'[t] # <<>> \/ stopping'[t],
                 ~ notified'[t]
          PROVE  \E p \in Processes : toSignal'[p] = t
      <4>1. CASE t = asked + 1
        BY <3>2, <4>1
      <4>2. CASE t # asked + 1
        <5>1. PICK p \in Processes : toSignal[p] = t
          BY <3>1, <3>3, <3>4, <4>2 DEF NoLostWakeup
        <5>2. p # Server
          BY <3>1, <5>1
        <5> QED BY <3>2, <5>1, <5>2
      <4> QED BY <4>1, <4>2
    <3> QED BY <3>4 DEF NoLostWakeup
  <2>2. CASE StartThreads
    <3>1. \A t \in Threads : pc'[t] = "init"
      BY <2>2 DEF StartThreads
    <3> QED BY <3>1 DEF NoLostWakeup
  <2>3. CASE ~ StopThread /\ ~ StartThreads
    <3>1. UNCHANGED <<blockQueue, notified, stopping, toSignal>>
      BY <1>2, <2>3 DEF ServerStep, RequestShutdown, BeginStop, JoinThreads,
            ServerEmergeArea, EmergeArea, AskForPeer, AskForServer, Unload, Ask, EnterEnv,
            queueVars, callVars
    <3>2. \A t \in Threads : pc'[t] = pc[t]
      BY <1>0, <1>2, <2>3 DEF ServerStep, RequestShutdown, BeginStop, JoinThreads,
            ServerEmergeArea, AskForPeer, AskForServer, Unload, Ask, EnterEnv, TypeOK, Goto
    <3> QED BY <1>1, <3>1, <3>2
  <2> QED BY <2>1, <2>2, <2>3
<1>3. ASSUME NEW t \in Threads, ThreadStep(t) PROVE NoLostWakeup'
  <2>1. ASSUME NEW action, Completed(t, action)
        PROVE  pc'[t] # "wait" /\ \A u \in Threads \ {t} : pc'[u] = pc[u]
    BY <1>0, <2>1, CompletedLeaves
  <2>2. CASE PopNothing(t)
    <3>1. /\ ~ stopping[t] /\ blockQueue[t] = <<>> /\ pc' = [pc EXCEPT ![t] = "wait"]
          /\ UNCHANGED <<blockQueue, stopping, notified, toSignal>>
      BY <2>2 DEF PopNothing, Goto, queueVars, callVars
    <3>2. \A u \in Threads \ {t} : pc'[u] = pc[u]
      BY <1>0, <3>1 DEF TypeOK
    <3> QED BY <3>1, <3>2 DEF NoLostWakeup
  <2>3. CASE ~ PopNothing(t)
    <3>1. UNCHANGED toSignal
      BY <1>3, <2>3 DEF ThreadStep, InitScripting, PopBlock, Wake, GenerationFails, RunCallback,
            BeginCancel, CancelNext, CancelCallback, EndCancel, GetBlock, CancelBlock,
            LoadFails, StartGeneration, FinishGen, Getting, Callback, RunScript, EmergeArea,
            callVars
    <3>2. pc'[t] # "wait" /\ \A u \in Threads \ {t} : pc'[u] = pc[u]
      <4>1. CASE GenerationFails(t) \/ (\E b \in Blocks : GetBlock(t, b) \/ CancelBlock(t, b))
                 \/ (\E k \in Chunks : FinishGen(t, k))
        <5>1. \E action : Completed(t, action)
          BY <4>1 DEF GenerationFails, GetBlock, CancelBlock, FinishGen
        <5> QED BY <2>1, <5>1
      <4>2. CASE PopBlock(t) \/ RunCallback(t) \/ CancelNext(t) \/ CancelCallback(t)
        BY <1>0, <4>2 DEF PopBlock, RunCallback, CancelNext, CancelCallback, At, Goto, TypeOK
      <4>3. CASE InitScripting(t) \/ Wake(t) \/ BeginCancel(t) \/ EndCancel(t)
                 \/ (\E b \in Blocks : LoadFails(t, b))
                 \/ (\E k \in Chunks : StartGeneration(t, k))
        BY <1>0, <4>3 DEF InitScripting, Wake, BeginCancel, EndCancel, LoadFails,
            StartGeneration, Goto, TypeOK
      <4> QED BY <1>3, <2>3, <4>1, <4>2, <4>3 DEF ThreadStep
    <3>3. \A u \in Threads \ {t} : /\ blockQueue'[u] = blockQueue[u]
                                   /\ stopping'[u] = stopping[u] /\ notified'[u] = notified[u]
      BY <1>0, <1>3, <2>3 DEF ThreadStep, InitScripting, PopBlock, Wake, GenerationFails,
            RunCallback, BeginCancel, CancelNext, CancelCallback, EndCancel, GetBlock,
            CancelBlock, LoadFails, StartGeneration, FinishGen, Getting, Dequeue, queueVars,
            TypeOK
    <3> QED BY <1>1, <3>1, <3>2, <3>3
  <2> QED BY <2>2, <2>3
<1>4. ASSUME NEW p \in Processes, Signal(p) PROVE NoLostWakeup'
  <2>1. /\ toSignal[p] \in Threads
        /\ notified' = [notified EXCEPT ![toSignal[p]] = TRUE]
        /\ toSignal' = [toSignal EXCEPT ![p] = None]
        /\ UNCHANGED <<pc, blockQueue, stopping>>
    BY <1>0, <1>4 DEF Signal, queueVars, TypeOK
  <2>2. \A t \in Threads : notified'[t] <=> notified[t] \/ t = toSignal[p]
    BY <1>0, <2>1 DEF TypeOK
  <2>3. \A q \in Processes \ {p} : toSignal'[q] = toSignal[q]
    BY <1>0, <2>1 DEF TypeOK
  <2> QED BY <2>1, <2>2, <2>3 DEF NoLostWakeup
<1>5. ASSUME NEW p \in Processes, Enqueue(p) PROVE NoLostWakeup'
  <2>1. PICK r : EnqueueRefused(p, r) \/ EnqueueJoins(p, r) \/ EnqueueNew(p, r)
    BY <1>5 DEF Enqueue
  <2>2. CASE EnqueueRefused(p, r) \/ EnqueueJoins(p, r)
    <3>1. UNCHANGED <<pc, blockQueue, stopping, notified, toSignal>>
      BY <2>2 DEF EnqueueRefused, EnqueueJoins, Calling, queueVars
    <3> QED BY <1>1, <3>1
  <2>3. CASE EnqueueNew(p, r)
    <3> DEFINE o == OptimalThread
    <3>1. /\ o \in Threads /\ toSignal[p] = None
          /\ UNCHANGED <<pc, stopping, notified>>
          /\ blockQueue' = [blockQueue EXCEPT ![o] = Append(@, r.pos)]
          /\ toSignal' = [toSignal EXCEPT ![p] = o]
      BY <1>0, <2>3, OptimalIsThread DEF EnqueueNew, Calling
    <3> HIDE DEF o
    <3>2. \A q \in Processes : toSignal'[q] = IF q = p THEN o ELSE toSignal[q]
      BY <1>0, <3>1 DEF TypeOK
    <3>3. \A u \in Threads \ {o} : blockQueue'[u] = blockQueue[u]
      BY <1>0, <3>1 DEF TypeOK
    <3>4. ASSUME NEW t \in Threads, pc'[t] = "wait", blockQueue'[t] # <<>> \/ stopping'[t],
                 ~ notified'[t]
          PROVE  \E q \in Processes : toSignal'[q] = t
      <4>1. CASE t = o
        BY <3>2, <4>1
      <4>2. CASE t # o
        <5>1. PICK q \in Processes : toSignal[q] = t
          BY <3>1, <3>3, <3>4, <4>2 DEF NoLostWakeup
        <5>2. q # p
          BY <3>1, <5>1
        <5> QED BY <3>2, <5>1, <5>2
      <4> QED BY <4>1, <4>2
    <3> QED BY <3>4 DEF NoLostWakeup
  <2> QED BY <2>1, <2>2, <2>3
<1>6. ASSUME NEW p \in Processes, LeaveEnv(p) PROVE NoLostWakeup'
    BY <1>1, <1>6 DEF LeaveEnv, queueVars, callVars
<1>7. CASE UNCHANGED vars
    BY <1>1, <1>7 DEF vars, queueVars, callVars
<1> QED BY <1>2, <1>3, <1>4, <1>5, <1>6, <1>7 DEF Next

\* A thread never sleeps over a block in its queue, nor over the request to
\* stop, though it is signalled only after m_queue_mutex has been released.
THEOREM WakeupsCorrect == Spec => []NoLostWakeup
<1>1. Init => NoLostWakeup
    BY ConstantFacts DEF Init, NoLostWakeup
<1>2. IInv /\ NoLostWakeup /\ [Next]_vars => NoLostWakeup'
    BY WakeupStep
<1> QED BY <1>1, <1>2, Invariance, PTL DEF Spec
-----------------------------------------------------------------------------
(***************************************************************************)
(* What is reported.                                                       *)
(***************************************************************************)

Generated(b) == "generated" \in {memory[b], disk[b]}

\* A block that has been generated stays so, in memory or on disk.
LEMMA GeneratedStays ==
    ASSUME IInv, [Next]_vars
    PROVE  \A b \in Blocks : Generated(b) => Generated(b)'
<1>0. TypeOK /\ MemoryAhead /\ HandInv
    BY DEF IInv
<1> DEFINE Stays == \A b \in Blocks : Generated(b) => Generated(b)'
<1>1. ASSUME UNCHANGED <<memory, disk>> PROVE Stays
    BY <1>1 DEF Generated
<1>2. ASSUME ServerStep PROVE Stays
  <2>1. ASSUME NEW b \in Blocks, Unload(b) PROVE Stays
    BY <1>0, <2>1 DEF Unload, MemoryAhead, Generated, TypeOK, States
  <2>2. CASE ~ \E b \in Blocks : Unload(b)
    BY <1>1, <1>2, <2>2 DEF ServerStep, StartThreads, RequestShutdown, BeginStop, StopThread,
        JoinThreads, ServerEmergeArea, AskForPeer, AskForServer, Ask, mapVars
  <2> QED BY <2>1, <2>2
<1>3. ASSUME NEW t \in Threads, ThreadStep(t) PROVE Stays
  <2>1. ASSUME NEW b \in Blocks, GetBlock(t, b) \/ CancelBlock(t, b) PROVE Stays
    BY <1>0, <2>1 DEF GetBlock, CancelBlock, Getting, Loaded, Generated, TypeOK
  <2>2. ASSUME NEW k \in Chunks, StartGeneration(t, k) PROVE Stays
    BY <1>0, <2>2 DEF StartGeneration, Getting, Loaded, Generated, TypeOK
  <2>3. ASSUME NEW k \in Chunks, FinishGen(t, k) PROVE Stays
    BY <1>0, <2>3 DEF FinishGen, Generated, TypeOK
  <2> QED BY <1>1, <1>3, <2>1, <2>2, <2>3
          DEF ThreadStep, InitScripting, PopBlock, PopNothing, Wake, GenerationFails,
        RunCallback, BeginCancel, CancelNext, CancelCallback, EndCancel, LoadFails, Getting,
        mapVars
<1>4. ASSUME NEW p \in Processes, Signal(p) \/ LeaveEnv(p) \/ Enqueue(p)
      PROVE  UNCHANGED <<memory, disk>>
    BY <1>4 DEF Signal, LeaveEnv, Enqueue, EnqueueRefused, EnqueueJoins, EnqueueNew, Calling,
        mapVars
<1> HIDE DEF Stays
<1>5. Stays
    BY <1>1, <1>2, <1>3, <1>4 DEF Next, vars, mapVars
<1> QED BY <1>5 DEF Stays

Failed == {"CANCELLED", "ERRORED"}

\* A block that is done is reported with what was done.
LEMMA CompletedAction ==
    ASSUME TypeOK, NEW t \in Threads, NEW action \in Actions, Completed(t, action)
    PROVE  pc'[t] = "report" => hand'[t].pos = hand[t].pos /\ hand'[t].action = action
<1> USE ConstantFacts DEF Goto
<1>1. CASE hand[t].calls = <<>>
    BY <1>1 DEF Completed, TypeOK
<1>2. CASE hand[t].calls # <<>>
  <2>1. LET h == [hand[t] EXCEPT !.action = action] IN h.pos = hand[t].pos /\ h.action = action
    BY HandOf DEF HandType
  <2>2. hand' = [hand EXCEPT ![t] = [hand[t] EXCEPT !.action = action]]
    BY <1>2 DEF Completed
  <2> QED BY <2>1, <2>2 DEF TypeOK
<1> QED BY <1>1, <1>2

LEMMA ReportStep ==
    ASSUME IInv, ReportedIsGenerated, [Next]_vars
    PROVE  ReportedIsGenerated'
<1> USE ConstantFacts
<1>0. TypeOK /\ HandInv /\ \A b \in Blocks : Generated(b) => Generated(b)'
    BY GeneratedStays DEF IInv
<1>1. ASSUME NEW t \in Threads, pc[t] = "report", hand[t].action \notin Failed
      PROVE  hand[t].pos \in Blocks /\ Generated(hand[t].pos)
    BY <1>0, <1>1 DEF HandInv, ReportedIsGenerated, Generated, Failed
\* A thread that stays where it is has nothing else to report.
<1>2. ASSUME NEW t \in Threads, pc'[t] = "report" => pc[t] = "report",
             hand'[t].pos = hand[t].pos, hand'[t].action = hand[t].action,
             pc'[t] = "report", hand'[t].action \notin Failed
      PROVE  "generated" \in {memory'[hand'[t].pos], disk'[hand'[t].pos]}
  <2>1. PICK b \in Blocks : b = hand[t].pos /\ Generated(b)
    BY <1>1, <1>2
  <2>2. "generated" \in {memory'[b], disk'[b]}
    BY <1>0, <2>1 DEF Generated
  <2> QED BY <1>2, <2>1, <2>2
<1>3. ASSUME \A t \in Threads : pc'[t] = "report" => pc[t] = "report", UNCHANGED hand
      PROVE  ReportedIsGenerated'
    BY <1>2, <1>3 DEF ReportedIsGenerated, Failed
<1>4. ASSUME ServerStep PROVE ReportedIsGenerated'
  <2>1. UNCHANGED hand
    BY <1>4 DEF ServerStep, StartThreads, RequestShutdown, BeginStop, StopThread, JoinThreads,
        ServerEmergeArea, AskForPeer, AskForServer, Unload, Ask, EnterEnv
  <2>2. \A t \in Threads : pc'[t] \in {"init", pc[t]}
    BY <1>0, <1>4 DEF ServerStep, StartThreads, RequestShutdown, BeginStop, StopThread,
        JoinThreads, ServerEmergeArea, AskForPeer, AskForServer, Unload, Ask, EnterEnv, TypeOK,
        Goto
  <2> QED BY <1>3, <2>1, <2>2
<1>5. ASSUME NEW t \in Threads, ThreadStep(t) PROVE ReportedIsGenerated'
  <2>0. \A u \in Threads \ {t} : pc'[u] = pc[u] /\ hand'[u] = hand[u]
    <3>1. ASSUME NEW action, Completed(t, action)
          PROVE  \A u \in Threads \ {t} : pc'[u] = pc[u] /\ hand'[u] = hand[u]
      BY <1>0, <3>1, CompletedLeaves
    <3> QED BY <1>0, <1>5, <3>1 DEF ThreadStep, InitScripting, PopBlock, PopNothing, Wake,
            GenerationFails, RunCallback, BeginCancel, CancelNext, CancelCallback, EndCancel,
            GetBlock, CancelBlock, LoadFails, StartGeneration, FinishGen, Getting, Goto, TypeOK
  <2>1. ASSUME pc'[t] = "report", hand'[t].action \notin Failed
        PROVE  "generated" \in {memory'[hand'[t].pos], disk'[hand'[t].pos]}
    <3>1. CASE GenerationFails(t) \/ (\E b \in Blocks : CancelBlock(t, b))
      <4>1. Completed(t, "CANCELLED") \/ Completed(t, "ERRORED")
        BY <3>1 DEF GenerationFails, CancelBlock
      <4> QED BY <1>0, <2>1, <4>1, CompletedAction DEF Failed, Actions
    <3>2. ASSUME NEW b \in Blocks, GetBlock(t, b)
          PROVE  "generated" \in {memory'[hand'[t].pos], disk'[hand'[t].pos]}
      <4>1. b = hand[t].pos /\ memory' = [memory EXCEPT ![b] = "generated"]
              /\ (Completed(t, "FROM_DISK") \/ Completed(t, "FROM_MEMORY"))
        BY <3>2 DEF GetBlock
      <4>2. hand'[t].pos = b
        BY <1>0, <2>1, <4>1, CompletedAction DEF Actions
      <4> QED BY <1>0, <4>1, <4>2 DEF TypeOK
    <3>3. ASSUME NEW k \in Chunks, FinishGen(t, k)
          PROVE  "generated" \in {memory'[hand'[t].pos], disk'[hand'[t].pos]}
      <4>1. hand[t].pos \in Blocks
        BY <1>0, <3>3 DEF FinishGen, At, HandInv
      <4>2. CASE memory[hand[t].pos] = "absent"
        <5>1. Completed(t, "ERRORED")
          BY <3>3, <4>2 DEF FinishGen
        <5> QED BY <1>0, <2>1, <5>1, CompletedAction DEF Failed, Actions
      <4>3. CASE memory[hand[t].pos] # "absent"
        <5>1. Completed(t, "GENERATED") /\ memory'[hand[t].pos] = "generated"
          BY <3>3, <4>1, <4>3 DEF FinishGen
        <5>2. hand'[t].pos = hand[t].pos
          BY <1>0, <2>1, <5>1, CompletedAction DEF Actions
        <5> QED BY <5>1, <5>2
      <4> QED BY <4>2, <4>3
    <3>4. CASE RunCallback(t)
      <4>1. pc[t] = "report"
        BY <3>4 DEF RunCallback, At
      <4>2. CASE Len(hand[t].calls) = 1
        BY <1>0, <2>1, <3>4, <4>2 DEF RunCallback, Goto, TypeOK
      <4>3. CASE Len(hand[t].calls) # 1
        <5>1. LET h == [hand[t] EXCEPT !.calls = Tail(@)]
              IN  h.pos = hand[t].pos /\ h.action = hand[t].action
          BY <1>0, HandOf DEF HandType
        <5>2. hand' = [hand EXCEPT ![t] = [hand[t] EXCEPT !.calls = Tail(@)]]
          BY <3>4, <4>3 DEF RunCallback
        <5>3. hand'[t].pos = hand[t].pos /\ hand'[t].action = hand[t].action
          BY <1>0, <5>1, <5>2 DEF TypeOK
        <5> QED BY <1>2, <2>1, <4>1, <5>3
      <4> QED BY <4>2, <4>3
    <3>5. CASE InitScripting(t) \/ PopBlock(t) \/ PopNothing(t) \/ Wake(t) \/ BeginCancel(t)
               \/ CancelNext(t) \/ CancelCallback(t) \/ EndCancel(t)
               \/ (\E b \in Blocks : LoadFails(t, b)) \/ (\E k \in Chunks : StartGeneration(t, k))
      <4>1. pc'[t] # "report"
        BY <1>0, <3>5 DEF InitScripting, PopBlock, PopNothing, Wake, BeginCancel, CancelNext,
            CancelCallback, EndCancel, LoadFails, StartGeneration, At, Goto, TypeOK
      <4> QED BY <2>1, <4>1
    <3> QED BY <1>5, <3>1, <3>2, <3>3, <3>4, <3>5 DEF ThreadStep
  <2>2. ASSUME NEW u \in Threads \ {t}, pc'[u] = "report", hand'[u].action \notin Failed
        PROVE  "generated" \in {memory'[hand'[u].pos], disk'[hand'[u].pos]}
    BY <1>2, <2>0, <2>2
  <2> QED BY <2>1, <2>2 DEF ReportedIsGenerated, Failed
<1>6. ASSUME NEW p \in Processes, Signal(p) \/ LeaveEnv(p) \/ Enqueue(p)
      PROVE  UNCHANGED <<pc, hand>>
    BY <1>6 DEF Signal, LeaveEnv, Enqueue, EnqueueRefused, EnqueueJoins, EnqueueNew, Calling
<1> QED BY <1>3, <1>4, <1>5, <1>6 DEF Next, vars

\* A block reported as fetched or generated has been generated, though the
\* server unloads blocks between the end of makeChunk and finishGen.
THEOREM ReportsCorrect == Spec => []ReportedIsGenerated
<1>1. Init => ReportedIsGenerated
    BY ConstantFacts DEF Init, ReportedIsGenerated
<1>2. IInv /\ ReportedIsGenerated /\ [Next]_vars => ReportedIsGenerated'
    BY ReportStep
<1> QED BY <1>1, <1>2, Invariance, PTL DEF Spec
-----------------------------------------------------------------------------
(***************************************************************************)
(* The limits.                                                             *)
(***************************************************************************)

LEMMA LimitStep ==
    ASSUME IInv, PeerLimitsHold, [Next]_vars
    PROVE  PeerLimitsHold'
<1> USE ConstantFacts
<1>0. /\ TypeOK /\ RequestInv
      /\ {LimitGenerate, LimitDiskonly} \subseteq Nat
      /\ peerCount \in [Peers \cup {NoPeer} -> Nat]
    BY EmergeAssumption DEF IInv, TypeOK
<1>1. ASSUME UNCHANGED peerCount PROVE PeerLimitsHold'
    BY <1>1 DEF PeerLimitsHold
<1>2. ASSUME NEW t \in Threads, Dequeue(t) PROVE PeerLimitsHold'
  <2>1. PICK q \in Peers \cup {NoPeer} : peerCount' = [peerCount EXCEPT ![q] = @ - 1]
    BY <1>0, <1>2, DequeueTypes, EntryOf DEF Dequeue
  <2>2. \A p \in Peers : peerCount'[p] <= peerCount[p] /\ peerCount'[p] \in Int
    BY <1>0, <2>1
  <2> QED BY <1>0, <2>2 DEF PeerLimitsHold
<1>3. ASSUME NEW p \in Processes, NEW r, EnqueueNew(p, r) PROVE PeerLimitsHold'
  <2>1. /\ ~ Refused(r) /\ r.peer \in Peers \cup {NoPeer}
        /\ peerCount' = [peerCount EXCEPT ![r.peer] = @ + 1]
    BY <1>0, <1>3, CallingTypes DEF EnqueueNew
  <2>2. r.peer \in Peers => ~ r.force
    BY <1>0, <1>3, CallingTypes DEF EnqueueNew, RequestInv
  <2>3. r.peer \in Peers =>
            peerCount[r.peer] < LimitGenerate \/ peerCount[r.peer] < LimitDiskonly
    <3>1. CASE r.gen
      BY <1>0, <2>1, <2>2, <3>1 DEF Refused
    <3>2. CASE ~ r.gen
      BY <1>0, <2>1, <2>2, <3>2 DEF Refused
    <3> QED BY <3>1, <3>2
  <2>4. \A q \in Peers : peerCount'[q] = IF q = r.peer THEN peerCount[q] + 1 ELSE peerCount[q]
    BY <1>0, <2>1
  <2> QED BY <1>0, <2>3, <2>4 DEF PeerLimitsHold
<1>4. ASSUME ServerStep PROVE UNCHANGED peerCount
    BY <1>4 DEF ServerStep, StartThreads, RequestShutdown, BeginStop, StopThread, JoinThreads,
        ServerEmergeArea, AskForPeer, AskForServer, Unload, Ask, EnterEnv, queueVars
<1>5. ASSUME NEW t \in Threads, ThreadStep(t) PROVE UNCHANGED peerCount \/ Dequeue(t)
    BY <1>5 DEF ThreadStep, InitScripting, PopBlock, PopNothing, Wake, GenerationFails,
        RunCallback, BeginCancel, CancelNext, CancelCallback, EndCancel, GetBlock, CancelBlock,
        LoadFails, StartGeneration, FinishGen, Getting, queueVars
<1>6. ASSUME NEW p \in Processes, Enqueue(p)
      PROVE  UNCHANGED peerCount \/ \E r : EnqueueNew(p, r)
    BY <1>6 DEF Enqueue, EnqueueRefused, EnqueueJoins, queueVars
<1>7. ASSUME NEW p \in Processes, Signal(p) \/ LeaveEnv(p) PROVE UNCHANGED peerCount
    BY <1>7 DEF Signal, LeaveEnv, queueVars
<1> QED BY <1>1, <1>2, <1>3, <1>4, <1>5, <1>6, <1>7 DEF Next, vars, queueVars

\* A peer never fills more of the queue than the larger of its two limits:
\* what is forced past them comes from no peer.
THEOREM LimitsCorrect == Spec => []PeerLimitsHold
<1>1. Init => PeerLimitsHold
    BY EmergeAssumption DEF Init, PeerLimitsHold
<1>2. IInv /\ PeerLimitsHold /\ [Next]_vars => PeerLimitsHold'
    BY LimitStep
<1> QED BY <1>1, <1>2, Invariance, PTL DEF Spec
=============================================================================
