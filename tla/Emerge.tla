------------------------------- MODULE Emerge -------------------------------
(***************************************************************************)
(* EmergeManager and its EmergeThreads: blocks are asked for, queued under *)
(* m_queue_mutex, fetched from memory or disk or generated by one of the   *)
(* threads, and reported to the callbacks of emerge_area.                  *)
(*                                                                         *)
(* Process 0 is the server thread, and ~Server after it.  A step is a      *)
(* critical section; a mutex stays locked between two steps when code in   *)
(* its critical section asks for the other one: enqueueBlockEmerge locks   *)
(* m_queue_mutex for callers that hold m_env_mutex, cancelPendingItems the *)
(* other way round.  A server step that holds m_env_mutex is cut into one  *)
(* piece per request.  The event of changed blocks at the end of a         *)
(* thread's loop is left out, as is what a block contains.                 *)
(***************************************************************************)
EXTENDS Integers, Sequences, FiniteSets

CONSTANTS
    NumThreads,      \* m_threads.size()
    Blocks,          \* block positions
    Chunks, ChunkOf, \* getContainingChunk
    Around,          \* Around[k]: the blocks of the chunk k and those next to it
    Outside,         \* the positions blockpos_over_max_limit is true of
    Barred,          \* the chunks initBlockMake finds over the mapgen limit
    Saved,           \* the blocks on disk, generated, in the beginning
    Peers, NoPeer,   \* the peers, and PEER_ID_INEXISTENT
    LimitTotal, LimitDiskonly, LimitGenerate,
    Calls,           \* the calls of emerge_area with a callback
    Area,            \* Area[c]: the positions c loops over
    Nested,          \* the calls made by on_generated or by a callback
    MayFail,         \* scripts and blocks on disk may be broken
    None

Server    == 0
Threads   == 1 .. NumThreads
Processes == {Server} \cup Threads

\* BlockEmergeData.
Entries == [peer : Peers \cup {NoPeer}, gen : BOOLEAN, calls : Seq(Calls)]

ASSUME EmergeAssumption ==
    /\ NumThreads \in Nat \ {0}
    /\ ChunkOf \in [Blocks -> Chunks]
    /\ Around \in [Chunks -> SUBSET Blocks]
    /\ \A b \in Blocks : b \in Around[ChunkOf[b]]
    /\ Outside \subseteq Blocks /\ Saved \subseteq Blocks
    /\ Barred \subseteq Chunks
    /\ NoPeer \notin Peers
    /\ {LimitTotal, LimitDiskonly, LimitGenerate} \subseteq Nat \ {0}
    /\ IsFiniteSet(Blocks)
    /\ Area \in [Calls -> Seq(Blocks)]
    /\ \A c \in Calls : \A i, j \in DOMAIN Area[c] : Area[c][i] = Area[c][j] => i = j
    /\ Nested \subseteq Calls
    /\ MayFail \in BOOLEAN
    /\ None \notin Processes \cup Blocks \cup Calls \cup Entries

VARIABLES
    enqueued,    \* m_blocks_enqueued: what is asked for a position, or None
    peerCount,   \* m_peer_queue_count
    blockQueue,  \* EmergeThread::m_block_queue
    notified,    \* EmergeThread::m_queue_event
    active,      \* m_threads_active
    stopping,    \* Thread::m_request_stop of the emerge threads
    closing,     \* a fatal error, or the user, has asked the server to end
    asked,       \* how many threads stopThreads has asked to stop
    pc,          \* where each process is
    hand,        \* the block a thread works on
    want,        \* the enqueueBlockEmergeEx calls a process is about to make
    toSignal,    \* the thread it is about to signal
    queueMutex,  \* holder of m_queue_mutex between two steps
    envMutex,    \* holder of Server::m_env_mutex between two steps
    inProgress,  \* ServerMap::m_chunks_in_progress
    memory,      \* the block in memory: absent, blank or generated
    disk,        \* the block in the database, likewise
    begun,       \* the calls of emerge_area made so far
    refcount     \* ScriptCallbackState::refcount

queueVars  == <<enqueued, peerCount, blockQueue>>
mapVars    == <<inProgress, memory, disk>>
callVars   == <<want, toSignal, begun, refcount>>
serverVars == <<active, closing, asked>>
vars == <<queueVars, notified, stopping, serverVars, pc, hand, queueMutex,
          envMutex, mapVars, callVars>>

Requests == [pos : Blocks, peer : Peers \cup {NoPeer}, gen : BOOLEAN,
             force : BOOLEAN, call : Calls \cup {None}]
States   == {"absent", "blank", "generated"}
Actions  == {"CANCELLED", "ERRORED", "FROM_MEMORY", "FROM_DISK", "GENERATED"}

Idle == [pos |-> None, gen |-> FALSE, calls |-> <<>>, action |-> "CANCELLED"]

TypeOK ==
    /\ enqueued \in [Blocks -> Entries \cup {None}]
    /\ peerCount \in [Peers \cup {NoPeer} -> Nat]
    /\ blockQueue \in [Threads -> Seq(Blocks)]
    /\ notified \in [Threads -> BOOLEAN]
    /\ active \in BOOLEAN /\ closing \in BOOLEAN
    /\ stopping \in [Threads -> BOOLEAN]
    /\ asked \in 0 .. NumThreads
    /\ pc \in [Processes -> {"run", "stop", "off", "init", "pop", "wait", "get",
                             "make", "report", "exit", "cancel", "done"}]
    /\ hand \in [Threads -> [pos : Blocks \cup {None}, gen : BOOLEAN,
                             calls : Seq(Calls), action : Actions]]
    /\ want \in [Processes -> Seq(Requests)]
    /\ toSignal \in [Processes -> Threads \cup {None}]
    /\ queueMutex \in Threads \cup {None}
    /\ envMutex \in Processes \cup {None}
    /\ inProgress \subseteq Chunks
    /\ memory \in [Blocks -> States] /\ disk \in [Blocks -> States]
    /\ begun \subseteq Calls
    /\ refcount \in [Calls -> Nat]

Init ==
    /\ enqueued = [b \in Blocks |-> None]
    /\ peerCount = [p \in Peers \cup {NoPeer} |-> 0]
    /\ blockQueue = [t \in Threads |-> <<>>]
    /\ notified = [t \in Threads |-> FALSE]
    /\ active = FALSE /\ closing = FALSE /\ asked = 0
    /\ stopping = [t \in Threads |-> FALSE]
    /\ pc = [p \in Processes |-> IF p = Server THEN "run" ELSE "off"]
    /\ hand = [t \in Threads |-> Idle]
    /\ want = [p \in Processes |-> <<>>]
    /\ toSignal = [p \in Processes |-> None]
    /\ queueMutex = None /\ envMutex = None
    /\ inProgress = {}
    /\ memory = [b \in Blocks |-> "absent"]
    /\ disk = [b \in Blocks |-> IF b \in Saved THEN "generated" ELSE "absent"]
    /\ begun = {}
    /\ refcount = [c \in Calls |-> 0]

Goto(p, label) == pc' = [pc EXCEPT ![p] = label]
-----------------------------------------------------------------------------
(***************************************************************************)
(* enqueueBlockEmergeEx.                                                   *)
(***************************************************************************)

\* Not in the middle of a call of enqueueBlockEmergeEx, nor with one to make.
Free(p) == want[p] = <<>> /\ toSignal[p] = None

\* The limits of pushBlockEmergeData.
Refused(r) ==
    LET waiting == Cardinality({b \in Blocks : enqueued[b] # None})
        limit   == IF r.gen THEN LimitGenerate ELSE LimitDiskonly
    IN  /\ ~ r.force
        /\ \/ waiting >= LimitTotal
           \/ r.peer # NoPeer /\ peerCount[r.peer] >= limit
           \/ r.peer = NoPeer /\ peerCount[NoPeer] * 2 >= LimitTotal

CallsOf(r) == IF r.call = None THEN <<>> ELSE <<r.call>>

\* getOptimalThread: the first of the threads with the shortest queue.
OptimalThread ==
    CHOOSE t \in Threads : \A u \in Threads :
        \/ Len(blockQueue[t]) < Len(blockQueue[u])
        \/ Len(blockQueue[t]) = Len(blockQueue[u]) /\ t <= u

\* p makes the first of its calls, once it has m_queue_mutex.
Calling(p, r) == /\ toSignal[p] = None /\ queueMutex = None
                 /\ want[p] # <<>> /\ r = want[p][1]
                 /\ want' = [want EXCEPT ![p] = Tail(@)]
                 /\ UNCHANGED <<notified, stopping, serverVars, pc, hand, queueMutex,
                                envMutex, mapVars, begun, refcount>>

EnqueueRefused(p, r) ==
    /\ Calling(p, r)
    /\ Refused(r)
    /\ UNCHANGED <<queueVars, toSignal>>

\* Broken variants: the joined request counts for its peer; it is queued as well.
EnqueueJoins_Counted(p, r) ==
    /\ Calling(p, r)
    /\ ~ Refused(r)
    /\ enqueued[r.pos] # None
    /\ peerCount' = [peerCount EXCEPT ![r.peer] = @ + 1]
    /\ UNCHANGED <<enqueued, blockQueue, toSignal>>

EnqueueJoins_Queued(p, r) ==
    /\ Calling(p, r)
    /\ ~ Refused(r)
    /\ enqueued[r.pos] # None
    /\ blockQueue' = [blockQueue EXCEPT ![OptimalThread] = Append(@, r.pos)]
    /\ UNCHANGED <<enqueued, peerCount, toSignal>>

\* The position is waiting already: the request joins the other one.
EnqueueJoins(p, r) ==
    /\ Calling(p, r)
    /\ ~ Refused(r)
    /\ enqueued[r.pos] # None
    /\ enqueued' = [enqueued EXCEPT ![r.pos].gen = @ \/ r.gen,
                                    ![r.pos].calls = @ \o CallsOf(r)]
    /\ UNCHANGED <<peerCount, blockQueue, toSignal>>

\* Broken variant: the thread to signal is chosen again, after the push.
EnqueueNew_Other(p, r) ==
    /\ Calling(p, r)
    /\ ~ Refused(r)
    /\ enqueued[r.pos] = None
    /\ enqueued' = [enqueued EXCEPT ![r.pos] =
                        [peer |-> r.peer, gen |-> r.gen, calls |-> CallsOf(r)]]
    /\ peerCount' = [peerCount EXCEPT ![r.peer] = @ + 1]
    /\ blockQueue' = [blockQueue EXCEPT ![OptimalThread] = Append(@, r.pos)]
    /\ toSignal' = [toSignal EXCEPT ![p] = OptimalThread']

\* It gets an entry, and goes to the thread with the shortest queue.
EnqueueNew(p, r) ==
    /\ Calling(p, r)
    /\ ~ Refused(r)
    /\ enqueued[r.pos] = None
    /\ enqueued' = [enqueued EXCEPT ![r.pos] =
                        [peer |-> r.peer, gen |-> r.gen, calls |-> CallsOf(r)]]
    /\ peerCount' = [peerCount EXCEPT ![r.peer] = @ + 1]
    /\ blockQueue' = [blockQueue EXCEPT ![OptimalThread] = Append(@, r.pos)]
    /\ toSignal' = [toSignal EXCEPT ![p] = OptimalThread]

\* EmergeThread::signal, after m_queue_mutex has been released.
Signal(p) ==
    /\ toSignal[p] # None
    /\ notified' = [notified EXCEPT ![toSignal[p]] = TRUE]
    /\ toSignal' = [toSignal EXCEPT ![p] = None]
    /\ UNCHANGED <<queueVars, stopping, serverVars, pc, hand, queueMutex, envMutex,
                   mapVars, want, begun, refcount>>

\* The calls are made, and m_env_mutex is released.
LeaveEnv(p) ==
    /\ envMutex = p /\ Free(p)
    /\ envMutex' = None
    /\ UNCHANGED <<queueVars, notified, stopping, serverVars, pc, hand, queueMutex,
                   mapVars, callVars>>

\* Lua code that p runs with m_env_mutex calls emerge_area: num_blocks and
\* the loop.  The mutex stays with p.
EmergeArea(p, c) ==
    /\ c \notin begun
    /\ begun' = begun \cup {c}
    /\ want' = [want EXCEPT ![p] =
                    [i \in DOMAIN Area[c] |->
                        [pos |-> Area[c][i], peer |-> NoPeer, gen |-> TRUE,
                         force |-> TRUE, call |-> c]]]
    /\ envMutex' = p
    /\ UNCHANGED toSignal

\* Broken variant: the corner of the area is not counted.
NumBlocks_OffByOne(c) == Len(Area[c]) - 1

\* What refcount starts with.
NumBlocks(c) == Len(Area[c])
-----------------------------------------------------------------------------
(***************************************************************************)
(* The server thread, and the end of the server.                           *)
(***************************************************************************)

\* startThreads, in a server step.
StartThreads ==
    /\ pc[Server] = "run" /\ ~ active /\ ~ closing /\ envMutex # Server
    /\ active' = TRUE
    /\ pc' = [p \in Processes |-> IF p = Server THEN "run" ELSE "init"]
    /\ UNCHANGED <<queueVars, notified, stopping, closing, asked, hand, queueMutex,
                   envMutex, mapVars, callVars>>

\* The server thread locks m_env_mutex.
EnterEnv == /\ pc[Server] = "run" /\ ~ closing /\ envMutex = None
            /\ UNCHANGED <<queueVars, notified, stopping, serverVars, pc, hand,
                           queueMutex>>

Ask(b, peer, gen) ==
    /\ EnterEnv
    /\ envMutex' = Server
    /\ want' = [want EXCEPT ![Server] =
                    <<[pos |-> b, peer |-> peer, gen |-> gen, force |-> FALSE,
                       call |-> None]>>]
    /\ UNCHANGED <<mapVars, toSignal, begun, refcount>>

\* GetNextBlocks wants a block for a peer, or a peer digs where no block is.
AskForPeer(b, peer, gen) == /\ gen => memory[b] # "generated"
                            /\ Ask(b, peer, gen)

\* getBlockOrEmerge, for an active block.
AskForServer(b) == memory[b] = "absent" /\ Ask(b, NoPeer, TRUE)

\* A script of the server calls emerge_area.
ServerEmergeArea(c) ==
    /\ EnterEnv
    /\ c \notin Nested
    /\ EmergeArea(Server, c)
    /\ refcount' = [refcount EXCEPT ![c] = NumBlocks(c)]
    /\ UNCHANGED mapVars

\* timerUpdate saves a block that was changed, and drops it.
Unload(b) ==
    /\ EnterEnv
    /\ memory[b] # "absent"
    /\ disk' = [disk EXCEPT ![b] = memory[b]]
    /\ memory' = [memory EXCEPT ![b] = "absent"]
    /\ UNCHANGED <<inProgress, envMutex, callVars>>

RequestShutdown ==
    /\ ~ closing
    /\ closing' = TRUE
    /\ UNCHANGED <<queueVars, notified, stopping, active, asked, pc, hand,
                   queueMutex, envMutex, mapVars, callVars>>

\* The server thread has been joined; stopThreads has nothing to do when no
\* thread was ever started.
BeginStop ==
    /\ pc[Server] = "run" /\ closing /\ envMutex # Server
    /\ Goto(Server, IF active THEN "stop" ELSE "done")
    /\ UNCHANGED <<queueVars, notified, stopping, serverVars, hand, queueMutex,
                   envMutex, mapVars, callVars>>

\* Broken variant: the thread is not signalled.
StopThread_Silent ==
    /\ pc[Server] = "stop" /\ Free(Server)
    /\ asked < NumThreads
    /\ asked' = asked + 1
    /\ stopping' = [stopping EXCEPT ![asked + 1] = TRUE]
    /\ UNCHANGED <<queueVars, notified, active, closing, pc, hand, queueMutex,
                   envMutex, mapVars, callVars>>

\* The first loop of stopThreads: stop() now, signal() in the next step.
StopThread ==
    /\ pc[Server] = "stop" /\ Free(Server)
    /\ asked < NumThreads
    /\ asked' = asked + 1
    /\ stopping' = [stopping EXCEPT ![asked + 1] = TRUE]
    /\ toSignal' = [toSignal EXCEPT ![Server] = asked + 1]
    /\ UNCHANGED <<queueVars, notified, active, closing, pc, hand, queueMutex,
                   envMutex, mapVars, want, begun, refcount>>

\* The second loop waits for the threads.
JoinThreads ==
    /\ pc[Server] = "stop" /\ Free(Server)
    /\ asked = NumThreads
    /\ \A t \in Threads : pc[t] = "done"
    /\ active' = FALSE
    /\ Goto(Server, "done")
    /\ UNCHANGED <<queueVars, notified, stopping, closing, asked, hand, queueMutex,
                   envMutex, mapVars, callVars>>
-----------------------------------------------------------------------------
(***************************************************************************)
(* EmergeThread::run.                                                      *)
(***************************************************************************)

\* t is there, and not inside a script that holds m_env_mutex.
At(t, label) == pc[t] = label /\ envMutex # t

\* initScripting; a thread whose scripts fail stops itself.
InitScripting(t) ==
    /\ At(t, "init")
    /\ \/ UNCHANGED <<stopping, closing>>
       \/ /\ MayFail
          /\ stopping' = [stopping EXCEPT ![t] = TRUE]
          /\ closing' = TRUE
    /\ Goto(t, "pop")
    /\ UNCHANGED <<queueVars, notified, active, asked, hand, queueMutex, envMutex,
                   mapVars, callVars>>

\* popBlockEmergeData, for the head of the thread's queue, which is popped too.
Dequeue(t) ==
    LET b == Head(blockQueue[t])
    IN  /\ blockQueue[t] # <<>>
        /\ blockQueue' = [blockQueue EXCEPT ![t] = Tail(@)]
        /\ enqueued' = [enqueued EXCEPT ![b] = None]
        /\ peerCount' = [peerCount EXCEPT ![enqueued[b].peer] = @ - 1]

InHand(b) == [pos |-> b, gen |-> enqueued[b].gen, calls |-> enqueued[b].calls,
              action |-> "CANCELLED"]

\* popBlockEmerge, after the test of stopRequested; a position over the limit
\* is dropped at once.
PopBlock(t) ==
    /\ At(t, "pop") /\ ~ stopping[t] /\ queueMutex = None
    /\ Dequeue(t)
    /\ LET b == Head(blockQueue[t])
       IN  IF b \in Outside
           THEN UNCHANGED <<pc, hand>>
           ELSE Goto(t, "get") /\ hand' = [hand EXCEPT ![t] = InHand(b)]
    /\ UNCHANGED <<notified, stopping, serverVars, queueMutex, envMutex, mapVars, callVars>>

PopNothing(t) ==
    /\ At(t, "pop") /\ ~ stopping[t] /\ queueMutex = None
    /\ blockQueue[t] = <<>>
    /\ Goto(t, "wait")
    /\ UNCHANGED <<queueVars, notified, stopping, serverVars, hand, queueMutex,
                   envMutex, mapVars, callVars>>

\* Event::wait returns when the event is, or already was, signalled.
Wake(t) ==
    /\ At(t, "wait") /\ notified[t]
    /\ notified' = [notified EXCEPT ![t] = FALSE]
    /\ Goto(t, "pop")
    /\ UNCHANGED <<queueVars, stopping, serverVars, hand, queueMutex, envMutex,
                   mapVars, callVars>>

\* The block of t is done, and its callbacks come next, if there are any.
Completed(t, action) ==
    IF hand[t].calls = <<>>
    THEN Goto(t, "pop") /\ hand' = [hand EXCEPT ![t] = Idle]
    ELSE Goto(t, "report") /\ hand' = [hand EXCEPT ![t].action = action]

\* getBlockOrStartGen is one critical section of m_env_mutex.
Getting(t) == /\ At(t, "get") /\ envMutex = None
              /\ UNCHANGED <<queueVars, notified, stopping, active, asked, queueMutex,
                             envMutex, disk, callVars>>

\* What it finds in memory, or else on disk.
Loaded(b) == IF memory[b] = "absent" THEN disk[b] ELSE memory[b]

GetBlock(t, b) ==
    /\ Getting(t)
    /\ b = hand[t].pos /\ Loaded(b) = "generated"
    /\ Completed(t, IF memory[b] = "absent" THEN "FROM_DISK" ELSE "FROM_MEMORY")
    /\ memory' = [memory EXCEPT ![b] = "generated"]
    /\ UNCHANGED <<closing, inProgress>>

\* Broken variant: a chunk in progress is started again.
MayGenerate_Again(t) == hand[t].gen

\* initBlockMake is called, and the chunk is not in progress.
MayGenerate(t) == hand[t].gen /\ ChunkOf[hand[t].pos] \notin inProgress

\* initBlockMake inserts the chunk, and makes blocks where there are none.
StartGeneration(t, k) ==
    /\ Getting(t)
    /\ k = ChunkOf[hand[t].pos] /\ k \notin Barred
    /\ Loaded(hand[t].pos) # "generated" /\ MayGenerate(t)
    /\ inProgress' = inProgress \cup {k}
    /\ memory' = [b \in Blocks |-> CASE b \notin Around[k] -> memory[b]
                                     [] b \in Around[k] /\ Loaded(b) = "absent" -> "blank"
                                     [] OTHER -> Loaded(b)]
    /\ Goto(t, "make")
    /\ UNCHANGED <<hand, closing>>

\* A chunk over the limit is inserted all the same.
CancelBlock(t, b) ==
    /\ Getting(t)
    /\ b = hand[t].pos /\ Loaded(b) # "generated"
    /\ MayGenerate(t) => ChunkOf[b] \in Barred
    /\ inProgress' = IF MayGenerate(t) THEN inProgress \cup {ChunkOf[b]} ELSE inProgress
    /\ memory' = [memory EXCEPT ![b] = Loaded(b)]
    /\ Completed(t, "CANCELLED")
    /\ UNCHANGED closing

\* A block on disk cannot be read: the exception leaves the loop, and what
\* the thread had in its hand is gone.
LoadFails(t, b) ==
    /\ MayFail
    /\ Getting(t)
    /\ memory[b] = "absent" /\ disk[b] # "absent"
    /\ \/ b = hand[t].pos /\ UNCHANGED inProgress
       \/ /\ Loaded(hand[t].pos) # "generated" /\ MayGenerate(t)
          /\ b \in Around[ChunkOf[hand[t].pos]]
          /\ inProgress' = inProgress \cup {ChunkOf[hand[t].pos]}
    /\ closing' = TRUE
    /\ hand' = [hand EXCEPT ![t] = Idle]
    /\ Goto(t, "exit")
    /\ UNCHANGED memory

\* The mapgen script's on_generated fails: the chunk stays in
\* m_chunks_in_progress.
GenerationFails(t) ==
    /\ MayFail
    /\ At(t, "make")
    /\ Completed(t, "ERRORED")
    /\ closing' = TRUE
    /\ UNCHANGED <<queueVars, notified, stopping, active, asked, queueMutex, envMutex,
                   mapVars, callVars>>

\* A script of the server that t runs with m_env_mutex: it calls emerge_area
\* or not, and an error in it is kept for the server.
RunScript(t) ==
    /\ closing' \in {closing, closing \/ MayFail}
    /\ \/ UNCHANGED <<envMutex, want, toSignal, begun>>
       \/ \E c \in Nested : EmergeArea(t, c)

\* Broken variant: nobody looks whether the block is still in memory.
FinishGen_Unchecked(t, k) ==
    /\ At(t, "make") /\ envMutex = None
    /\ k = ChunkOf[hand[t].pos]
    /\ inProgress' = inProgress \ {k}
    /\ memory' = [b \in Blocks |-> IF ChunkOf[b] = k /\ memory[b] # "absent"
                                   THEN "generated" ELSE memory[b]]
    /\ Completed(t, "GENERATED")
    /\ UNCHANGED <<queueVars, notified, stopping, serverVars, queueMutex, envMutex,
                   disk, callVars>>

\* makeChunk is done, finishGen gives the chunk the blocks that are still in
\* memory, and runs on_generated unless the one asked for is not.
FinishGen(t, k) ==
    /\ At(t, "make") /\ envMutex = None
    /\ k = ChunkOf[hand[t].pos]
    /\ inProgress' = inProgress \ {k}
    /\ memory' = [b \in Blocks |-> IF ChunkOf[b] = k /\ memory[b] # "absent"
                                   THEN "generated" ELSE memory[b]]
    /\ IF memory[hand[t].pos] = "absent"
       THEN Completed(t, "ERRORED") /\ UNCHANGED <<closing, envMutex, callVars>>
       ELSE /\ Completed(t, "GENERATED")
            /\ RunScript(t)
            /\ refcount' = [c \in Calls |-> IF c \in begun' \ begun THEN NumBlocks(c)
                                                                    ELSE refcount[c]]
    /\ UNCHANGED <<queueVars, notified, stopping, active, asked, queueMutex, disk>>

\* LuaEmergeAreaCallback for the first of the callbacks t has to run.
Callback(t) ==
    LET done == Head(hand[t].calls)
    IN  /\ hand[t].calls # <<>> /\ envMutex = None
        /\ RunScript(t)
        /\ refcount' = [c \in Calls |-> CASE c = done -> refcount[c] - 1
                                          [] c \in begun' \ begun -> NumBlocks(c)
                                          [] OTHER -> refcount[c]]

\* runCompletionCallbacks.
RunCallback(t) ==
    /\ At(t, "report")
    /\ Callback(t)
    /\ IF Len(hand[t].calls) = 1
       THEN Goto(t, "pop") /\ hand' = [hand EXCEPT ![t] = Idle]
       ELSE hand' = [hand EXCEPT ![t].calls = Tail(@)] /\ UNCHANGED pc
    /\ UNCHANGED <<queueVars, notified, stopping, active, asked, queueMutex, mapVars>>

\* cancelPendingItems, after the loop.
BeginCancel(t) ==
    /\ (At(t, "pop") /\ stopping[t]) \/ At(t, "exit")
    /\ queueMutex = None
    /\ queueMutex' = t
    /\ Goto(t, "cancel")
    /\ UNCHANGED <<queueVars, notified, stopping, serverVars, hand, envMutex, mapVars,
                   callVars>>

\* Broken variant: the callbacks of a cancelled block are dropped.
CancelNext_Silent(t) ==
    /\ At(t, "cancel") /\ hand[t].calls = <<>>
    /\ Dequeue(t)
    /\ UNCHANGED <<notified, stopping, serverVars, pc, hand, queueMutex, envMutex,
                   mapVars, callVars>>

\* The next block of the queue is cancelled.
CancelNext(t) ==
    /\ At(t, "cancel") /\ hand[t].calls = <<>>
    /\ Dequeue(t)
    /\ hand' = [hand EXCEPT ![t] = InHand(Head(blockQueue[t]))]
    /\ UNCHANGED <<notified, stopping, serverVars, pc, queueMutex, envMutex, mapVars,
                   callVars>>

\* The callbacks of a cancelled block run with m_queue_mutex locked.
CancelCallback(t) ==
    /\ At(t, "cancel")
    /\ Callback(t)
    /\ hand' = [hand EXCEPT ![t].calls = Tail(@)]
    /\ UNCHANGED <<queueVars, notified, stopping, active, asked, pc, queueMutex, mapVars>>

EndCancel(t) ==
    /\ At(t, "cancel") /\ hand[t].calls = <<>>
    /\ blockQueue[t] = <<>>
    /\ hand' = [hand EXCEPT ![t] = Idle]
    /\ queueMutex' = None
    /\ Goto(t, "done")
    /\ UNCHANGED <<queueVars, notified, stopping, serverVars, envMutex, mapVars, callVars>>
-----------------------------------------------------------------------------
Enqueue(p) == \E r \in {want[p][i] : i \in DOMAIN want[p]} :
                EnqueueRefused(p, r) \/ EnqueueJoins(p, r) \/ EnqueueNew(p, r)

ServerStep == \/ StartThreads \/ RequestShutdown \/ BeginStop \/ StopThread \/ JoinThreads
              \/ \E c \in Calls : ServerEmergeArea(c)
              \/ \E b \in Blocks : \/ \E peer \in Peers, gen \in BOOLEAN :
                                          AskForPeer(b, peer, gen)
                                   \/ AskForServer(b)
                                   \/ Unload(b)

ThreadStep(t) == \/ InitScripting(t) \/ PopBlock(t) \/ PopNothing(t) \/ Wake(t)
                 \/ GenerationFails(t) \/ RunCallback(t)
                 \/ BeginCancel(t) \/ CancelNext(t) \/ CancelCallback(t) \/ EndCancel(t)
                 \/ \E b \in Blocks : GetBlock(t, b) \/ CancelBlock(t, b) \/ LoadFails(t, b)
                 \/ \E k \in Chunks : StartGeneration(t, k) \/ FinishGen(t, k)

Next == \/ ServerStep
        \/ \E t \in Threads : ThreadStep(t)
        \/ \E p \in Processes : Enqueue(p) \/ Signal(p) \/ LeaveEnv(p)

Spec == Init /\ [][Next]_vars

(***************************************************************************)
(* Fairness: processes run on, and a thread that waits for a mutex others  *)
(* lock again and again gets it in the end.                                *)
(***************************************************************************)
Fairness ==
    /\ WF_vars(StartThreads)
    /\ WF_vars(BeginStop) /\ WF_vars(StopThread) /\ WF_vars(JoinThreads)
    /\ \A p \in Processes : /\ SF_vars(Enqueue(p))
                             /\ WF_vars(Signal(p)) /\ WF_vars(LeaveEnv(p))
    /\ \A t \in Threads : SF_vars(ThreadStep(t))

FairSpec == Spec /\ Fairness
-----------------------------------------------------------------------------
Occurs(x, seq) == \E i \in DOMAIN seq : seq[i] = x

\* The table and the queues of the threads agree: a position somebody asked
\* for is in one queue, once, and a position in a queue has its data.
QueuesMatchTable ==
    /\ \A t \in Threads : \A i, j \in DOMAIN blockQueue[t] :
            blockQueue[t][i] = blockQueue[t][j] => i = j
    /\ \A b \in Blocks :
            LET holders == {t \in Threads : Occurs(b, blockQueue[t])}
            IN  Cardinality(holders) = IF enqueued[b] = None THEN 0 ELSE 1

\* m_peer_queue_count is the number of positions a peer asked for first, so
\* that it never falls below zero, where popBlockEmergeData asserts.
PeerCountIsExact ==
    \A p \in Peers \cup {NoPeer} :
        peerCount[p] = Cardinality({b \in Blocks : /\ enqueued[b] # None
                                                   /\ enqueued[b].peer = p})

\* However its requests are joined with those of others, a peer fills no
\* more of the queue than the larger of its two limits.
PeerLimitsHold ==
    \A p \in Peers : peerCount[p] <= LimitGenerate \/ peerCount[p] <= LimitDiskonly

\* Two threads never generate one chunk at the same time, and the chunk
\* stays marked as long as one does.
OneGeneratorPerChunk ==
    \A t \in Threads : pc[t] = "make" =>
        /\ ChunkOf[hand[t].pos] \in inProgress
        /\ \A u \in Threads \ {t} : pc[u] = "make" =>
                ChunkOf[hand[u].pos] # ChunkOf[hand[t].pos]

\* A thread never sleeps over a block in its queue, nor over the request to
\* stop: it has been signalled, or is about to be.
NoLostWakeup ==
    \A t \in Threads : pc[t] = "wait" /\ (blockQueue[t] # <<>> \/ stopping[t]) =>
        notified[t] \/ \E p \in Processes : toSignal[p] = t

\* A block that is reported as fetched or generated is one that has been
\* generated, though the server may unload blocks while a thread works.
ReportedIsGenerated ==
    \A t \in Threads :
        pc[t] = "report" /\ hand[t].action \notin {"CANCELLED", "ERRORED"} =>
            "generated" \in {memory[hand[t].pos], disk[hand[t].pos]}

\* The callbacks of c still to be run: in calls of enqueueBlockEmergeEx to
\* come, in the table, and in the hands of the threads.
Pending(c) ==
    Cardinality({w \in Processes \X DOMAIN Area[c] :
                    w[2] \in DOMAIN want[w[1]] /\ want[w[1]][w[2]].call = c})
      + Cardinality({b \in Blocks : enqueued[b] # None /\ Occurs(c, enqueued[b].calls)})
      + Cardinality({t \in Threads : Occurs(c, hand[t].calls)})

\* The state the callbacks of a call share is freed by the last of them:
\* none of them runs after that.
StateOutlivesCallbacks == \A c \in Calls : Pending(c) <= refcount[c]

\* The calls_remaining a callback is told: lua_api.md says it "is the number
\* of callbacks to be expected after this one".
CallsRemaining == \A c \in Calls : refcount[c] = Pending(c)

\* Every call of emerge_area gets all its callbacks, once there are threads.
AreaCompletes ==
    \A c \in Calls : active /\ c \in begun ~> c \in begun /\ refcount[c] = 0

\* The server ends: stopThreads comes back with every callback run.  The
\* comment in ~Server says "Stop all emerge activity and finish off mapgen
\* callbacks".
ShutdownFinishes == closing ~> pc[Server] = "done"
=============================================================================
