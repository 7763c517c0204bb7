----------------------------- MODULE MeshQueue -----------------------------
(***************************************************************************)
(* The client makes the meshes of its blocks in threads of their own       *)
(* (client/mesh_generator_thread.cpp).  The main thread changes the data   *)
(* of a block and then queues it and its neighbours; each entry holds on   *)
(* to the blocks its mesh is made of.  A worker takes an entry, copies the *)
(* data of these blocks without any lock, and hands the mesh back to the   *)
(* main thread, which puts it on the block, lets go of the blocks, and     *)
(* acknowledges what it received to the server.                            *)
(*                                                                         *)
(* A mesh covers one block (client_mesh_chunk = 1, the default).           *)
(***************************************************************************)
EXTENDS Naturals, FiniteSets, Sequences, SequencesExt

CONSTANTS Blocks,       \* positions of blocks
          Near,         \* the neighbours of each block
          Workers,      \* the threads that make meshes
          MaxEvents     \* bound: changes of blocks by the server or the player

ASSUME MeshAssumption == /\ IsFiniteSet(Blocks)
                         /\ IsFiniteSet(Workers) /\ Workers # {}
                         /\ Near \in [Blocks -> SUBSET Blocks]
                         /\ \A a, b \in Blocks : a \in Near[b] => b \in Near[a]
                         /\ MaxEvents \in Nat

VARIABLES
    there,      \* the blocks in the client's memory
    content,    \* which change of it a block holds, 0 before the first
    writing,    \* the block whose data the main thread writes just now, if any
    calls,      \* the calls of addBlock the main thread has yet to make
    defer,      \* whether deferUpdate follows them
    refs,       \* m_refcount of the blocks
    queue,      \* m_queue
    urgents,    \* m_urgents
    inflight,   \* m_inflight_blocks
    pc, task,   \* where each worker is, and what it works at
    sem,        \* whether the semaphore of a worker is posted
    results,    \* m_queue_out_urgent and m_queue_out
    mesh,       \* what the mesh of each block was made of
    owed,       \* blocks received and not yet acknowledged
    stop,       \* "no", "asked" (m_request_stop), "nudged" or "joined"
    shown       \* history: what the last urgent mesh of each block was made of

vars == <<there, content, writing, calls, defer, refs, queue, urgents, inflight,
          pc, task, sem, results, mesh, owed, stop, shown>>

mainVars == <<there, content, writing, calls, defer, mesh, owed, shown, stop>>
workVars == <<queue, urgents, inflight, pc, task>>

Kinds == {"urgent", "normal"}
NoData == [b \in Blocks |-> 0]
NoTask == [p |-> "none", ack |-> FALSE, urgent |-> FALSE, blocks |-> {}, data |-> NoData]

Changes == FoldFunction(LAMBDA m, n : m + n, 0, content)
Around(b) == Near[b] \union {b}
KindOf(q) == IF q.urgent THEN "urgent" ELSE "normal"
Queued == {queue[i].p : i \in DOMAIN queue}
Idle == calls = <<>> /\ ~defer /\ stop = "no"

Init ==
    /\ there = {} /\ content = NoData /\ writing = {}
    /\ calls = <<>> /\ defer = FALSE
    /\ refs = [b \in Blocks |-> 0]
    /\ queue = <<>> /\ urgents = {} /\ inflight = {}
    /\ pc = [w \in Workers |-> "test"] /\ task = [w \in Workers |-> NoTask]
    /\ sem = [w \in Workers |-> FALSE]
    /\ results = [k \in Kinds |-> <<>>]
    /\ mesh = [b \in Blocks |-> NoData]
    /\ shown = mesh /\ owed = {} /\ stop = "no"

(* ------------------------------ main thread ---------------------------- *)

Call(b, ack, urgent) == [p |-> b, ack |-> ack, urgent |-> urgent]

\* updateBlock with update_neighbors: the block first, then its neighbours,
\* which are not acknowledged.
UpdateBlock(b, ack, urgent) ==
    /\ calls' = <<Call(b, ack, urgent)>>
                \o SetToSeq({Call(n, FALSE, urgent) : n \in Near[b] \ {b}})
    /\ defer' = TRUE

\* New data of a block, and the calls that follow; workers may read the block
\* while it is written.
Write(b, ack, urgent) ==
    /\ Idle
    /\ Changes < MaxEvents
    /\ content' = [content EXCEPT ![b] = @ + 1]
    /\ writing' = {b}
    /\ UpdateBlock(b, ack, urgent)
    /\ UNCHANGED <<refs, sem, results, mesh, stop, shown, workVars>>

\* A block from the server, perhaps one the client did not have.
ReceiveBlock(b) ==
    /\ Write(b, TRUE, FALSE)
    /\ there' = there \union {b}
    /\ owed' = owed \union {b}

\* A node of a block changes, by the server or by the player.
ChangeNode(b) ==
    /\ b \in there
    /\ Write(b, FALSE, TRUE)
    /\ UNCHANGED <<there, owed>>

\* Map::timerUpdate: an old block goes unless something holds on to it.
Unload(b) ==
    /\ Idle
    /\ b \in there /\ refs[b] = 0
    /\ there' = there \ {b}
    /\ mesh' = [mesh EXCEPT ![b] = NoData]
    /\ shown' = [shown EXCEPT ![b] = NoData]
    /\ UNCHANGED <<content, writing, calls, defer, refs, sem, results, owed, stop, workVars>>

Grab(bs) == [b \in Blocks |-> IF b \in bs THEN refs[b] + 1 ELSE refs[b]]

\* addBlock for a position that waits already: the entry takes the urgency, the
\* acknowledgement and the blocks that came since.
Refreshed_NoAck(q, c) ==
    [q EXCEPT !.urgent = @ \/ c.urgent, !.blocks = @ \union (Around(c.p) \cap there)]

Refreshed(q, c) ==
    [q EXCEPT !.urgent = @ \/ c.urgent,
              !.ack = @ \/ c.ack,
              !.blocks = @ \union (Around(c.p) \cap there)]

Entry(c) == [p |-> c.p, ack |-> c.ack, urgent |-> c.urgent,
             blocks |-> Around(c.p) \cap there, data |-> NoData]

\* The blocks an entry for position p holds already.
HeldFor_None(p) == {}
HeldFor(p) == UNION {queue[i].blocks : i \in {j \in DOMAIN queue : queue[j].p = p}}

AddBlock ==
    /\ calls # <<>>
    /\ LET c == Head(calls) IN
       IF c.p \notin there
       THEN UNCHANGED <<queue, urgents, refs>>
       ELSE /\ urgents' = IF c.urgent THEN urgents \union {c.p} ELSE urgents
            /\ queue' = IF c.p \in Queued
                        THEN [i \in DOMAIN queue |-> IF queue[i].p = c.p
                                                     THEN Refreshed(queue[i], c) ELSE queue[i]]
                        ELSE Append(queue, Entry(c))
            /\ refs' = Grab((Around(c.p) \cap there) \ HeldFor(c.p))
    /\ calls' = Tail(calls)
    /\ writing' = {}
    /\ UNCHANGED <<there, content, defer, inflight, pc, task, sem, results, mesh,
                   owed, stop, shown>>

DeferUpdate ==
    /\ calls = <<>> /\ defer
    /\ defer' = FALSE
    /\ sem' = [w \in Workers |-> TRUE]
    /\ UNCHANGED <<there, content, writing, calls, refs, results, mesh, owed, stop,
                   shown, workVars>>

Drop(bs) == [b \in Blocks |-> IF b \in bs THEN refs[b] - 1 ELSE refs[b]]

\* getNextResult: the urgent ones first.
NextKind == IF results["urgent"] # <<>> THEN "urgent" ELSE "normal"

\* Client::step takes one mesh: it replaces the one the block has, the server
\* gets its acknowledgement, and the blocks are let go.
ApplyResult ==
    /\ Idle
    /\ results[NextKind] # <<>>
    /\ LET r == Head(results[NextKind]) IN
       /\ results' = [results EXCEPT ![NextKind] = Tail(@)]
       /\ mesh' = [mesh EXCEPT ![r.p] = r.data]
       /\ owed' = IF r.ack THEN owed \ {r.p} ELSE owed
       /\ refs' = Drop(r.blocks)
       /\ shown' = IF r.urgent THEN [shown EXCEPT ![r.p] = r.data] ELSE shown
    /\ UNCHANGED <<there, content, writing, calls, defer, sem, stop, workVars>>

(* Client::Stop and ~Client: ask the threads to stop, wait for them, and give *)
(* up what is left.                                                          *)

RequestStop ==
    /\ Idle
    /\ stop' = "asked"
    /\ UNCHANGED <<there, content, writing, calls, defer, refs, sem, results, mesh, owed,
                   shown, workVars>>

\* A thread that sleeps has to be woken to see the request.
Nudge ==
    /\ stop = "asked"
    /\ stop' = "nudged"
    /\ sem' = [w \in Workers |-> TRUE]
    /\ UNCHANGED <<there, content, writing, calls, defer, refs, results, mesh, owed, shown,
                   workVars>>

HoldersIn(s, b) == Cardinality({i \in DOMAIN s : b \in s[i].blocks})
HeldByResults(b) == HoldersIn(results["urgent"], b) + HoldersIn(results["normal"], b)

Join ==
    /\ stop = "nudged"
    /\ \A w \in Workers : pc[w] = "end"
    /\ stop' = "joined"
    /\ refs' = [b \in Blocks |-> refs[b] - HeldByResults(b) - HoldersIn(queue, b)]
    /\ results' = [k \in Kinds |-> <<>>]
    /\ queue' = <<>>
    /\ UNCHANGED <<there, content, writing, calls, defer, urgents, inflight, pc, task, sem,
                   mesh, owed, shown>>

(* -------------------------------- workers ------------------------------ *)

Goto(w, from, to) == pc[w] = from /\ pc' = [pc EXCEPT ![w] = to]

\* UpdateThread::run: sleep until posted, then work until there is nothing to do.
Test(w) ==
    /\ Goto(w, "test", IF stop = "no" THEN "wait" ELSE "end")
    /\ UNCHANGED <<mainVars, refs, queue, urgents, inflight, task, sem, results>>

Wait(w) ==
    /\ Goto(w, "wait", "check")
    /\ sem[w]
    /\ sem' = [sem EXCEPT ![w] = FALSE]
    /\ UNCHANGED <<mainVars, refs, queue, urgents, inflight, task, results>>

Check(w) ==
    /\ Goto(w, "check", IF stop = "no" THEN "pop" ELSE "end")
    /\ UNCHANGED <<mainVars, refs, queue, urgents, inflight, task, sem, results>>

\* The entries pop may take: urgent ones if there are any, and none of a block
\* whose mesh is in the making.
Takeable_Twice == {i \in DOMAIN queue : urgents = {} \/ queue[i].p \in urgents}

Takeable ==
    {i \in DOMAIN queue : /\ urgents = {} \/ queue[i].p \in urgents
                          /\ queue[i].p \notin inflight}

ErasedFrom_Never(u, p) == u
ErasedFrom(u, p) == u \ {p}

Pop(w) ==
    /\ \E i \in Takeable :
          /\ \A j \in Takeable : i <= j
          /\ queue' = RemoveAt(queue, i)
          /\ urgents' = ErasedFrom(urgents, queue[i].p)
          /\ inflight' = inflight \union {queue[i].p}
          /\ task' = [task EXCEPT ![w] = queue[i]]
    /\ Goto(w, "pop", "fill")
    /\ UNCHANGED <<mainVars, refs, sem, results>>

PopNothing(w) ==
    /\ Takeable = {}
    /\ Goto(w, "pop", "test")
    /\ UNCHANGED <<mainVars, refs, queue, urgents, inflight, task, sem, results>>

\* fillDataFromMapBlocks takes no lock: of a block that is being written it may
\* copy what it held before.
Readable(b) == IF b \in writing THEN {content[b] - 1, content[b]} ELSE {content[b]}

Fill(w) ==
    /\ Goto(w, "fill", "put")
    /\ \E d \in [Blocks -> 0 .. MaxEvents] :
          /\ \A b \in Blocks : IF b \in task[w].blocks THEN d[b] \in Readable(b) ELSE d[b] = 0
          /\ task' = [task EXCEPT ![w].data = d]
    /\ UNCHANGED <<mainVars, refs, queue, urgents, inflight, sem, results>>

\* The mesh is made and handed to the main thread.
PutResult(w) ==
    /\ Goto(w, "put", "done")
    /\ results' = [results EXCEPT ![KindOf(task[w])] = Append(@, task[w])]
    /\ UNCHANGED <<mainVars, refs, queue, urgents, inflight, task, sem>>

Done(w) ==
    /\ Goto(w, "done", "pop")
    /\ inflight' = inflight \ {task[w].p}
    /\ task' = [task EXCEPT ![w] = NoTask]
    /\ UNCHANGED <<mainVars, refs, queue, urgents, sem, results>>

Work(w) == \/ Test(w) \/ Wait(w) \/ Check(w) \/ Pop(w) \/ PopNothing(w)
           \/ Fill(w) \/ PutResult(w) \/ Done(w)

MainStep == AddBlock \/ DeferUpdate \/ ApplyResult \/ Nudge \/ Join

Next ==
    \/ MainStep
    \/ RequestStop
    \/ \E b \in Blocks : ReceiveBlock(b) \/ ChangeNode(b) \/ Unload(b)
    \/ \E w \in Workers : Work(w)

Spec == Init /\ [][Next]_vars

(* ------------------------------ properties ----------------------------- *)

Calls == [p : Blocks, ack : BOOLEAN, urgent : BOOLEAN]
Data == [Blocks -> 0 .. MaxEvents]
Entries == [p : Blocks, ack : BOOLEAN, urgent : BOOLEAN, blocks : SUBSET Blocks, data : Data]

\* Type invariant: calls, entries, tasks and results are made of the blocks
\* there may be, and a worker has a task between pop and done.
TypeOK ==
    /\ there \subseteq Blocks /\ content \in [Blocks -> Nat] /\ writing \subseteq Blocks
    /\ calls \in Seq(Calls) /\ defer \in BOOLEAN
    /\ refs \in [Blocks -> Int]
    /\ queue \in Seq(Entries) /\ urgents \subseteq Blocks /\ inflight \subseteq Blocks
    /\ pc \in [Workers -> {"test", "wait", "check", "pop", "fill", "put", "done", "end"}]
    /\ task \in [Workers -> Entries \union {NoTask}]
    /\ \A w \in Workers : pc[w] \in {"fill", "put", "done"} => task[w] \in Entries
    /\ sem \in [Workers -> BOOLEAN]
    /\ results \in [Kinds -> Seq(Entries)]
    /\ mesh \in [Blocks -> Data] /\ shown \in [Blocks -> Data]
    /\ owed \subseteq Blocks /\ stop \in {"no", "asked", "nudged", "joined"}

\* The workers that hold on to the blocks of their task.
Holding == {w \in Workers : pc[w] \in {"fill", "put"}}

\* The count of references of a block is the number of entries, tasks and
\* results made of it, and what they are made of is in memory: no worker reads
\* a block that was unloaded, none is locked for ever, and none is when the
\* client has ended.
RefsExact ==
    \A b \in Blocks :
        /\ refs[b] = HoldersIn(queue, b) + HeldByResults(b)
                     + Cardinality({w \in Holding : b \in task[w].blocks})
        /\ refs[b] > 0 => b \in there

\* Nothing is under way for a block.
Settled(b) ==
    /\ \A i \in DOMAIN calls : calls[i].p # b
    /\ b \notin Queued \union inflight
    /\ \A k \in Kinds : \A i \in DOMAIN results[k] : results[k][i].p # b

\* An urgent mesh goes past normal ones that were made before it; a block they
\* come to afterwards shows an older state.
Overtaken(b) == \E a \in Around(b) \cap there : mesh[b][a] < shown[b][a]

\* When nothing is under way for a block, its mesh shows what it and its
\* neighbours hold now, however writes, copies and results cross each other,
\* unless an urgent mesh went past an older one.
MeshIsCurrent ==
    \A b \in there : stop = "no" /\ Settled(b) /\ ~Overtaken(b) =>
        \A a \in Around(b) \cap there : mesh[b][a] = content[a]

\* A block that was received and not yet acknowledged has its acknowledgement
\* in a call, an entry, a task or a result, also when its entry is refreshed,
\* until the client ends: the server never waits for one that is lost.
Promised(b) ==
    LET In(s) == \E i \in DOMAIN s : s[i].p = b /\ s[i].ack IN
    \/ In(calls) \/ In(queue) \/ \E k \in Kinds : In(results[k])
    \/ \E w \in Holding : task[w].p = b /\ task[w].ack

AcksAreKept == stop # "joined" => \A b \in owed : Promised(b)

\* Entries that wait have a worker that will look for them, though workers that
\* find only urgent entries in the making go to sleep; and a worker that sleeps
\* when the client ends has been posted.
Awake(w) == pc[w] \in {"check", "pop", "fill", "put", "done"} \/ (sem[w] /\ pc[w] # "end")

NobodySleepsOverWork ==
    /\ stop = "no" /\ ~defer /\ queue # <<>> => \E w \in Workers : Awake(w)
    /\ stop = "nudged" => \A w \in Workers : pc[w] = "wait" => sem[w]
=============================================================================
