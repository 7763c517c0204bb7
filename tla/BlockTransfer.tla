---------------------------- MODULE BlockTransfer ----------------------------
(***************************************************************************)
(* How one client gets the blocks of the map and keeps them up to date:    *)
(* RemoteClient (GetNextBlocks, SentBlock, GotBlock, SetBlockNotSent), the *)
(* map edit queue of the server, and the client that receives, confirms,   *)
(* unloads and predicts.                                                   *)
(*                                                                         *)
(* A block is one node: its content is the number of the last edit of it.  *)
(* Packets keep their order inside a channel: blocks and the answers to    *)
(* them use channel 2, single nodes and interactions channel 0.  What      *)
(* travels is kept per block, as no handler relates two blocks.            *)
(***************************************************************************)
EXTENDS Integers, Sequences, FiniteSets

CONSTANTS
    Blocks,         \* the blocks in range and in sight of the player
    Dist,           \* their distance from the player, in blocks
    Order,          \* the blocks as GetNextBlocks visits them
    FullD,          \* full_d_max
    MaxSimul,       \* max_simultaneous_block_sends_per_client
    MaxTotal,       \* max_blocks_to_send
    MaxEvents       \* bound: edits, digs, turns, unloads and blocks sent by scripts

ASSUME TransferAssumption ==
    /\ FullD \in Nat /\ MaxSimul \in Nat \ {0} /\ MaxTotal \in Nat \ {0}
    /\ Dist \in [Blocks -> 0 .. FullD]
    /\ Order \in Seq(Blocks) /\ \A b \in Blocks : \E i \in DOMAIN Order : Order[i] = b
    /\ \A i, j \in DOMAIN Order : i < j => Dist[Order[i]] <= Dist[Order[j]]
    /\ MaxEvents \in Nat

VARIABLES
    content,        \* per block: the last edit of it, 0 before the first
    generated,      \* the blocks that are in memory and generated
    asked,          \* the blocks in the emerge queue
    hidden,         \* the blocks isBlockOccluded calls occluded now
    edits,          \* m_unsent_map_edit_queue, per block
    rc,             \* the RemoteClient
    blockData,      \* to the client, channel 2: contents of BLOCKDATA
    nodeChanges,    \* to the client, channel 0: edits of ADDNODE, REMOVENODE
    answers,        \* to the server, channel 2: GOTBLOCKS, DELETEDBLOCKS
    interacts,      \* to the server, channel 0: edits of INTERACT
    copy,           \* the client's blocks
    unacked,        \* per block: GOTBLOCKS that are due when its mesh is made
    used,           \* number of such events so far
    crossed         \* history: blocks with packets on both channels at a time

serverVars == <<content, generated, asked, hidden, edits>>
channels   == <<blockData, nodeChanges, answers, interacts>>
clientVars == <<copy, unacked>>
vars == <<serverVars, rc, channels, clientVars, used, crossed>>

Missing == -1                   \* in copy: the client does not have the block
Other   == 0                    \* in edits: MEET_OTHER, the whole block changed
Edits   == 1 .. MaxEvents
Event    == used < MaxEvents /\ used' = used + 1

Init ==
    /\ content = [b \in Blocks |-> 0] /\ generated = {} /\ asked = {}
    /\ hidden \in SUBSET Blocks
    /\ edits = [b \in Blocks |-> <<>>]
    /\ rc = [sent |-> {}, sending |-> {}, modified |-> {}, culled |-> {},
             nearest |-> 0, paused |-> FALSE]
    /\ blockData   = [b \in Blocks |-> <<>>] /\ answers   = [b \in Blocks |-> <<>>]
    /\ nodeChanges = [b \in Blocks |-> <<>>] /\ interacts = [b \in Blocks |-> <<>>]
    /\ copy = [b \in Blocks |-> Missing] /\ unacked = [b \in Blocks |-> 0]
    /\ used = 0
    /\ crossed = {}
-----------------------------------------------------------------------------
(***************************************************************************)
(* RemoteClient: the sets sent, sending and modified.                      *)
(***************************************************************************)
\* Broken variant: a block on its way is left alone.
SetBlocksNotSent_OnlySent(r, bs) ==
    [r EXCEPT !.paused = FALSE, !.sent = @ \ bs,
              !.modified = @ \cup (bs \cap r.sent)]

SetBlocksNotSent(r, bs) ==
    [r EXCEPT !.paused = FALSE,
              !.sending = @ \ bs,
              !.sent = @ \ bs,
              !.modified = @ \cup (bs \cap (r.sending \cup r.sent))]

ResendBlockIfOnWire(r, b) ==
    IF b \in r.sending THEN SetBlocksNotSent(r, {b}) ELSE r

SentBlocks(r, bs) == [r EXCEPT !.sending = @ \cup bs]

GotBlock(r, b) ==
    IF b \in r.sending
    THEN [r EXCEPT !.sending = @ \ {b}, !.sent = @ \cup {b}]
    ELSE r                                      \* m_excess_gotblocks
-----------------------------------------------------------------------------
(***************************************************************************)
(* GetNextBlocks.  It visits the blocks by distance, from the one the last *)
(* search ended at, at most two distances further, and stops at the first  *)
(* block there is no room for, or that the emerge queue refuses.           *)
(***************************************************************************)
MinOf(S) == CHOOSE x \in S : \A y \in S : x <= y

Start(r) ==
    IF r.nearest = 0 THEN 0
    ELSE MinOf({r.nearest} \cup {Dist[b] : b \in r.modified})

LastD(start) == IF FullD > start + 2 THEN start + 2 ELSE FullD

\* The places of Order that a search from distance start looks at.
Seen(start) == {i \in DOMAIN Order : Dist[Order[i]] \in start .. LastD(start)}

\* Those not dealt with before, those of them it wants, those it may send.
Open(r, start) ==
    {i \in Seen(start) : Order[i] \notin r.sending \cup r.sent \cup r.culled}
Wanted(r, start) == {i \in Open(r, start) : Order[i] \notin hidden}
Ready(r, start)  == {i \in Wanted(r, start) : Order[i] \in generated}
Before(S, end) == {i \in S : i < end}

NoRoom(r, start, i) ==
    Cardinality(r.sending) + Cardinality(Before(Ready(r, start), i)) >= MaxSimul
Refused(r, start, accepts, i) ==
    i \in Wanted(r, start) /\ Order[i] \notin generated \cup accepts
Stops(r, start, accepts, i) == NoRoom(r, start, i) \/ Refused(r, start, accepts, i)

\* end is where the search stops, or comes after all places.
EndsAt(r, start, accepts, end) ==
    /\ \/ end = Len(Order) + 1
       \/ end \in Seen(start) /\ Stops(r, start, accepts, end)
    /\ \A i \in Before(Seen(start), end) : ~Stops(r, start, accepts, i)

\* How far the search got, whether a refusal ended it, and whether there is
\* nothing left to look for.
EndD(start, end) == IF end \in Seen(start) THEN Dist[Order[end]] ELSE LastD(start) + 1
GaveUp(r, start, end) == end \in Seen(start) /\ ~NoRoom(r, start, end)
Done(r, start, end, emerged) ==
    emerged = {} /\ ~GaveUp(r, start, end) /\ EndD(start, end) > FullD

\* The distance the next search starts from.
NextNearest(r, start, end, emerged, chosen) ==
    LET At(S) == Dist[Order[MinOf(S)]]
    IN  IF emerged # {} THEN At(emerged)
        ELSE IF GaveUp(r, start, end) THEN EndD(start, end)
        ELSE IF Done(r, start, end, emerged) THEN 0
        ELSE IF chosen # {} THEN At(chosen) ELSE EndD(start, end)

Occluded(r, start, end) ==
    {Order[i] : i \in Before(Open(r, start) \ Wanted(r, start), end)}

\* The RemoteClient after a search that has found the places in chosen and put
\* those in emerged into the emerge queue.
Searched(r, start, end, emerged, chosen) ==
    LET nearest == NextNearest(r, start, end, emerged, chosen)
    IN  [r EXCEPT !.modified = {}, !.nearest = nearest,
                  !.paused = Done(r, start, end, emerged),
                  !.culled = IF nearest # start THEN {}
                             ELSE @ \cup Occluded(r, start, end)]

\* What Server::SendBlocks sends of the blocks found: the first ones, up to
\* the limit for all clients.
Picked(r, chosen) ==
    {Order[i] : i \in {j \in chosen :
        Cardinality(r.sending) + Cardinality({k \in chosen : k < j}) < MaxTotal}}

\* BLOCKDATA for the blocks bs.  A single node on its way crosses it.
SendBlockNoLock(bs) ==
    /\ blockData' = [b \in Blocks |->
            IF b \in bs THEN Append(blockData[b], content[b]) ELSE blockData[b]]
    /\ crossed' = (crossed \ bs) \cup {b \in bs : nodeChanges[b] # <<>>}

\* Server::SendBlocks, when the emerge queue takes the blocks in accepts.
SendBlocks(accepts) ==
    /\ ~rc.paused /\ Cardinality(rc.sending) < MaxSimul
    /\ \E start \in {Start(rc)}, end \in 1 .. Len(Order) + 1 :
        LET ready   == Before(Ready(rc, start), end)
            emerged == Before(Wanted(rc, start), end) \ ready
            out     == Picked(rc, ready)
        IN  /\ EndsAt(rc, start, accepts, end)
            /\ rc' = SentBlocks(Searched(rc, start, end, emerged, ready), out)
            /\ asked' = asked \cup {Order[i] : i \in emerged}
            /\ SendBlockNoLock(out)
    /\ UNCHANGED <<content, generated, hidden, edits, nodeChanges, answers,
                   interacts, clientVars, used>>

\* m_nothing_to_send_pause_timer, or m_map_send_completion_timer, runs out.
PauseEnds ==
    /\ rc.paused
    /\ rc' = [rc EXCEPT !.paused = FALSE]
    /\ UNCHANGED <<serverVars, channels, clientVars, used, crossed>>

\* The player looks or walks on, and other blocks are occluded: a large
\* turn starts the search again.
Turn ==
    /\ Event
    /\ hidden' \in SUBSET Blocks
    /\ \E n \in {0, rc.nearest} : rc' = [rc EXCEPT !.nearest = n]
    /\ UNCHANGED <<content, generated, asked, edits, channels, clientVars, crossed>>

\* Server::SendBlock, for a script: nothing remembers that b is on its way.
SendBlock(b) ==
    /\ Event
    /\ b \in generated \ rc.sent
    /\ SendBlockNoLock({b})
    /\ UNCHANGED <<serverVars, rc, nodeChanges, answers, interacts, clientVars>>
-----------------------------------------------------------------------------
(***************************************************************************)
(* The map and its edit queue.                                             *)
(***************************************************************************)
\* An EmergeThread has got b ready and reports it changed.
EmergeFinished(b) ==
    /\ b \in asked
    /\ asked' = asked \ {b} /\ generated' = generated \cup {b}
    /\ edits' = [edits EXCEPT ![b] = Append(@, Other)]
    /\ UNCHANGED <<content, hidden, rc, channels, clientVars, used, crossed>>

\* A script changes a node (Map::addNodeWithEvent) or, with whole, a volume.
Edit(b, whole) ==
    /\ Event
    /\ b \in generated
    /\ content' = [content EXCEPT ![b] = used']
    /\ edits' = [edits EXCEPT ![b] = Append(@, IF whole THEN Other ELSE used')]
    /\ UNCHANGED <<generated, asked, hidden, rc, channels, clientVars, crossed>>

Events == UNION {{b} \X DOMAIN edits[b] : b \in Blocks}

\* Nearer than 30 nodes, or 5 when many edits are queued.
Near(b) == Dist[b] <= IF Cardinality(Events) >= 4 THEN 0 ELSE 1

\* The edits of b that are sent as single nodes: those before the first
\* event that makes b not sent.
Singles(b) ==
    LET first == {i \in DOMAIN edits[b] : \A j \in 1 .. i : edits[b][j] # Other}
    IN  IF b \in rc.sent /\ Near(b)
        THEN SubSeq(edits[b], 1, Cardinality(first)) ELSE <<>>

\* The loop over m_unsent_map_edit_queue in Server::AsyncRunStep, with
\* sendNodeChangePkt.  A block on its way crosses the single nodes.
SendEdits ==
    /\ Events # {}
    /\ nodeChanges' = [b \in Blocks |-> nodeChanges[b] \o Singles(b)]
    /\ rc' = LET bs == {b \in Blocks : Len(Singles(b)) < Len(edits[b])}
             IN  IF bs = {} THEN rc ELSE SetBlocksNotSent(rc, bs)
    /\ edits' = [b \in Blocks |-> <<>>]
    /\ crossed' = crossed \cup
            {b \in Blocks : Singles(b) # <<>> /\ blockData[b] # <<>>}
    /\ UNCHANGED <<content, generated, asked, hidden, blockData, answers,
                   interacts, clientVars, used>>
-----------------------------------------------------------------------------
(***************************************************************************)
(* Packets the server receives.                                            *)
(***************************************************************************)
\* handleCommand_GotBlocks and handleCommand_DeletedBlocks.
ReceiveAnswer(b) ==
    /\ answers[b] # <<>>
    /\ answers' = [answers EXCEPT ![b] = Tail(@)]
    /\ rc' = IF Head(answers[b]) = "got" THEN GotBlock(rc, b)
             ELSE SetBlocksNotSent(rc, {b})
    /\ UNCHANGED <<serverVars, blockData, nodeChanges, interacts, clientVars,
                   used, crossed>>

\* handleCommand_Interact, INTERACT_DIGGING_COMPLETED: the dig is done ...
AcceptDig(b) ==
    /\ interacts[b] # <<>>
    /\ interacts' = [interacts EXCEPT ![b] = Tail(@)]
    /\ content' = [content EXCEPT ![b] = Head(interacts[b])]
    /\ edits' = [edits EXCEPT ![b] = Append(@, Head(interacts[b]))]
    /\ rc' = ResendBlockIfOnWire(rc, b)
    /\ UNCHANGED <<generated, asked, hidden, blockData, nodeChanges, answers,
                   clientVars, used, crossed>>

\* Broken variant: the client is left with what it predicted.
RefuseDig_Silent(b) ==
    /\ interacts[b] # <<>>
    /\ interacts' = [interacts EXCEPT ![b] = Tail(@)]
    /\ UNCHANGED <<serverVars, rc, blockData, nodeChanges, answers, clientVars,
                   used, crossed>>

\* ... or refused, and the block is sent again to revert it on the client.
RefuseDig(b) ==
    /\ interacts[b] # <<>>
    /\ interacts' = [interacts EXCEPT ![b] = Tail(@)]
    /\ rc' = SetBlocksNotSent(rc, {b})
    /\ UNCHANGED <<serverVars, blockData, nodeChanges, answers, clientVars,
                   used, crossed>>
-----------------------------------------------------------------------------
(***************************************************************************)
(* The client.                                                             *)
(***************************************************************************)
\* handleCommand_BlockData.
ReceiveBlock(b) ==
    /\ blockData[b] # <<>>
    /\ blockData' = [blockData EXCEPT ![b] = Tail(@)]
    /\ copy' = [copy EXCEPT ![b] = Head(blockData[b])]
    /\ unacked' = [unacked EXCEPT ![b] = @ + 1]
    /\ UNCHANGED <<serverVars, rc, nodeChanges, answers, interacts, used, crossed>>

\* handleCommand_AddNode and handleCommand_RemoveNode: nothing happens to a
\* block the client does not have.
ReceiveNode(b) ==
    /\ nodeChanges[b] # <<>>
    /\ nodeChanges' = [nodeChanges EXCEPT ![b] = Tail(@)]
    /\ copy' = [copy EXCEPT ![b] = IF @ = Missing THEN @ ELSE Head(nodeChanges[b])]
    /\ UNCHANGED <<serverVars, rc, blockData, answers, interacts, unacked, used,
                   crossed>>

\* Client::step takes a mesh that has blocks to confirm.
Acknowledge(b) ==
    /\ unacked[b] > 0
    /\ unacked' = [unacked EXCEPT ![b] = @ - 1]
    /\ answers' = [answers EXCEPT ![b] = Append(@, "got")]
    /\ UNCHANGED <<serverVars, rc, blockData, nodeChanges, interacts, copy, used,
                   crossed>>

\* Broken variant: the server is not told.
Unload_Silent(b) ==
    /\ Event
    /\ copy[b] # Missing /\ unacked[b] = 0
    /\ copy' = [copy EXCEPT ![b] = Missing]
    /\ UNCHANGED <<serverVars, rc, channels, unacked, crossed>>

\* Map::timerUpdate on the client: no block that a mesh task holds.
Unload(b) ==
    /\ Event
    /\ copy[b] # Missing /\ unacked[b] = 0
    /\ copy' = [copy EXCEPT ![b] = Missing]
    /\ answers' = [answers EXCEPT ![b] = Append(@, "deleted")]
    /\ UNCHANGED <<serverVars, rc, blockData, nodeChanges, interacts, unacked,
                   crossed>>

\* The player has dug a node: the client removes it before it asks.
Dig(b) ==
    /\ Event
    /\ copy[b] # Missing /\ Dist[b] <= 1
    /\ copy' = [copy EXCEPT ![b] = used']
    /\ interacts' = [interacts EXCEPT ![b] = Append(@, used')]
    /\ UNCHANGED <<serverVars, rc, blockData, nodeChanges, answers, unacked, crossed>>
-----------------------------------------------------------------------------
BlockStep(b) ==
    \/ EmergeFinished(b) \/ ReceiveAnswer(b) \/ AcceptDig(b) \/ RefuseDig(b)
    \/ ReceiveBlock(b) \/ ReceiveNode(b) \/ Acknowledge(b)

Next ==
    \/ \E accepts \in SUBSET (Blocks \ generated) : SendBlocks(accepts)
    \/ PauseEnds \/ SendEdits \/ Turn
    \/ \E b \in Blocks :
        \/ BlockStep(b)
        \/ SendBlock(b)
        \/ \E whole \in BOOLEAN : Edit(b, whole)
        \/ Unload(b)
        \/ Dig(b)

Spec == Init /\ [][Next]_vars

\* The server's steps, its emerge threads, the client's steps and its mesh
\* threads go on, and what travels arrives.  The emerge queue refuses blocks
\* only while it is full, and it is always served: in the end it takes all.
FairSpec ==
    /\ Spec
    /\ WF_vars(PauseEnds) /\ WF_vars(SendEdits)
    /\ WF_vars(SendBlocks(Blocks \ generated))
    /\ WF_vars(\E b \in Blocks : BlockStep(b))
-----------------------------------------------------------------------------
(***************************************************************************)
(* Properties.                                                             *)
(***************************************************************************)
\* Type invariant: what the server, the RemoteClient, the channels and the
\* client hold are blocks and edits, no block is both sent and on its way,
\* and the search never starts beyond the range.
TypeOK ==
    /\ content \in [Blocks -> 0 .. MaxEvents] /\ used \in 0 .. MaxEvents
    /\ generated \subseteq Blocks /\ asked \subseteq Blocks
    /\ hidden \subseteq Blocks /\ crossed \subseteq Blocks
    /\ rc \in [sent : SUBSET Blocks, sending : SUBSET Blocks,
               modified : SUBSET Blocks, culled : SUBSET Blocks,
               nearest : 0 .. FullD, paused : BOOLEAN]
    /\ rc.sent \cap rc.sending = {}
    /\ edits \in [Blocks -> Seq(0 .. MaxEvents)]
    /\ blockData \in [Blocks -> Seq(0 .. MaxEvents)]
    /\ nodeChanges \in [Blocks -> Seq(Edits)]
    /\ interacts \in [Blocks -> Seq(Edits)]
    /\ answers \in [Blocks -> Seq({"got", "deleted"})]
    /\ copy \in [Blocks -> {Missing} \cup 0 .. MaxEvents]
    /\ unacked \in [Blocks -> Nat]

DeletionOnItsWay(b) == \E i \in DOMAIN answers[b] : answers[b][i] = "deleted"

\* Nothing that could change what the client has of b is on its way or due.
Quiet(b) ==
    /\ blockData[b] = <<>> /\ nodeChanges[b] = <<>> /\ interacts[b] = <<>>
    /\ edits[b] = <<>> /\ ~DeletionOnItsWay(b)

\* No block is lost on the way.  One the server takes for sent or sending is
\* with the client, or on its way there, or the client's word that it has
\* unloaded it is on its way back: otherwise GetNextBlocks would never send it
\* again, and single nodes of it would be ignored.  And one that takes up room
\* in sending will be answered, so that the room comes back.
SentReaches ==
    /\ \A b \in rc.sent \cup rc.sending :
          copy[b] # Missing \/ blockData[b] # <<>> \/ DeletionOnItsWay(b)
    /\ \A b \in rc.sending :
          blockData[b] # <<>> \/ unacked[b] > 0 \/ answers[b] # <<>>

\* What the server thinks the client has is what the client has: when
\* nothing is on its way, a block marked as sent is the server's, also after
\* edits, unloads, digs refused and blocks that scripts sent, unless packets
\* about it were on their way on both channels at a time.
CurrentUnlessCrossed ==
    \A b \in rc.sent \ crossed : Quiet(b) => copy[b] = content[b]

\* The same without the exception, as the comment on the channels wants it:
\* packets that operate on the same objects are required to be in the same
\* channel, so their order is the one they were sent in.
SentIsCurrent ==
    \A b \in rc.sent : Quiet(b) => copy[b] = content[b]

\* When nothing changes any more the client ends up with the present
\* content of every block that is not hidden.
ClientCatchesUp ==
    \A b \in Blocks : <>[](b \notin hidden \cup crossed => copy[b] = content[b])
=============================================================================
