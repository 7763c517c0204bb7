----------------------------- MODULE MtpChannel -----------------------------
(***************************************************************************)
(* One direction of one channel of a connection: the reliable half of the  *)
(* send thread of one host, a network that loses, repeats and reorders     *)
(* packets, the reliable half of the receive thread of the other host, and *)
(* the acknowledgements that travel back.                                  *)
(*                                                                         *)
(* A packet is its place n in the stream of its channel; its bytes are     *)
(* numbered[n], its u16 number is SeqNumOf(n), and the code sees nothing   *)
(* else of n.  The threads of a host share the buffers of the channel      *)
(* under their mutexes, so one iteration of a loop over a buffer is one    *)
(* step here; the numbering of a command reads the sent list once per      *)
(* chunk, but an acknowledgement between two reads only helps, and the     *)
(* outcome is the one of a single step taken at the last read.             *)
(***************************************************************************)
EXTENDS ReliableBuffer

CONSTANTS
    NumMessages,  \* the application sends the messages 1 .. NumMessages
    Chunks,       \* Chunks[m]: the packets makeAutoSplitPacket cuts m into
    Windows,      \* the window sizes UpdateTimers may choose
    StartWindow,  \* START_RELIABLE_WINDOW_SIZE
    MaxRequeued,  \* m_max_packets_requeued
    MaxPings      \* bound: the pings of one behaviour; 0 off channel 0

ASSUME ChannelAssumption == /\ NumMessages \in Nat
                            /\ Chunks \in [1 .. NumMessages -> Nat \ {0}]
                            /\ Windows \subseteq 1 .. MaxWindow
                            /\ StartWindow \in Windows
                            /\ MaxRequeued \in Nat \ {0}
                            /\ MaxPings \in Nat

VARIABLES
    accepted,         \* messages the application handed over so far
    queuedCommands,   \* Channel::queued_commands, messages without packets
    queuedReliables,  \* Channel::queued_reliables, packets not sent yet
    sent,             \* Channel::outgoing_reliables_sent
    nextOut,          \* Channel::next_outgoing_seqnum, as a place
    window,           \* Channel::m_window_size
    pings,            \* pings sent so far
    numbered,         \* what the packet with a number carries
    wire,             \* packets in the network
    acks,             \* acknowledgements in the network, or on their way
    nextIn,           \* Channel::next_incoming_seqnum, as a place
    incoming,         \* Channel::incoming_reliables
    splits,           \* Channel::incoming_splits, chunks of incomplete messages
    delivered         \* data events put for the application

senderVars   == <<accepted, queuedCommands, queuedReliables, sent, nextOut,
                  window, pings, numbered>>
receiverVars == <<nextIn, incoming, splits, delivered>>
vars         == <<senderVars, wire, acks, receiverVars>>

Ping == [msg |-> 0, chunk |-> 0]
Payloads == {Ping} \cup UNION {{[msg |-> m, chunk |-> i] : i \in 1 .. Chunks[m]} :
                               m \in 1 .. NumMessages}

Init == /\ accepted = 0 /\ queuedCommands = <<>> /\ queuedReliables = <<>>
        /\ sent = <<>> /\ nextOut = 0 /\ window = StartWindow /\ pings = 0
        /\ numbered = <<>>
        /\ wire = {} /\ acks = {}
        /\ nextIn = 0 /\ incoming = <<>> /\ splits = {} /\ delivered = <<>>
-----------------------------------------------------------------------------
(***************************************************************************)
(* The sender.                                                             *)
(***************************************************************************)

\* Broken variant: the packets in flight are counted, not their span.
HasSequenceNumber_Count(n) == Len(sent) <= window

\* getOutgoingSequenceNumber succeeds for the place n: the distance to the
\* oldest packet still unacknowledged fits the window.  The two branches
\* count it differently, and only packets that were sent are looked at.
HasSequenceNumber(n) ==
    sent # <<>> =>
        LET next   == SeqNumOf(n)
            lowest == SeqNumOf(Head(sent))
        IN  IF lowest < next THEN next - lowest <= window
                             ELSE next + (SeqSpace - 1 - lowest) <= window

\* The places from nextOut on get the payloads ps.
AssignNumbers(ps) ==
    /\ nextOut' = nextOut + Len(ps)
    /\ numbered' = [n \in DOMAIN numbered \cup nextOut .. nextOut + Len(ps) - 1 |->
                        IF n < nextOut THEN numbered[n] ELSE ps[n - nextOut + 1]]

\* processReliableSendCommand gives every chunk of m a number and queues the
\* packets, or puts all the numbers back: CanProcess tells which.
CanProcess(m) == \A i \in 0 .. Chunks[m] - 1 : HasSequenceNumber(nextOut + i)

Process(m) ==
    /\ CanProcess(m)
    /\ AssignNumbers([i \in 1 .. Chunks[m] |-> [msg |-> m, chunk |-> i]])
    /\ queuedReliables' = queuedReliables \o [i \in 1 .. Chunks[m] |-> nextOut + i - 1]

\* Broken variant: a message may overtake the commands that wait.
Direct_Overtake == Len(queuedReliables) + 1 < window \div 2

\* PutReliableSendCommand, for the next message the application sends.
Direct == queuedCommands = <<>> /\ Len(queuedReliables) + 1 < window \div 2

SendDirectly ==
    /\ accepted < NumMessages
    /\ accepted' = accepted + 1
    /\ Direct
    /\ Process(accepted + 1)
    /\ UNCHANGED <<queuedCommands, sent, window, pings, wire, acks, receiverVars>>

SendLater ==
    /\ accepted < NumMessages
    /\ accepted' = accepted + 1
    /\ ~ (Direct /\ CanProcess(accepted + 1))
    /\ queuedCommands' = Append(queuedCommands, accepted + 1)
    /\ UNCHANGED <<queuedReliables, sent, nextOut, window, pings, numbered, wire,
                   acks, receiverVars>>

\* Broken variant: the numbers of a command that does not fit are kept.
RunCommandQueues_NoPutBack ==
    /\ queuedCommands # <<>>
    /\ Len(queuedReliables) < MaxRequeued
    /\ LET m == Head(queuedCommands) IN
       \/ Process(m) /\ queuedCommands' = Tail(queuedCommands)
       \/ /\ ~ CanProcess(m)
          /\ HasSequenceNumber(nextOut)
          /\ AssignNumbers(<<[msg |-> m, chunk |-> 1]>>)
          /\ UNCHANGED <<queuedCommands, queuedReliables>>
    /\ UNCHANGED <<accepted, sent, window, pings, wire, acks, receiverVars>>

\* RunCommandQueues; a command that gets no numbers stays at the head.
RunCommandQueues ==
    /\ queuedCommands # <<>>
    /\ Len(queuedReliables) < MaxRequeued
    /\ Process(Head(queuedCommands))
    /\ queuedCommands' = Tail(queuedCommands)
    /\ UNCHANGED <<accepted, sent, window, pings, wire, acks, receiverVars>>

\* sendAsPacketReliable, with the value next of next_outgoing_seqnum.
sendAsPacketReliable(n, next) ==
    /\ sent' = insert(sent, n, (SeqNumOf(next) - MaxWindow) % SeqSpace)
    /\ wire' = wire \cup {n}

\* One packet of the loop of sendPackets; the quota that ends the loop is
\* an interruption between two of these steps.
SendQueued ==
    /\ queuedReliables # <<>>
    /\ Len(sent) < window
    /\ queuedReliables' = Tail(queuedReliables)
    /\ sendAsPacketReliable(Head(queuedReliables), nextOut)
    /\ UNCHANGED <<accepted, queuedCommands, nextOut, window, pings, numbered,
                   acks, receiverVars>>

\* A ping of runTimeouts: rawSendAsPacket numbers it and sends it ahead of
\* the queue, or queues it when the window is full.
SendPing ==
    /\ pings < MaxPings
    /\ pings' = pings + 1
    /\ HasSequenceNumber(nextOut)
    /\ AssignNumbers(<<Ping>>)
    /\ \/ /\ Len(sent) < window
          /\ sendAsPacketReliable(nextOut, nextOut + 1)
          /\ UNCHANGED queuedReliables
       \/ /\ Len(sent) >= window
          /\ queuedReliables' = Append(queuedReliables, nextOut)
          /\ UNCHANGED <<sent, wire>>
    /\ UNCHANGED <<accepted, queuedCommands, window, acks, receiverVars>>

\* A packet getResend finds due, or CONNCMD_RESEND_ONE asks for.
Resend(n) ==
    /\ n \in ToSet(sent)
    /\ wire' = wire \cup {n}
    /\ UNCHANGED <<senderVars, acks, receiverVars>>

\* UpdateTimers sizes the window after the losses of the last second.
UpdateTimers ==
    /\ \E w \in Windows : window' = w
    /\ UNCHANGED <<accepted, queuedCommands, queuedReliables, sent, nextOut, pings,
                   numbered, wire, acks, receiverVars>>

\* CONTROLTYPE_ACK.  An acknowledgement does not outlive SeqSpace packets.
ReceiveAck(n) ==
    /\ n \in acks
    /\ nextOut - n <= SeqSpace
    /\ acks' \in {acks, acks \ {n}}
    /\ sent' = popSeqnum(sent, SeqNumOf(n))
    /\ UNCHANGED <<accepted, queuedCommands, queuedReliables, nextOut, window,
                   pings, numbered, wire, receiverVars>>
-----------------------------------------------------------------------------
(***************************************************************************)
(* The network, and the receiver.                                          *)
(***************************************************************************)

LosePacket(n) == /\ n \in wire
                 /\ wire' = wire \ {n}
                 /\ UNCHANGED <<senderVars, acks, receiverVars>>

LoseAck(n) == /\ n \in acks
              /\ acks' = acks \ {n}
              /\ UNCHANGED <<senderVars, wire, receiverVars>>

\* Broken variant: the head of the buffer is processed out of turn.
Drainable_Any == incoming # <<>>

\* checkIncomingBuffers has a packet to process.  receive() empties the
\* buffers of such packets before it reads the socket.
Drainable == FirstIs(incoming, SeqNumOf(nextIn))

\* A packet reaches the socket, perhaps not for the last time.  It does not
\* outlive MaxWindow packets the receiver has processed after it.
Arrives(n) == /\ n \in wire
              /\ nextIn - n <= MaxWindow
              /\ wire' \in {wire, wire \ {n}}
              /\ ~ Drainable

\* handlePacketType_Original, _Split and _Control(PING), and the data event.
ProcessPayload(p) ==
    LET parts == splits \cup {p}
        have  == {q \in parts : q.msg = p.msg}
    IN  CASE p = Ping -> UNCHANGED <<splits, delivered>>
          [] p # Ping /\ Cardinality(have) = Chunks[p.msg] ->
                /\ delivered' = Append(delivered, p.msg)
                /\ splits' = parts \ have
          [] OTHER -> splits' = parts /\ UNCHANGED delivered

\* handlePacketType_Reliable, one action per way out of it: the packet is
\* processed, buffered, dropped, or acknowledged again and dropped.
ReceiveNext(n) ==
    /\ Arrives(n)
    /\ Classify(SeqNumOf(n), SeqNumOf(nextIn)) = "window"
    /\ SeqNumOf(n) = SeqNumOf(nextIn)
    /\ acks' = acks \cup {n}
    /\ incoming' = IF FirstIs(incoming, SeqNumOf(n)) THEN Tail(incoming) ELSE incoming
    /\ nextIn' = nextIn + 1
    /\ ProcessPayload(numbered[n])
    /\ UNCHANGED senderVars

\* Broken variant: the buffer is told the number after the expected one.
ReceiveAhead_OffByOne(n) ==
    /\ Arrives(n)
    /\ Classify(SeqNumOf(n), SeqNumOf(nextIn)) = "window"
    /\ SeqNumOf(n) # SeqNumOf(nextIn)
    /\ acks' = acks \cup {n}
    /\ incoming' = insert(incoming, n, SeqNumOf(nextIn + 1))
    /\ UNCHANGED <<senderVars, nextIn, splits, delivered>>

ReceiveAhead(n) ==
    /\ Arrives(n)
    /\ Classify(SeqNumOf(n), SeqNumOf(nextIn)) = "window"
    /\ SeqNumOf(n) # SeqNumOf(nextIn)
    /\ acks' = acks \cup {n}
    /\ incoming' = insert(incoming, n, SeqNumOf(nextIn))
    /\ UNCHANGED <<senderVars, nextIn, splits, delivered>>

ReceiveFuture(n) ==
    /\ Arrives(n)
    /\ Classify(SeqNumOf(n), SeqNumOf(nextIn)) = "future"
    /\ UNCHANGED <<senderVars, acks, receiverVars>>

\* Broken variant: an old packet is not acknowledged again.
ReceiveOld_Silent(n) ==
    /\ Arrives(n)
    /\ Classify(SeqNumOf(n), SeqNumOf(nextIn)) = "old"
    /\ UNCHANGED <<senderVars, acks, receiverVars>>

ReceiveOld(n) ==
    /\ Arrives(n)
    /\ Classify(SeqNumOf(n), SeqNumOf(nextIn)) = "old"
    /\ acks' = acks \cup {n}
    /\ UNCHANGED <<senderVars, receiverVars>>

\* checkIncomingBuffers processes the packet whose turn has come.
Drain ==
    /\ Drainable
    /\ incoming' = Tail(incoming)
    /\ nextIn' = nextIn + 1
    /\ ProcessPayload(numbered[Head(incoming)])
    /\ UNCHANGED <<senderVars, wire, acks>>

Receive(n) == ReceiveNext(n) \/ ReceiveAhead(n) \/ ReceiveFuture(n) \/ ReceiveOld(n)

Next == \/ SendDirectly \/ SendLater \/ RunCommandQueues \/ SendQueued
        \/ SendPing \/ UpdateTimers \/ Drain
        \/ \E n \in ToSet(sent) : Resend(n)
        \/ \E n \in wire : Receive(n) \/ LosePacket(n)
        \/ \E n \in acks : ReceiveAck(n) \/ LoseAck(n)

Spec == Init /\ [][Next]_vars

(***************************************************************************)
(* Fairness: the send thread wakes at least every 50 ms and runs its       *)
(* queues, the receive thread never stops reading, a packet that is sent   *)
(* again and again arrives.  Only the peer's timeout, which ends the       *)
(* connection, interrupts this.  Places is any set that holds the places   *)
(* a behaviour reaches.                                                    *)
(***************************************************************************)
Places == 0 .. MaxPings + FoldFunction(+, 0, Chunks)

Fairness == /\ WF_vars(RunCommandQueues)
            /\ WF_vars(SendQueued)
            /\ WF_vars(Drain)
            /\ \A n \in Places : /\ WF_vars(Resend(n))
                                  /\ SF_vars(Receive(n))
                                  /\ SF_vars(ReceiveAck(n))

FairSpec == Spec /\ Fairness
-----------------------------------------------------------------------------
TypeOK ==
    /\ accepted \in 0 .. NumMessages
    /\ queuedCommands \in Seq(1 .. NumMessages)
    /\ nextOut \in Nat /\ nextIn \in Nat
    /\ numbered \in [0 .. nextOut - 1 -> Payloads]
    /\ queuedReliables \in Seq(DOMAIN numbered)
    /\ sent \in Seq(DOMAIN numbered)
    /\ incoming \in Seq(DOMAIN numbered)
    /\ wire \subseteq DOMAIN numbered
    /\ acks \subseteq DOMAIN numbered
    /\ window \in Windows
    /\ pings \in 0 .. MaxPings
    /\ splits \subseteq Payloads
    /\ delivered \in Seq(1 .. NumMessages)

\* The receiver holds, or has processed, every packet it acknowledged: a
\* sender that forgets a packet on its acknowledgement never loses data.
AckedIsHeld == \A n \in acks : n < nextIn \/ n \in ToSet(incoming)

\* Somebody answers for every number given out: a packet the receiver has
\* not got waits in a queue or in the list that is resent.  A number that
\* is in neither stops the channel for ever.
NoPacketForgotten ==
    \A n \in 0 .. nextOut - 1 :
        n < nextIn \/ n \in ToSet(incoming) \cup ToSet(sent) \cup ToSet(queuedReliables)

\* Whenever the receive thread reads the socket, nothing unacknowledged and
\* nothing on its way is so far ahead of the packet it expects that its number
\* would be read as an old one.
NothingTooNew == ~ Drainable => \A n \in ToSet(sent) \cup wire : n - nextIn < MaxWindow

\* insert keeps both lists sorted, also where the numbers wrap and when a ping
\* was sent past the queue: the head of the sent list, which
\* getOutgoingSequenceNumber measures the window from, is its oldest packet, and
\* the receiver keeps only packets whose turn will come, in their order.
Ordered(list) == \A i, j \in DOMAIN list : i < j => list[i] < list[j]
ListsAreOrdered ==
    /\ Ordered(sent) /\ Ordered(incoming)
    /\ \A i \in DOMAIN incoming : nextIn <= incoming[i]

\* The channel implements reliable delivery in order.
Fifo == INSTANCE FifoDelivery WITH
            Message <- 1 .. NumMessages,
            accepted <- [m \in 1 .. accepted |-> m]
DeliversInOrder == Fifo!FifoSpec

\* Every message handed over is delivered, however many packets and
\* acknowledgements are lost on the way.
EverythingArrives ==
    \A m \in 1 .. NumMessages : accepted >= m ~> Len(delivered) >= m
=============================================================================
