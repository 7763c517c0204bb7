----------------------------- MODULE BlinkDelay -----------------------------
(***************************************************************************)
(* Connection::Send with the "blink" setting, which holds packets back:    *)
(* the threads that send look at the setting, and then take the mutex of   *)
(* m_delayed_packets.  That list is one for the whole process, while in    *)
(* singleplayer a process has two connections, the client's and the        *)
(* server's.                                                               *)
(***************************************************************************)
EXTENDS Naturals, SequencesExt

CONSTANTS
    Senders,       \* the threads that call Send
    Connections,
    ConnectionOf,  \* [Senders -> Connections], the connection a thread uses
    MaxSends       \* bound: the packets of one thread

VARIABLES
    blink,     \* g_settings->getBool("blink")
    delayed,   \* m_delayed_packets
    commands,  \* Connection::m_command_queue, what was ever put there
    sends,     \* the packets each thread has called Send for
    pc         \* where each thread is in Send

vars == <<blink, delayed, commands, sends, pc>>

Packets == [sender : Senders, number : 1 .. MaxSends]

TypeOK == /\ blink \in BOOLEAN
          /\ delayed \in Seq(Packets)
          /\ commands \in [Connections -> Seq(Packets)]
          /\ sends \in [Senders -> 0 .. MaxSends]
          /\ pc \in [Senders -> {"idle", "delay", "flush", "put"}]

Init == /\ blink = FALSE
        /\ delayed = <<>>
        /\ commands = [c \in Connections |-> <<>>]
        /\ sends = [s \in Senders |-> 0]
        /\ pc = [s \in Senders |-> "idle"]

Goto(s, label) == pc' = [pc EXCEPT ![s] = label]

Packet(s) == [sender |-> s, number |-> sends[s]]

Put(s, packets) ==
    commands' = [commands EXCEPT ![ConnectionOf[s]] = @ \o packets]

\* The player switches the setting.
SwitchBlink == /\ blink' = ~ blink
               /\ UNCHANGED <<delayed, commands, sends, pc>>

\* Send reads the setting.
Send(s) == /\ pc[s] = "idle" /\ sends[s] < MaxSends
           /\ sends' = [sends EXCEPT ![s] = @ + 1]
           /\ Goto(s, IF blink THEN "delay" ELSE "flush")
           /\ UNCHANGED <<blink, delayed, commands>>

\* It keeps a copy of the packet.
Delay(s) == /\ pc[s] = "delay"
            /\ delayed' = Append(delayed, Packet(s))
            /\ Goto(s, "idle")
            /\ UNCHANGED <<blink, commands, sends>>

\* Everything delayed goes to the connection that sends next.
ProcessDelayedPackets(s) ==
    /\ pc[s] = "flush"
    /\ Put(s, delayed)
    /\ delayed' = <<>>
    /\ Goto(s, "put")
    /\ UNCHANGED <<blink, sends>>

\* The packet itself.
PutCommand(s) ==
    /\ pc[s] = "put"
    /\ Put(s, <<Packet(s)>>)
    /\ Goto(s, "idle")
    /\ UNCHANGED <<blink, delayed, sends>>

Next == \/ SwitchBlink
        \/ \E s \in Senders : Send(s) \/ Delay(s) \/ ProcessDelayedPackets(s) \/ PutCommand(s)

Spec == Init /\ [][Next]_vars
-----------------------------------------------------------------------------
\* The packets of a thread that were put on its connection, or are held back
\* for it, in their order.
OwnPackets(s) ==
    LET waiting == commands[ConnectionOf[s]] \o delayed
        own     == SelectSeq(waiting, LAMBDA p : p.sender = s)
    IN  [i \in DOMAIN own |-> own[i].number]

\* No packet a thread handed to its connection is lost, sent twice, sent on
\* another connection or overtaken, whatever the setting does meanwhile:
\* cheats.lua says of it "Delay sending of packets until this cheat is
\* disabled", and no more than that.
OnlyDelayed ==
    \A s \in Senders :
        LET made == IF pc[s] = "idle" THEN sends[s] ELSE sends[s] - 1
        IN  OwnPackets(s) = [i \in 1 .. made |-> i]
=============================================================================
