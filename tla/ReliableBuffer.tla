--------------------------- MODULE ReliableBuffer ---------------------------
(***************************************************************************)
(* ReliablePacketBuffer: the list of reliable packets kept by a sender     *)
(* until they are acknowledged (outgoing_reliables_sent) and by a receiver *)
(* until their turn comes (incoming_reliables).  A buffer is a sequence of *)
(* packets, a packet stands for its place n in the stream of the channel,  *)
(* and every decision is taken on the number SeqNumOf(n) it carries.       *)
(***************************************************************************)
EXTENDS SeqNum, SequencesExt

\* popSeqnum erases the first packet with the number, and leaves the buffer
\* alone when there is none (NotFoundException).
popSeqnum(buf, seqnum) == RemoveFirstMatch(buf, LAMBDA n : SeqNumOf(n) = seqnum)

\* getFirstSeqnum(result) && result == seqnum
FirstIs(buf, seqnum) == buf # <<>> /\ SeqNumOf(Head(buf)) = seqnum

(***************************************************************************)
(* insert sorts a packet into the buffer, in the circular order that       *)
(* starts at next_expected.  The walk passes the packets that come before  *)
(* the new one; numbers below next_expected are the ones that wrapped.  A  *)
(* number outside the window, or next_expected itself, is logged and not   *)
(* inserted; a number the buffer holds already is taken for a copy.        *)
(***************************************************************************)
Precedes(s, seqnum, next_expected) ==
    IF seqnum < next_expected THEN s < seqnum \/ s >= next_expected
                              ELSE s < seqnum /\ s >= next_expected

Accepts(seqnum, next_expected) ==
    /\ seqnum_in_window(seqnum, next_expected, MaxWindow)
    /\ seqnum # next_expected

\* Broken variant: packets are kept in the order of their arrival.
insert_Unsorted(buf, n, next_expected) ==
    IF \/ ~ Accepts(SeqNumOf(n), next_expected)
       \/ \E i \in DOMAIN buf : SeqNumOf(buf[i]) = SeqNumOf(n)
    THEN buf ELSE Append(buf, n)

insert(buf, n, next_expected) ==
    LET place == Min({Len(buf) + 1} \cup
                     {i \in DOMAIN buf :
                         ~ Precedes(SeqNumOf(buf[i]), SeqNumOf(n), next_expected)})
        copy  == place <= Len(buf) /\ SeqNumOf(buf[place]) = SeqNumOf(n)
    IN  IF ~ Accepts(SeqNumOf(n), next_expected) \/ copy
        THEN buf
        ELSE InsertAt(buf, place, n)
=============================================================================
