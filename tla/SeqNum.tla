------------------------------- MODULE SeqNum -------------------------------
(***************************************************************************)
(* The u16 sequence numbers of the reliable transport: the circular        *)
(* comparisons of src/network/mtp/internal.h and the way the receive       *)
(* thread classifies the number of an incoming reliable packet.            *)
(*                                                                         *)
(* The width of a number is a parameter: SeqSpace is SEQNUM_MAX + 1 (65536 *)
(* in the code), MaxWindow is MAX_RELIABLE_WINDOW_SIZE (0x8000), SeqInit   *)
(* is SEQNUM_INITIAL (65500).  The n-th packet of a channel, counted from  *)
(* 0 and never wrapping, carries the number SeqNumOf(n).                   *)
(***************************************************************************)
EXTENDS Integers

CONSTANTS SeqSpace, MaxWindow, SeqInit

ASSUME SeqAssumption == /\ MaxWindow \in Nat \ {0}
                        /\ SeqSpace = 2 * MaxWindow
                        /\ SeqInit \in 0 .. SeqSpace - 1

SeqNums == 0 .. SeqSpace - 1

SeqNumOf(n) == (SeqInit + n) % SeqSpace

\* SEQNUM_MAX / 2, an integer division.
HalfMax == (SeqSpace - 1) \div 2

seqnum_higher(totest, base) ==
    IF totest > base THEN totest - base <= HalfMax
                     ELSE base - totest > HalfMax

seqnum_in_window(seqnum, next, size) ==
    LET end == (next + size) % SeqSpace
    IN  IF next < end THEN next <= seqnum /\ seqnum < end
                      ELSE seqnum < end \/ next <= seqnum

(***************************************************************************)
(* What handlePacketType_Reliable makes of a number, given the number it   *)
(* expects next: "window" is acknowledged and processed or buffered,       *)
(* "future" is dropped without an acknowledgement, "old" is acknowledged   *)
(* again and dropped.  A number that were none of the three would fall     *)
(* through to the processing of a packet in the window.                    *)
(***************************************************************************)
Classify(seqnum, next) ==
    IF seqnum_in_window(seqnum, next, MaxWindow) THEN "window"
    ELSE IF seqnum_higher(seqnum, next) THEN "future"
    ELSE IF seqnum_higher(next, seqnum) THEN "old" ELSE "window"

(***************************************************************************)
(* The verdict in terms of places: the packet at place n, seen by a        *)
(* receiver that expects place m, is recognised for what it is as long as  *)
(* the two are at most MaxWindow apart on either side; a packet MaxWindow  *)
(* ahead is already taken for an old or a future one.  Old packets are all *)
(* recognised but the one exactly MaxWindow behind, whose verdict depends  *)
(* on which of the two numbers has wrapped.                                *)
(***************************************************************************)
ClassifiedByDistance(n, m) ==
    LET verdict == Classify(SeqNumOf(n), SeqNumOf(m))
    IN  /\ n - m \in 0 .. MaxWindow - 1 => verdict = "window"
        /\ m - n \in 1 .. MaxWindow - 1 => verdict = "old"
        /\ n - m \in {MaxWindow, - MaxWindow} => verdict \in {"old", "future"}
=============================================================================
