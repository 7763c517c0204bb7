---------------------------- MODULE FifoDelivery ----------------------------
(***************************************************************************)
(* What a channel promises to the two applications that use it for         *)
(* reliable messages: every message the sender hands over is delivered, at *)
(* most once, and in the order of the sending.  src/network/mtp/internal.h *)
(* says it of a RELIABLE packet: delivery "shall be forced by ACKs", and   *)
(* "in the same order as sent".                                            *)
(***************************************************************************)
EXTENDS Sequences, Naturals

CONSTANT Message

VARIABLES accepted,   \* what the sender's application handed over
          delivered   \* what the receiver's application was given

fifoVars == <<accepted, delivered>>

FifoInit == accepted = <<>> /\ delivered = <<>>

Accept == /\ \E m \in Message : accepted' = Append(accepted, m)
          /\ UNCHANGED delivered

Deliver == /\ Len(delivered) < Len(accepted)
           /\ delivered' = Append(delivered, accepted[Len(delivered) + 1])
           /\ UNCHANGED accepted

FifoNext == Accept \/ Deliver

FifoSpec == FifoInit /\ [][FifoNext]_fifoVars
=============================================================================
