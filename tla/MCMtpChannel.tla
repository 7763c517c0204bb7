---------------------------- MODULE MCMtpChannel ----------------------------
(***************************************************************************)
(* Instances of MtpChannel for TLC: the messages of each run, as the       *)
(* number of packets each is cut into.                                     *)
(***************************************************************************)
EXTENDS MtpChannel

OneSplit    == <<1, 1, 2, 1>>
SplitSecond == <<1, 2, 1>>
SplitLast   == <<1, 2>>
Singles6    == <<1, 1, 1, 1, 1, 1>>
=============================================================================
