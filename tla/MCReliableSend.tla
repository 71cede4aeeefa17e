--------------------------- MODULE MCReliableSend ---------------------------
(* The send half with ACKs of at most two ranges, in any order and overlap. *)
EXTENDS Retransmission

TwoRangeLists ==
  {{r, q} : r, q \in RangesBelow(U64Max)} \cup {{}}
=============================================================================
