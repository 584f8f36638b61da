------------------------------ MODULE TCPSegment ------------------------------
(***************************************************************************)
(* Class TCPSegment and the fields of its TCPHeader that the protocol code  *)
(* reads (tcp_helpers/tcp_segment.hh, tcp_header.hh).  Ports, offset,       *)
(* checksum, URG and PSH play no part in it.  A Buffer is its bytes.       *)
(***************************************************************************)
EXTENDS Integers, Sequences

\* A default-constructed segment: all zero, all flags off.
TCPSegmentNew ==
  [seqno |-> 0, ackno |-> 0, ack |-> FALSE, rst |-> FALSE, syn |-> FALSE,
   fin |-> FALSE, win |-> 0, payload |-> <<>>]

flag(b) == IF b THEN 1 ELSE 0

length_in_sequence_space(seg) == Len(seg.payload) + flag(seg.syn) + flag(seg.fin)

===============================================================================
