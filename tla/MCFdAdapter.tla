----------------------------- MODULE MCFdAdapter ------------------------------
(* Two clients behind one IPv4 address and a server; a SYN, a refused SYN,   *)
(* data of an odd length whose last byte is 0, and data of which, without    *)
(* its first eight bytes, a segment to the same port with a right checksum   *)
(* remains.                                                                  *)
EXTENDS FdAdapterSpec

MCOwn ==
  [server |-> AddressOf(<<43200, 257>>, 80),
   peer |-> AddressOf(<<43200, 513>>, 4001), stranger |-> AddressOf(<<43200, 513>>, 4002)]

Header(seqno) == [TCPHeaderNew EXCEPT !.seqno = seqno, !.win = 64000]

MCSegments ==
  {SegmentOf([Header(<<65535, 65535>>) EXCEPT !.syn = TRUE], <<>>),
   SegmentOf([Header(<<7, 300>>) EXCEPT !.syn = TRUE, !.rst = TRUE], <<>>),
   SegmentOf([Header(<<0, 1>>) EXCEPT !.ack = TRUE, !.fin = TRUE, !.ackno = <<65535, 2>>],
             <<255, 9, 0>>),
   SegmentOf([Header(<<61446, 0>>) EXCEPT !.ack = TRUE, !.ackno = <<4001, 80>>],
             <<1, 2, 3, 4, 5, 6, 7, 8>>)}

===============================================================================
