------------------------------ MODULE TCPReceiver ------------------------------
(***************************************************************************)
(* Class TCPReceiver (libsponge/tcp_receiver.hh, .cc): turns the numbers   *)
(* of arriving segments into stream indices and the state of the           *)
(* reassembler into the acknowledgment and window to advertise.            *)
(***************************************************************************)
EXTENDS StreamReassembler, WrappingIntegers, TCPSegment

ReceiverNew(capacity) ==
  [reassembler |-> ReassemblerNew(capacity), capacity |-> capacity,
   isn |-> 0, isn_set |-> FALSE]

stream_out(rcv) == rcv.reassembler.output

\* Mutant: forgets that the SYN took the number 0.
stream_index_unshifted(rcv, isn, seqno) ==
  unwrap(seqno, isn, stream_out(rcv).write_count)

\* Mutant: takes whatever arrives for the next bytes.
stream_index_next(rcv, isn, seqno) == stream_out(rcv).write_count

\* abs_seqno - 1 on 64 bits: the number 0, that of the SYN, becomes 2^64 - 1.
stream_index(rcv, isn, seqno) ==
  (unwrap(seqno, isn, stream_out(rcv).write_count) - 1) % Wide

\* The number of the first byte of the payload: the SYN takes one before it.
payload_seqno(seg) == plus(seg.seqno, flag(seg.syn))

segment_received(rcv, seg) ==
  LET isn == IF seg.syn THEN seg.seqno ELSE rcv.isn
  IN  IF ~seg.syn /\ ~rcv.isn_set THEN rcv
      ELSE [rcv EXCEPT
              !.isn = isn, !.isn_set = TRUE,
              !.reassembler = push_substring(@, seg.payload,
                                 stream_index(rcv, isn, payload_seqno(seg)), seg.fin)]

\* Meant for isn_set only: before that the code returns no value.  The FIN
\* takes a number of its own.
ackno(rcv) ==
  plus(wrap(stream_out(rcv).write_count + 1, rcv.isn), flag(stream_out(rcv).is_eof))

\* Mutant: the commented-out line before the return.
window_size_unassembled(rcv) ==
  rcv.capacity - unassembled_bytes(rcv.reassembler)

window_size(rcv) ==
  rcv.capacity - (stream_out(rcv).write_count - stream_out(rcv).read_count)

===============================================================================
