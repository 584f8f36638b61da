----------------------------- MODULE TCPConnection -----------------------------
(***************************************************************************)
(* Class TCPConnection (libsponge/tcp_connection.hh, .cc): a receiver, a   *)
(* sender, and the flags that decide what is answered and when it ends.    *)
(* rec_fin_seqno, an optional, is a set of at most one number.             *)
(***************************************************************************)
EXTENDS ByteStream, TCPSegment

CONSTANTS
  Mod, Wide,          \* 2^32, 2^64
  WinMod,             \* 2^16: the width of the window field
  MAX_PAYLOAD_SIZE,
  MAX_RETX_ATTEMPTS,
  LINGER              \* how many times rt_timeout it lingers: 10

ASSUME ConnectionAssumption ==
  /\ WinMod \in Nat \ {0} /\ MAX_RETX_ATTEMPTS \in Nat /\ LINGER \in Nat \ {0}

R == INSTANCE TCPReceiver
S == INSTANCE TCPSender

\* A configuration: recv_capacity, send_capacity, rt_timeout and fixed_isn.
ConnectionNew(cfg) ==
  [cfg |-> cfg,
   receiver |-> R!ReceiverNew(cfg.recv_capacity),
   sender |-> S!SenderNew(cfg.send_capacity, cfg.rt_timeout, cfg.fixed_isn),
   segments_out |-> <<>>, linger_after_streams_finish |-> TRUE,
   time_since_last_segment_received |-> 0, active |-> TRUE, rst_set |-> FALSE,
   fin_ack_sent |-> FALSE, closedByApp |-> FALSE, syn_set |-> FALSE,
   rec_fin_seqno |-> {}]

inbound_stream(c) == R!stream_out(c.receiver)
outbound_stream(c) == c.sender.stream

bytes_in_flight(c) == c.sender.bytes_in_flight
remaining_outbound_capacity(c) == remaining_capacity(outbound_stream(c))

\* set_error on both streams; nothing is received or sent any more.
reset_streams(c) ==
  [c EXCEPT !.receiver.reassembler.output = set_error(@),
            !.sender.stream = set_error(@),
            !.active = FALSE]

-------------------------------------------------------------------------------
(* clean_shutdown *)

\* The whole inbound stream is here and everything outbound is acknowledged.
streams_finished(c) ==
  /\ R!unassembled_bytes(c.receiver.reassembler) = 0 /\ inbound_stream(c).is_eof
  /\ outbound_stream(c).is_eof /\ c.sender.segments_out = <<>>
  /\ bytes_in_flight(c) = 0

\* Mutant: stops without waiting for its own FIN to be acknowledged.
clean_shutdown_unacked(c) ==
  LET linger == c.linger_after_streams_finish
                  /\ ~(inbound_stream(c).is_eof /\ ~stream_eof(outbound_stream(c)))
  IN  [c EXCEPT
         !.linger_after_streams_finish = linger,
         !.active = @ /\ ~(/\ inbound_stream(c).is_eof /\ outbound_stream(c).is_eof
                           /\ c.sender.segments_out = <<>>
                           /\ \/ ~linger
                              \/ c.time_since_last_segment_received
                                   >= LINGER * c.cfg.rt_timeout)]

\* Mutant: nobody lingers.
clean_shutdown_at_once(c) ==
  [c EXCEPT !.linger_after_streams_finish = FALSE,
            !.active = @ /\ ~streams_finished(c)]

\* The side whose peer ended first does not linger.
clean_shutdown(c) ==
  LET linger == c.linger_after_streams_finish
                  /\ ~(inbound_stream(c).is_eof /\ ~stream_eof(outbound_stream(c)))
  IN  [c EXCEPT
         !.linger_after_streams_finish = linger,
         !.active = @ /\ ~(/\ streams_finished(c)
                           /\ \/ ~linger
                              \/ c.time_since_last_segment_received
                                   >= LINGER * c.cfg.rt_timeout)]

-------------------------------------------------------------------------------
(* sendseg *)

\* What goes out: the sender's queue, or a default segment if it is empty.
outgoing(c) ==
  IF c.sender.segments_out = <<>> THEN <<TCPSegmentNew>> ELSE c.sender.segments_out

\* The segment with the acknowledgment and the window, once there is one, and
\* with the reset.
stamped(c, seg) ==
  LET known == c.receiver.isn_set
  IN  [seg EXCEPT !.ack = @ \/ known,
                  !.ackno = IF known THEN R!ackno(c.receiver) ELSE @,
                  !.win = IF known THEN R!window_size(c.receiver) % WinMod ELSE @,
                  !.rst = @ \/ c.rst_set]

\* The FIN counts as acknowledged if the number is raw larger than its segment's.
sendseg(c) ==
  LET sent == [c EXCEPT
        !.sender.segments_out = <<>>,
        !.segments_out = @ \o [i \in DOMAIN outgoing(c) |-> stamped(c, outgoing(c)[i])],
        !.syn_set = @ \/ \E i \in DOMAIN outgoing(c) : outgoing(c)[i].syn,
        !.fin_ack_sent = @ \/ /\ c.receiver.isn_set
                              /\ \E f \in c.rec_fin_seqno : R!ackno(c.receiver) > f]
  IN  clean_shutdown(IF c.rst_set THEN reset_streams(sent) ELSE sent)

-------------------------------------------------------------------------------
(* Calls of the owner *)

connect(c) == sendseg([c EXCEPT !.sender = S!fill_window(@)])

write_out(c, data) ==
  sendseg([c EXCEPT !.sender = S!fill_window([@ EXCEPT !.stream = write(@, data)])])

end_input_stream(c) ==
  sendseg([c EXCEPT !.sender = S!fill_window([@ EXCEPT !.stream = end_input(@)]),
                    !.closedByApp = TRUE])

\* The idle time only matters up to the time to linger.
pass_time(c, ms) ==
  [c EXCEPT !.time_since_last_segment_received = Least(@ + ms, LINGER * c.cfg.rt_timeout),
            !.sender = S!tick(@, ms)]

\* After too many retransmissions what is queued goes out as a reset.
tick(c, ms) ==
  IF ~c.active THEN c
  ELSE LET t == pass_time(c, ms)
           d == clean_shutdown(
                  IF t.sender.consecutive_retransmission > MAX_RETX_ATTEMPTS
                  THEN sendseg([t EXCEPT !.rst_set = TRUE]) ELSE t)
       IN  IF d.active /\ d.sender.segments_out # <<>> THEN sendseg(d) ELSE d

\* The destructor: the reset is queued, and the queue goes with the object.
destroy(c) == IF c.active THEN sendseg([c EXCEPT !.rst_set = TRUE]) ELSE c

-------------------------------------------------------------------------------
(* segment_received *)

\* The first SYN of a connection that has sent none: answer with one.
first_syn(c) ==
  IF c.syn_set THEN c
  ELSE [c EXCEPT !.syn_set = TRUE, !.sender = S!fill_window(@)]

take_rst(c) == reset_streams([c EXCEPT !.rst_set = TRUE])

\* The receiver takes the segment, the sender its acknowledgment.
take_segment(c, seg) ==
  LET d == [c EXCEPT !.receiver = R!segment_received(@, seg)]
  IN  IF seg.ack
      THEN clean_shutdown([d EXCEPT !.sender = S!ack_received(@, seg.ackno, seg.win)])
      ELSE d

\* Mutant: does not answer a FIN that comes again.
answer_once(c, seg) ==
  IF c.fin_ack_sent THEN c
  ELSE LET d == [c EXCEPT !.rec_fin_seqno = IF seg.fin THEN {seg.seqno} ELSE @]
       IN  clean_shutdown(IF length_in_sequence_space(seg) > 0 THEN sendseg(d) ELSE d)

\* Once the FIN is acknowledged only a FIN is answered; before, whatever takes
\* a sequence number.
answer(c, seg) ==
  IF c.fin_ack_sent /\ ~seg.fin THEN c
  ELSE LET d == [c EXCEPT !.rec_fin_seqno = IF seg.fin THEN {seg.seqno} ELSE @]
       IN  clean_shutdown(IF length_in_sequence_space(seg) > 0 THEN sendseg(d) ELSE d)

\* A reset for a connection without a SYN cannot get past the second test.
segment_received(c, seg) ==
  IF ~c.active \/ (~c.syn_set /\ ~seg.syn) THEN c
  ELSE LET d == [first_syn(c) EXCEPT !.time_since_last_segment_received = 0]
       IN  IF seg.rst THEN take_rst(d) ELSE answer(take_segment(d, seg), seg)

================================================================================
