------------------------------- MODULE TCPSender -------------------------------
(***************************************************************************)
(* Classes TCPSender and RETimer, the retransmission timer                 *)
(* (libsponge/tcp_sender.hh, .cc).  Numbers that go on the wire are raw    *)
(* values below Mod, compared as the code compares them; next_seqno is     *)
(* absolute.  The two loops, in fill_window and in ack_received, are given *)
(* by what they have done when they end.                                   *)
(***************************************************************************)
EXTENDS ByteStream, WrappingIntegers, TCPSegment

CONSTANT MAX_PAYLOAD_SIZE

ASSUME PayloadAssumption == MAX_PAYLOAD_SIZE \in Nat \ {0}

-------------------------------------------------------------------------------
(* RETimer: counts up to rto and stops when it gets there; no method stops   *)
(* it earlier.                                                               *)

\* Constructor: the timer runs from the start.
TimerNew(timeout) == [rto |-> timeout, time |-> 0, isrunning |-> TRUE]

passTime(timer, ms) ==
  IF ~timer.isrunning THEN timer
  ELSE IF timer.time + ms >= timer.rto
  THEN [timer EXCEPT !.isrunning = FALSE, !.time = 0]
  ELSE [timer EXCEPT !.time = @ + ms]

doubleRTO(timer)     == [timer EXCEPT !.rto = 2 * @]
resetTime(timer)     == [timer EXCEPT !.time = 0]
resetRTO(timer, ms)  == [timer EXCEPT !.rto = ms]
start(timer)         == [timer EXCEPT !.isrunning = TRUE]

-------------------------------------------------------------------------------
(* TCPSender *)

\* Constructor.
SenderNew(capacity, retx_timeout, isn) ==
  [isn |-> isn, segments_out |-> <<>>,
   initial_retransmission_timeout |-> retx_timeout,
   stream |-> ByteStreamNew(capacity), next_seqno |-> 0, outSegments |-> <<>>,
   bytes_in_flight |-> 0, ackGot |-> isn, true_window_size |-> 0,
   consecutive_retransmission |-> 0, fin_flag |-> FALSE, syn_flag |-> FALSE,
   timer |-> TimerNew(retx_timeout)]

\* Sequence numbers that the segments of a queue occupy.
SpaceOf(segs) ==
  LET upTo[i \in 0..Len(segs)] ==
        IF i = 0 THEN 0 ELSE upTo[i - 1] + length_in_sequence_space(segs[i])
  IN  upTo[Len(segs)]

\* sendSegment for each of segs in turn.
sendSegments(snd, segs) ==
  [snd EXCEPT
     !.segments_out = @ \o segs,
     !.outSegments = @ \o segs,
     !.next_seqno = @ + SpaceOf(segs),
     !.bytes_in_flight = @ + SpaceOf(segs),
     !.timer = IF segs = <<>> \/ @.isrunning THEN @ ELSE start(resetTime(@))]

-------------------------------------------------------------------------------
(* fill_window *)

SynSegment(snd) ==
  [TCPSegmentNew EXCEPT !.seqno = wrap(snd.next_seqno, snd.isn), !.syn = TRUE]

\* A window of zero is taken for one.
usable_window(snd) == IF snd.true_window_size = 0 THEN 1 ELSE snd.true_window_size

\* Room in the window: the difference wraps at 32 bits when more is in flight
\* than the window has.
remain(snd) ==
  (usable_window(snd) - (wrap(snd.next_seqno, snd.isn) - snd.ackGot)) % Mod

\* Payload the loop sends; whether it ends with a FIN; whether it ends because
\* the stream has nothing more to send for now.
payload_len(snd) == Least(remain(snd), buffer_size(snd.stream))
fills_fin(snd)   == snd.stream.is_eof /\ remain(snd) > buffer_size(snd.stream)
runs_dry(snd)    == ~snd.stream.is_eof /\ remain(snd) > buffer_size(snd.stream)

\* How many segments one fill sends: payloads of MAX_PAYLOAD_SIZE and a rest,
\* or a FIN by itself if there is no payload.
segment_count(snd) ==
  IF payload_len(snd) = 0 THEN flag(fills_fin(snd))
  ELSE (payload_len(snd) + MAX_PAYLOAD_SIZE - 1) \div MAX_PAYLOAD_SIZE

\* The i-th of them; the FIN is on the last.
window_segment(snd, i) ==
  LET from == (i - 1) * MAX_PAYLOAD_SIZE
  IN  [TCPSegmentNew EXCEPT
         !.seqno = wrap(snd.next_seqno + from, snd.isn),
         !.payload = SubSeq(snd.stream.buf, from + 1,
                            Least(from + MAX_PAYLOAD_SIZE, payload_len(snd))),
         !.fin = fills_fin(snd) /\ i = segment_count(snd)]

WindowSegments(snd) == [i \in 1..segment_count(snd) |-> window_segment(snd, i)]

\* A window of zero stays one when the stream runs dry: the loop returns.
send_window(snd) ==
  [sendSegments([snd EXCEPT !.stream = read(@, payload_len(snd))],
                WindowSegments(snd)) EXCEPT
     !.fin_flag = fills_fin(snd),
     !.true_window_size = IF runs_dry(snd) THEN usable_window(snd) ELSE @]

\* Mutant: goes on after the FIN.
fill_window_endless(snd) ==
  IF ~snd.syn_flag
  THEN sendSegments([snd EXCEPT !.syn_flag = TRUE], <<SynSegment(snd)>>)
  ELSE send_window(snd)

fill_window(snd) ==
  IF snd.fin_flag THEN snd
  ELSE IF ~snd.syn_flag
  THEN sendSegments([snd EXCEPT !.syn_flag = TRUE], <<SynSegment(snd)>>)
  ELSE send_window(snd)

-------------------------------------------------------------------------------
(* ack_received *)

\* Mutant: waits for one number more than the segment has.
fully_acked_strict(seg, ackno) == seg.seqno + length_in_sequence_space(seg) < ackno

\* Mutant: a segment is done once its first number is expected.
fully_acked_started(seg, ackno) == seg.seqno <= ackno

\* Raw end of the segment, on 64 bits, against the raw acknowledgment.
fully_acked(seg, ackno) == seg.seqno + length_in_sequence_space(seg) <= ackno

\* How many segments at the front of the queue are acknowledged.
acked_count(snd, ackno) ==
  CHOOSE n \in 0..Len(snd.outSegments) :
    /\ \A i \in 1..n : fully_acked(snd.outSegments[i], ackno)
    /\ n = Len(snd.outSegments) \/ ~fully_acked(snd.outSegments[n + 1], ackno)

\* Mutant: bytes_in_flight keeps what was dropped.
drop_acked_uncounted(snd, ackno) ==
  [snd EXCEPT !.outSegments = SubSeq(@, acked_count(snd, ackno) + 1, Len(@))]

drop_acked(snd, ackno) ==
  LET n == acked_count(snd, ackno)
  IN  [snd EXCEPT
         !.bytes_in_flight = @ - SpaceOf(SubSeq(snd.outSegments, 1, n)),
         !.outSegments = SubSeq(@, n + 1, Len(@))]

\* Mutant: an acknowledgment of something new leaves the back-off in place.
note_new_ack_keeps_rto(snd, ackno) ==
  IF ackno > snd.ackGot
  THEN [snd EXCEPT !.ackGot = ackno, !.timer = resetTime(@),
                   !.consecutive_retransmission = 0]
  ELSE snd

\* An acknowledgment of something new restarts the timer with the initial
\* timeout.  (The timer is not stopped when nothing is left in flight.)
note_new_ack(snd, ackno) ==
  IF ackno > snd.ackGot
  THEN [snd EXCEPT
          !.ackGot = ackno,
          !.timer = LET t == resetRTO(resetTime(@), snd.initial_retransmission_timeout)
                    IN  IF snd.outSegments # <<>> THEN start(t) ELSE t,
          !.consecutive_retransmission = 0]
  ELSE snd

\* Mutant: a window that has been offered is kept when a smaller one arrives.
ack_received_widest(snd, ackno, window) ==
  IF ackno > wrap(snd.next_seqno, snd.isn) THEN snd
  ELSE fill_window([note_new_ack(drop_acked(snd, ackno), ackno)
                      EXCEPT !.true_window_size = IF window > @ THEN window ELSE @])

\* The window is taken from every acknowledgment, old ones included.
ack_received(snd, ackno, window) ==
  IF ackno > wrap(snd.next_seqno, snd.isn) THEN snd
  ELSE fill_window([note_new_ack(drop_acked(snd, ackno), ackno)
                      EXCEPT !.true_window_size = window])

-------------------------------------------------------------------------------
(* tick and send_empty_segment *)

\* Mutant: no retransmission while the window is closed.
tick_unprobed(snd, ms) ==
  LET t == passTime(snd.timer, ms)
  IN  IF t.isrunning \/ snd.outSegments = <<>> \/ snd.true_window_size = 0
      THEN [snd EXCEPT !.timer = t]
      ELSE [snd EXCEPT
              !.segments_out = Append(@, Head(snd.outSegments)),
              !.consecutive_retransmission = @ + 1,
              !.timer = start(resetTime(doubleRTO(t)))]

\* When the timer has run out, the oldest segment goes out again; it counts
\* and backs off if the window is open or the SYN is all that was sent.
tick(snd, ms) ==
  LET t      == passTime(snd.timer, ms)
      counts == snd.true_window_size # 0 \/ snd.next_seqno = 1
  IN  IF t.isrunning \/ snd.outSegments = <<>>
      THEN [snd EXCEPT !.timer = t]
      ELSE [snd EXCEPT
              !.segments_out = Append(@, Head(snd.outSegments)),
              !.consecutive_retransmission = @ + flag(counts),
              !.timer = start(resetTime(IF counts THEN doubleRTO(t) ELSE t))]

\* A default segment, number 0, queued like any other.
send_empty_segment(snd) == sendSegments(snd, <<TCPSegmentNew>>)

================================================================================
