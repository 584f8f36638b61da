------------------------------ MODULE MCTCPSender ------------------------------
(***************************************************************************)
(* Constants for TCPSenderSpec: a stream of three bytes; and the loop of   *)
(* fill_window turn by turn, which its closed form is compared with over   *)
(* windows, numbers and buffers, before any state is explored.             *)
(***************************************************************************)
EXTENDS TCPSenderSpec

MCStream == <<1, 2, 3>>

\* One turn of the loop after another: read, mark the FIN, return if there is
\* nothing to send, send.
RECURSIVE FillLoop(_)
FillLoop(s) ==
  LET room    == (s.true_window_size - (wrap(s.next_seqno, s.isn) - s.ackGot)) % Mod
      len     == Least(room, MAX_PAYLOAD_SIZE)
      stream  == read(s.stream, len)
      payload == read_data(s.stream, len)
      fin     == stream_eof(stream) /\ room >= Len(payload) + 1
      seg     == [TCPSegmentNew EXCEPT !.seqno = wrap(s.next_seqno, s.isn),
                                       !.payload = payload, !.fin = fin]
  IN  IF room = 0 \/ s.fin_flag THEN [dry |-> FALSE, snd |-> s]
      ELSE IF payload = <<>> /\ ~fin THEN [dry |-> TRUE, snd |-> s]
      ELSE FillLoop(sendSegments([s EXCEPT !.stream = stream, !.fin_flag = fin], <<seg>>))

\* fill_window around the loop: the zero window is restored unless it ran dry.
FillByLoop(s) ==
  LET opened == FillLoop([s EXCEPT !.true_window_size = usable_window(s)])
  IN  IF opened.dry THEN opened.snd
      ELSE [opened.snd EXCEPT !.true_window_size = s.true_window_size]

\* Senders in the middle of a connection: sent numbers up to next, all up to ack
\* acknowledged, a window, the first n bytes of the stream to be sent, ended or not.
Filling(next, ack, window, n, eof) ==
  [SenderNew(Capacity, RetxTimeout, Isn) EXCEPT
     !.syn_flag = TRUE, !.next_seqno = next, !.ackGot = wrap(ack, Isn),
     !.true_window_size = window, !.stream.buf = SubSeq(Stream, 1, n), !.stream.is_eof = eof]

\* The closed form of fill_window is what the loop of tcp_sender.cc:54-78 does, a
\* window of zero and one with more in flight than it has included.
ASSUME FillAssumption ==
  \A next \in 1..6, window \in 0..5, n \in 0..Len(Stream), eof \in BOOLEAN :
    \A ack \in 1..next :
      LET s == Filling(next, ack, window, n, eof) IN fill_window(s) = FillByLoop(s)

================================================================================
