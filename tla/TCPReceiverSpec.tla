---------------------------- MODULE TCPReceiverSpec ----------------------------
(***************************************************************************)
(* A TCPReceiver, a network that delivers, in any order and any number of  *)
(* times, segments of a peer that sends Stream from Isn on, and an         *)
(* application that reads.                                                 *)
(***************************************************************************)
EXTENDS TCPReceiver, CarriedStream

CONSTANT Isn  \* the peer's initial sequence number

\* As TCP requires, the window stays below half of the sequence numbers; and no
\* stream is so long that its 64-bit numbers run out.
ASSUME ReceiverAssumption ==
  /\ Isn \in Word
  /\ 2 * (Capacity + 1) < Mod
  /\ Len(Stream) + Mod < Wide

VARIABLES
  rcv,      \* the TCPReceiver
  received  \* ghost: what the application has read

vars == <<rcv, received>>

Init == rcv = ReceiverNew(Capacity) /\ received = <<>>

\* The peer's segment with len bytes from index on.
PeerSegment(syn, index, len, fin) ==
  [TCPSegmentNew EXCEPT
     !.seqno = wrap(index + flag(~syn), Isn),
     !.syn = syn, !.fin = fin,
     !.payload = SubSeq(Stream, index + 1, index + len)]

Receive(seg) == rcv' = segment_received(rcv, seg) /\ UNCHANGED received

\* The SYN, with the first bytes or without, first or again.
SynArrives(len) == Receive(PeerSegment(TRUE, 0, len, FALSE))

\* A segment that is half of the sequence numbers away from the next byte has
\* left the network (the maximum segment lifetime of TCP).
Alive(index) ==
  LET next == stream_out(rcv).write_count
  IN  2 * (index + 1 - next) < Mod /\ 2 * (next - index - 1) < Mod

DataArrives(index, len, fin) ==
  /\ Alive(index)
  /\ fin => index + len = Len(Stream)
  /\ Receive(PeerSegment(FALSE, index, len, fin))

\* An acknowledgment without payload, whatever its number (TCPConnection sends
\* 0; a keep-alive probe has an old one).
EmptyArrives(seqno) == Receive([TCPSegmentNew EXCEPT !.seqno = seqno])

ReadOut(len) ==
  /\ len \in 1..buffer_size(stream_out(rcv))
  /\ rcv' = [rcv EXCEPT !.reassembler.output = read(@, len)]
  /\ received' = received \o read_data(stream_out(rcv), len)

Next ==
  \/ \E len \in 0..Len(Stream) : Alive(0) /\ SynArrives(len)
  \/ \E index \in 0..Len(Stream), fin \in BOOLEAN :
       \E len \in 0..(Len(Stream) - index) : DataArrives(index, len, fin)
  \/ \E seqno \in Word : EmptyArrives(seqno)
  \/ \E len \in 1..Capacity : ReadOut(len)

Spec == Init /\ [][Next]_vars

-------------------------------------------------------------------------------
(* Properties *)

nextIndex == rcv.reassembler.nextIndex

\* Every payload byte lands at its own place in the stream although the numbers
\* on the wire wrap, whatever the order and repetition of segments: the
\* application has read a prefix of the peer's stream, and what is buffered and
\* what is held back continue it.
BytesInPlace ==
  /\ received \o stream_out(rcv).buf = SubSeq(Stream, 1, nextIndex)
  /\ \A k \in DOMAIN rcv.reassembler.myMap :
       k < Len(Stream) /\ rcv.reassembler.myMap[k] = Stream[k + 1]

\* The acknowledgment on the wire never moves backwards, and neither does the
\* right edge of the window: what was once offered is never taken back, which
\* TCPSender::fill_window relies on.
WindowNeverShrinks ==
  [][rcv.isn_set =>
       LET step == (ackno(rcv') - ackno(rcv)) % Mod
       IN  2 * step < Mod /\ step + window_size(rcv') >= window_size(rcv)]_vars

\* The window is a promise: any segment within it is kept whole, written or
\* held back (window_size, tcp_receiver.hh:41-50).
WindowIsAccepted ==
  rcv.isn_set =>
    \A index \in nextIndex .. Least(nextIndex + window_size(rcv), Len(Stream)) :
      \A len \in 0 .. Least(nextIndex + window_size(rcv), Len(Stream)) - index :
        LET r == segment_received(rcv, PeerSegment(FALSE, index, len, FALSE)).reassembler
        IN  \A k \in Span(index, len) : k < r.nextIndex \/ k \in DOMAIN r.myMap

===============================================================================
