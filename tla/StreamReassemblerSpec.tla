------------------------- MODULE StreamReassemblerSpec -------------------------
(***************************************************************************)
(* A StreamReassembler between a network that delivers substrings of one   *)
(* Stream in any order, overlapping, repeated, cut anywhere, and an        *)
(* application that reads the output at its own pace.  The eof mark comes  *)
(* with a substring that ends the stream, but not with every such one: it  *)
(* may be sent later, by itself.                                           *)
(***************************************************************************)
EXTENDS StreamReassembler, CarriedStream

CONSTANT Segment  \* length of the segments the peer retransmits

ASSUME SegmentAssumption == Segment \in Nat \ {0}

VARIABLES
  sr,       \* the StreamReassembler
  received, \* ghost: what the application has read
  polite    \* ghost: the peer has kept within the window and sent its eof mark
            \* with the last bytes, every time it sent those

vars == <<sr, received, polite>>

Init ==
  /\ sr = ReassemblerNew(Capacity)
  /\ received = <<>> /\ polite = TRUE

\* Within the window the receiver offers (TCPReceiver's window_size: the room
\* left in the output).
InWindow(index, len) ==
  index + len <= sr.nextIndex + remaining_capacity(sr.output)

Push(index, len, eof) ==
  /\ eof => index + len = Len(Stream)
  /\ sr' = push_substring(sr, SubSeq(Stream, index + 1, index + len), index, eof)
  /\ polite' = (polite /\ len > 0 /\ InWindow(index, len)
                  /\ eof = (index + len = Len(Stream)))
  /\ UNCHANGED received

PushAny ==
  \E index \in 0..Len(Stream) :
    \E len \in 0..(Len(Stream) - index), eof \in BOOLEAN : Push(index, len, eof)

\* The application takes len bytes out of stream_out().
ReadOut(len) ==
  /\ len \in 1..buffer_size(sr.output)
  /\ sr' = [sr EXCEPT !.output = read(@, len)]
  /\ received' = received \o read_data(sr.output, len)
  /\ UNCHANGED polite

ReadAny == \E len \in 1..Capacity : ReadOut(len)

Next == PushAny \/ ReadAny

Spec == Init /\ [][Next]_vars

\* The peer keeps sending the segment that holds the first byte it has no
\* acknowledgment for, cut where it was first cut: what TCPSender::tick does.
Retransmit ==
  LET index == sr.nextIndex - (sr.nextIndex % Segment)
      len   == Least(Segment, Len(Stream) - index)
  IN  index < Len(Stream) /\ Push(index, len, index + len = Len(Stream))

\* A peer that keeps within the window; its eof mark comes with the last bytes
\* or, as TCPSender does when the input ends late, by itself.
WindowedNext ==
  \/ \E index \in 0..Len(Stream) :
       \E len \in 0..(Len(Stream) - index) :
         InWindow(index, len) /\ Push(index, len, index + len = Len(Stream))
  \/ ReadAny

WindowedSpec == Init /\ [][WindowedNext]_vars

LiveSpec == Spec /\ WF_vars(Retransmit) /\ WF_vars(ReadAny)

-------------------------------------------------------------------------------
(* Properties *)

\* Types; the output keeps within the capacity.
TypeOK ==
  /\ DOMAIN sr.myMap \subseteq Nat
  /\ sr \in ReassemblerOf(Byte, DOMAIN sr.myMap)
  /\ sr.capacity = Capacity /\ sr.output.capacity = Capacity
  /\ Len(sr.output.buf) <= Capacity
  /\ received \in Seq(Byte)
  /\ polite \in BOOLEAN

\* Whatever order, overlap or repetition push_substring sees, the application
\* has read a prefix of the stream and finds the bytes after it in the output,
\* up to the next index; the counters agree with that.
Delivered ==
  /\ sr.nextIndex <= Len(Stream)
  /\ sr.nextIndex = sr.output.write_count
  /\ sr.output.read_count = Len(received)
  /\ received = SubSeq(Stream, 1, Len(received))
  /\ sr.output.buf = SubSeq(Stream, Len(received) + 1, sr.nextIndex)

\* What is held back is not yet written, is the right byte for its index, and
\* is counted once (stream_reassembler.hh:43-46 asks for that).
HeldRight ==
  /\ \A k \in DOMAIN sr.myMap :
       sr.nextIndex <= k /\ k < Len(Stream) /\ sr.myMap[k] = Stream[k + 1]
  /\ IsFiniteSet(DOMAIN sr.myMap)
  /\ unassembled_bytes(sr) = Cardinality(DOMAIN sr.myMap)

\* How far ahead of the stream memory is used: the check on the start of a
\* substring and the clipping of its length (.cc:22, 29) add up.
HeldNear == \A k \in DOMAIN sr.myMap : k <= sr.nextIndex + 2 * Capacity - 2

\* A push that moves the stream on goes as far as it can: it leaves the byte that
\* is next in the map only if the output is full (stream_reassembler.cc:61-71).
\* Room that the application makes later is used by the next such push, not by a
\* read or by a push ahead of the stream (.cc:39-47).
NothingLeftBehind ==
  [][sr'.nextIndex > sr.nextIndex /\ sr'.nextIndex \in DOMAIN sr'.myMap
       => remaining_capacity(sr'.output) = 0]_vars

\* The application gets the whole stream, provided the peer goes on sending the
\* segment the receiver misses and the application goes on reading.
AllDelivered == <>(received = Stream)

-------------------------------------------------------------------------------
(* What the documentation says.  The code does it for a polite peer, not for
   every sequence of calls. *)

\* stream_reassembler.hh:21-22: "This capacity limits both the bytes that have
\* been reassembled, and those that have not yet been reassembled."
WithinCapacity == buffer_size(sr.output) + unassembled_bytes(sr) <= Capacity

\* stream_reassembler.hh:32, of eof: "the last byte of `data` will be the last
\* byte in the entire stream": the output ends after that byte and not before.
EndAtLastByte == sr.output.is_eof => sr.nextIndex = Len(Stream)

\* stream_reassembler.cc:73 (comment): once the eof mark is taken and the held
\* bytes are all written, the output is told of the end.
EndIsSignalled ==
  (sr.eof_flag /\ sr.nextIndex = Len(Stream) /\ reassembler_empty(sr))
    => sr.output.is_eof

\* With a polite peer memory stays within the capacity (stream_reassembler.cc:29).
PoliteMemory == polite => WithinCapacity

\* With a polite peer the output ends with the last byte, and as soon as it is
\* written (stream_reassembler.cc:25-27, 73-75).
PoliteEnd == polite => EndAtLastByte /\ EndIsSignalled

================================================================================
