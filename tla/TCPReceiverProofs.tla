--------------------------- MODULE TCPReceiverProofs ---------------------------
(***************************************************************************)
(* TCPReceiverSpec puts every byte in its place, never takes back what it  *)
(* offered, and keeps what it offers to keep, for every stream, capacity,  *)
(* initial number and width of the numbers.  The argument: the checkpoint  *)
(* of unwrap is the next index, a segment that arrives is less than half a *)
(* turn from it, so the index handed to push_substring is the right one,   *)
(* and the rest is what push_substring does (ClassLemmas).                 *)
(***************************************************************************)
EXTENDS TCPReceiverSpec, ClassLemmas

\* The objects of the class.
ReceiverOf ==
  [reassembler : ReassemblerOf(Byte, DOMAIN rcv.reassembler.myMap),
   capacity : {Capacity}, isn : Word, isn_set : BOOLEAN]

\* The reassembler is right for what has been read, and the initial number is
\* the peer's once there is one.
Inv ==
  /\ rcv \in ReceiverOf
  /\ rcv.isn_set => rcv.isn = Isn
  /\ Right(rcv.reassembler, Len(received))
  /\ received \in Seq(Byte)
  /\ received = SubSeq(Stream, 1, Len(received))

-------------------------------------------------------------------------------
(* From numbers on the wire to indices *)

\* The constants, in the form the proofs use them.
LEMMA Numbers ==
  /\ Mod \in Nat /\ Mod > 1 /\ Wide \in Nat /\ Wide > 0 /\ Len(Stream) \in Nat
  /\ Len(Stream) + Mod < Wide /\ Isn \in Word /\ Isn \in Nat
  /\ Capacity \in Nat /\ 2 * (Capacity + 1) < Mod
BY Widths, StreamAssumption, ReceiverAssumption, LenProperties DEF Word

\* A number less than half a turn from the next byte becomes its own index.
LEMMA IndexExact ==
  ASSUME NEW index \in 0..Len(Stream), NEW next \in 0..Len(Stream),
         2 * (index + 1 - next) < Mod, 2 * (next - index - 1) < Mod
  PROVE  (unwrap(wrap(index + 1, Isn), Isn, next) - 1) % Wide = index
<1>1. /\ index + 1 \in Nat /\ next \in LongWord /\ next < Wide - Mod
      /\ 2 * (next - (index + 1)) < Mod
  BY Numbers DEF LongWord
<1>2. unwrap(wrap(index + 1, Isn), Isn, next) = index + 1
  BY <1>1, Numbers, UnwrapExact
<1>3. (index + 1) - 1 = index /\ index \in 0..(Wide - 1)
  BY Numbers
<1> QED  BY <1>2, <1>3, Numbers, ModSmall

\* Whatever the number, there is some index.
LEMMA SomeIndex ==
  ASSUME NEW w \in Word, NEW next \in 0..Len(Stream)
  PROVE  (unwrap(w, Isn, next) - 1) % Wide \in Nat
<1> DEFINE ans == SameTurn(w, Isn, next)
<1>1. next \in LongWord /\ next < Wide - Mod
  BY Numbers DEF LongWord
<1>2. /\ ans \in Nat /\ \/ unwrap(w, Isn, next) = ans + Mod
                        \/ unwrap(w, Isn, next) = ans - Mod
                        \/ unwrap(w, Isn, next) = ans
  BY <1>1, Numbers, UnwrapCases
<1> HIDE DEF ans
<1>3. unwrap(w, Isn, next) - 1 \in Int
  BY <1>2, Numbers
<1>4. (unwrap(w, Isn, next) - 1) % Wide \in 0..(Wide - 1)
  BY <1>3, Numbers, ModFacts
<1> QED  BY <1>4, Numbers

\* The SYN carries the peer's initial number, and the bytes after it number 1.
LEMMA SynNumbers ==
  /\ wrap(0, Isn) = Isn
  /\ plus(Isn, 1) = wrap(1, Isn)
  /\ \A a \in Int : plus(wrap(a, Isn), 0) = wrap(a, Isn)
<1>1. 0 \in 0..(Mod - 1) /\ 1 \in 0..(Mod - 1) /\ Isn \in 0..(Mod - 1)
  BY Numbers DEF Word
<1>2. 0 % Mod = 0 /\ 1 % Mod = 1 /\ Isn % Mod = Isn
  BY <1>1, Numbers, ModSmall
<1>3. 0 + Isn = Isn /\ 1 + Isn = Isn + 1
  BY Numbers
<1>4. ASSUME NEW a \in Int PROVE plus(wrap(a, Isn), 0) = wrap(a, Isn)
  <2>1. wrap(a, Isn) \in 0..(Mod - 1)
    BY Numbers, WrapFacts DEF Word
  <2>2. wrap(a, Isn) + 0 = wrap(a, Isn)
    BY <2>1
  <2> QED  BY <2>1, <2>2, Numbers, ModSmall DEF plus
<1> QED  BY <1>2, <1>3, <1>4 DEF wrap, plus

-------------------------------------------------------------------------------
(* segment_received *)

\* What the invariant says about the fields.
LEMMA InvFields ==
  ASSUME Inv
  PROVE  /\ Right(rcv.reassembler, Len(received))
         /\ nextIndex \in 0..Len(Stream) /\ nextIndex \in Nat
         /\ stream_out(rcv).write_count = nextIndex
         /\ stream_out(rcv).read_count = Len(received)
         /\ Len(received) \in Nat
         /\ stream_out(rcv).is_eof \in BOOLEAN
<1>1. Right(rcv.reassembler, Len(received)) /\ Len(received) \in Nat
  BY LenProperties DEF Inv
<1>2. nextIndex \in Nat /\ nextIndex <= Len(Stream) /\ Len(Stream) \in Nat
  BY <1>1, RightFields DEF nextIndex
<1>3. /\ rcv.reassembler.output.write_count = nextIndex
      /\ rcv.reassembler.output.read_count = Len(received)
      /\ rcv.reassembler.output \in ByteStreamOf(Byte)
  BY <1>1 DEF Right, OutRight, nextIndex
<1>4. rcv.reassembler.output.is_eof \in BOOLEAN
  BY <1>3 DEF ByteStreamOf
<1> QED  BY <1>1, <1>2, <1>3, <1>4 DEF stream_out

\* A segment is the peer's if its SYN has the peer's initial number.
FromPeer(seg) == seg.syn \in BOOLEAN /\ (seg.syn = TRUE => seg.seqno = Isn)

\* Where the payload of a segment is pushed, and what comes of it.
IndexOf(seg) == stream_index(rcv, Isn, payload_seqno(seg))
PushOf(seg) == push_substring(rcv.reassembler, seg.payload, IndexOf(seg), seg.fin)

\* What segment_received does with a segment it does not ignore.
PushedBy(seg) ==
  LET new == segment_received(rcv, seg)
  IN  /\ new = [rcv EXCEPT !.isn = Isn, !.isn_set = TRUE, !.reassembler = PushOf(seg)]
      /\ new.reassembler = PushOf(seg) /\ new.isn = Isn /\ new.isn_set = TRUE
      /\ new.capacity = Capacity

\* Before the SYN a segment without one is ignored.
LEMMA Ignored ==
  ASSUME NEW seg, ~seg.syn /\ ~rcv.isn_set
  PROVE  segment_received(rcv, seg) = rcv
BY DEF segment_received

\* From the SYN on, the payload is pushed where its number says.
LEMMA Pushed ==
  ASSUME Inv, NEW seg, FromPeer(seg), ~(~seg.syn /\ ~rcv.isn_set)
  PROVE  PushedBy(seg)
<1> DEFINE p == PushOf(seg)
           new == [rcv EXCEPT !.isn = Isn, !.isn_set = TRUE, !.reassembler = p]
<1>1. rcv \in ReceiverOf /\ (rcv.isn_set => rcv.isn = Isn)
  BY DEF Inv
<1>2. (IF seg.syn THEN seg.seqno ELSE rcv.isn) = Isn
  BY <1>1 DEF FromPeer
<1>3. segment_received(rcv, seg) = new
  BY <1>2 DEF segment_received, PushOf, IndexOf
<1> HIDE DEF p
<1>4. /\ new.reassembler = p /\ new.isn = Isn /\ new.isn_set = TRUE
      /\ new.capacity = Capacity
  BY <1>1 DEF ReceiverOf
<1> QED  BY <1>3, <1>4 DEF PushedBy, p

\* What a step can be: a segment that brings a piece of the stream, or a read.
SegmentStep(seg) ==
  /\ FromPeer(seg) /\ Receive(seg)
  /\ IndexOf(seg) \in Nat /\ Piece(seg.payload, IndexOf(seg))

\* A push keeps the invariant, if what is pushed is a piece of the stream.
LEMMA ReceiveInv ==
  ASSUME Inv, NEW seg, SegmentStep(seg)
  PROVE  Inv'
<1> DEFINE p == PushOf(seg)
<1>1. /\ rcv \in ReceiverOf /\ Right(rcv.reassembler, Len(received))
      /\ rcv' = segment_received(rcv, seg) /\ received' = received
  BY DEF Inv, SegmentStep, Receive
<1>2. CASE ~seg.syn /\ ~rcv.isn_set
  <2>1. rcv' = rcv
    BY <1>1, <1>2, Ignored
  <2> QED  BY <1>1, <2>1 DEF Inv, ReceiverOf
<1>3. CASE ~(~seg.syn /\ ~rcv.isn_set)
  <2>1. PushedBy(seg)
    BY <1>3, Pushed DEF SegmentStep
  <2>2. Right(p, Len(received))
    BY <1>1, PushRight DEF SegmentStep, PushOf
  <2>3. p \in ReassemblerOf(Byte, DOMAIN p.myMap)
    BY <2>2 DEF Right
  <2>4. /\ rcv' = [rcv EXCEPT !.isn = Isn, !.isn_set = TRUE, !.reassembler = p]
        /\ rcv'.reassembler = p /\ rcv'.isn = Isn
    BY <1>1, <2>1 DEF PushedBy
  <2> HIDE DEF p
  <2>5. rcv' \in ReceiverOf'
    BY <1>1, <2>3, <2>4, Numbers DEF ReceiverOf
  <2> QED  BY <1>1, <2>2, <2>4, <2>5 DEF Inv
<1> QED  BY <1>2, <1>3

\* Where a segment of data that is alive is pushed.
LEMMA DataIndex ==
  ASSUME Inv, NEW index \in 0..Len(Stream), NEW len \in 0..(Len(Stream) - index),
         Alive(index), NEW fin \in BOOLEAN, NEW seg, seg = PeerSegment(FALSE, index, len, fin)
  PROVE  /\ IndexOf(seg) = index
         /\ Piece(seg.payload, index) /\ Len(seg.payload) = len
         /\ seg.syn = FALSE /\ seg.fin = fin
         /\ index \in Nat /\ len \in Nat /\ index + len <= Len(Stream)
<1>1. /\ seg.syn = FALSE /\ seg.fin = fin
      /\ seg.seqno = wrap(index + flag(~FALSE), Isn)
      /\ seg.payload = SubSeq(Stream, index + 1, index + len)
  BY DEF PeerSegment, TCPSegmentNew
<1>2. index \in Nat /\ len \in Nat /\ index + len <= Len(Stream) /\ index + 1 \in Int
  BY Numbers
<1>3. seg.seqno = wrap(index + 1, Isn)
  BY <1>1 DEF flag
<1>4. payload_seqno(seg) = wrap(index + 1, Isn)
  BY <1>1, <1>2, <1>3, SynNumbers DEF payload_seqno, flag
<1>5. 2 * (index + 1 - nextIndex) < Mod /\ 2 * (nextIndex - index - 1) < Mod
  BY InvFields DEF Alive
<1>6. IndexOf(seg) = index
  BY <1>4, <1>5, InvFields, IndexExact DEF IndexOf, stream_index
<1>7. Piece(SubSeq(Stream, index + 1, index + len), index)
      /\ Len(SubSeq(Stream, index + 1, index + len)) = len
  BY <1>2, SubSeqPiece
<1> QED  BY <1>1, <1>2, <1>6, <1>7

\* Where the bytes that come with the SYN are pushed.
LEMMA SynIndex ==
  ASSUME Inv, NEW len \in 0..Len(Stream), Alive(0),
         NEW seg, seg = PeerSegment(TRUE, 0, len, FALSE)
  PROVE  /\ IndexOf(seg) = 0
         /\ Piece(seg.payload, 0)
         /\ seg.syn = TRUE /\ seg.seqno = Isn
<1>1. /\ seg.syn = TRUE /\ seg.seqno = wrap(0 + flag(~TRUE), Isn)
      /\ seg.payload = SubSeq(Stream, 0 + 1, 0 + len)
  BY DEF PeerSegment, TCPSegmentNew
<1>2. seg.seqno = Isn
  <2>1. 0 + flag(~TRUE) = 0
    BY DEF flag
  <2> QED  BY <1>1, <2>1, SynNumbers
<1>3. payload_seqno(seg) = wrap(0 + 1, Isn)
  <2>1. 0 + 1 = 1 /\ flag(TRUE) = 1
    BY DEF flag
  <2> QED  BY <1>1, <1>2, <2>1, SynNumbers DEF payload_seqno
<1>4. /\ 2 * (0 + 1 - nextIndex) < Mod /\ 2 * (nextIndex - 0 - 1) < Mod
      /\ 0 \in 0..Len(Stream)
  BY InvFields, Numbers DEF Alive
<1>5. IndexOf(seg) = 0
  BY <1>3, <1>4, InvFields, IndexExact DEF IndexOf, stream_index
<1>6. Piece(seg.payload, 0)
  <2>1. 0 \in Nat /\ len \in Nat /\ 0 + len <= Len(Stream)
    BY Numbers
  <2>2. Piece(SubSeq(Stream, 0 + 1, 0 + len), 0)
    BY <2>1, SubSeqPiece
  <2> QED  BY <1>1, <2>2
<1> QED  BY <1>1, <1>2, <1>5, <1>6

\* Where an empty segment would be pushed.
LEMMA EmptyIndex ==
  ASSUME Inv, NEW seqno \in Word
  PROVE  LET seg == [TCPSegmentNew EXCEPT !.seqno = seqno]
         IN  /\ IndexOf(seg) \in Nat
             /\ Piece(seg.payload, IndexOf(seg))
             /\ seg.syn = FALSE /\ seg.fin = FALSE /\ seg.payload = <<>>
<1> DEFINE seg == [TCPSegmentNew EXCEPT !.seqno = seqno]
<1>1. seg.syn = FALSE /\ seg.fin = FALSE /\ seg.payload = <<>> /\ seg.seqno = seqno
  BY DEF TCPSegmentNew
<1>2. payload_seqno(seg) \in Word
  <2>1. seqno + 0 \in Int
    BY Numbers DEF Word
  <2>2. (seqno + 0) % Mod \in 0..(Mod - 1)
    BY <2>1, Numbers, ModFacts
  <2> QED  BY <1>1, <2>2 DEF payload_seqno, plus, flag, Word
<1>3. IndexOf(seg) \in Nat
  BY <1>2, InvFields, SomeIndex DEF IndexOf, stream_index
<1> QED  BY <1>1, <1>3, EmptyPiece

-------------------------------------------------------------------------------
(* The specification *)

\* The constructor starts right.
LEMMA InitInv == Init => Inv
<1> SUFFICES ASSUME Init PROVE Inv
  OBVIOUS
<1> DEFINE s == ReassemblerNew(Capacity)
<1>1. /\ rcv = [reassembler |-> s, capacity |-> Capacity, isn |-> 0, isn_set |-> FALSE]
      /\ received = <<>>
  BY DEF Init, ReceiverNew
<1>2. Right(s, 0)
  BY NewRight
<1> HIDE DEF s
<1>3. rcv.reassembler = s /\ rcv.isn_set = FALSE
  BY <1>1
<1>4. s \in ReassemblerOf(Byte, DOMAIN s.myMap) /\ 0 \in Word
  BY <1>2, Numbers DEF Right, Word
<1>5. rcv \in ReceiverOf
  BY <1>1, <1>3, <1>4 DEF ReceiverOf
<1>6. received \in Seq(Byte) /\ Len(received) = 0
  BY <1>1
<1>7. SubSeq(Stream, 1, 0) = <<>>
  BY StreamAssumption, EmptyPrefix
<1> QED  BY <1>1, <1>2, <1>3, <1>5, <1>6, <1>7 DEF Inv

\* A read takes the next bytes of the stream and touches nothing else.
LEMMA ReadInv ==
  ASSUME Inv, NEW len \in 1..Capacity, ReadOut(len)
  PROVE  /\ Inv' /\ Len(received') = Len(received) + len
         /\ nextIndex' = nextIndex /\ rcv'.isn_set = rcv.isn_set /\ rcv'.isn = rcv.isn
         /\ stream_out(rcv').is_eof = stream_out(rcv).is_eof
<1> DEFINE r == Len(received)
           s == rcv.reassembler
           d == read_data(s.output, len)
           t == [s EXCEPT !.output = read(s.output, len)]
<1>1. /\ rcv \in ReceiverOf /\ Right(s, r) /\ received \in Seq(Byte) /\ r \in Nat
      /\ received = SubSeq(Stream, 1, r) /\ (rcv.isn_set => rcv.isn = Isn)
  BY InvFields DEF Inv
<1>2. /\ len \in 1..buffer_size(s.output)
      /\ rcv' = [rcv EXCEPT !.reassembler.output = read(@, len)]
      /\ received' = received \o d
  BY DEF ReadOut, stream_out
<1>3. rcv' = [rcv EXCEPT !.reassembler = t]
  BY <1>1, <1>2 DEF ReceiverOf
<1>4. r + len <= Len(Stream) /\ d = SubSeq(Stream, r + 1, r + len) /\ Right(t, r + len)
  BY <1>1, <1>2, ReadRight
<1>5. len \in Nat /\ Stream \in Seq(Byte) /\ Len(Stream) \in Nat
  BY Numbers, StreamAssumption
<1>6. SubSeq(Stream, 1, r) \o SubSeq(Stream, r + 1, r + len) = SubSeq(Stream, 1, r + len)
  <2>1. 1 \in 1..(Len(Stream) + 1) /\ r \in (1 - 1)..Len(Stream)
    BY <1>1, <1>4, <1>5
  <2>2. r + len \in r..Len(Stream)
    BY <1>1, <1>4, <1>5
  <2> QED  BY <1>5, <2>1, <2>2, ConcatAdjacentSubSeq
<1>7. received' = SubSeq(Stream, 1, r + len)
  BY <1>1, <1>2, <1>4, <1>6
<1>8. r + len \in 0..Len(Stream)
  BY <1>1, <1>4, <1>5
<1>9. received' \in Seq(Byte) /\ Len(received') = r + len
  BY <1>5, <1>7, <1>8, PrefixOf
<1>10. /\ t.nextIndex = s.nextIndex /\ t.output.is_eof = s.output.is_eof
       /\ t \in ReassemblerOf(Byte, DOMAIN t.myMap)
  <2>1. s \in ReassemblerOf(Byte, DOMAIN s.myMap) /\ s.output \in ByteStreamOf(Byte)
    BY <1>1, RightFields DEF Right
  <2>2. t.nextIndex = s.nextIndex /\ t.output = read(s.output, len)
    BY <2>1 DEF ReassemblerOf
  <2>3. t \in ReassemblerOf(Byte, DOMAIN t.myMap)
    BY <1>4 DEF Right
  <2> QED  BY <2>1, <2>2, <2>3, EndKept
<1> HIDE DEF t
<1>11. /\ rcv' \in ReceiverOf' /\ rcv'.reassembler = t
       /\ rcv'.isn_set = rcv.isn_set /\ rcv'.isn = rcv.isn
  BY <1>1, <1>3, <1>10 DEF ReceiverOf
<1>12. Inv'
  BY <1>1, <1>4, <1>7, <1>9, <1>11 DEF Inv
<1> QED  BY <1>9, <1>10, <1>11, <1>12 DEF nextIndex, stream_out

\* Every step is one of the two or leaves everything alone.
LEMMA StepCases ==
  ASSUME Inv, [Next]_vars
  PROVE  \/ \E seg : SegmentStep(seg)
         \/ \E len \in 1..Capacity : ReadOut(len)
         \/ UNCHANGED vars
<1>1. ASSUME NEW len \in 0..Len(Stream), Alive(0), SynArrives(len)
      PROVE  \E seg : SegmentStep(seg)
  <2>1. PICK seg : seg = PeerSegment(TRUE, 0, len, FALSE)
    OBVIOUS
  <2>2. /\ IndexOf(seg) = 0 /\ Piece(seg.payload, 0)
        /\ seg.syn = TRUE /\ seg.seqno = Isn
    BY <1>1, <2>1, SynIndex
  <2>3. SegmentStep(seg)
    <3>1. Receive(seg)
      BY <1>1, <2>1 DEF SynArrives
    <3>2. FromPeer(seg)
      BY <2>2 DEF FromPeer
    <3>3. IndexOf(seg) \in Nat /\ Piece(seg.payload, IndexOf(seg))
      BY <2>2
    <3> QED  BY <3>1, <3>2, <3>3 DEF SegmentStep
  <2> QED  BY <2>3
<1>2. ASSUME NEW index \in 0..Len(Stream), NEW fin \in BOOLEAN,
             NEW len \in 0..(Len(Stream) - index), DataArrives(index, len, fin)
      PROVE  \E seg : SegmentStep(seg)
  <2>1. PICK seg : seg = PeerSegment(FALSE, index, len, fin)
    OBVIOUS
  <2>2. /\ IndexOf(seg) = index
        /\ Piece(seg.payload, index) /\ seg.syn = FALSE /\ index \in Nat
    BY <1>2, <2>1, DataIndex DEF DataArrives
  <2>3. SegmentStep(seg)
    BY <1>2, <2>1, <2>2 DEF DataArrives, SegmentStep, FromPeer
  <2> QED  BY <2>3
<1>3. ASSUME NEW seqno \in Word, EmptyArrives(seqno)
      PROVE  \E seg : SegmentStep(seg)
  <2> DEFINE seg == [TCPSegmentNew EXCEPT !.seqno = seqno]
  <2>1. SegmentStep(seg)
    BY <1>3, EmptyIndex DEF EmptyArrives, SegmentStep, FromPeer
  <2> QED  BY <2>1
<1> QED  BY <1>1, <1>2, <1>3 DEF Next

\* Every step keeps the invariant.
LEMMA NextInv == Inv /\ [Next]_vars => Inv'
<1> SUFFICES ASSUME Inv, [Next]_vars PROVE Inv'
  OBVIOUS
<1>1. ASSUME NEW seg, SegmentStep(seg) PROVE Inv'
  BY <1>1, ReceiveInv
<1>2. ASSUME NEW len \in 1..Capacity, ReadOut(len) PROVE Inv'
  BY <1>2, ReadInv
<1>3. CASE UNCHANGED vars
  BY <1>3 DEF Inv, vars, ReceiverOf
<1> QED  BY <1>1, <1>2, <1>3, StepCases

\* The invariant always holds.
LEMMA AlwaysInv == Spec => []Inv
BY InitInv, NextInv, PTL DEF Spec

-------------------------------------------------------------------------------
(* Every byte in its place *)

\* The invariant places what was read, what is buffered and what is held.
LEMMA InvPlaces == Inv => BytesInPlace
<1> SUFFICES ASSUME Inv PROVE BytesInPlace
  OBVIOUS
<1> DEFINE r == Len(received)
<1>1. /\ OutRight(rcv.reassembler.output, r, nextIndex)
      /\ MapRight(rcv.reassembler.myMap, nextIndex, rcv.reassembler.bytesUnAssembled)
      /\ received = SubSeq(Stream, 1, r)
  BY DEF Inv, Right, nextIndex
<1>2. /\ r \in Nat /\ nextIndex \in Nat /\ r <= nextIndex /\ nextIndex <= Len(Stream)
      /\ rcv.reassembler.output.buf = SubSeq(Stream, r + 1, nextIndex)
  BY <1>1 DEF OutRight
<1>3. SubSeq(Stream, 1, r) \o SubSeq(Stream, r + 1, nextIndex) = SubSeq(Stream, 1, nextIndex)
  <2>1. 1 \in 1..(Len(Stream) + 1) /\ r \in (1 - 1)..Len(Stream)
    BY <1>2, Numbers
  <2>2. nextIndex \in r..Len(Stream)
    BY <1>2, Numbers
  <2>3. Stream \in Seq(Byte)
    BY StreamAssumption
  <2> QED  BY <2>1, <2>2, <2>3, ConcatAdjacentSubSeq
<1>4. received \o stream_out(rcv).buf = SubSeq(Stream, 1, nextIndex)
  BY <1>1, <1>2, <1>3 DEF stream_out
<1>5. ASSUME NEW k \in DOMAIN rcv.reassembler.myMap
      PROVE  k < Len(Stream) /\ rcv.reassembler.myMap[k] = Stream[k + 1]
  <2>1. k \in nextIndex..(Len(Stream) - 1) /\ rcv.reassembler.myMap[k] = Stream[k + 1]
    BY <1>1 DEF MapRight
  <2> QED  BY <1>2, <2>1, Numbers
<1> QED  BY <1>4, <1>5 DEF BytesInPlace

(***************************************************************************)
(* What the application reads is what the peer sent: segment_received      *)
(* pushes every payload byte at its own index, whatever the initial number *)
(* and however often the numbers on the wire have wrapped.                 *)
(***************************************************************************)
THEOREM ReceiverCorrect == Spec => []BytesInPlace
BY AlwaysInv, InvPlaces, PTL

-------------------------------------------------------------------------------
(* What has been offered stays offered *)

\* A sum of a number on the wire and a small one, before the turns are cut off.
LEMMA NumberIs ==
  ASSUME NEW n \in Int, NEW e \in Int
  PROVE  \E k \in Int : plus(wrap(n, Isn), e) = n + Isn + e + Mod * k
<1> DEFINE x == n % Mod
           y == (x + Isn) % Mod
           z == (y + e) % Mod
           a == n \div Mod
           b == (x + Isn) \div Mod
           c == (y + e) \div Mod
<1>1. x \in 0..(Mod - 1) /\ a \in Int /\ n = Mod * a + x
  BY Numbers, ModFacts
<1>2. x + Isn \in Int
  BY <1>1, Numbers
<1>3. y \in 0..(Mod - 1) /\ b \in Int /\ x + Isn = Mod * b + y
  BY <1>2, Numbers, ModFacts
<1>4. y + e \in Int
  BY <1>3, Numbers
<1>5. z \in 0..(Mod - 1) /\ c \in Int /\ y + e = Mod * c + z
  BY <1>4, Numbers, ModFacts
<1>6. plus(wrap(n, Isn), e) = z
  BY DEF plus, wrap
<1> HIDE DEF x, y, z, a, b, c
<1>7. x \in Int /\ y \in Int /\ z \in Int /\ Mod \in Int /\ Isn \in Int
  BY <1>1, <1>3, <1>5, Numbers
<1>8. z = n + Isn + e + Mod * (0 - (a + b + c)) /\ 0 - (a + b + c) \in Int
  BY <1>1, <1>3, <1>5, <1>7
<1> QED  BY <1>6, <1>8

\* From one acknowledgment to a later one, the distance on the wire is that in
\* the stream, as long as it is less than a turn.
LEMMA StepIs ==
  ASSUME NEW n \in Int, NEW e \in Int, NEW m \in Int, NEW d \in Int,
         (m + d) - (n + e) \in 0..(Mod - 1)
  PROVE  (plus(wrap(m, Isn), d) - plus(wrap(n, Isn), e)) % Mod = (m + d) - (n + e)
<1>1. PICK j \in Int : plus(wrap(n, Isn), e) = n + Isn + e + Mod * j
  BY NumberIs
<1>2. PICK k \in Int : plus(wrap(m, Isn), d) = m + Isn + d + Mod * k
  BY NumberIs
<1> DEFINE D == (m + d) - (n + e)
           w == plus(wrap(m, Isn), d) - plus(wrap(n, Isn), e)
<1>3. w = Mod * (k - j) + D /\ k - j \in Int /\ w \in Int
  BY <1>1, <1>2, Numbers
<1>4. D \in 0..(Mod - 1)
  OBVIOUS
<1> HIDE DEF w, D
<1>5. w % Mod = D
  BY <1>3, <1>4, Numbers, ModUnique
<1> QED  BY <1>5 DEF w, D

\* The acknowledgment moved by less than half a turn, and the right edge of the
\* window not to the left, from n written, r read and the end e to n2, r2 and d.
EdgeMoved(n, n2, r, r2, e, d) ==
  /\ ((n2 + 1) + d) - ((n + 1) + e) \in 0..(Mod - 1)
  /\ 2 * (((n2 + 1) + d) - ((n + 1) + e)) < Mod
  /\ (((n2 + 1) + d) - ((n + 1) + e)) + (Capacity - (n2 - r2)) >= Capacity - (n - r)

\* That is so when neither count goes back and the window is kept to.
LEMMA EdgeMoves ==
  ASSUME NEW n \in Nat, NEW n2 \in Nat, NEW r \in Nat, NEW r2 \in Nat,
         NEW e \in 0..1, NEW d \in 0..1, e <= d, r <= n, n <= n2,
         n2 <= r + Capacity, r <= r2
  PROVE  EdgeMoved(n, n2, r, r2, e, d)
BY Numbers DEF EdgeMoved

\* The acknowledgment and the window in terms of the invariant.
LEMMA Offered ==
  ASSUME Inv, rcv.isn_set
  PROVE  /\ ackno(rcv) = plus(wrap(nextIndex + 1, Isn), flag(stream_out(rcv).is_eof))
         /\ window_size(rcv) = Capacity - (nextIndex - Len(received))
<1>1. rcv.isn = Isn /\ rcv.capacity = Capacity
  BY DEF Inv, ReceiverOf
<1> QED  BY <1>1, InvFields DEF ackno, window_size

\* What a step does to the bytes written, the bytes read and the end.
Forward ==
  /\ nextIndex <= nextIndex' /\ nextIndex' <= Len(received) + Capacity
  /\ Len(received) <= Len(received')
  /\ stream_out(rcv).is_eof = TRUE => stream_out(rcv').is_eof = TRUE
  /\ rcv'.isn_set

\* A segment moves the bytes written forward, and within the window.
LEMMA SegmentForward ==
  ASSUME Inv, Inv', rcv.isn_set, NEW seg, SegmentStep(seg)
  PROVE  Forward
<1> DEFINE p == PushOf(seg)
           s == rcv.reassembler
           r == Len(received)
<1>1. /\ Right(s, r) /\ rcv' = segment_received(rcv, seg) /\ received' = received
  BY DEF Inv, SegmentStep, Receive
<1>2. PushedBy(seg)
  BY Pushed DEF SegmentStep
<1>3. rcv'.reassembler = p /\ rcv'.isn_set
  BY <1>1, <1>2 DEF PushedBy
<1>4. Right(p, r) /\ EndsWell(s, p)
  BY <1>1, PushRight, PushEnds DEF SegmentStep, PushOf
<1>5. s.nextIndex \in Nat /\ p.nextIndex \in Nat /\ s.nextIndex <= p.nextIndex
  BY <1>1, PushHas, RightFields DEF SegmentStep, PushOf
<1>6. /\ p.nextIndex + remaining_capacity(p.output) = r + Capacity
      /\ remaining_capacity(p.output) \in Nat
  BY <1>4, RoomFacts, RightFields
<1>7. stream_out(rcv).is_eof \in BOOLEAN /\ stream_out(rcv').is_eof \in BOOLEAN
  <2>1. s.output \in ByteStreamOf(Byte) /\ p.output \in ByteStreamOf(Byte)
    BY <1>1, <1>4, RightFields
  <2>2. s.output.is_eof \in BOOLEAN /\ p.output.is_eof \in BOOLEAN
    BY <2>1, StreamFields
  <2> QED  BY <1>3, <2>2 DEF stream_out
<1>8. stream_out(rcv).is_eof = TRUE => stream_out(rcv').is_eof = TRUE
  BY <1>3, <1>4, <1>7 DEF EndsWell, stream_out
<1> HIDE DEF p
<1>9. p.nextIndex <= r + Capacity /\ Len(received') = r /\ r \in Nat
  BY <1>1, <1>5, <1>6, Numbers, InvFields
<1> QED  BY <1>3, <1>5, <1>8, <1>9 DEF Forward, nextIndex

\* A read leaves the bytes written alone.
LEMMA ReadForward ==
  ASSUME Inv, rcv.isn_set, NEW len \in 1..Capacity, ReadOut(len)
  PROVE  Forward
<1>1. /\ Len(received') = Len(received) + len
      /\ nextIndex' = nextIndex /\ rcv'.isn_set = rcv.isn_set
      /\ stream_out(rcv').is_eof = stream_out(rcv).is_eof
  BY ReadInv
<1>2. nextIndex <= Len(received) + Capacity
  <2>1. /\ nextIndex + remaining_capacity(rcv.reassembler.output) = Len(received) + Capacity
        /\ remaining_capacity(rcv.reassembler.output) \in Nat
    BY InvFields, RoomFacts, RightFields DEF nextIndex
  <2> QED  BY <2>1, InvFields, Numbers
<1> QED  BY <1>1, <1>2, InvFields, Numbers DEF Forward

\* A step forward never takes back what was offered.
LEMMA ForwardKeeps ==
  ASSUME Inv, Inv', rcv.isn_set, Forward
  PROVE  LET step == (ackno(rcv') - ackno(rcv)) % Mod
         IN  2 * step < Mod /\ step + window_size(rcv') >= window_size(rcv)
<1> DEFINE n == nextIndex + 1
           m == nextIndex' + 1
           e == flag(stream_out(rcv).is_eof)
           d == flag(stream_out(rcv').is_eof)
<1>1. /\ nextIndex \in Nat /\ Len(received) \in Nat
      /\ stream_out(rcv).is_eof \in BOOLEAN
      /\ Len(received) <= nextIndex
  <2>1. Len(received) <= nextIndex
    BY InvFields, RoomFacts DEF nextIndex
  <2> QED  BY <2>1, InvFields
<1>2. /\ nextIndex' \in Nat /\ Len(received') \in Nat
      /\ stream_out(rcv').is_eof \in BOOLEAN
  <2>1. Right(rcv.reassembler', Len(received')) /\ Len(received') \in Nat
    BY LenProperties DEF Inv
  <2>2. /\ rcv.reassembler'.nextIndex \in Nat
        /\ rcv.reassembler'.output \in ByteStreamOf(Byte)
    BY <2>1, RightFields
  <2>3. rcv.reassembler'.output.is_eof \in BOOLEAN
    BY <2>2, StreamFields
  <2> QED  BY <2>1, <2>2, <2>3 DEF nextIndex, stream_out
<1>3. /\ e \in 0..1 /\ d \in 0..1 /\ e <= d
  BY <1>1, <1>2 DEF flag, Forward
<1> HIDE DEF e, d
<1>4. /\ (m + d) - (n + e) \in 0..(Mod - 1)
      /\ 2 * ((m + d) - (n + e)) < Mod
      /\ ((m + d) - (n + e)) + (Capacity - (nextIndex' - Len(received')))
           >= Capacity - (nextIndex - Len(received))
      /\ n \in Int /\ m \in Int
  <2>1. /\ nextIndex <= nextIndex' /\ nextIndex' <= Len(received) + Capacity
        /\ Len(received) <= Len(received')
    BY DEF Forward
  <2>2. EdgeMoved(nextIndex, nextIndex', Len(received), Len(received'), e, d)
    BY <1>1, <1>2, <1>3, <2>1, EdgeMoves
  <2> QED  BY <1>1, <1>2, <2>2 DEF EdgeMoved
<1>5. /\ ackno(rcv) = plus(wrap(n, Isn), e)
      /\ window_size(rcv) = Capacity - (nextIndex - Len(received))
  BY Offered DEF e
<1>6. /\ ackno(rcv') = plus(wrap(m, Isn), d)
      /\ window_size(rcv') = Capacity - (nextIndex' - Len(received'))
  <2>1. rcv'.isn = Isn /\ rcv'.capacity = Capacity
    BY DEF Inv, ReceiverOf, Forward
  <2>2. /\ stream_out(rcv').write_count = nextIndex'
        /\ stream_out(rcv').read_count = Len(received')
    BY DEF Inv, Right, OutRight, stream_out, nextIndex
  <2> QED  BY <2>1, <2>2 DEF ackno, window_size, d
<1>7. (ackno(rcv') - ackno(rcv)) % Mod = (m + d) - (n + e)
  BY <1>3, <1>4, <1>5, <1>6, StepIs
<1> QED  BY <1>4, <1>5, <1>6, <1>7

\* Every step that changes something keeps what was offered.
LEMMA StepKeeps ==
  ASSUME Inv, [Next]_vars
  PROVE  [rcv.isn_set =>
            LET step == (ackno(rcv') - ackno(rcv)) % Mod
            IN  2 * step < Mod /\ step + window_size(rcv') >= window_size(rcv)]_vars
<1> SUFFICES ASSUME rcv.isn_set, ~UNCHANGED vars
             PROVE  LET step == (ackno(rcv') - ackno(rcv)) % Mod
                    IN  2 * step < Mod /\ step + window_size(rcv') >= window_size(rcv)
  OBVIOUS
<1>1. Inv'
  BY NextInv
<1>2. Forward
  <2>1. ASSUME NEW seg, SegmentStep(seg) PROVE Forward
    BY <1>1, <2>1, SegmentForward
  <2>2. ASSUME NEW len \in 1..Capacity, ReadOut(len) PROVE Forward
    BY <2>2, ReadForward
  <2> QED  BY <2>1, <2>2, StepCases
<1> QED  BY <1>1, <1>2, ForwardKeeps

(***************************************************************************)
(* The acknowledgment never moves backwards on the wire and the right edge *)
(* of the window never moves to the left, in any order of segments and     *)
(* reads.                                                                  *)
(***************************************************************************)
THEOREM ReceiverKeepsWindow == Spec => WindowNeverShrinks
BY AlwaysInv, StepKeeps, PTL DEF Spec, WindowNeverShrinks

-------------------------------------------------------------------------------
(* What is offered is kept *)

\* The invariant makes the window a promise.
LEMMA InvAccepts == Inv => WindowIsAccepted
<1> SUFFICES ASSUME Inv, rcv.isn_set,
                    NEW index \in nextIndex .. Least(nextIndex + window_size(rcv), Len(Stream)),
                    NEW len \in 0 .. Least(nextIndex + window_size(rcv), Len(Stream)) - index
             PROVE  LET r == segment_received(rcv, PeerSegment(FALSE, index, len, FALSE)).reassembler
                    IN  \A k \in Span(index, len) : k < r.nextIndex \/ k \in DOMAIN r.myMap
  BY DEF WindowIsAccepted
<1> DEFINE edge == nextIndex + window_size(rcv)
<1>1. /\ nextIndex \in Nat /\ Len(received) \in Nat /\ nextIndex <= Len(Stream)
      /\ Right(rcv.reassembler, Len(received)) /\ stream_out(rcv).write_count = nextIndex
  BY InvFields, Numbers
<1>2. edge = Len(received) + Capacity /\ edge \in Int /\ Len(received) <= nextIndex
  <2>1. Len(received) <= nextIndex
    BY <1>1, RoomFacts DEF nextIndex
  <2>2. window_size(rcv) = Capacity - (nextIndex - Len(received))
    BY Offered
  <2> QED  BY <1>1, <2>1, <2>2, Numbers
<1>3. Least(edge, Len(Stream)) \in Int /\ Least(edge, Len(Stream)) <= edge
      /\ Least(edge, Len(Stream)) <= Len(Stream)
  BY <1>2, Numbers, LeastFacts
<1> HIDE DEF edge
<1>4. /\ index \in nextIndex .. Least(edge, Len(Stream))
      /\ len \in 0 .. Least(edge, Len(Stream)) - index
  BY DEF edge
<1>5. /\ index \in 0..Len(Stream) /\ len \in 0..(Len(Stream) - index)
      /\ index + len <= Len(received) + Capacity /\ nextIndex <= index
  BY <1>1, <1>2, <1>3, <1>4, Numbers
<1>6. Alive(index)
  <2>1. 2 * (index + 1 - nextIndex) < Mod /\ 2 * (nextIndex - index - 1) < Mod
    BY <1>1, <1>2, <1>5, Numbers
  <2> QED  BY <1>1, <2>1 DEF Alive
<1>7. PICK seg : seg = PeerSegment(FALSE, index, len, FALSE)
  OBVIOUS
<1>8. /\ IndexOf(seg) = index /\ Piece(seg.payload, index) /\ Len(seg.payload) = len
      /\ seg.syn = FALSE /\ index \in Nat
  BY <1>5, <1>6, <1>7, DataIndex
<1>9. segment_received(rcv, seg).reassembler
        = push_substring(rcv.reassembler, seg.payload, index, seg.fin)
  <2>1. FromPeer(seg)
    BY <1>8 DEF FromPeer
  <2>2. PushedBy(seg)
    BY <2>1, Pushed
  <2> QED  BY <1>8, <2>2 DEF PushedBy, PushOf
<1> DEFINE res == push_substring(rcv.reassembler, seg.payload, index, seg.fin)
<1>10. \A k \in Span(index, Len(seg.payload)) : Has(res, k)
  BY <1>1, <1>5, <1>8, PushHas
<1> QED  BY <1>7, <1>8, <1>9, <1>10 DEF Has

(***************************************************************************)
(* In every reachable state, a segment that lies within the advertised     *)
(* window is kept whole: none of its bytes has to be sent again.           *)
(***************************************************************************)
THEOREM ReceiverAccepts == Spec => []WindowIsAccepted
BY AlwaysInv, InvAccepts, PTL

================================================================================
