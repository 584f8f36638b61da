------------------------ MODULE StreamReassemblerProofs ------------------------
(***************************************************************************)
(* StreamReassemblerSpec delivers the stream for every stream, capacity    *)
(* and sequence of pushes and reads.                                       *)
(***************************************************************************)
EXTENDS StreamReassemblerSpec, ClassLemmas

-------------------------------------------------------------------------------
(* The specification *)

\* The object is right for what has been read.  Beyond the properties it says
\* that no more was read than was written (OutRight).
Inv ==
  /\ Right(sr, Len(received))
  /\ received \in Seq(Byte)
  /\ received = SubSeq(Stream, 1, Len(received))
  /\ polite \in BOOLEAN

\* The constructor starts right.
LEMMA InitInv == Init => Inv
<1> SUFFICES ASSUME Init PROVE Inv
  OBVIOUS
<1>1. sr = ReassemblerNew(Capacity) /\ received = <<>> /\ polite = TRUE
  BY DEF Init
<1>2. <<>> \in Seq(Byte) /\ Len(<<>>) = 0
  OBVIOUS
<1>3. SubSeq(Stream, 1, 0) = <<>>
  BY StreamAssumption, EmptyPrefix
<1> QED  BY <1>1, <1>2, <1>3, NewRight DEF Inv

\* Every push and every read keeps it.
LEMMA NextInv == Inv /\ [Next]_vars => Inv'
<1> SUFFICES ASSUME Inv, [Next]_vars PROVE Inv'
  OBVIOUS
<1> DEFINE r == Len(received)
<1>1. /\ Right(sr, r) /\ received \in Seq(Byte) /\ r \in Nat
      /\ received = SubSeq(Stream, 1, r) /\ polite \in BOOLEAN
  BY LenProperties DEF Inv
<1>2. Stream \in Seq(Byte) /\ Len(Stream) \in Nat
  BY StreamAssumption, LenProperties
<1>3. ASSUME NEW index \in 0..Len(Stream), NEW len \in 0..(Len(Stream) - index),
             NEW eof \in BOOLEAN, Push(index, len, eof)
      PROVE  Inv'
  <2>1. index \in Nat /\ len \in Nat /\ index + len <= Len(Stream)
    BY <1>2
  <2>2. /\ sr' = push_substring(sr, SubSeq(Stream, index + 1, index + len), index, eof)
        /\ received' = received /\ polite' \in BOOLEAN
    BY <1>3 DEF Push
  <2>3. Piece(SubSeq(Stream, index + 1, index + len), index)
    BY <2>1, SubSeqPiece
  <2>4. Right(sr', r)
    BY <1>1, <2>1, <2>2, <2>3, PushRight
  <2> QED  BY <1>1, <2>2, <2>4 DEF Inv
<1>4. ASSUME NEW len \in 1..Capacity, ReadOut(len)
      PROVE  Inv'
  <2> DEFINE d == read_data(sr.output, len)
  <2>1. /\ len \in 1..buffer_size(sr.output)
        /\ sr' = [sr EXCEPT !.output = read(@, len)]
        /\ received' = received \o d /\ polite' = polite
    BY <1>4 DEF ReadOut
  <2>2. /\ r + len <= Len(Stream) /\ d = SubSeq(Stream, r + 1, r + len)
        /\ Right(sr', r + len)
    BY <1>1, <2>1, ReadRight
  <2>3. len \in Nat
    BY StreamAssumption
  <2>4. SubSeq(Stream, 1, r) \o SubSeq(Stream, r + 1, r + len) = SubSeq(Stream, 1, r + len)
    <3>1. 1 \in 1..(Len(Stream) + 1) /\ r \in (1 - 1)..Len(Stream)
      BY <1>1, <1>2, <2>2, <2>3
    <3>2. r + len \in r..Len(Stream)
      BY <1>1, <1>2, <2>2, <2>3
    <3> QED  BY <1>2, <3>1, <3>2, ConcatAdjacentSubSeq
  <2>5. received' = SubSeq(Stream, 1, r + len)
    BY <1>1, <2>1, <2>2, <2>4
  <2>6. r + len \in 0..Len(Stream)
    BY <1>1, <1>2, <2>2, <2>3
  <2>7. received' \in Seq(Byte) /\ Len(received') = r + len
    BY <1>2, <2>5, <2>6, PrefixOf
  <2> QED  BY <1>1, <2>1, <2>2, <2>5, <2>7 DEF Inv
<1>5. CASE PushAny
  BY <1>3, <1>5 DEF PushAny
<1>6. CASE ReadAny
  BY <1>4, <1>6 DEF ReadAny
<1>7. CASE UNCHANGED vars
  BY <1>7 DEF Inv, vars
<1> QED  BY <1>5, <1>6, <1>7 DEF Next

\* The invariant is the three properties.
LEMMA InvImplies == Inv => TypeOK /\ Delivered /\ HeldRight
<1> SUFFICES ASSUME Inv PROVE TypeOK /\ Delivered /\ HeldRight
  OBVIOUS
<1>1. /\ sr \in ReassemblerOf(Byte, DOMAIN sr.myMap) /\ sr.capacity = Capacity
      /\ OutRight(sr.output, Len(received), sr.nextIndex)
      /\ MapRight(sr.myMap, sr.nextIndex, sr.bytesUnAssembled)
  BY DEF Inv, Right
<1>2. sr.nextIndex \in Nat /\ Len(Stream) \in Nat
  BY RightFields DEF Inv
<1>3. DOMAIN sr.myMap \subseteq sr.nextIndex .. (Len(Stream) - 1)
  BY <1>1 DEF MapRight
<1>4. \A k \in DOMAIN sr.myMap : k \in Nat /\ sr.nextIndex <= k /\ k < Len(Stream)
  <2> DEFINE next == sr.nextIndex
  <2> HIDE DEF next
  <2>1. \A k \in next .. (Len(Stream) - 1) : k \in Nat /\ next <= k /\ k < Len(Stream)
    BY <1>2 DEF next
  <2> QED  BY <1>3, <2>1 DEF next
<1>5. TypeOK
  BY <1>1, <1>4 DEF TypeOK, OutRight, Inv
<1>6. Delivered
  BY <1>1 DEF Delivered, OutRight, Inv
<1>7. HeldRight
  BY <1>1, <1>4 DEF HeldRight, MapRight, unassembled_bytes
<1> QED  BY <1>5, <1>6, <1>7

\* A push of a piece of the stream.
PushStep(index, data, eof) ==
  /\ Piece(data, index) /\ Len(data) \in Nat /\ index + Len(data) <= Len(Stream)
  /\ sr' = push_substring(sr, data, index, eof)
  /\ received' = received
  /\ polite' = (polite /\ Len(data) > 0
                  /\ index + Len(data) <= Len(received) + Capacity
                  /\ eof = (index + Len(data) = Len(Stream)))

\* A read of len bytes that leaves out in the place of the output.
ReadStep(len, out) ==
  /\ sr' = [sr EXCEPT !.output = out] /\ out.is_eof = sr.output.is_eof
  /\ Len(received') = Len(received) + len /\ polite' = polite

\* Every step is one of the two or leaves everything alone.
LEMMA StepCases ==
  ASSUME Inv, [Next]_vars
  PROVE  \/ \E index \in Nat, eof \in BOOLEAN : \E data : PushStep(index, data, eof)
         \/ \E len \in Nat : \E out : ReadStep(len, out)
         \/ UNCHANGED vars
<1>1. Right(sr, Len(received)) /\ Len(received) \in Nat /\ received \in Seq(Byte)
  BY LenProperties DEF Inv
<1>2. /\ Len(Stream) \in Nat /\ sr.output \in ByteStreamOf(Byte)
      /\ sr.nextIndex + remaining_capacity(sr.output) = Len(received) + Capacity
  BY <1>1, RightFields, RoomFacts
<1>3. ASSUME NEW index \in 0..Len(Stream), NEW len \in 0..(Len(Stream) - index),
             NEW eof \in BOOLEAN, Push(index, len, eof)
      PROVE  \E data : PushStep(index, data, eof)
  <2> DEFINE data == SubSeq(Stream, index + 1, index + len)
  <2>1. index \in Nat /\ len \in Nat /\ index + len <= Len(Stream)
    BY <1>2
  <2>2. Piece(data, index) /\ Len(data) = len
    BY <2>1, SubSeqPiece
  <2>3. InWindow(index, len) <=> index + len <= Len(received) + Capacity
    BY <1>2 DEF InWindow
  <2>4. /\ eof => index + len = Len(Stream)
        /\ sr' = push_substring(sr, data, index, eof) /\ received' = received
        /\ polite' = (polite /\ len > 0 /\ InWindow(index, len)
                        /\ eof = (index + len = Len(Stream)))
    BY <1>3 DEF Push
  <2> HIDE DEF data
  <2>5. PushStep(index, data, eof)
    BY <2>1, <2>2, <2>3, <2>4 DEF PushStep
  <2> QED  BY <2>5
<1>4. ASSUME NEW len \in 1..Capacity, ReadOut(len)
      PROVE  len \in Nat /\ ReadStep(len, read(sr.output, len))
  <2>1. /\ len \in 1..buffer_size(sr.output)
        /\ sr' = [sr EXCEPT !.output = read(sr.output, len)]
        /\ received' = received \o read_data(sr.output, len) /\ polite' = polite
    BY <1>4 DEF ReadOut
  <2>2. len \in Nat
    BY StreamAssumption
  <2>3. /\ Len(received) + len <= Len(Stream)
        /\ read_data(sr.output, len)
             = SubSeq(Stream, Len(received) + 1, Len(received) + len)
    BY <1>1, <2>1, ReadRight
  <2> DEFINE d == SubSeq(Stream, Len(received) + 1, Len(received) + len)
  <2>4. Piece(d, Len(received)) /\ Len(d) = len
    BY <1>1, <2>2, <2>3, SubSeqPiece
  <2> HIDE DEF d
  <2>5. d \in Seq(Byte) /\ received' = received \o d
    BY <2>1, <2>3, <2>4 DEF Piece, d
  <2>6. Len(received') = Len(received) + len
    BY <1>1, <2>4, <2>5, ConcatProperties
  <2> QED  BY <1>2, <2>1, <2>2, <2>6, EndKept DEF ReadStep
<1>5. CASE PushAny
  <2>1. PICK index \in 0..Len(Stream) :
          \E len \in 0..(Len(Stream) - index), eof \in BOOLEAN : Push(index, len, eof)
    BY <1>5 DEF PushAny
  <2>2. PICK len \in 0..(Len(Stream) - index), eof \in BOOLEAN : Push(index, len, eof)
    BY <2>1
  <2>3. index \in Nat
    BY <1>2
  <2> QED  BY <1>3, <2>2, <2>3
<1>6. CASE ReadAny
  BY <1>4, <1>6 DEF ReadAny
<1> QED  BY <1>5, <1>6 DEF Next

-------------------------------------------------------------------------------
(* How much is held back *)

\* Every step keeps what is held back near.
LEMMA NextNear == Inv /\ HeldNear /\ [Next]_vars => HeldNear'
<1> SUFFICES ASSUME Inv, HeldNear, [Next]_vars PROVE HeldNear'
  OBVIOUS
<1>1. Right(sr, Len(received)) /\ sr \in ReassemblerOf(Byte, DOMAIN sr.myMap)
  BY DEF Inv, Right
<1>2. /\ sr.nextIndex \in Nat /\ Capacity \in Nat /\ Len(Stream) \in Nat
      /\ DOMAIN sr.myMap \subseteq Nat
  <2>1. sr.nextIndex \in Nat /\ Capacity \in Nat /\ Len(Stream) \in Nat
    BY <1>1, RightFields
  <2>2. DOMAIN sr.myMap \subseteq sr.nextIndex .. (Len(Stream) - 1)
    BY <1>1 DEF Right, MapRight
  <2> QED  BY <2>1, <2>2
<1>3. ASSUME NEW index \in Nat, NEW eof \in BOOLEAN, NEW data,
             PushStep(index, data, eof)
      PROVE  HeldNear'
  <2> USE <1>3 DEF PushStep
  <2>1. sr'.nextIndex \in Nat /\ sr.nextIndex <= sr'.nextIndex
    BY <1>1, <1>3, PushHas
  <2>2. \A k \in DOMAIN sr'.myMap :
          k \in DOMAIN sr.myMap \/ k <= sr.nextIndex + 2 * Capacity - 2
    BY <1>1, <1>3, PushNear
  <2>3. DOMAIN sr'.myMap \subseteq Nat
    <3>1. Right(sr', Len(received))
      BY <1>1, <1>3, PushRight
    <3>2. DOMAIN sr'.myMap \subseteq sr'.nextIndex .. (Len(Stream) - 1)
      BY <3>1 DEF Right, MapRight
    <3> QED  BY <1>2, <2>1, <3>2
  <2>4. \A k \in DOMAIN sr'.myMap : k <= sr.nextIndex + 2 * Capacity - 2
    BY <2>2 DEF HeldNear
  <2>5. ASSUME NEW k \in DOMAIN sr'.myMap PROVE k <= sr'.nextIndex + 2 * Capacity - 2
    <3>1. k \in Nat /\ k <= sr.nextIndex + 2 * Capacity - 2
      BY <2>3, <2>4
    <3> QED  BY <1>2, <2>1, <3>1
  <2> QED  BY <2>5 DEF HeldNear
<1>4. ASSUME NEW len \in Nat, NEW out, ReadStep(len, out)
      PROVE  HeldNear'
  <2>1. sr'.nextIndex = sr.nextIndex /\ sr'.myMap = sr.myMap
    BY <1>1, <1>4 DEF ReassemblerOf, ReadStep
  <2> QED  BY <2>1 DEF HeldNear
<1>5. CASE UNCHANGED vars
  BY <1>5 DEF HeldNear, vars
<1> QED  BY <1>3, <1>4, <1>5, StepCases

\* What a polite peer brings about: every byte held back is within the capacity
\* counted from what was read; the eof mark came with the last byte; and the
\* output is ended just when that byte is written.
PoliteInv ==
  polite =>
    /\ \A k \in DOMAIN sr.myMap : k < Len(received) + Capacity
    /\ sr.eof_flag <=> Len(Stream) > 0 /\ Has(sr, Len(Stream) - 1)
    /\ sr.output.is_eof <=> Len(Stream) > 0 /\ sr.nextIndex = Len(Stream)

\* A right object that has the last byte and holds nothing has written it all.
LEMMA AllWritten ==
  ASSUME NEW s, NEW r, Right(s, r), Len(Stream) > 0
  PROVE  /\ reassembler_empty(s) <=> DOMAIN s.myMap = {}
         /\ s.nextIndex = Len(Stream) => reassembler_empty(s) /\ Has(s, Len(Stream) - 1)
         /\ Has(s, Len(Stream) - 1) /\ reassembler_empty(s) => s.nextIndex = Len(Stream)
<1>1. s.nextIndex \in Nat /\ s.nextIndex <= Len(Stream) /\ Len(Stream) \in Nat
  BY RightFields
<1>2. /\ DOMAIN s.myMap \subseteq s.nextIndex .. (Len(Stream) - 1)
      /\ IsFiniteSet(DOMAIN s.myMap)
      /\ s.bytesUnAssembled = Cardinality(DOMAIN s.myMap)
  BY DEF Right, MapRight
<1>3. reassembler_empty(s) <=> DOMAIN s.myMap = {}
  BY <1>2, FS_EmptySet DEF reassembler_empty
<1>4. s.nextIndex = Len(Stream) => DOMAIN s.myMap = {}
  BY <1>1, <1>2
<1>5. s.nextIndex = Len(Stream) => Len(Stream) - 1 < s.nextIndex
  BY <1>1
<1>6. Len(Stream) - 1 < s.nextIndex => s.nextIndex = Len(Stream)
  BY <1>1
<1> QED  BY <1>3, <1>4, <1>5, <1>6 DEF Has

\* Every step keeps PoliteInv.
LEMMA NextPolite == Inv /\ PoliteInv /\ [Next]_vars => PoliteInv'
<1> SUFFICES ASSUME Inv, PoliteInv, [Next]_vars, polite' PROVE PoliteInv'
  BY DEF PoliteInv
<1> DEFINE r    == Len(received)
           last == Len(Stream) - 1
<1>1. Right(sr, r) /\ r \in Nat /\ sr \in ReassemblerOf(Byte, DOMAIN sr.myMap)
  BY LenProperties DEF Inv, Right
<1>2. /\ sr.nextIndex \in Nat /\ Capacity \in Nat /\ Len(Stream) \in Nat
      /\ sr.nextIndex <= Len(Stream)
  BY <1>1, RightFields
<1>3. ASSUME NEW index \in Nat, NEW eof \in BOOLEAN, NEW data,
             PushStep(index, data, eof)
      PROVE  PoliteInv'
  <2> USE <1>3 DEF PushStep
  <2> DEFINE len == Len(data)
  <2>1. /\ polite /\ len > 0 /\ index + len <= r + Capacity
        /\ eof = (index + len = Len(Stream))
    BY <1>3
  <2>2. /\ \A k \in DOMAIN sr.myMap : k < r + Capacity
        /\ sr.eof_flag <=> Len(Stream) > 0 /\ Has(sr, last)
        /\ sr.output.is_eof <=> Len(Stream) > 0 /\ sr.nextIndex = Len(Stream)
    BY <2>1 DEF PoliteInv
  <2>3. Len(Stream) > 0 /\ last \in Nat
    BY <1>2, <1>3, <2>1
  <2>4. /\ sr'.nextIndex \in Nat /\ sr.nextIndex <= sr'.nextIndex
        /\ \A k \in Nat : Has(sr, k) => Has(sr', k)
        /\ \A k \in Nat : Has(sr', k) => Has(sr, k) \/ k \in Span(index, len)
        /\ \A k \in Span(index, len) : Has(sr', k)
    BY <1>1, <1>3, <2>1, PushHas
  <2>5. /\ sr.eof_flag => sr'.eof_flag
        /\ sr'.eof_flag => sr.eof_flag \/ eof
        /\ (eof /\ sr.nextIndex <= index + len) => sr'.eof_flag
    BY <1>1, <1>3, <2>1, PushFlag
  <2>6. sr'.nextIndex # sr.nextIndex /\ sr'.eof_flag /\ reassembler_empty(sr')
          => sr'.output.is_eof
    BY <1>1, <1>3, PushMoves
  <2>7. EndsWell(sr, sr')
    BY <1>1, <1>3, PushEnds
  <2>8. Right(sr', r)
    BY <1>1, <1>3, PushRight
  <2>9. /\ sr'.output.is_eof \in BOOLEAN /\ sr.output.is_eof \in BOOLEAN
        /\ sr'.eof_flag \in BOOLEAN /\ sr'.nextIndex <= Len(Stream)
        /\ sr.eof_flag \in BOOLEAN
    BY <1>1, <2>8, RightFields DEF ByteStreamOf
  <2>10. /\ sr'.nextIndex = Len(Stream) => reassembler_empty(sr') /\ Has(sr', last)
         /\ Has(sr', last) /\ reassembler_empty(sr') => sr'.nextIndex = Len(Stream)
    BY <2>3, <2>8, AllWritten
  <2>11. ASSUME NEW k \in DOMAIN sr'.myMap PROVE k < r + Capacity
    <3>1. k \in sr'.nextIndex .. (Len(Stream) - 1)
      BY <2>8 DEF Right, MapRight
    <3>2. k \in Nat /\ ~(k < sr.nextIndex)
      BY <1>2, <2>4, <3>1
    <3>3. Has(sr', k)
      BY DEF Has
    <3>4. k \in DOMAIN sr.myMap \/ k \in Span(index, len)
      BY <2>4, <3>2, <3>3 DEF Has
    <3>5. k \in Span(index, len) => k < r + Capacity
      BY <1>1, <1>2, <1>3, <2>1, <3>2 DEF Span
    <3> QED  BY <2>2, <3>4, <3>5
  <2>12. last \in Span(index, len) <=> index + len = Len(Stream)
    BY <1>2, <1>3, <2>1 DEF Span
  <2>13. sr'.eof_flag <=> Has(sr', last)
    <3>1. Has(sr', last) <=> Has(sr, last) \/ eof
      BY <2>1, <2>3, <2>4, <2>12
    <3>2. eof => sr.nextIndex <= index + len
      BY <1>2, <2>1
    <3> QED  BY <2>2, <2>3, <2>5, <3>1, <3>2
  <2>14. sr'.output.is_eof <=> sr'.nextIndex = Len(Stream)
    <3>1. ASSUME sr'.output.is_eof PROVE sr'.nextIndex = Len(Stream)
      <4>1. CASE sr.output.is_eof
        <5>1. sr.nextIndex = Len(Stream)
          BY <2>2, <4>1
        <5> QED  BY <1>2, <2>4, <2>9, <5>1
      <4>2. CASE ~sr.output.is_eof
        BY <2>7, <2>10, <2>13, <3>1, <4>2 DEF EndsWell
      <4> QED  BY <4>1, <4>2
    <3>2. ASSUME sr'.nextIndex = Len(Stream) PROVE sr'.output.is_eof
      <4>1. CASE sr.nextIndex = Len(Stream)
        BY <2>2, <2>3, <2>7, <4>1 DEF EndsWell
      <4>2. CASE sr.nextIndex # Len(Stream)
        BY <2>6, <2>10, <2>13, <3>2, <4>2
      <4> QED  BY <4>1, <4>2
    <3> QED  BY <3>1, <3>2
  <2> QED  BY <1>3, <2>3, <2>11, <2>13, <2>14 DEF PoliteInv
<1>4. ASSUME NEW len \in Nat, NEW out, ReadStep(len, out)
      PROVE  PoliteInv'
  <2> USE <1>4 DEF ReadStep
  <2>1. /\ sr'.nextIndex = sr.nextIndex /\ sr'.myMap = sr.myMap
        /\ sr'.eof_flag = sr.eof_flag /\ sr'.output.is_eof = sr.output.is_eof
    BY <1>1, <1>4 DEF ReassemblerOf
  <2>2. \A k \in DOMAIN sr.myMap : k \in Nat /\ k < r + Capacity
    <3>1. DOMAIN sr.myMap \subseteq sr.nextIndex .. (Len(Stream) - 1)
      BY <1>1 DEF Right, MapRight
    <3>2. DOMAIN sr.myMap \subseteq Nat
      BY <1>2, <3>1
    <3> QED  BY <1>4, <3>2 DEF PoliteInv
  <2>3. \A k \in DOMAIN sr.myMap : k < Len(received') + Capacity
    BY <1>1, <1>2, <1>4, <2>2
  <2> QED  BY <1>4, <2>1, <2>3 DEF PoliteInv, Has
<1>5. CASE UNCHANGED vars
  BY <1>5 DEF PoliteInv, vars, Has
<1> QED  BY <1>3, <1>4, <1>5, StepCases

\* What PoliteInv says about memory and the end.
LEMMA PoliteImplies == Inv /\ PoliteInv => PoliteMemory /\ PoliteEnd
<1> SUFFICES ASSUME Inv, PoliteInv, polite
             PROVE  WithinCapacity /\ EndAtLastByte /\ EndIsSignalled
  BY DEF PoliteMemory, PoliteEnd
<1> DEFINE r    == Len(received)
           next == sr.nextIndex
           room == remaining_capacity(sr.output)
<1>1. Right(sr, r)
  BY DEF Inv
<1>2. /\ next \in Nat /\ room \in Nat /\ Capacity \in Nat /\ Len(Stream) \in Nat
      /\ r \in Nat /\ r <= next /\ Len(sr.output.buf) = next - r
      /\ next + room = r + Capacity
  BY <1>1, RightFields, RoomFacts
<1>3. /\ \A k \in DOMAIN sr.myMap : k < r + Capacity
      /\ sr.eof_flag <=> Len(Stream) > 0 /\ Has(sr, Len(Stream) - 1)
      /\ sr.output.is_eof <=> Len(Stream) > 0 /\ next = Len(Stream)
  BY DEF PoliteInv
<1>4. /\ DOMAIN sr.myMap \subseteq next .. (Len(Stream) - 1)
      /\ sr.bytesUnAssembled = Cardinality(DOMAIN sr.myMap)
  BY <1>1 DEF Right, MapRight
<1> HIDE DEF next, room, r
<1>5. sr.bytesUnAssembled <= room
  <2> DEFINE W == next .. (next + room - 1)
  <2>1. DOMAIN sr.myMap \subseteq W
    <3>1. ASSUME NEW k \in DOMAIN sr.myMap PROVE k \in W
      <4>1. k \in Int /\ next <= k
        BY <1>2, <1>4
      <4>2. k < r + Capacity
        BY <1>3
      <4> QED  BY <1>2, <4>1, <4>2
    <3> QED  BY <3>1
  <2>2. next \in Int /\ next + room - 1 \in Int
    BY <1>2
  <2>3. IsFiniteSet(W) /\ Cardinality(W) = IF next > next + room - 1 THEN 0
                                            ELSE (next + room - 1) - next + 1
    BY <2>2, FS_Interval
  <2>4. Cardinality(W) = room
    BY <1>2, <2>3
  <2> HIDE DEF W
  <2>5. Cardinality(DOMAIN sr.myMap) <= Cardinality(W)
    BY <2>1, <2>3, FS_Subset
  <2> QED  BY <1>4, <2>4, <2>5
<1>6. sr.bytesUnAssembled \in Nat
  BY <1>1, RightFields
<1>7. (next - r) + sr.bytesUnAssembled <= Capacity
  BY <1>2, <1>5, <1>6
<1>8. WithinCapacity
  BY <1>2, <1>7 DEF WithinCapacity, buffer_size, unassembled_bytes
<1>9. EndAtLastByte /\ EndIsSignalled
  BY <1>3 DEF EndAtLastByte, EndIsSignalled, next
<1> QED  BY <1>8, <1>9

-------------------------------------------------------------------------------
(* The theorems *)

\* The object, the output's bounds and what has been read stay well typed.
THEOREM ReassemblerTypes == Spec => []TypeOK
<1>1. Spec => []Inv
  BY InitInv, NextInv, PTL DEF Spec
<1>2. Inv => TypeOK
  BY InvImplies
<1> QED  BY <1>1, <1>2, PTL

\* For every stream, capacity, cutting, order and repetition of substrings and
\* every reading pace, push_substring delivers the stream: what the application
\* has read and what the output holds are the stream up to the next index.
THEOREM ReassemblerCorrect == Spec => []Delivered
<1>1. Spec => []Inv
  BY InitInv, NextInv, PTL DEF Spec
<1>2. Inv => Delivered
  BY InvImplies
<1> QED  BY <1>1, <1>2, PTL

\* What push_substring holds back is the right byte for its index, is not yet
\* written and is counted once.
THEOREM ReassemblerHolds == Spec => []HeldRight
<1>1. Spec => []Inv
  BY InitInv, NextInv, PTL DEF Spec
<1>2. Inv => HeldRight
  BY InvImplies
<1> QED  BY <1>1, <1>2, PTL

\* Whatever the peer sends, no byte is held back more than twice the capacity
\* ahead of the next index: the two limits of push_substring add up.
THEOREM ReassemblerNear == Spec => []HeldNear
<1>1. Spec => []Inv
  BY InitInv, NextInv, PTL DEF Spec
<1>2. Init => HeldNear
  BY DEF Init, HeldNear, ReassemblerNew
<1> QED  BY <1>1, <1>2, NextNear, PTL DEF Spec

\* PoliteInv holds at the start.
LEMMA InitPolite == Init => PoliteInv
<1> SUFFICES ASSUME Init PROVE PoliteInv
  OBVIOUS
<1>1. /\ DOMAIN sr.myMap = {} /\ sr.eof_flag = FALSE /\ sr.nextIndex = 0
      /\ sr.output.is_eof = FALSE
  BY DEF Init, ReassemblerNew, ByteStreamNew
<1>2. Len(Stream) \in Nat
  BY StreamAssumption, LenProperties
<1>3. Len(Stream) > 0 => ~(Len(Stream) - 1 < 0) /\ Len(Stream) # 0
  BY <1>2
<1> QED  BY <1>1, <1>3 DEF PoliteInv, Has

\* Memory stays within the capacity as long as the peer keeps within the window
\* it is offered.
THEOREM ReassemblerMemory == Spec => []PoliteMemory
<1>1. Spec => []Inv
  BY InitInv, NextInv, PTL DEF Spec
<1>2. Spec => []PoliteInv
  BY <1>1, InitPolite, NextPolite, PTL DEF Spec
<1>3. Inv /\ PoliteInv => PoliteMemory
  BY PoliteImplies
<1> QED  BY <1>1, <1>2, <1>3, PTL

\* With such a peer, one that sends its eof mark with the last bytes, the output
\* ends with the last byte and as soon as that is written.
THEOREM ReassemblerEnd == Spec => []PoliteEnd
<1>1. Spec => []Inv
  BY InitInv, NextInv, PTL DEF Spec
<1>2. Spec => []PoliteInv
  BY <1>1, InitPolite, NextPolite, PTL DEF Spec
<1>3. Inv /\ PoliteInv => PoliteEnd
  BY PoliteImplies
<1> QED  BY <1>1, <1>2, <1>3, PTL

\* A push that moves the stream on leaves the byte that is next in the map only
\* if the output is full, for every capacity, stream and order of pushes and reads
\* (stream_reassembler.cc:61-71).
THEOREM ReassemblerDrains == Spec => NothingLeftBehind
<1>1. Spec => []Inv
  BY InitInv, NextInv, PTL DEF Spec
<1>2. Inv /\ [Next]_vars =>
        [sr'.nextIndex > sr.nextIndex /\ sr'.nextIndex \in DOMAIN sr'.myMap
           => remaining_capacity(sr'.output) = 0]_vars
  <2> SUFFICES ASSUME Inv, [Next]_vars, sr'.nextIndex > sr.nextIndex,
                      sr'.nextIndex \in DOMAIN sr'.myMap
               PROVE  remaining_capacity(sr'.output) = 0
    OBVIOUS
  <2>1. Right(sr, Len(received)) /\ sr \in ReassemblerOf(Byte, DOMAIN sr.myMap)
    BY DEF Inv, Right
  <2>2. sr.nextIndex \in Nat
    BY <2>1, RightFields
  <2>3. sr'.nextIndex # sr.nextIndex
    BY <2>2
  <2>4. ASSUME NEW index \in Nat, NEW eof \in BOOLEAN, NEW data,
               PushStep(index, data, eof)
        PROVE  remaining_capacity(sr'.output) = 0
    BY <2>1, <2>3, <2>4, PushMoves DEF PushStep
  <2>5. ASSUME NEW len \in Nat, NEW out, ReadStep(len, out)
        PROVE  FALSE
    BY <2>1, <2>3, <2>5 DEF ReassemblerOf, ReadStep
  <2>6. ~UNCHANGED vars
    BY <2>3 DEF vars
  <2> QED  BY <2>4, <2>5, <2>6, StepCases
<1> QED  BY <1>1, <1>2, PTL DEF Spec, NothingLeftBehind

================================================================================
