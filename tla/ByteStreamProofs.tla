--------------------------- MODULE ByteStreamProofs ---------------------------
(***************************************************************************)
(* ByteStreamSpec keeps its invariants for every capacity, set of bytes    *)
(* and length of chunk.  TypeOK, InOrder and CountsExact are inductive     *)
(* together: the counts need the sequences, the sequences need the types.  *)
(***************************************************************************)
EXTENDS ByteStreamSpec, ClassLemmas

Inv == TypeOK /\ InOrder /\ CountsExact

\* The constructor's state.
LEMMA InitInv == Init => Inv
<1> SUFFICES ASSUME Init PROVE Inv
  OBVIOUS
<1>1. bs = ByteStreamNew(Capacity) /\ accepted = <<>> /\ popped = <<>> /\ offered = 0
  BY DEF Init
<1>2. <<>> \in Seq(Byte) /\ Len(<<>>) = 0
  BY EmptySeq
<1>3. TypeOK
  BY <1>1, <1>2, ByteStreamAssumption DEF TypeOK, ByteStreamNew, ByteStreamOf
<1>4. InOrder
  BY <1>1, <1>2, ConcatEmptySeq DEF InOrder, ByteStreamNew
<1>5. CountsExact
  BY <1>1, <1>2 DEF CountsExact, ByteStreamNew, buffer_size
<1> QED  BY <1>3, <1>4, <1>5 DEF Inv

\* The invariant spelled out.
LEMMA InvFacts ==
  ASSUME Inv
  PROVE  /\ bs \in ByteStreamOf(Byte) /\ bs.capacity = Capacity
         /\ Len(bs.buf) <= bs.capacity
         /\ bs.buf \in Seq(Byte) /\ Len(bs.buf) \in Nat
         /\ bs.write_count \in Nat /\ bs.read_count \in Nat
         /\ accepted \in Seq(Byte) /\ Len(accepted) \in Nat
         /\ popped \in Seq(Byte) /\ Len(popped) \in Nat
         /\ offered \in Nat
         /\ accepted = popped \o bs.buf
         /\ bs.write_count = Len(accepted) /\ bs.read_count = Len(popped)
         /\ bs.write_count - bs.read_count = Len(bs.buf)
<1>1. /\ bs \in ByteStreamOf(Byte) /\ bs.capacity = Capacity
      /\ Len(bs.buf) <= bs.capacity
      /\ accepted \in Seq(Byte) /\ popped \in Seq(Byte) /\ offered \in Nat
  BY DEF Inv, TypeOK
<1>2. Len(accepted) \in Nat /\ Len(popped) \in Nat
  BY <1>1, LenProperties
<1>3. /\ bs.buf \in Seq(Byte) /\ Len(bs.buf) \in Nat
      /\ bs.write_count \in Nat /\ bs.read_count \in Nat
  BY <1>1, StreamFields
<1> QED  BY <1>1, <1>2, <1>3 DEF Inv, InOrder, CountsExact, buffer_size

\* Writing takes the part of data that fits, at the end, and counts it.
LEMMA WriteInv ==
  ASSUME Inv, NEW data \in Seq(Byte), Write(data)
  PROVE  Inv'
<1> DEFINE n == accepted_len(bs, data)
           d == SubSeq(data, 1, n)
<1>0. /\ bs.buf \in Seq(Byte) /\ Len(bs.buf) \in Nat
      /\ popped \in Seq(Byte) /\ Len(popped) \in Nat
      /\ accepted = popped \o bs.buf /\ Len(accepted) \in Nat
      /\ bs.write_count = Len(accepted) /\ bs.read_count = Len(popped)
      /\ bs.write_count - bs.read_count = Len(bs.buf)
  BY InvFacts
<1>1. n \in 0..Len(data) /\ Len(data) \in Nat
  BY InvFacts, AcceptedLen, LenProperties
<1>2. /\ d \in Seq(Byte) /\ Len(d) = n
      /\ bs' \in ByteStreamOf(Byte)
      /\ bs'.buf = bs.buf \o d /\ Len(bs'.buf) = Len(bs.buf) + n
      /\ Len(bs'.buf) <= bs'.capacity
      /\ bs'.write_count = bs.write_count + n
      /\ bs'.capacity = bs.capacity /\ bs'.read_count = bs.read_count
  BY InvFacts, WriteFacts DEF Write
<1>3. /\ accepted' = accepted \o d /\ popped' = popped
      /\ offered' = offered + Len(data)
  BY InvFacts DEF Write
<1> HIDE DEF n, d
<1>4. accepted \o d \in Seq(Byte) /\ Len(accepted \o d) = Len(accepted) + n
  BY InvFacts, <1>2, ConcatProperties
<1>5. offered' \in Nat
  BY InvFacts, <1>1, <1>3
<1>6. TypeOK'
  BY InvFacts, <1>2, <1>3, <1>4, <1>5 DEF TypeOK
<1>7. (popped \o bs.buf) \o d = popped \o (bs.buf \o d)
  <2>1. popped \in Seq(Byte) /\ bs.buf \in Seq(Byte) /\ d \in Seq(Byte)
    BY <1>0, <1>2
  <2>2. \A a, b, c \in Seq(Byte) : (a \o b) \o c = a \o (b \o c)
    BY ConcatAssociative
  <2> QED  BY <2>1, <2>2, Zenon
<1>8. InOrder'
  BY InvFacts, <1>0, <1>2, <1>3, <1>7 DEF InOrder
<1>9. CountsExact'
  BY InvFacts, <1>0, <1>1, <1>2, <1>3, <1>4 DEF CountsExact, buffer_size
<1> QED  BY <1>6, <1>8, <1>9 DEF Inv

\* Handing the reader the first n bytes and removing them, n at most what there
\* is: the common step of read and of peek_output followed by pop_output.
LEMMA PopInv ==
  ASSUME Inv, NEW n \in 0..Len(bs.buf),
         bs' = pop_output(bs, n),
         popped' = popped \o SubSeq(bs.buf, 1, n),
         accepted' = accepted, offered' = offered
  PROVE  Inv'
<1> DEFINE p == SubSeq(bs.buf, 1, n)
<1>0. /\ bs.buf \in Seq(Byte) /\ Len(bs.buf) \in Nat
      /\ popped \in Seq(Byte) /\ Len(popped) \in Nat
      /\ accepted = popped \o bs.buf /\ Len(accepted) \in Nat
      /\ bs.write_count = Len(accepted) /\ bs.read_count = Len(popped)
      /\ bs.write_count - bs.read_count = Len(bs.buf)
  BY InvFacts
<1>1. /\ p \in Seq(Byte) /\ Len(p) = n
      /\ bs' \in ByteStreamOf(Byte)
      /\ Len(bs'.buf) = Len(bs.buf) - n /\ Len(bs'.buf) <= bs'.capacity
      /\ p \o bs'.buf = bs.buf
      /\ bs'.read_count = bs.read_count + n
      /\ bs'.capacity = bs.capacity /\ bs'.write_count = bs.write_count
  BY InvFacts, PopFacts
<1>2. bs'.buf \in Seq(Byte)
  BY InvFacts, <1>1, StreamFields
<1>3. popped' = popped \o p
  OBVIOUS
<1> HIDE DEF p
<1>4. popped \o p \in Seq(Byte) /\ Len(popped \o p) = Len(popped) + n
  BY InvFacts, <1>1, ConcatProperties
<1>5. TypeOK'
  BY InvFacts, <1>1, <1>3, <1>4 DEF TypeOK
<1>6. (popped \o p) \o bs'.buf = popped \o (p \o bs'.buf)
  <2>1. popped \in Seq(Byte) /\ p \in Seq(Byte) /\ bs'.buf \in Seq(Byte)
    BY <1>0, <1>1, <1>2
  <2>2. \A a, b, c \in Seq(Byte) : (a \o b) \o c = a \o (b \o c)
    BY ConcatAssociative
  <2> QED  BY <2>1, <2>2, Zenon
<1>7. InOrder'
  BY InvFacts, <1>0, <1>1, <1>3, <1>6 DEF InOrder
<1>8. CountsExact'
  BY InvFacts, <1>0, <1>1, <1>3, <1>4 DEF CountsExact, buffer_size
<1> QED  BY <1>5, <1>7, <1>8 DEF Inv

\* Raising one of the two flags disturbs nothing.
LEMMA FlagInv ==
  ASSUME Inv, EndInput \/ SetError
  PROVE  Inv'
<1> USE InvFacts
<1>1. /\ \/ bs' = [bs EXCEPT !.is_eof = TRUE]
         \/ bs' = [bs EXCEPT !.error = TRUE]
      /\ accepted' = accepted /\ popped' = popped /\ offered' = offered
  BY DEF EndInput, SetError, end_input, set_error
<1>2. /\ bs' \in ByteStreamOf(Byte)
      /\ bs'.buf = bs.buf /\ bs'.capacity = bs.capacity
      /\ bs'.write_count = bs.write_count /\ bs'.read_count = bs.read_count
  BY <1>1 DEF ByteStreamOf
<1> QED  BY <1>1, <1>2 DEF Inv, TypeOK, InOrder, CountsExact, buffer_size

\* Every step keeps the invariant.
LEMMA NextInv == Inv /\ [Next]_vars => Inv'
<1> SUFFICES ASSUME Inv, [Next]_vars PROVE Inv'
  OBVIOUS
<1> USE InvFacts
<1>1. ASSUME NEW data \in Chunk, Write(data) PROVE Inv'
  <2>1. PICK m \in 0..MaxChunk : data \in [1..m -> Byte]
    BY DEF Chunk
  <2>2. data \in Seq(Byte)
    BY <2>1, ByteStreamAssumption
  <2> QED  BY <1>1, <2>2, WriteInv
<1>2. ASSUME NEW len \in 0..(Capacity + 1), Read(len) PROVE Inv'
  <2>1. len \in Nat
    BY ByteStreamAssumption
  <2>2. /\ read_len(bs, len) \in 0..Len(bs.buf)
        /\ read_data(bs, len) = SubSeq(bs.buf, 1, read_len(bs, len))
        /\ read(bs, len) = pop_output(bs, read_len(bs, len))
    BY <2>1, ReadFacts
  <2> QED  BY <1>2, <2>2, PopInv DEF Read
<1>3. ASSUME NEW len \in 0..Capacity, PeekThenPop(len) PROVE Inv'
  <2>1. len \in 0..Len(bs.buf)
    BY <1>3, ByteStreamAssumption DEF PeekThenPop, buffer_size
  <2>2. peek_output(bs, len) = SubSeq(bs.buf, 1, len)
    BY <2>1 DEF peek_output, Least
  <2> QED  BY <1>3, <2>1, <2>2, PopInv DEF PeekThenPop
<1>4. CASE EndInput \/ SetError
  BY <1>4, FlagInv
<1>5. CASE UNCHANGED vars
  BY <1>5 DEF vars, Inv, TypeOK, InOrder, CountsExact, buffer_size
<1> QED  BY <1>1, <1>2, <1>3, <1>4, <1>5 DEF Next

-------------------------------------------------------------------------------

\* A ByteStream (byte_stream.cc) stays well typed and within its capacity,
\* whatever the capacity and the sequence of calls.
THEOREM ByteStreamTypes == Spec => []TypeOK
<1>1. Spec => []Inv
  BY InitInv, NextInv, PTL DEF Spec
<1> QED  BY <1>1, PTL DEF Inv

\* It is first in, first out: what was popped and what is buffered is what the
\* writes accepted.
THEOREM ByteStreamCorrect == Spec => []InOrder
<1>1. Spec => []Inv
  BY InitInv, NextInv, PTL DEF Spec
<1> QED  BY <1>1, PTL DEF Inv

\* It counts what was written and what was read exactly.
THEOREM ByteStreamCounts == Spec => []CountsExact
<1>1. Spec => []Inv
  BY InitInv, NextInv, PTL DEF Spec
<1> QED  BY <1>1, PTL DEF Inv

===============================================================================
