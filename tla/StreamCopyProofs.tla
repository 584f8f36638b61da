--------------------------- MODULE StreamCopyProofs ---------------------------
(***************************************************************************)
(* bidirectional_stream_copy loses nothing on the way and leaves nothing   *)
(* behind, for every input, buffer size and cut of its reads and writes.   *)
(* Both directions are a ByteStream between what was read and what was     *)
(* written: Carried says that the three make up a prefix of the source.    *)
(* Ends says which rules are still there and what their end means.         *)
(***************************************************************************)
EXTENDS StreamCopy, ClassLemmas

\* The rules by name.
InputIn   == <<"input", "In">>
SocketOut == <<"socket", "Out">>
SocketIn  == <<"socket", "In">>
OutputOut == <<"output", "Out">>

RuleSet == {InputIn, SocketOut, SocketIn, OutputOut}
Event   == {"In", "Out", "HUP", "ERR"}
Char    == 0..255

-------------------------------------------------------------------------------
(* Types *)

\* The descriptors, the other side of them, the loop, and all of them.
FDType == [eof : BOOLEAN, closed : BOOLEAN, serviced : SUBSET {"In", "Out"}]

KernelType ==
  [tty : BOOLEAN, typed : Nat, typed_end : BOOLEAN, sent : Nat, sent_end : BOOLEAN,
   to_remote : Seq(Char), at_remote : Seq(Char), shut : BOOLEAN,
   to_reader : Seq(Char), at_reader : Seq(Char), failed : SUBSET {"no reader", "no remote"}]

LoopType ==
  [rules : SUBSET RuleSet, asked : SUBSET RuleSet,
   seen : UNION {[S -> SUBSET Event] : S \in SUBSET RuleSet},
   todo : SUBSET RuleSet, thrown : {"no", "broken pipe", "busy wait", "poll error"}]

WorkType ==
  [loop : LoopType, fd : [input : FDType, socket : FDType, output : FDType],
   outbound : ByteStreamOf(Char), inbound : ByteStreamOf(Char),
   outbound_shutdown : BOOLEAN, inbound_shutdown : BOOLEAN, kernel : KernelType]

\* The constants, one by one.
LEMMA Numbers ==
  /\ BufferSize \in Nat \ {0} /\ MaxCopyLength \in Nat \ {0} /\ KernelRoom \in Nat \ {0}
  /\ Input \in Seq(Char) /\ Remote \in Seq(Char)
  BY CopyAssumption DEF Char

\* Sequences of bytes are put together in any order.
LEMMA Assoc == \A a, b, c \in Seq(Char) : (a \o b) \o c = a \o (b \o c)
  BY ConcatAssociative

-------------------------------------------------------------------------------
(* One direction *)

\* What was taken, what was written and what the stream bs holds are what was
\* read of the source src, of which the first upto bytes have come.
Carried(bs, at, to, src, upto) ==
  /\ bs \in ByteStreamOf(Char) /\ bs.capacity = BufferSize /\ Len(bs.buf) <= BufferSize
  /\ at \in Seq(Char) /\ to \in Seq(Char) /\ Len(to) <= KernelRoom
  /\ upto \in Nat /\ bs.write_count <= upto /\ upto <= Len(src)
  /\ at \o to \o bs.buf = SubSeq(src, 1, bs.write_count)

\* The flags of a stream are none of its bytes.
SameBytes(b, c) ==
  /\ c \in ByteStreamOf(Char)
  /\ c.buf = b.buf /\ c.capacity = b.capacity /\ c.write_count = b.write_count

\* end_input and set_error set a flag.
LEMMA FlagFacts ==
  ASSUME NEW bs \in ByteStreamOf(Char)
  PROVE  /\ SameBytes(bs, end_input(bs)) /\ end_input(bs).is_eof
         /\ end_input(bs).error = bs.error
         /\ SameBytes(bs, set_error(bs)) /\ set_error(bs).is_eof = bs.is_eof
         /\ set_error(bs).error
  BY DEF SameBytes, end_input, set_error, ByteStreamOf

\* What depends on the bytes only.
LEMMA SameCarried ==
  ASSUME NEW b, NEW c, SameBytes(b, c), NEW at, NEW to, NEW src, NEW upto,
         Carried(b, at, to, src, upto)
  PROVE  Carried(c, at, to, src, upto)
  BY DEF SameBytes, Carried

\* More of the source comes.
LEMMA MoreCarried ==
  ASSUME NEW b, NEW at, NEW to, NEW src, NEW upto, Carried(b, at, to, src, upto),
         NEW more \in Nat, upto <= more, more <= Len(src)
  PROVE  Carried(b, at, to, src, more)
  <1>1. b.write_count \in Nat
    BY StreamFields DEF Carried
  <1>2. b.write_count <= more
    BY <1>1 DEF Carried
  <1> QED BY <1>2 DEF Carried

\* What was written is taken.
LEMMA TakenCarried ==
  ASSUME NEW b, NEW at, NEW to, NEW src, NEW upto, Carried(b, at, to, src, upto)
  PROVE  Carried(b, at \o to, <<>>, src, upto)
  <1>1. at \in Seq(Char) /\ to \in Seq(Char) /\ at \o to \in Seq(Char) /\ <<>> \in Seq(Char)
    BY ConcatProperties DEF Carried
  <1>2. (at \o to) \o <<>> = at \o to /\ Len(<<>>) = 0
    BY <1>1, ConcatEmptySeq
  <1>3. 0 <= KernelRoom
    BY Numbers
  <1> QED BY <1>1, <1>2, <1>3 DEF Carried

\* The bytes of the source that have come and were not read.
Unread(bs, src, upto) == SubSeq(src, bs.write_count + 1, upto)

LEMMA UnreadFacts ==
  ASSUME NEW b, NEW at, NEW to, NEW src \in Seq(Char), NEW upto, Carried(b, at, to, src, upto)
  PROVE  /\ Unread(b, src, upto) \in Seq(Char)
         /\ Len(Unread(b, src, upto)) = upto - b.write_count
         /\ Unread(b, src, upto) = <<>> <=> b.write_count = upto
         /\ b.write_count \in Nat /\ upto \in Nat /\ b.write_count <= upto
  <1>1. b.write_count \in Nat /\ upto \in Nat /\ b.write_count <= upto /\ upto <= Len(src)
    BY StreamFields DEF Carried
  <1>2. /\ b.write_count + 1 \in Nat \ {0} /\ b.write_count + 1 <= upto + 1
        /\ upto - (b.write_count + 1) + 1 = upto - b.write_count
    BY <1>1
  <1>3. /\ Unread(b, src, upto) \in Seq(Char)
        /\ Len(Unread(b, src, upto)) = upto - b.write_count
    BY <1>1, <1>2, SubSeqFacts DEF Unread
  <1>4. Unread(b, src, upto) = <<>> <=> Len(Unread(b, src, upto)) = 0
    BY <1>3, EmptySeq
  <1> QED BY <1>1, <1>3, <1>4

\* The first bytes of a part of a sequence.
LEMMA PartOfPart ==
  ASSUME NEW src \in Seq(Char), NEW k \in Nat, NEW m \in Nat, k <= m, m <= Len(src),
         NEW n \in 0..(m - k)
  PROVE  SubSeq(SubSeq(src, k + 1, m), 1, n) = SubSeq(src, k + 1, k + n)
  <1> DEFINE u == SubSeq(src, k + 1, m)
             d == SubSeq(u, 1, n)
             e == SubSeq(src, k + 1, k + n)
  <1>0. Len(src) \in Nat /\ n \in Nat
    BY LenProperties
  <1>1. u \in Seq(Char) /\ Len(u) = m - k /\ \A i \in 1..(m - k) : u[i] = src[k + i]
    <2>1. k + 1 \in Nat \ {0} /\ k + 1 <= m + 1 /\ m - (k + 1) + 1 = m - k
      OBVIOUS
    <2>2. \A i \in 1..(m - k) : k + 1 + i - 1 = k + i
      OBVIOUS
    <2> QED BY <2>1, <2>2, SubSeqFacts
  <1>2. e \in Seq(Char) /\ Len(e) = n /\ \A i \in 1..n : e[i] = src[k + i]
    <2>1. /\ k + 1 \in Nat \ {0} /\ k + n \in Nat /\ k + 1 <= k + n + 1
          /\ k + n - (k + 1) + 1 = n
      BY <1>0
    <2>3. k + n <= Len(src)
      BY <1>0
    <2>2. \A i \in 1..n : k + 1 + i - 1 = k + i
      BY <1>0
    <2> QED BY <2>1, <2>2, <2>3, SubSeqFacts
  <1> HIDE DEF u, e
  <1>3. d \in Seq(Char) /\ Len(d) = n /\ \A i \in 1..n : d[i] = u[i]
    <2>1. /\ 1 \in Nat \ {0} /\ 1 <= n + 1 /\ n <= Len(u) /\ n - 1 + 1 = n
      BY <1>0, <1>1
    <2>2. \A i \in 1..n : 1 + i - 1 = i
      BY <1>0
    <2> QED BY <1>0, <1>1, <2>1, <2>2, SubSeqFacts
  <1> HIDE DEF d
  <1>4. \A i \in 1..n : d[i] = e[i]
    <2>1. \A i \in 1..n : i \in 1..(m - k)
      BY <1>0
    <2> QED BY <1>1, <1>2, <1>3, <2>1
  <1>5. d = e
    BY <1>2, <1>3, <1>4, SeqEqual
  <1> QED BY <1>5 DEF u, d, e

\* A read gets the first of them, and no more than the stream has room for.
Portion(b, src, upto) ==
  LET u == Unread(b, src, upto)
  IN  SubSeq(u, 1, Least(remaining_capacity(b), Len(u)))

\* The stream c after data were read for the stream b.
Fills(b, c, data, at, to, src, upto) ==
  /\ Carried(c, at, to, src, upto)
  /\ Len(data) \in Nat /\ c.write_count = b.write_count + Len(data)
  /\ c.is_eof = b.is_eof /\ c.error = b.error
  /\ remaining_capacity(b) > 0 /\ Len(data) = 0 => b.write_count = upto

\* All of it is written to the stream.
LEMMA FillCarried ==
  ASSUME NEW b, NEW at, NEW to, NEW src \in Seq(Char), NEW upto, Carried(b, at, to, src, upto)
  PROVE  Fills(b, write(b, Portion(b, src, upto)), Portion(b, src, upto), at, to, src, upto)
  <1> DEFINE u == Unread(b, src, upto)
             r == remaining_capacity(b)
             n == Least(r, Len(u))
             d == SubSeq(u, 1, n)
             c == write(b, d)
             e == SubSeq(src, b.write_count + 1, b.write_count + n)
  <1>1. /\ u \in Seq(Char) /\ Len(u) = upto - b.write_count /\ b.write_count \in Nat
        /\ upto \in Nat /\ b.write_count <= upto
    BY UnreadFacts
  <1>0. upto <= Len(src) /\ Len(src) \in Nat
    BY LenProperties DEF Carried
  <1>2. /\ b \in ByteStreamOf(Char) /\ b.buf \in Seq(Char) /\ Len(b.buf) \in Nat
        /\ b.capacity = BufferSize /\ Len(b.buf) <= b.capacity
        /\ at \in Seq(Char) /\ to \in Seq(Char)
        /\ at \o to \o b.buf = SubSeq(src, 1, b.write_count)
    BY StreamFields DEF Carried
  <1>3. r = b.capacity - Len(b.buf) /\ r \in Nat
    BY <1>2, Numbers DEF remaining_capacity
  <1>4. n \in 0..Len(u) /\ n \in Nat /\ n <= r /\ (n = r \/ n = Len(u)) /\ Len(u) \in Nat
    BY <1>1, <1>3 DEF Least
  <1>5. d \in Seq(Char) /\ Len(d) = n
    BY <1>1, <1>4, PrefixOf
  <1>6. accepted_len(b, d) = n
    BY <1>2, <1>3, <1>4, <1>5, AcceptedLen
  <1>7. SubSeq(d, 1, n) = d
    BY <1>5, SubSeqFull
  <1>8. d = e
    <2>1. n \in 0..(upto - b.write_count)
      BY <1>1, <1>4
    <2> HIDE DEF n
    <2> QED BY <2>1, <1>0, <1>1, PartOfPart DEF Unread
  <1> HIDE DEF n, u, r, d, c, e
  <1>9. /\ c \in ByteStreamOf(Char) /\ c.buf = b.buf \o d /\ Len(c.buf) <= c.capacity
        /\ c.write_count = b.write_count + n /\ c.capacity = b.capacity
        /\ c.is_eof = b.is_eof /\ c.error = b.error
    <2> DEFINE m == accepted_len(b, d)
    <2>1. /\ c \in ByteStreamOf(Char) /\ c.buf = b.buf \o SubSeq(d, 1, m)
          /\ Len(c.buf) <= c.capacity
          /\ c.write_count = b.write_count + m /\ c.capacity = b.capacity
          /\ c.is_eof = b.is_eof /\ c.error = b.error
      BY <1>2, <1>5, WriteFacts DEF c
    <2> HIDE DEF m
    <2> QED BY <1>6, <1>7, <2>1 DEF m
  <1>10. at \o to \o c.buf = SubSeq(src, 1, c.write_count)
    <2>1. at \o to \in Seq(Char)
      BY <1>2, ConcatProperties
    <2>2. (at \o to) \o (b.buf \o d) = ((at \o to) \o b.buf) \o d
      BY <1>2, <1>5, <2>1, Assoc, Zenon
    <2>3. SubSeq(src, 1, b.write_count) \o e = SubSeq(src, 1, b.write_count + n)
      <3>1. /\ Len(src) \in Nat
        BY LenProperties
      <3>2. /\ 1 \in 1..(Len(src) + 1) /\ b.write_count \in (1 - 1)..Len(src)
            /\ b.write_count + n \in b.write_count..Len(src)
        BY <1>0, <1>1, <1>4, <3>1
      <3> QED BY <3>2, ConcatAdjacentSubSeq DEF e
    <2> QED BY <1>2, <1>8, <1>9, <2>2, <2>3
  <1>11. c.write_count <= upto
    BY <1>1, <1>4, <1>9
  <1>12. Carried(c, at, to, src, upto)
    BY <1>2, <1>9, <1>10, <1>11 DEF Carried
  <1>13. r > 0 /\ n = 0 => b.write_count = upto
    BY <1>1, <1>3, <1>4
  <1>14. Fills(b, c, d, at, to, src, upto)
    BY <1>4, <1>5, <1>9, <1>12, <1>13 DEF Fills, r
  <1>15. Portion(b, src, upto) = d
    BY DEF Portion, u, r, n, d
  <1> QED BY <1>14, <1>15 DEF c

\* The stream c after data of the stream b were written.
Drains(b, c, data, at, to, src, upto) ==
  /\ Carried(c, at, to \o data, src, upto)
  /\ c.write_count = b.write_count /\ c.is_eof = b.is_eof /\ c.error = b.error
  /\ buffer_empty(b) => buffer_empty(c)

\* What a write has taken is popped.
LEMMA DrainCarried ==
  ASSUME NEW b, NEW at, NEW to, NEW src \in Seq(Char), NEW upto, Carried(b, at, to, src, upto),
         NEW n \in Taken(b, to)
  PROVE  Drains(b, pop_output(b, n), peek_output(b, n), at, to, src, upto)
  <1> DEFINE most == Least(Least(MaxCopyLength, buffer_size(b)), KernelRoom - Len(to))
             c == pop_output(b, n)
             p == SubSeq(b.buf, 1, n)
  <1>1. /\ b \in ByteStreamOf(Char) /\ b.buf \in Seq(Char) /\ Len(b.buf) \in Nat
        /\ b.capacity = BufferSize /\ Len(b.buf) <= b.capacity
        /\ at \in Seq(Char) /\ to \in Seq(Char) /\ Len(to) \in Nat /\ Len(to) <= KernelRoom
        /\ at \o to \o b.buf = SubSeq(src, 1, b.write_count)
    BY StreamFields, LenProperties DEF Carried
  <1>2. n \in Least(most, 1)..most
    BY DEF Taken
  <1>3. most \in Nat /\ most <= Len(b.buf) /\ most <= KernelRoom - Len(to)
    BY <1>1, Numbers DEF Least, buffer_size
  <1>4. n \in 0..Len(b.buf) /\ n \in Nat /\ Len(to) + n <= KernelRoom
    BY <1>1, <1>2, <1>3, Numbers DEF Least
  <1>5. /\ p \in Seq(Char) /\ Len(p) = n /\ c \in ByteStreamOf(Char)
        /\ Len(c.buf) = Len(b.buf) - n /\ Len(c.buf) <= c.capacity /\ p \o c.buf = b.buf
        /\ c.capacity = b.capacity /\ c.write_count = b.write_count
        /\ c.is_eof = b.is_eof /\ c.error = b.error
    BY <1>1, <1>4, PopFacts
  <1>6. peek_output(b, n) = p
    BY <1>1, <1>4 DEF peek_output, Least
  <1> HIDE DEF most, c, p
  <1>7. c.buf \in Seq(Char)
    BY <1>5, StreamFields
  <1>8. to \o p \in Seq(Char) /\ Len(to \o p) <= KernelRoom
    <2>1. to \o p \in Seq(Char) /\ Len(to \o p) = Len(to) + Len(p)
      BY <1>1, <1>5, ConcatProperties
    <2> QED BY <1>4, <1>5, <2>1
  <1>9. at \o (to \o p) \o c.buf = at \o to \o b.buf
    <2>1. at \o to \in Seq(Char)
      BY <1>1, ConcatProperties
    <2>2. at \o (to \o p) = (at \o to) \o p
      BY <1>1, <1>5, Assoc, Zenon
    <2>3. ((at \o to) \o p) \o c.buf = (at \o to) \o (p \o c.buf)
      BY <1>5, <1>7, <2>1, Assoc, Zenon
    <2> QED BY <1>5, <2>2, <2>3, Zenon
  <1>10. buffer_empty(b) => buffer_empty(c)
    <2>1. Len(b.buf) = 0 => Len(c.buf) = 0
      <3> SUFFICES ASSUME Len(b.buf) = 0 PROVE Len(c.buf) = 0
        OBVIOUS
      <3>1. n = 0
        BY <1>4
      <3>2. Len(c.buf) = 0 - 0
        BY <1>5, <3>1
      <3> QED BY <3>2
    <2> QED BY <2>1 DEF buffer_empty, buffer_size
  <1>11. Carried(c, at, to \o p, src, upto)
    <2>1. upto \in Nat /\ b.write_count <= upto /\ upto <= Len(src)
      BY DEF Carried
    <2>2. at \o (to \o p) \o c.buf = SubSeq(src, 1, c.write_count)
      BY <1>1, <1>5, <1>9
    <2>3. Len(c.buf) <= BufferSize /\ c.capacity = BufferSize
      BY <1>1, <1>5
    <2> QED BY <1>1, <1>5, <1>8, <2>1, <2>2, <2>3 DEF Carried
  <1>12. Drains(b, c, p, at, to, src, upto)
    BY <1>5, <1>10, <1>11 DEF Drains
  <1> QED BY <1>6, <1>12 DEF c

-------------------------------------------------------------------------------
(* The event loop *)

\* Four rules were added.
LEMMA FourRules ==
  /\ Len(Rules) = 4
  /\ Rules[1] = InputIn /\ Rules[2] = SocketOut /\ Rules[3] = SocketIn /\ Rules[4] = OutputOut
  /\ DOMAIN Rules = 1..4
  BY DEF Rules, InputIn, SocketOut, SocketIn, OutputOut

\* No two of them are the same.
LEMMA RulesDiffer ==
  /\ InputIn # SocketOut /\ InputIn # SocketIn /\ InputIn # OutputOut
  /\ SocketOut # SocketIn /\ SocketOut # OutputOut /\ SocketIn # OutputOut
  BY DEF InputIn, SocketOut, SocketIn, OutputOut

\* The loop over the rules, turn by turn.
LEMMA PreparedIs ==
  ASSUME NEW v
  PROVE  L!prepared(v) =
           L!prepare(L!prepare(L!prepare(L!prepare([v EXCEPT !.loop.asked = {}],
             InputIn), SocketOut), SocketIn), OutputOut)
  <1> DEFINE a0 == [v EXCEPT !.loop.asked = {}]
             a1 == L!prepare(a0, InputIn)
             a2 == L!prepare(a1, SocketOut)
             a3 == L!prepare(a2, SocketIn)
             a4 == L!prepare(a3, OutputOut)
             Turns(f) == [i \in 0..Len(Rules) |->
                            IF i = 0 THEN a0 ELSE L!prepare(f[i - 1], Rules[i])]
             upto == CHOOSE f : f = Turns(f)
             h == [i \in 0..4 |-> IF i = 0 THEN a0 ELSE IF i = 1 THEN a1
                                  ELSE IF i = 2 THEN a2 ELSE IF i = 3 THEN a3 ELSE a4]
  <1>1. L!prepared(v) = upto[Len(Rules)]
    BY DEF L!prepared
  <1>2. h = Turns(h)
    <2> HIDE DEF a0
    <2>1. \A i \in 0..4 : h[i] = IF i = 0 THEN a0 ELSE L!prepare(h[i - 1], Rules[i])
      BY FourRules
    <2> HIDE DEF h
    <2> QED BY <2>1, FourRules DEF h
  <1>3. upto = Turns(upto)
    BY <1>2
  <1> HIDE DEF upto, a0
  <1>4. /\ upto[0] = a0
        /\ upto[1] = L!prepare(upto[0], InputIn)
        /\ upto[2] = L!prepare(upto[1], SocketOut)
        /\ upto[3] = L!prepare(upto[2], SocketIn)
        /\ upto[4] = L!prepare(upto[3], OutputOut)
    BY <1>3, FourRules
  <1> QED BY <1>1, <1>4, FourRules DEF a0

\* The rule served next is one of those to be served.
LEMMA FirstFacts ==
  ASSUME NEW todo \in SUBSET RuleSet, todo # {}
  PROVE  L!first(todo) \in todo
  <1> DEFINE P(i) == Rules[i] \in todo /\ \A j \in 1..(i - 1) : Rules[j] \notin todo
  <1>1. \E i \in 1..4 : P(i)
    <2>1. CASE InputIn \in todo
      <3>1. P(1) BY <2>1, FourRules
      <3> QED BY <3>1
    <2>2. CASE InputIn \notin todo /\ SocketOut \in todo
      <3>1. P(2) BY <2>2, FourRules
      <3> QED BY <3>1
    <2>3. CASE InputIn \notin todo /\ SocketOut \notin todo /\ SocketIn \in todo
      <3>1. P(3) BY <2>3, FourRules
      <3> QED BY <3>1
    <2>4. CASE todo = {OutputOut}
      <3>1. P(4) BY <2>4, FourRules DEF InputIn, SocketOut, SocketIn, OutputOut
      <3> QED BY <3>1
    <2> QED BY <2>1, <2>2, <2>3, <2>4 DEF RuleSet
  <1>2. P(CHOOSE i \in 1..4 : P(i))
    BY <1>1
  <1> QED BY <1>2, FourRules DEF L!first

\* Nothing is seen before the first poll.
LEMMA EmptySeen == [r \in {} |-> {}] \in UNION {[S -> SUBSET Event] : S \in SUBSET RuleSet}
  <1>1. [r \in {} |-> {}] \in [{} -> SUBSET Event] /\ {} \in SUBSET RuleSet
    OBVIOUS
  <1> QED BY <1>1

\* A loop that has thrown nothing, field by field.
LEMMA LoopRecord ==
  ASSUME NEW rules \in SUBSET RuleSet, NEW asked \in SUBSET RuleSet, NEW todo \in SUBSET RuleSet,
         NEW seen \in UNION {[S -> SUBSET Event] : S \in SUBSET RuleSet}
  PROVE  LET v == [rules |-> rules, asked |-> asked, seen |-> seen, todo |-> todo,
                   thrown |-> "no"]
         IN  v \in LoopType /\ v.thrown = "no"
  BY DEF LoopType

-------------------------------------------------------------------------------
(* What the rules that are left mean *)

Lost(v) == gone(v, "no remote")

\* Types, and both directions.
Base(v) ==
  /\ v \in WorkType
  /\ Carried(v.outbound, v.kernel.at_remote, v.kernel.to_remote, Input, v.kernel.typed)
  /\ Carried(v.inbound, v.kernel.at_reader, v.kernel.to_reader, Remote, v.kernel.sent)

\* A direction is shut behind its last byte; a stream that has ended gets no more;
\* what came from the remote is complete when it ends; a rule goes only for a
\* reason.
Ends(v) ==
  /\ v.kernel.shut = v.outbound_shutdown /\ (v.kernel.shut => stream_eof(v.outbound))
  /\ v.fd.output.closed = v.inbound_shutdown
  /\ v.fd.output.closed => stream_eof(v.inbound)
  /\ v.outbound.is_eof => v.fd.input.eof \/ InputIn \notin v.loop.rules
  /\ v.inbound.is_eof => v.fd.socket.eof \/ SocketIn \notin v.loop.rules
  /\ v.fd.socket.eof => v.inbound.is_eof
  /\ v.inbound.is_eof =>
       Lost(v) \/ (v.kernel.sent_end /\ v.inbound.write_count = v.kernel.sent)
  /\ v.outbound.error => Lost(v)
  /\ v.inbound.error => v.fd.output.closed
  /\ SocketOut \in v.loop.rules \/ Lost(v)
  /\ OutputOut \in v.loop.rules \/ v.fd.output.closed
  /\ SocketIn \in v.loop.rules \/ v.inbound.is_eof
  /\ ~v.fd.input.closed /\ ~v.fd.socket.closed

\* The rules that poll is asked about.
Asked(v) ==
  /\ v.loop.asked \subseteq v.loop.rules
  /\ InputIn \in v.loop.asked => ~v.outbound.is_eof
  /\ SocketIn \in v.loop.asked => ~v.inbound.is_eof
  /\ SocketOut \in v.loop.asked => ~v.kernel.shut

Good(v) == Base(v) /\ Ends(v)

\* A rule that is left and not asked about has no interest.
Idle(r, v) == r \in v.loop.rules /\ r \notin v.loop.asked => ~Interest(r, v)

\* The interests of the rules.
LEMMA InterestFacts ==
  ASSUME NEW v
  PROVE  /\ Interest(SocketOut, v) =
              (~buffer_empty(v.outbound) \/ (stream_eof(v.outbound) /\ ~v.outbound_shutdown))
         /\ Interest(SocketIn, v) =
              (~v.inbound.error /\ remaining_capacity(v.inbound) > 0 /\ ~v.outbound.error)
         /\ Interest(OutputOut, v) =
              (~buffer_empty(v.inbound) \/ (stream_eof(v.inbound) /\ ~v.inbound_shutdown))
  BY RulesDiffer DEF Interest, InputIn, SocketOut, SocketIn, OutputOut

\* All but the loop and the streams.
Frame(v, u) ==
  /\ u.kernel = v.kernel /\ u.fd = v.fd
  /\ u.outbound_shutdown = v.outbound_shutdown /\ u.inbound_shutdown = v.inbound_shutdown

\* A cancelled rule, field by field.
LEMMA CancelFields ==
  ASSUME NEW v \in WorkType, NEW r \in RuleSet
  PROVE  LET u == L!cancelled(v, r)
         IN  /\ u \in WorkType /\ Frame(v, u)
             /\ u.loop.rules = v.loop.rules \ {r} /\ u.loop.asked = v.loop.asked
             /\ u.loop.seen = v.loop.seen /\ u.loop.todo = v.loop.todo
             /\ u.loop.thrown = v.loop.thrown
             /\ u.outbound = IF r = InputIn THEN end_input(v.outbound)
                             ELSE IF r = SocketOut THEN set_error(v.outbound) ELSE v.outbound
             /\ u.inbound = IF r = SocketIn THEN end_input(v.inbound)
                            ELSE IF r = OutputOut THEN set_error(v.inbound) ELSE v.inbound
  <1> DEFINE e == Cancel(r, v)
             u == [e EXCEPT !.loop.rules = @ \ {r}]
  <1>1. L!cancelled(v, r) = u
    BY DEF L!cancelled
  <1>2. /\ end_input(v.outbound) \in ByteStreamOf(Char) /\ set_error(v.outbound) \in ByteStreamOf(Char)
        /\ end_input(v.inbound) \in ByteStreamOf(Char) /\ set_error(v.inbound) \in ByteStreamOf(Char)
    BY FlagFacts DEF WorkType, SameBytes
  <1>3. /\ e \in WorkType /\ Frame(v, e) /\ e.loop = v.loop
        /\ e.outbound = IF r = InputIn THEN end_input(v.outbound)
                        ELSE IF r = SocketOut THEN set_error(v.outbound) ELSE v.outbound
        /\ e.inbound = IF r = SocketIn THEN end_input(v.inbound)
                       ELSE IF r = OutputOut THEN set_error(v.inbound) ELSE v.inbound
    <2>1. CASE r = InputIn
      <3>1. e = [v EXCEPT !.outbound = end_input(v.outbound)]
        BY <2>1 DEF Cancel, InputIn
      <3> HIDE DEF e
      <3> QED BY <1>2, <2>1, <3>1, RulesDiffer DEF WorkType, Frame
    <2>2. CASE r = SocketOut
      <3>1. e = [v EXCEPT !.outbound = set_error(v.outbound)]
        BY <2>2, RulesDiffer DEF Cancel, InputIn, SocketOut
      <3> HIDE DEF e
      <3> QED BY <1>2, <2>2, <3>1, RulesDiffer DEF WorkType, Frame
    <2>3. CASE r = SocketIn
      <3>1. e = [v EXCEPT !.inbound = end_input(v.inbound)]
        BY <2>3, RulesDiffer DEF Cancel, InputIn, SocketOut, SocketIn
      <3> HIDE DEF e
      <3> QED BY <1>2, <2>3, <3>1, RulesDiffer DEF WorkType, Frame
    <2>4. CASE r = OutputOut
      <3>1. e = [v EXCEPT !.inbound = set_error(v.inbound)]
        BY <2>4, RulesDiffer DEF Cancel, InputIn, SocketOut, SocketIn, OutputOut
      <3> HIDE DEF e
      <3> QED BY <1>2, <2>4, <3>1, RulesDiffer DEF WorkType, Frame
    <2> QED BY <2>1, <2>2, <2>3, <2>4 DEF RuleSet
  <1> HIDE DEF e
  <1>4. /\ u \in WorkType /\ Frame(e, u) /\ u.outbound = e.outbound /\ u.inbound = e.inbound
        /\ u.loop.rules = e.loop.rules \ {r} /\ u.loop.asked = e.loop.asked
        /\ u.loop.seen = e.loop.seen /\ u.loop.todo = e.loop.todo
        /\ u.loop.thrown = e.loop.thrown
    BY <1>3 DEF WorkType, LoopType, Frame
  <1> HIDE DEF u
  <1> QED BY <1>1, <1>3, <1>4 DEF Frame

\* A rule that is cancelled for its reason.
LEMMA CancelGood ==
  ASSUME NEW v, Good(v), NEW r \in RuleSet, r = SocketOut => Lost(v),
         r = SocketIn => v.inbound.is_eof, r = OutputOut => v.fd.output.closed
  PROVE  LET u == L!cancelled(v, r)
         IN  /\ Good(u) /\ Frame(v, u)
             /\ SameBytes(v.outbound, u.outbound) /\ SameBytes(v.inbound, u.inbound)
             /\ r # InputIn => (u.outbound.is_eof <=> v.outbound.is_eof)
             /\ u.inbound.is_eof <=> v.inbound.is_eof
             /\ v.inbound.error => u.inbound.error
             /\ v.outbound.error => u.outbound.error
  <1> DEFINE u == L!cancelled(v, r)
  <1>1. /\ u \in WorkType /\ Frame(v, u) /\ u.loop.rules = v.loop.rules \ {r}
        /\ u.outbound = IF r = InputIn THEN end_input(v.outbound)
                        ELSE IF r = SocketOut THEN set_error(v.outbound) ELSE v.outbound
        /\ u.inbound = IF r = SocketIn THEN end_input(v.inbound)
                       ELSE IF r = OutputOut THEN set_error(v.inbound) ELSE v.inbound
    BY CancelFields DEF Good, Base
  <1> HIDE DEF u
  <1>2. v.outbound \in ByteStreamOf(Char) /\ v.inbound \in ByteStreamOf(Char)
    BY DEF Good, Base, WorkType
  <1>3. /\ SameBytes(v.outbound, u.outbound)
        /\ (u.outbound.is_eof <=> (r = InputIn \/ v.outbound.is_eof))
        /\ (u.outbound.error <=> (r = SocketOut \/ v.outbound.error))
    <2>1. CASE r = InputIn
      <3>1. u.outbound = end_input(v.outbound)
        BY <1>1, <2>1, RulesDiffer
      <3> QED BY <1>2, <2>1, <3>1, FlagFacts, RulesDiffer
    <2>2. CASE r = SocketOut
      <3>1. u.outbound = set_error(v.outbound)
        BY <1>1, <2>2, RulesDiffer
      <3> QED BY <1>2, <2>2, <3>1, FlagFacts, RulesDiffer
    <2>3. CASE r # InputIn /\ r # SocketOut
      <3>1. u.outbound = v.outbound
        BY <1>1, <2>3
      <3> QED BY <1>2, <2>3, <3>1, StreamFields DEF SameBytes
    <2> QED BY <2>1, <2>2, <2>3
  <1>4. /\ SameBytes(v.inbound, u.inbound)
        /\ (u.inbound.is_eof <=> v.inbound.is_eof)
        /\ (u.inbound.error <=> (r = OutputOut \/ v.inbound.error))
    <2>1. CASE r = SocketIn
      <3>1. u.inbound = end_input(v.inbound)
        BY <1>1, <2>1, RulesDiffer
      <3> QED BY <1>2, <2>1, <3>1, FlagFacts, RulesDiffer
    <2>2. CASE r = OutputOut
      <3>1. u.inbound = set_error(v.inbound)
        BY <1>1, <2>2, RulesDiffer
      <3> QED BY <1>2, <2>2, <3>1, FlagFacts, RulesDiffer
    <2>3. CASE r # SocketIn /\ r # OutputOut
      <3>1. u.inbound = v.inbound
        BY <1>1, <2>3
      <3> QED BY <1>2, <2>3, <3>1, StreamFields DEF SameBytes
    <2> QED BY <2>1, <2>2, <2>3
  <1>5. Base(u)
    BY <1>1, <1>3, <1>4, SameCarried DEF Good, Base, Frame
  <1>6. /\ stream_eof(v.outbound) => stream_eof(u.outbound)
        /\ stream_eof(v.inbound) => stream_eof(u.inbound)
        /\ u.inbound.write_count = v.inbound.write_count
    BY <1>3, <1>4 DEF SameBytes, stream_eof, buffer_empty, buffer_size
  <1>7. Lost(u) <=> Lost(v)
    BY <1>1 DEF Frame, Lost, gone
  <1>8. Ends(v)
    BY DEF Good
  <1>9. Ends(u)
    <2>1. /\ u.kernel.shut = u.outbound_shutdown /\ (u.kernel.shut => stream_eof(u.outbound))
          /\ u.fd.output.closed = u.inbound_shutdown
          /\ u.fd.output.closed => stream_eof(u.inbound)
          /\ ~u.fd.input.closed /\ ~u.fd.socket.closed
      BY <1>1, <1>6, <1>8 DEF Ends, Frame
    <2>2. u.outbound.is_eof => u.fd.input.eof \/ InputIn \notin u.loop.rules
      BY <1>1, <1>3, <1>8 DEF Ends, Frame
    <2>3. /\ u.inbound.is_eof => u.fd.socket.eof \/ SocketIn \notin u.loop.rules
          /\ u.fd.socket.eof => u.inbound.is_eof
          /\ SocketIn \in u.loop.rules \/ u.inbound.is_eof
      BY <1>1, <1>4, <1>8 DEF Ends, Frame
    <2>4. u.inbound.is_eof =>
            Lost(u) \/ (u.kernel.sent_end /\ u.inbound.write_count = u.kernel.sent)
      BY <1>1, <1>4, <1>6, <1>7, <1>8 DEF Ends, Frame
    <2>5. /\ u.outbound.error => Lost(u)
          /\ SocketOut \in u.loop.rules \/ Lost(u)
      BY <1>1, <1>3, <1>7, <1>8 DEF Ends
    <2>6. /\ u.inbound.error => u.fd.output.closed
          /\ OutputOut \in u.loop.rules \/ u.fd.output.closed
      BY <1>1, <1>4, <1>8 DEF Ends, Frame
    <2> QED BY <2>1, <2>2, <2>3, <2>4, <2>5, <2>6 DEF Ends
  <1> QED BY <1>1, <1>3, <1>4, <1>5, <1>9 DEF Good, u

\* A rule that poll is asked about.
LEMMA AskGood ==
  ASSUME NEW v, Good(v), Asked(v), NEW r \in v.loop.rules, r = InputIn => ~v.outbound.is_eof,
         r = SocketIn => ~v.inbound.is_eof, r = SocketOut => ~v.kernel.shut
  PROVE  LET u == [v EXCEPT !.loop.asked = @ \cup {r}]
         IN  /\ Good(u) /\ Asked(u) /\ Frame(v, u)
             /\ u.outbound = v.outbound /\ u.inbound = v.inbound
             /\ u.loop.rules = v.loop.rules /\ u.loop.asked = v.loop.asked \cup {r}
  <1> DEFINE u == [v EXCEPT !.loop.asked = @ \cup {r}]
  <1>1. /\ u \in WorkType /\ Frame(v, u) /\ u.outbound = v.outbound /\ u.inbound = v.inbound
        /\ u.loop.rules = v.loop.rules /\ u.loop.asked = v.loop.asked \cup {r}
    BY DEF Good, Base, WorkType, LoopType, Frame
  <1> HIDE DEF u
  <1>2. Base(u)
    BY <1>1 DEF Good, Base, Frame
  <1>3. Ends(u)
    BY <1>1 DEF Good, Ends, Frame, Lost, gone
  <1>4. Asked(u)
    BY <1>1 DEF Asked, Frame
  <1> QED BY <1>1, <1>2, <1>3, <1>4 DEF Good, u

\* What the turn of the first loop for rule r does.
Prepares(r, v, u) ==
  /\ Good(u) /\ Asked(u) /\ Frame(v, u) /\ Idle(r, u)
  /\ SameBytes(v.outbound, u.outbound) /\ SameBytes(v.inbound, u.inbound)
  /\ r # InputIn => (u.outbound.is_eof <=> v.outbound.is_eof)
  /\ u.inbound.is_eof <=> v.inbound.is_eof
  /\ v.inbound.error => u.inbound.error
  /\ v.outbound.error => u.outbound.error
  /\ u.loop.rules \subseteq v.loop.rules /\ v.loop.asked \subseteq u.loop.asked
  /\ u.loop.asked \subseteq v.loop.asked \cup {r}

\* Left alone, asked about or cancelled.
LEMMA PrepareFacts ==
  ASSUME NEW r \in RuleSet \ {InputIn}, NEW v, Good(v), Asked(v), r \notin v.loop.asked
  PROVE  Prepares(r, v, L!prepare(v, r))
  <1> DEFINE u == L!prepare(v, r)
             ends == (r[2] = "In" /\ v.fd[r[1]].eof) \/ v.fd[r[1]].closed
  <1>0. v.outbound \in ByteStreamOf(Char) /\ v.inbound \in ByteStreamOf(Char)
    BY DEF Good, Base, WorkType
  <1>1. /\ ends /\ r = SocketIn => v.inbound.is_eof
        /\ ends /\ r = OutputOut => v.fd.output.closed
        /\ ends => r # SocketOut
        /\ ~ends /\ r = SocketIn => ~v.fd.socket.eof
    BY DEF Good, Ends, SocketOut, SocketIn, OutputOut
  <1> HIDE DEF ends
  <1>2. u = IF r \notin v.loop.rules THEN v ELSE IF ends THEN L!cancelled(v, r)
            ELSE IF Interest(r, v) THEN [v EXCEPT !.loop.asked = @ \cup {r}] ELSE v
    BY DEF L!prepare, ends
  <1> HIDE DEF u
  <1>3. SameBytes(v.outbound, v.outbound) /\ SameBytes(v.inbound, v.inbound) /\ Frame(v, v)
    BY <1>0 DEF SameBytes, Frame
  <1>4. CASE u = v /\ (r \notin v.loop.rules \/ ~Interest(r, v))
    BY <1>3, <1>4 DEF Prepares, Idle, u
  <1>5. CASE u = [v EXCEPT !.loop.asked = @ \cup {r}] /\ r \in v.loop.rules /\ ~ends /\ Interest(r, v)
    <2>1. r = SocketIn => ~v.inbound.is_eof
      BY <1>1, <1>5 DEF Good, Ends
    <2>2. r = SocketOut => ~v.kernel.shut
      <3> SUFFICES ASSUME r = SocketOut, v.kernel.shut PROVE FALSE
        OBVIOUS
      <3>1. stream_eof(v.outbound) /\ v.outbound_shutdown
        BY DEF Good, Ends
      <3>2. ~Interest(SocketOut, v)
        BY <3>1, InterestFacts DEF stream_eof
      <3> QED BY <1>5, <3>2
    <2>3. /\ Good(u) /\ Asked(u) /\ Frame(v, u)
          /\ u.outbound = v.outbound /\ u.inbound = v.inbound
          /\ u.loop.rules = v.loop.rules /\ u.loop.asked = v.loop.asked \cup {r}
      BY <1>5, <2>1, <2>2, AskGood
    <2> QED BY <1>3, <2>3 DEF Prepares, Idle, u
  <1>6. CASE u = L!cancelled(v, r) /\ r \in v.loop.rules /\ ends
    <2>1. /\ Good(u) /\ Frame(v, u)
          /\ SameBytes(v.outbound, u.outbound) /\ SameBytes(v.inbound, u.inbound)
          /\ r # InputIn => (u.outbound.is_eof <=> v.outbound.is_eof)
          /\ u.inbound.is_eof <=> v.inbound.is_eof
          /\ v.inbound.error => u.inbound.error
          /\ v.outbound.error => u.outbound.error
      BY <1>1, <1>6, CancelGood
    <2>2. u.loop.rules = v.loop.rules \ {r} /\ u.loop.asked = v.loop.asked
      BY <1>6, CancelFields DEF Good, Base
    <2>3. Asked(u)
      BY <2>1, <2>2 DEF Asked, Frame
    <2> QED BY <2>1, <2>2, <2>3 DEF Prepares, Idle, u
  <1> QED BY <1>2, <1>4, <1>5, <1>6

\* The rule for stdin, at its turn: nothing is asked yet.
LEMMA PrepareInputIn ==
  ASSUME NEW v, Good(v), v.loop.asked = {}
  PROVE  LET u == L!prepare(v, InputIn)
         IN  Good(u) /\ Asked(u) /\ Frame(v, u) /\ u.loop.asked \subseteq {InputIn}
  <1> DEFINE u == L!prepare(v, InputIn)
  <1>0. Asked(v) /\ Frame(v, v)
    BY DEF Asked, Frame
  <1>1. u = IF InputIn \notin v.loop.rules THEN v ELSE IF v.fd.input.eof THEN L!cancelled(v, InputIn)
            ELSE IF Interest(InputIn, v) THEN [v EXCEPT !.loop.asked = @ \cup {InputIn}] ELSE v
    BY DEF L!prepare, InputIn, Good, Ends
  <1> HIDE DEF u
  <1>2. CASE u = v
    BY <1>0, <1>2 DEF u
  <1>3. CASE u = L!cancelled(v, InputIn)
    <2>1. Good(u) /\ Frame(v, u)
      BY <1>3, CancelGood, RulesDiffer DEF RuleSet
    <2>2. u.loop.asked = {}
      BY <1>3, CancelFields DEF Good, Base, RuleSet
    <2> QED BY <2>1, <2>2 DEF Asked, u
  <1>4. CASE /\ u = [v EXCEPT !.loop.asked = @ \cup {InputIn}]
             /\ InputIn \in v.loop.rules /\ ~v.fd.input.eof
    <2>1. ~v.outbound.is_eof
      BY <1>4 DEF Good, Ends
    <2>2. /\ Good(u) /\ Asked(u) /\ Frame(v, u) /\ u.loop.asked = v.loop.asked \cup {InputIn}
      BY <1>0, <1>4, <2>1, AskGood, RulesDiffer
    <2> QED BY <2>2 DEF u
  <1> QED BY <1>1, <1>2, <1>3, <1>4

\* A rule that had no interest at its turn has none after the turns that follow.
LEMMA IdleStays ==
  ASSUME NEW r \in {SocketIn, OutputOut}, NEW v, NEW u, Prepares(r, v, u),
         NEW q \in {SocketOut, SocketIn}, q # r, Idle(q, v)
  PROVE  Idle(q, u)
  <1> SUFFICES ASSUME q \in u.loop.rules, q \notin u.loop.asked PROVE ~Interest(q, u)
    BY DEF Idle
  <1>1. ~Interest(q, v)
    BY DEF Idle, Prepares
  <1>2. CASE q = SocketOut
    <2>1. buffer_empty(v.outbound) /\ ~(stream_eof(v.outbound) /\ ~v.outbound_shutdown)
      BY <1>1, <1>2, InterestFacts
    <2>2. /\ u.outbound.buf = v.outbound.buf /\ (u.outbound.is_eof <=> v.outbound.is_eof)
          /\ u.outbound_shutdown = v.outbound_shutdown
      BY RulesDiffer DEF Prepares, SameBytes, Frame
    <2>3. buffer_empty(u.outbound) /\ ~(stream_eof(u.outbound) /\ ~u.outbound_shutdown)
      BY <2>1, <2>2 DEF buffer_empty, buffer_size, stream_eof
    <2> QED BY <1>2, <2>3, InterestFacts
  <1>3. CASE q = SocketIn
    <2>1. v.inbound.error \/ ~(remaining_capacity(v.inbound) > 0) \/ v.outbound.error
      BY <1>1, <1>3, InterestFacts
    <2>2. /\ remaining_capacity(u.inbound) = remaining_capacity(v.inbound)
          /\ v.inbound.error => u.inbound.error
          /\ v.outbound.error => u.outbound.error
      BY DEF Prepares, SameBytes, remaining_capacity
    <2> QED BY <1>3, <2>1, <2>2, InterestFacts
  <1> QED BY <1>2, <1>3

\* The whole loop over the rules.
LEMMA PreparedFacts ==
  ASSUME NEW v, Good(v)
  PROVE  LET u == L!prepared(v)
         IN  /\ Good(u) /\ Asked(u) /\ Frame(v, u)
             /\ \A r \in {SocketOut, SocketIn, OutputOut} : Idle(r, u)
  <1> DEFINE a0 == [v EXCEPT !.loop.asked = {}]
             a1 == L!prepare(a0, InputIn)
             a2 == L!prepare(a1, SocketOut)
             a3 == L!prepare(a2, SocketIn)
             a4 == L!prepare(a3, OutputOut)
  <1>0. Good(a0) /\ a0.loop.asked = {} /\ Frame(v, a0)
    <2>1. /\ a0 \in WorkType /\ Frame(v, a0) /\ a0.outbound = v.outbound
          /\ a0.inbound = v.inbound /\ a0.loop.rules = v.loop.rules /\ a0.loop.asked = {}
      BY DEF Good, Base, WorkType, LoopType, Frame
    <2> HIDE DEF a0
    <2>2. Base(a0)
      BY <2>1 DEF Good, Base, Frame
    <2>3. Ends(a0)
      BY <2>1 DEF Good, Ends, Frame, Lost, gone
    <2> QED BY <2>1, <2>2, <2>3 DEF Good
  <1> HIDE DEF a0
  <1>1. Good(a1) /\ Asked(a1) /\ Frame(a0, a1) /\ a1.loop.asked \subseteq {InputIn}
    BY <1>0, PrepareInputIn
  <1> HIDE DEF a1
  <1>2. Prepares(SocketOut, a1, a2)
    BY <1>1, PrepareFacts, RulesDiffer DEF RuleSet
  <1> HIDE DEF a2
  <1>3. Prepares(SocketIn, a2, a3)
    <2>1. Good(a2) /\ Asked(a2) /\ SocketIn \notin a2.loop.asked
      BY <1>1, <1>2, RulesDiffer DEF Prepares
    <2> QED BY <2>1, PrepareFacts, RulesDiffer DEF RuleSet
  <1> HIDE DEF a3
  <1>4. Prepares(OutputOut, a3, a4)
    <2>1. Good(a3) /\ Asked(a3) /\ OutputOut \notin a3.loop.asked
      BY <1>1, <1>2, <1>3, RulesDiffer DEF Prepares
    <2> QED BY <2>1, PrepareFacts, RulesDiffer DEF RuleSet
  <1> HIDE DEF a4
  <1>5. Idle(SocketOut, a2) /\ Idle(SocketIn, a3) /\ Idle(OutputOut, a4)
    BY <1>2, <1>3, <1>4 DEF Prepares
  <1>6. Idle(SocketOut, a3)
    BY <1>3, <1>5, IdleStays, RulesDiffer
  <1>7. Idle(SocketOut, a4) /\ Idle(SocketIn, a4)
    BY <1>4, <1>5, <1>6, IdleStays, RulesDiffer
  <1>8. Good(a4) /\ Asked(a4)
    BY <1>4 DEF Prepares
  <1>9. Frame(v, a4)
    BY <1>0, <1>1, <1>2, <1>3, <1>4 DEF Prepares, Frame
  <1>10. L!prepared(v) = a4
    BY PreparedIs DEF a0, a1, a2, a3, a4
  <1> QED BY <1>5, <1>7, <1>8, <1>9, <1>10

\* When nothing is asked, nothing is left.
LEMMA ExitFacts ==
  ASSUME NEW v, Good(v), \A r \in {SocketOut, SocketIn, OutputOut} : Idle(r, v),
         v.loop.asked = {}, ~Lost(v)
  PROVE  /\ v.kernel.sent_end /\ v.fd.output.closed
         /\ v.kernel.at_reader \o v.kernel.to_reader = SubSeq(Remote, 1, v.kernel.sent)
         /\ buffer_empty(v.outbound) /\ (v.outbound.is_eof => v.kernel.shut)
  <1>0. Ends(v) /\ Base(v)
    BY DEF Good
  <1>1. v.fd.output.closed
    <2> SUFFICES ASSUME ~v.fd.output.closed PROVE FALSE
      OBVIOUS
    <2>1. ~Interest(OutputOut, v)
      BY <1>0 DEF Ends, Idle
    <2>2. buffer_empty(v.inbound) /\ ~v.inbound.is_eof /\ ~v.inbound.error
      BY <1>0, <2>1, InterestFacts DEF Ends, stream_eof
    <2>3. ~Interest(SocketIn, v)
      BY <1>0, <2>2 DEF Ends, Idle
    <2>4. remaining_capacity(v.inbound) > 0
      <3>1. v.inbound.capacity = BufferSize /\ Len(v.inbound.buf) = 0
        BY <1>0, <2>2 DEF Base, Carried, buffer_empty, buffer_size
      <3> QED BY <3>1, Numbers DEF remaining_capacity
    <2>5. v.outbound.error
      BY <2>2, <2>3, <2>4, InterestFacts
    <2> QED BY <1>0, <2>5 DEF Ends
  <1>2. stream_eof(v.inbound) /\ v.kernel.sent_end /\ v.inbound.write_count = v.kernel.sent
    BY <1>0, <1>1 DEF Ends, stream_eof
  <1>3. v.kernel.at_reader \o v.kernel.to_reader = SubSeq(Remote, 1, v.kernel.sent)
    <2>1. /\ v.kernel.at_reader \in Seq(Char) /\ v.kernel.to_reader \in Seq(Char)
          /\ v.inbound.buf \in Seq(Char)
      BY <1>0, StreamFields DEF Base, Carried
    <2>2. v.inbound.buf = <<>>
      BY <1>2, <2>1, EmptySeq DEF stream_eof, buffer_empty, buffer_size
    <2>3. /\ v.kernel.at_reader \o v.kernel.to_reader \in Seq(Char)
          /\ (v.kernel.at_reader \o v.kernel.to_reader) \o <<>> = v.kernel.at_reader \o v.kernel.to_reader
      BY <2>1, ConcatProperties, ConcatEmptySeq
    <2>4. v.kernel.at_reader \o v.kernel.to_reader \o v.inbound.buf
            = SubSeq(Remote, 1, v.inbound.write_count)
      BY <1>0 DEF Base, Carried
    <2> QED BY <1>2, <2>2, <2>3, <2>4
  <1>4. ~Interest(SocketOut, v)
    BY <1>0 DEF Ends, Idle
  <1>5. buffer_empty(v.outbound) /\ (v.outbound.is_eof => v.kernel.shut)
    BY <1>0, <1>4, InterestFacts DEF Ends, stream_eof
  <1> QED BY <1>1, <1>2, <1>3, <1>5

-------------------------------------------------------------------------------
(* The callbacks *)

\* What poll said of the rules that are still to be served holds.
ToServe(v) ==
  /\ v.loop.todo \subseteq v.loop.rules
  /\ InputIn \in v.loop.todo => ~v.outbound.is_eof
  /\ SocketIn \in v.loop.todo =>
       /\ ~v.inbound.is_eof /\ "In" \in v.loop.seen[SocketIn]
       /\ Lost(v) \/ v.kernel.sent_end \/ v.inbound.write_count < v.kernel.sent
  /\ SocketOut \in v.loop.todo => "Out" \in v.loop.seen[SocketOut] \/ Lost(v)
  /\ OutputOut \in v.loop.todo => v.loop.seen[OutputOut] \cap {"Out", "ERR"} # {}

\* What a callback of rule r may do.
Called(r, v, u) ==
  /\ Good(u)
  /\ u.kernel.sent = v.kernel.sent /\ u.kernel.sent_end = v.kernel.sent_end
  /\ u.kernel.failed = v.kernel.failed
  /\ r # InputIn => (u.outbound.is_eof <=> v.outbound.is_eof)
  /\ r # SocketIn => /\ u.inbound.is_eof <=> v.inbound.is_eof
                     /\ u.inbound.write_count = v.inbound.write_count
  /\ u.loop.rules = v.loop.rules /\ u.loop.seen = v.loop.seen
  /\ u.loop.todo = v.loop.todo \/ u.loop.todo = {}

\* Rule 1.
LEMMA CallInputIn ==
  ASSUME NEW v, Good(v), ~v.outbound.is_eof, NEW u \in from_input(v)
  PROVE  Called(InputIn, v, u)
  <1> DEFINE room == remaining_capacity(v.outbound)
             d == Portion(v.outbound, Input, v.kernel.typed)
             c == write(v.outbound, d)
             fd == fd_read(v.fd.input, room, Len(d))
             b == filled(v.outbound, d, fd.eof)
  <1>0. Ends(v) /\ Base(v) /\ Input \in Seq(Char)
    BY Numbers DEF Good
  <1>1. /\ Carried(c, v.kernel.at_remote, v.kernel.to_remote, Input, v.kernel.typed)
        /\ c.is_eof = v.outbound.is_eof /\ c.error = v.outbound.error
    <2>1. Carried(v.outbound, v.kernel.at_remote, v.kernel.to_remote, Input, v.kernel.typed)
      BY <1>0 DEF Base
    <2>2. Fills(v.outbound, c, d, v.kernel.at_remote, v.kernel.to_remote, Input, v.kernel.typed)
      BY <1>0, <2>1, FillCarried
    <2> HIDE DEF c, d
    <2> QED BY <2>2 DEF Fills
  <1>2. u = [v EXCEPT !.fd.input = fd, !.outbound = b]
    BY DEF from_input, got, Readable, Unread, Portion
  <1>3. fd \in FDType /\ fd.closed = v.fd.input.closed
    BY <1>0 DEF fd_read, register_read, FDType, Base, WorkType
  <1>4. b = IF fd.eof THEN end_input(c) ELSE c
    BY DEF filled
  <1> HIDE DEF room, d, c, fd, b
  <1>5. c \in ByteStreamOf(Char)
    BY <1>1 DEF Carried
  <1>6. /\ SameBytes(c, b) /\ (b.is_eof => fd.eof) /\ (b.error <=> v.outbound.error)
    <2>1. CASE fd.eof
      BY <1>1, <1>4, <1>5, <2>1, FlagFacts
    <2>2. CASE ~fd.eof
      <3>1. b = c
        BY <1>4, <2>2
      <3> QED BY <1>1, <1>5, <3>1 DEF SameBytes
    <2> QED BY <2>1, <2>2
  <1>7. Carried(b, v.kernel.at_remote, v.kernel.to_remote, Input, v.kernel.typed)
    BY <1>1, <1>6, SameCarried
  <1>8. b \in ByteStreamOf(Char)
    BY <1>6 DEF SameBytes
  <1>9. /\ u \in WorkType /\ u.kernel = v.kernel /\ u.loop = v.loop
        /\ u.inbound = v.inbound /\ u.outbound = b
        /\ u.outbound_shutdown = v.outbound_shutdown /\ u.inbound_shutdown = v.inbound_shutdown
        /\ u.fd.input = fd /\ u.fd.socket = v.fd.socket /\ u.fd.output = v.fd.output
    BY <1>0, <1>2, <1>3, <1>8 DEF Base, WorkType
  <1>10. Base(u)
    BY <1>0, <1>7, <1>9 DEF Base
  <1>11. ~v.kernel.shut
    BY <1>0 DEF Ends, stream_eof
  <1>12. Ends(u)
    BY <1>0, <1>3, <1>6, <1>9, <1>11 DEF Ends, Lost, gone
  <1> QED BY <1>9, <1>10, <1>12 DEF Called, Good

\* Rule 3: the end that is read is the end of what was sent.
LEMMA CallSocketIn ==
  ASSUME NEW v, Good(v), ~v.inbound.is_eof, NEW u \in from_socket(v),
         Lost(v) \/ v.kernel.sent_end \/ v.inbound.write_count < v.kernel.sent
  PROVE  Called(SocketIn, v, u)
  <1> DEFINE room == remaining_capacity(v.inbound)
             d == Portion(v.inbound, Remote, v.kernel.sent)
             c == write(v.inbound, d)
             fd == fd_read(v.fd.socket, room, Len(d))
             b == filled(v.inbound, d, fd.eof)
  <1>0. Ends(v) /\ Base(v) /\ Remote \in Seq(Char)
    BY Numbers DEF Good
  <1>1. /\ Carried(c, v.kernel.at_reader, v.kernel.to_reader, Remote, v.kernel.sent)
        /\ c.is_eof = v.inbound.is_eof /\ c.error = v.inbound.error
        /\ Len(d) \in Nat /\ c.write_count = v.inbound.write_count + Len(d)
        /\ room > 0 /\ Len(d) = 0 => v.inbound.write_count = v.kernel.sent
    <2>1. Carried(v.inbound, v.kernel.at_reader, v.kernel.to_reader, Remote, v.kernel.sent)
      BY <1>0 DEF Base
    <2>2. Fills(v.inbound, c, d, v.kernel.at_reader, v.kernel.to_reader, Remote, v.kernel.sent)
      BY <1>0, <2>1, FillCarried
    <2> HIDE DEF c, d
    <2> QED BY <2>2 DEF Fills
  <1>2. u = [v EXCEPT !.fd.socket = fd, !.inbound = b]
    BY DEF from_socket, got, Readable, Unread, Portion
  <1>13. ~v.fd.socket.eof
    BY <1>0 DEF Ends
  <1>3. /\ fd \in FDType /\ fd.closed = v.fd.socket.closed
        /\ fd.eof <=> room > 0 /\ Len(d) = 0
    BY <1>0, <1>13 DEF fd_read, register_read, FDType, Base, WorkType
  <1>4. b = IF fd.eof THEN end_input(c) ELSE c
    BY DEF filled
  <1>14. v.inbound.write_count \in Nat
    BY <1>0, StreamFields DEF Base, Carried
  <1> HIDE DEF room, d, c, fd, b
  <1>5. c \in ByteStreamOf(Char)
    BY <1>1 DEF Carried
  <1>6. /\ SameBytes(c, b) /\ (b.is_eof <=> fd.eof) /\ (b.error <=> v.inbound.error)
    <2>1. CASE fd.eof
      BY <1>1, <1>4, <1>5, <2>1, FlagFacts
    <2>2. CASE ~fd.eof
      <3>1. b = c
        BY <1>4, <2>2
      <3> QED BY <1>1, <1>5, <2>2, <3>1 DEF SameBytes
    <2> QED BY <2>1, <2>2
  <1>7. Carried(b, v.kernel.at_reader, v.kernel.to_reader, Remote, v.kernel.sent)
    BY <1>1, <1>6, SameCarried
  <1>8. b \in ByteStreamOf(Char)
    BY <1>6 DEF SameBytes
  <1>9. /\ u \in WorkType /\ u.kernel = v.kernel /\ u.loop = v.loop
        /\ u.outbound = v.outbound /\ u.inbound = b
        /\ u.outbound_shutdown = v.outbound_shutdown /\ u.inbound_shutdown = v.inbound_shutdown
        /\ u.fd.socket = fd /\ u.fd.input = v.fd.input /\ u.fd.output = v.fd.output
    BY <1>0, <1>2, <1>3, <1>8 DEF Base, WorkType
  <1>10. Base(u)
    BY <1>0, <1>7, <1>9 DEF Base
  <1>11. ~v.fd.output.closed /\ SocketIn \in v.loop.rules
    BY <1>0 DEF Ends, stream_eof
  <1>15. b.is_eof => Lost(v) \/ (v.kernel.sent_end /\ b.write_count = v.kernel.sent)
    <2> SUFFICES ASSUME b.is_eof
                 PROVE  Lost(v) \/ (v.kernel.sent_end /\ b.write_count = v.kernel.sent)
      OBVIOUS
    <2>1. room > 0 /\ Len(d) = 0
      BY <1>1, <1>3, <1>6
    <2>2. v.inbound.write_count = v.kernel.sent
      BY <1>1, <2>1
    <2>3. b.write_count = v.kernel.sent
      <3>1. b.write_count = v.inbound.write_count + 0
        BY <1>1, <1>6, <2>1 DEF SameBytes
      <3> QED BY <1>14, <2>2, <3>1
    <2>4. ~(v.inbound.write_count < v.kernel.sent)
      BY <1>14, <2>2
    <2> QED BY <2>3, <2>4
  <1>12. Ends(u)
    BY <1>0, <1>3, <1>6, <1>9, <1>11, <1>15 DEF Ends, Lost, gone
  <1> QED BY <1>9, <1>10, <1>12, RulesDiffer DEF Called, Good

\* Rule 2: the end is told once the stream is empty.
LEMMA CallSocketOut ==
  ASSUME NEW v, Good(v), NEW u \in to_socket(v)
  PROVE  Called(SocketOut, v, u)
  <1>0. Ends(v) /\ Base(v) /\ Input \in Seq(Char)
    BY Numbers DEF Good
  <1>1. CASE u = [v EXCEPT !.loop.thrown = "broken pipe", !.loop.todo = {}]
    <2>1. /\ u \in WorkType /\ Frame(v, u) /\ u.outbound = v.outbound /\ u.inbound = v.inbound
          /\ u.loop.rules = v.loop.rules /\ u.loop.seen = v.loop.seen /\ u.loop.todo = {}
      BY <1>0, <1>1 DEF Base, WorkType, LoopType, Frame
    <2>2. Base(u)
      BY <1>0, <2>1 DEF Base, Frame
    <2>3. Ends(u)
      BY <1>0, <2>1 DEF Ends, Frame, Lost, gone
    <2> QED BY <2>1, <2>2, <2>3 DEF Called, Good, Frame
  <1>2. ASSUME NEW n \in Taken(v.outbound, v.kernel.to_remote),
               u = LET out == pop_output(v.outbound, n)
                   IN  [v EXCEPT !.fd.socket = fd_write(@), !.outbound = out,
                                 !.kernel.to_remote = @ \o peek_output(v.outbound, n),
                                 !.kernel.shut = @ \/ stream_eof(out),
                                 !.outbound_shutdown = @ \/ stream_eof(out)]
        PROVE  Called(SocketOut, v, u)
    <2> DEFINE c == pop_output(v.outbound, n)
               to == v.kernel.to_remote \o peek_output(v.outbound, n)
               fd == fd_write(v.fd.socket)
               end == v.kernel.shut \/ stream_eof(c)
    <2>1. /\ Carried(c, v.kernel.at_remote, to, Input, v.kernel.typed)
          /\ c.is_eof = v.outbound.is_eof /\ c.error = v.outbound.error
          /\ buffer_empty(v.outbound) => buffer_empty(c)
      <3>1. Carried(v.outbound, v.kernel.at_remote, v.kernel.to_remote, Input, v.kernel.typed)
        BY <1>0 DEF Base
      <3>2. n \in Taken(v.outbound, v.kernel.to_remote)
        BY <1>2
      <3>3. Drains(v.outbound, c, peek_output(v.outbound, n), v.kernel.at_remote,
                   v.kernel.to_remote, Input, v.kernel.typed)
        BY <1>0, <3>1, <3>2, DrainCarried
      <3> HIDE DEF c
      <3> QED BY <3>3 DEF Drains
    <2>2. v.kernel.shut = v.outbound_shutdown /\ (v.kernel.shut => stream_eof(v.outbound))
      BY <1>0 DEF Ends
    <2>3. u = [v EXCEPT !.fd.socket = fd, !.outbound = c, !.kernel.to_remote = to,
                        !.kernel.shut = end, !.outbound_shutdown = end]
      BY <1>0, <1>2, <2>2 DEF Base, WorkType, KernelType
    <2>4. fd \in FDType /\ fd.closed = v.fd.socket.closed /\ fd.eof = v.fd.socket.eof
      BY <1>0 DEF fd_write, register_write, FDType, Base, WorkType
    <2>5. end \in BOOLEAN /\ (end => stream_eof(c))
      BY <1>0, <2>1, <2>2 DEF stream_eof, Base, WorkType, KernelType
    <2>6. c \in ByteStreamOf(Char) /\ to \in Seq(Char)
      BY <2>1 DEF Carried
    <2> HIDE DEF c, to, fd, end
    <2>7. /\ u \in WorkType /\ u.loop = v.loop /\ u.inbound = v.inbound /\ u.outbound = c
          /\ u.outbound_shutdown = end /\ u.inbound_shutdown = v.inbound_shutdown
          /\ u.fd.socket = fd /\ u.fd.input = v.fd.input /\ u.fd.output = v.fd.output
          /\ u.kernel.to_remote = to /\ u.kernel.at_remote = v.kernel.at_remote
          /\ u.kernel.shut = end /\ u.kernel.typed = v.kernel.typed
          /\ u.kernel.sent = v.kernel.sent /\ u.kernel.sent_end = v.kernel.sent_end
          /\ u.kernel.failed = v.kernel.failed
          /\ u.kernel.to_reader = v.kernel.to_reader /\ u.kernel.at_reader = v.kernel.at_reader
      BY <1>0, <2>3, <2>4, <2>5, <2>6 DEF Base, WorkType, KernelType
    <2>8. Base(u)
      BY <1>0, <2>1, <2>7 DEF Base
    <2>9. Ends(u)
      BY <1>0, <2>1, <2>4, <2>5, <2>7 DEF Ends, Lost, gone
    <2> QED BY <2>1, <2>7, <2>8, <2>9 DEF Called, Good
  <1> QED BY <1>1, <1>2 DEF to_socket

\* Rule 4: stdout is closed once the stream is empty.
LEMMA CallOutputOut ==
  ASSUME NEW v, Good(v), NEW u \in to_output(v)
  PROVE  Called(OutputOut, v, u)
  <1>0. Ends(v) /\ Base(v) /\ Remote \in Seq(Char)
    BY Numbers DEF Good
  <1>1. PICK n \in Taken(v.inbound, v.kernel.to_reader) :
               u = LET in == pop_output(v.inbound, n)
                   IN  [v EXCEPT !.fd.output = IF stream_eof(in) THEN fd_close(fd_write(@)) ELSE fd_write(@),
                                 !.inbound = in,
                                 !.kernel.to_reader = @ \o peek_output(v.inbound, n),
                                 !.inbound_shutdown = @ \/ stream_eof(in)]
    BY DEF to_output
  <1> DEFINE c == pop_output(v.inbound, n)
             to == v.kernel.to_reader \o peek_output(v.inbound, n)
             fd == IF stream_eof(c) THEN fd_close(fd_write(v.fd.output)) ELSE fd_write(v.fd.output)
             end == v.inbound_shutdown \/ stream_eof(c)
  <1>2. /\ Carried(c, v.kernel.at_reader, to, Remote, v.kernel.sent)
        /\ c.is_eof = v.inbound.is_eof /\ c.error = v.inbound.error
        /\ c.write_count = v.inbound.write_count
        /\ buffer_empty(v.inbound) => buffer_empty(c)
    <2>1. Carried(v.inbound, v.kernel.at_reader, v.kernel.to_reader, Remote, v.kernel.sent)
      BY <1>0 DEF Base
    <2>2. n \in Taken(v.inbound, v.kernel.to_reader)
      BY <1>1
    <2>3. Drains(v.inbound, c, peek_output(v.inbound, n), v.kernel.at_reader,
                 v.kernel.to_reader, Remote, v.kernel.sent)
      BY <1>0, <2>1, <2>2, DrainCarried
    <2> HIDE DEF c
    <2> QED BY <2>3 DEF Drains
  <1>3. /\ v.fd.output.closed = v.inbound_shutdown
        /\ v.fd.output.closed => stream_eof(v.inbound)
    BY <1>0 DEF Ends
  <1>4. u = [v EXCEPT !.fd.output = fd, !.inbound = c, !.kernel.to_reader = to,
                      !.inbound_shutdown = end]
    BY <1>1
  <1>5. v.fd.output \in FDType /\ v.inbound_shutdown \in BOOLEAN
    BY <1>0 DEF Base, WorkType
  <1>6. fd \in FDType /\ (fd.closed <=> end)
    <2>1. CASE stream_eof(c)
      <3>1. fd = fd_close(fd_write(v.fd.output)) /\ end
        BY <2>1
      <3> QED BY <1>5, <3>1 DEF fd_close, fd_write, register_write, FDType
    <2>2. CASE ~stream_eof(c)
      <3>1. fd = fd_write(v.fd.output) /\ (end <=> v.inbound_shutdown)
        BY <2>2
      <3> HIDE DEF fd, end
      <3> QED BY <1>3, <1>5, <3>1 DEF fd_write, register_write, FDType
    <2> QED BY <2>1, <2>2
  <1>7. end \in BOOLEAN /\ (end => stream_eof(c))
    BY <1>2, <1>3, <1>5 DEF stream_eof
  <1>8. c \in ByteStreamOf(Char) /\ to \in Seq(Char)
    BY <1>2 DEF Carried
  <1> HIDE DEF c, to, fd, end
  <1>9. /\ u \in WorkType /\ u.loop = v.loop /\ u.outbound = v.outbound /\ u.inbound = c
        /\ u.inbound_shutdown = end /\ u.outbound_shutdown = v.outbound_shutdown
        /\ u.fd.output = fd /\ u.fd.input = v.fd.input /\ u.fd.socket = v.fd.socket
        /\ u.kernel.to_reader = to /\ u.kernel.at_reader = v.kernel.at_reader
        /\ u.kernel.shut = v.kernel.shut /\ u.kernel.typed = v.kernel.typed
        /\ u.kernel.sent = v.kernel.sent /\ u.kernel.sent_end = v.kernel.sent_end
        /\ u.kernel.failed = v.kernel.failed
        /\ u.kernel.to_remote = v.kernel.to_remote /\ u.kernel.at_remote = v.kernel.at_remote
    BY <1>0, <1>4, <1>6, <1>7, <1>8 DEF Base, WorkType, KernelType
  <1>10. Base(u)
    BY <1>0, <1>2, <1>9 DEF Base
  <1>11. fd.closed = end
    BY <1>6, <1>7 DEF FDType
  <1>12. v.fd.output.closed => end
    BY <1>3 DEF end
  <1>13. Ends(u)
    BY <1>0, <1>2, <1>7, <1>9, <1>11, <1>12 DEF Ends, Lost, gone
  <1> QED BY <1>2, <1>9, <1>10, <1>13, RulesDiffer DEF Called, Good

\* What neither Good nor the callbacks look at may differ.
Alike(v, u) ==
  /\ u \in WorkType /\ u.kernel = v.kernel /\ u.outbound = v.outbound /\ u.inbound = v.inbound
  /\ u.outbound_shutdown = v.outbound_shutdown /\ u.inbound_shutdown = v.inbound_shutdown
  /\ u.loop.rules = v.loop.rules
  /\ u.fd.input.eof = v.fd.input.eof /\ u.fd.input.closed = v.fd.input.closed
  /\ u.fd.socket.eof = v.fd.socket.eof /\ u.fd.socket.closed = v.fd.socket.closed
  /\ u.fd.output.closed = v.fd.output.closed

LEMMA AlikeGood ==
  ASSUME NEW v, NEW u, Good(v), Alike(v, u)
  PROVE  Good(u)
  <1>1. Base(u)
    BY DEF Good, Base, Alike
  <1>2. Ends(u)
    BY DEF Good, Ends, Alike, Lost, gone
  <1> QED BY <1>1, <1>2 DEF Good

\* The check for busy waiting throws or forgets what was serviced.
LEMMA CheckedFacts ==
  ASSUME NEW r \in RuleSet, NEW v, NEW u, Called(r, v, u)
  PROVE  Called(r, v, L!checked(u, r))
  <1> DEFINE c == L!checked(u, r)
             quiet == [u EXCEPT !.fd[r[1]].serviced = {}]
             busy == [u EXCEPT !.loop.thrown = "busy wait", !.loop.todo = {}]
  <1>1. c = u \/ c = quiet \/ c = busy
    BY DEF L!checked
  <1>2. u \in WorkType /\ Good(u)
    BY DEF Called, Good, Base
  <1>3. CASE c = quiet
    <2>1. Alike(u, quiet) /\ quiet.loop = u.loop
      <3>1. CASE r = InputIn
        <4>1. quiet = [u EXCEPT !.fd.input.serviced = {}]
          BY <3>1 DEF InputIn
        <4> HIDE DEF quiet
        <4> QED BY <1>2, <4>1 DEF Alike, WorkType, FDType
      <3>2. CASE r = SocketOut \/ r = SocketIn
        <4>1. quiet = [u EXCEPT !.fd.socket.serviced = {}]
          BY <3>2 DEF SocketOut, SocketIn
        <4> HIDE DEF quiet
        <4> QED BY <1>2, <4>1 DEF Alike, WorkType, FDType
      <3>3. CASE r = OutputOut
        <4>1. quiet = [u EXCEPT !.fd.output.serviced = {}]
          BY <3>3 DEF OutputOut
        <4> HIDE DEF quiet
        <4> QED BY <1>2, <4>1 DEF Alike, WorkType, FDType
      <3> QED BY <3>1, <3>2, <3>3 DEF RuleSet
    <2> HIDE DEF quiet, c
    <2>2. Good(c)
      BY <1>2, <1>3, <2>1, AlikeGood
    <2> QED BY <1>3, <2>1, <2>2 DEF Called, Alike, c
  <1>4. CASE c = busy
    <2>1. Alike(u, busy) /\ busy.loop.seen = u.loop.seen /\ busy.loop.todo = {}
      BY <1>2 DEF Alike, WorkType, LoopType
    <2> HIDE DEF busy, c
    <2>2. Good(c)
      BY <1>2, <1>4, <2>1, AlikeGood
    <2> QED BY <1>4, <2>1, <2>2 DEF Called, Alike, c
  <1> QED BY <1>1, <1>3, <1>4

\* The callback of a rule that poll reported.
LEMMA CallFacts ==
  ASSUME NEW r \in RuleSet, NEW v, Good(v), NEW u \in Callback(r, v),
         r = InputIn => ~v.outbound.is_eof,
         r = SocketIn => /\ ~v.inbound.is_eof
                         /\ Lost(v) \/ v.kernel.sent_end \/ v.inbound.write_count < v.kernel.sent
  PROVE  Called(r, v, u)
  <1>1. CASE r = InputIn
    <2>1. u \in from_input(v)
      BY <1>1 DEF Callback, InputIn
    <2> QED BY <1>1, <2>1, CallInputIn
  <1>2. CASE r = SocketOut
    <2>1. u \in to_socket(v)
      BY <1>2 DEF Callback, SocketOut
    <2> QED BY <1>2, <2>1, CallSocketOut
  <1>3. CASE r = SocketIn
    <2>1. u \in from_socket(v)
      BY <1>3 DEF Callback, SocketIn
    <2> QED BY <1>3, <2>1, CallSocketIn
  <1>4. CASE r = OutputOut
    <2>1. u \in to_output(v)
      BY <1>4 DEF Callback, OutputOut
    <2> QED BY <1>4, <2>1, CallOutputOut
  <1> QED BY <1>1, <1>2, <1>3, <1>4 DEF RuleSet

\* One turn of the loop over the results.
LEMMA ServeFacts ==
  ASSUME NEW v, Good(v), ToServe(v), v.loop.todo # {}, NEW x \in L!serve(v)
  PROVE  Good(x) /\ ToServe(x)
  <1> DEFINE r == L!first(v.loop.todo)
             y == [v EXCEPT !.loop.todo = @ \ {r}]
             dead == [y EXCEPT !.loop.thrown = "poll error", !.loop.todo = {}]
  <1>0. v \in WorkType /\ v.loop.todo \in SUBSET RuleSet
    BY DEF Good, Base, WorkType, LoopType
  <1>1. r \in v.loop.todo /\ r \in RuleSet
    BY <1>0, FirstFacts
  <1>2. \/ x = dead
        \/ "ERR" \notin v.loop.seen[r] /\ r[2] \in v.loop.seen[r]
           /\ \E u \in Callback(r, y) : x = L!checked(u, r)
        \/ "ERR" \notin v.loop.seen[r] /\ r[2] \notin v.loop.seen[r] /\ x = L!cancelled(y, r)
    BY DEF L!serve
  <1> HIDE DEF r
  <1>3. Alike(v, y) /\ y.loop.seen = v.loop.seen /\ y.loop.todo = v.loop.todo \ {r}
    BY <1>0 DEF Alike, WorkType, LoopType
  <1>4. y \in WorkType
    BY <1>3 DEF Alike
  <1>5. Alike(y, dead) /\ dead.loop.todo = {}
    <2> HIDE DEF y
    <2> QED BY <1>4 DEF Alike, WorkType, LoopType
  <1> HIDE DEF y, dead
  <1>6. Good(y)
    BY <1>3, AlikeGood
  <1>7. ToServe(y)
    BY <1>3 DEF ToServe, Alike, Lost, gone
  <1>8. CASE x = dead
    <2>1. Good(x) /\ x.loop.todo = {}
      BY <1>5, <1>6, <1>8, AlikeGood
    <2> QED BY <2>1 DEF ToServe
  <1>9. ASSUME NEW u \in Callback(r, y), x = L!checked(u, r)
        PROVE  Good(x) /\ ToServe(x)
    <2>1. /\ r = InputIn => ~y.outbound.is_eof
          /\ r = SocketIn => /\ ~y.inbound.is_eof
                             /\ Lost(y) \/ y.kernel.sent_end \/ y.inbound.write_count < y.kernel.sent
      BY <1>1, <1>3 DEF ToServe, Alike, Lost, gone
    <2>2. Called(r, y, u)
      BY <1>1, <1>6, <1>9, <2>1, CallFacts
    <2>3. Called(r, y, x)
      BY <1>1, <1>9, <2>2, CheckedFacts
    <2>4. CASE x.loop.todo = {}
      BY <2>3, <2>4 DEF Called, ToServe
    <2>5. CASE x.loop.todo = y.loop.todo
      <3>1. r \notin x.loop.todo
        BY <1>3, <2>5
      <3> QED BY <1>7, <2>3, <2>5, <3>1 DEF Called, ToServe, Lost, gone
    <2> QED BY <2>3, <2>4, <2>5 DEF Called
  <1>10. CASE "ERR" \notin v.loop.seen[r] /\ r[2] \notin v.loop.seen[r] /\ x = L!cancelled(y, r)
    <2>1. r # OutputOut /\ r # SocketIn /\ (r = SocketOut => Lost(y))
      <3>1. OutputOut[2] = "Out" /\ SocketIn[2] = "In" /\ SocketOut[2] = "Out"
        BY DEF OutputOut, SocketIn, SocketOut
      <3>2. Lost(v) => Lost(y)
        BY <1>3 DEF Alike, Lost, gone
      <3> QED BY <1>1, <1>10, <3>1, <3>2 DEF ToServe
    <2>2. /\ Good(x) /\ Frame(y, x)
          /\ SameBytes(y.outbound, x.outbound) /\ SameBytes(y.inbound, x.inbound)
          /\ r # InputIn => (x.outbound.is_eof <=> y.outbound.is_eof)
          /\ x.inbound.is_eof <=> y.inbound.is_eof
      BY <1>1, <1>6, <1>10, <2>1, CancelGood
    <2>3. /\ x.loop.rules = y.loop.rules \ {r} /\ x.loop.seen = y.loop.seen
          /\ x.loop.todo = y.loop.todo
      BY <1>1, <1>4, <1>10, CancelFields
    <2>4. r \notin x.loop.todo
      BY <1>3, <2>3
    <2>5. x.loop.todo \subseteq x.loop.rules
      BY <1>7, <2>3, <2>4 DEF ToServe
    <2>6. x.inbound.write_count = y.inbound.write_count /\ x.kernel = y.kernel
      BY <2>2 DEF SameBytes, Frame
    <2>7. ToServe(x)
      BY <1>7, <2>2, <2>3, <2>4, <2>5, <2>6 DEF ToServe, Lost, gone
    <2> QED BY <2>2, <2>7
  <1> QED BY <1>2, <1>8, <1>9, <1>10

-------------------------------------------------------------------------------
(* poll *)

\* The events of the three descriptors.
LEMMA ReventsFacts ==
  ASSUME NEW v
  PROVE  /\ Revents("input", v) \subseteq {"In", "HUP"}
         /\ Revents("socket", v) \subseteq {"In", "Out", "HUP"}
         /\ Revents("output", v) \subseteq {"Out", "ERR"}
         /\ "HUP" \in Revents("socket", v) => Lost(v) \/ (v.kernel.sent_end /\ v.kernel.shut)
         /\ "In" \in Revents("socket", v) <=>
              (Readable("socket", v) # <<>> \/ v.kernel.sent_end \/ Lost(v))
  BY DEF Revents, When, Lost

\* Every rule is about one of them.
LEMMA RuleParts ==
  /\ InputIn[1] = "input" /\ InputIn[2] = "In"
  /\ SocketOut[1] = "socket" /\ SocketOut[2] = "Out"
  /\ SocketIn[1] = "socket" /\ SocketIn[2] = "In"
  /\ OutputOut[1] = "output" /\ OutputOut[2] = "Out"
  BY DEF InputIn, SocketOut, SocketIn, OutputOut

\* What poll says of a rule.
Said(v, r) ==
  Revents(r[1], v) \cap ({"ERR", "HUP"} \cup (IF r \in v.loop.asked THEN {r[2]} ELSE {}))

LEMMA SaidFacts ==
  ASSUME NEW v, v.loop.rules \in SUBSET RuleSet
  PROVE  /\ L!reported(v) = [r \in v.loop.rules |-> Said(v, r)]
         /\ L!reported(v) \in [v.loop.rules -> SUBSET Event]
         /\ \A r \in v.loop.rules : L!matters(v, r) <=>
              \/ "ERR" \in Said(v, r) \/ r[2] \in Said(v, r)
              \/ "HUP" \in Said(v, r) /\ r \in v.loop.asked
  <1>1. L!reported(v) = [r \in v.loop.rules |-> Said(v, r)]
    BY DEF L!reported, Said
  <1>2. \A r \in RuleSet : Said(v, r) \in SUBSET Event
    BY ReventsFacts, RuleParts DEF RuleSet, Event, Said
  <1>3. L!reported(v) \in [v.loop.rules -> SUBSET Event]
    BY <1>1, <1>2
  <1>4. \A r \in v.loop.rules : L!reported(v)[r] = Said(v, r)
    BY <1>1
  <1>5. \A r \in v.loop.rules : L!matters(v, r) <=>
              \/ "ERR" \in Said(v, r) \/ r[2] \in Said(v, r)
              \/ "HUP" \in Said(v, r) /\ r \in v.loop.asked
    BY <1>4 DEF L!matters
  <1> QED BY <1>1, <1>3, <1>5

\* What is reported of the rules that are to be served.
LEMMA PolledFacts ==
  ASSUME NEW v, Good(v), Asked(v)
  PROVE  Good(L!polled(v)) /\ ToServe(L!polled(v))
  <1> DEFINE todo == {r \in v.loop.rules : L!matters(v, r)}
             seen == L!reported(v)
             u == L!polled(v)
  <1>0. v \in WorkType /\ v.loop.rules \in SUBSET RuleSet
    BY DEF Good, Base, WorkType, LoopType
  <1>1. /\ seen = [r \in v.loop.rules |-> Said(v, r)]
        /\ seen \in [v.loop.rules -> SUBSET Event]
        /\ \A r \in v.loop.rules : L!matters(v, r) <=>
              \/ "ERR" \in Said(v, r) \/ r[2] \in Said(v, r)
              \/ "HUP" \in Said(v, r) /\ r \in v.loop.asked
    BY <1>0, SaidFacts
  <1>2. u = [v EXCEPT !.loop.seen = seen, !.loop.todo = todo]
    BY DEF L!polled
  <1>3. todo \in SUBSET RuleSet /\ seen \in UNION {[S -> SUBSET Event] : S \in SUBSET RuleSet}
    BY <1>0, <1>1
  <1>4. \A r \in todo : r \in v.loop.rules /\ seen[r] = Said(v, r)
                        /\ (\/ "ERR" \in Said(v, r) \/ r[2] \in Said(v, r)
                            \/ "HUP" \in Said(v, r) /\ r \in v.loop.asked)
    BY <1>1
  <1> HIDE DEF todo, seen, u
  <1>5. Alike(v, u) /\ u.loop.seen = seen /\ u.loop.todo = todo
    BY <1>0, <1>2, <1>3 DEF Alike, WorkType, LoopType
  <1>6. Good(u)
    BY <1>5, AlikeGood
  <1>7. InputIn \in todo => ~v.outbound.is_eof
    <2> SUFFICES ASSUME InputIn \in todo PROVE InputIn \in v.loop.asked
      BY DEF Asked
    <2> QED BY <1>4, ReventsFacts, RuleParts DEF Said
  <1>8. SocketIn \in todo =>
          /\ ~v.inbound.is_eof /\ "In" \in seen[SocketIn]
          /\ Lost(v) \/ v.kernel.sent_end \/ v.inbound.write_count < v.kernel.sent
    <2> SUFFICES ASSUME SocketIn \in todo
                 PROVE  /\ ~v.inbound.is_eof /\ "In" \in seen[SocketIn]
                        /\ Lost(v) \/ v.kernel.sent_end \/ v.inbound.write_count < v.kernel.sent
      OBVIOUS
    <2>1. SocketIn \in v.loop.asked /\ ("In" \in Said(v, SocketIn) \/ "HUP" \in Said(v, SocketIn))
      BY <1>4, ReventsFacts, RuleParts DEF Said
    <2>2. "In" \in Revents("socket", v)
      BY <2>1, ReventsFacts, RuleParts DEF Said
    <2>3. "In" \in Said(v, SocketIn)
      BY <2>1, <2>2, RuleParts DEF Said
    <2>4. Readable("socket", v) # <<>> => v.inbound.write_count < v.kernel.sent
      <3>1. Carried(v.inbound, v.kernel.at_reader, v.kernel.to_reader, Remote, v.kernel.sent)
        BY DEF Good, Base
      <3>2. Readable("socket", v) = Unread(v.inbound, Remote, v.kernel.sent)
        BY DEF Readable, Unread
      <3>3. /\ Unread(v.inbound, Remote, v.kernel.sent) = <<>> <=> v.inbound.write_count = v.kernel.sent
            /\ v.inbound.write_count \in Nat /\ v.kernel.sent \in Nat
            /\ v.inbound.write_count <= v.kernel.sent
        BY <3>1, UnreadFacts, Numbers
      <3> QED BY <3>2, <3>3
    <2> QED BY <1>4, <2>1, <2>2, <2>3, <2>4, ReventsFacts DEF Asked
  <1>9. SocketOut \in todo => "Out" \in seen[SocketOut] \/ Lost(v)
    <2> SUFFICES ASSUME SocketOut \in todo, "Out" \notin Said(v, SocketOut) PROVE Lost(v)
      BY <1>4
    <2>1. SocketOut \in v.loop.asked /\ "HUP" \in Revents("socket", v)
      BY <1>4, ReventsFacts, RuleParts DEF Said
    <2> QED BY <2>1, ReventsFacts DEF Asked
  <1>10. OutputOut \in todo => seen[OutputOut] \cap {"Out", "ERR"} # {}
    <2> SUFFICES ASSUME OutputOut \in todo
                 PROVE  "Out" \in Said(v, OutputOut) \/ "ERR" \in Said(v, OutputOut)
      BY <1>4
    <2> QED BY <1>4, ReventsFacts, RuleParts DEF Said
  <1>11. todo \subseteq v.loop.rules
    BY <1>4
  <1>12. ToServe(u)
    BY <1>5, <1>7, <1>8, <1>9, <1>10, <1>11 DEF ToServe, Alike, Lost, gone
  <1> QED BY <1>6, <1>12 DEF u

\* The local variables of wait_next_event are gone.
LEMMA ReturnedGood ==
  ASSUME NEW v, Good(v)
  PROVE  Good(L!returned(v))
  <1> DEFINE none == [r \in {} |-> {}]
             u == [v EXCEPT !.loop.asked = {}, !.loop.seen = none]
  <1>1. L!returned(v) = u
    BY DEF L!returned
  <1>2. none \in UNION {[S -> SUBSET Event] : S \in SUBSET RuleSet}
    BY EmptySeen
  <1> HIDE DEF none
  <1>3. Alike(v, u)
    BY <1>2 DEF Good, Base, Alike, WorkType, LoopType
  <1> HIDE DEF u
  <1> QED BY <1>1, <1>3, AlikeGood

-------------------------------------------------------------------------------
(* The other sides *)

\* The other sides, k after a step, only add to what has come and take what was
\* written.
Outside(v, k) ==
  /\ k \in KernelType /\ k.shut = v.kernel.shut
  /\ v.kernel.sent_end => k.sent_end /\ k.sent = v.kernel.sent
  /\ v.kernel.sent <= k.sent /\ v.kernel.failed \subseteq k.failed
  /\ Carried(v.outbound, k.at_remote, k.to_remote, Input, k.typed)
  /\ Carried(v.inbound, k.at_reader, k.to_reader, Remote, k.sent)

LEMMA OutsideGood ==
  ASSUME NEW v, NEW k, Good(v), Outside(v, k)
  PROVE  LET u == [v EXCEPT !.kernel = k]
         IN  /\ Good(u) /\ (Asked(v) => Asked(u)) /\ (ToServe(v) => ToServe(u))
             /\ u.loop = v.loop
  <1> DEFINE u == [v EXCEPT !.kernel = k]
  <1>0. v \in WorkType /\ k \in KernelType
    BY DEF Good, Base, Outside
  <1>1. /\ u \in WorkType /\ u.outbound = v.outbound /\ u.inbound = v.inbound
        /\ u.loop = v.loop /\ u.fd = v.fd /\ u.kernel = k
        /\ u.outbound_shutdown = v.outbound_shutdown /\ u.inbound_shutdown = v.inbound_shutdown
    BY <1>0 DEF WorkType
  <1> HIDE DEF u
  <1>2. Base(u)
    BY <1>1 DEF Base, Outside
  <1>3. Lost(v) => Lost(u)
    BY <1>1 DEF Outside, Lost, gone
  <1>4. Ends(v)
    BY DEF Good
  <1>5. Ends(u)
    BY <1>1, <1>3, <1>4 DEF Ends, Outside
  <1>6. Asked(v) => Asked(u)
    BY <1>1 DEF Asked, Outside
  <1>7. v.inbound.write_count < v.kernel.sent => u.inbound.write_count < u.kernel.sent
    <2>1. /\ v.inbound.write_count \in Nat /\ v.kernel.sent \in Nat /\ u.kernel.sent \in Nat
          /\ v.kernel.sent <= u.kernel.sent /\ u.inbound = v.inbound
      BY <1>1, StreamFields DEF Good, Base, Carried, Outside
    <2> QED BY <2>1
  <1>8. ToServe(v) => ToServe(u)
    BY <1>1, <1>3, <1>7 DEF ToServe, Outside
  <1> QED BY <1>1, <1>2, <1>5, <1>6, <1>8 DEF Good, u

-------------------------------------------------------------------------------
(* The specification *)

\* The inductive invariant: what the rules that are left mean, what poll is
\* asked and has said, and the exit.
Inv ==
  /\ Good(w) /\ pc \in {"loop", "poll", "serve", "returned", "thrown"}
  /\ pc = "poll" => Asked(w)
  /\ pc = "serve" => ToServe(w) /\ w.loop.todo # {}
  /\ NothingLeft

\* A new stream carries nothing.
LEMMA NewCarried ==
  ASSUME NEW src \in Seq(Char)
  PROVE  LET b == ByteStreamNew(BufferSize)
         IN  /\ Carried(b, <<>>, <<>>, src, 0) /\ b \in ByteStreamOf(Char)
             /\ ~b.is_eof /\ ~b.error
  <1> DEFINE b == ByteStreamNew(BufferSize)
  <1>1. BufferSize \in Nat /\ KernelRoom \in Nat /\ 0 <= BufferSize /\ 0 <= KernelRoom
    BY Numbers
  <1>2. <<>> \in Seq(Char) /\ Len(<<>>) = 0 /\ <<>> \o <<>> = <<>> /\ Len(src) \in Nat
    BY EmptySeq, ConcatEmptySeq, LenProperties
  <1>3. /\ b \in ByteStreamOf(Char) /\ b.buf = <<>> /\ b.capacity = BufferSize
        /\ b.write_count = 0 /\ ~b.is_eof /\ ~b.error
    BY <1>1, <1>2 DEF ByteStreamNew, ByteStreamOf
  <1>4. SubSeq(src, 1, 0) = <<>>
    BY EmptyPrefix
  <1> HIDE DEF b
  <1>5. Carried(b, <<>>, <<>>, src, 0)
    BY <1>1, <1>2, <1>3, <1>4 DEF Carried
  <1> QED BY <1>3, <1>5 DEF b

LEMMA InitGood ==
  ASSUME NEW tty \in BOOLEAN
  PROVE  Good(CopyNew(tty))
  <1> DEFINE v == CopyNew(tty)
             k == KernelNew(tty)
             b == ByteStreamNew(BufferSize)
             l == L!LoopNew
             f == FDNew
  <1>1. /\ v.loop = l /\ v.kernel = k /\ v.outbound = b /\ v.inbound = b
        /\ v.fd.input = f /\ v.fd.socket = f /\ v.fd.output = f
        /\ ~v.outbound_shutdown /\ ~v.inbound_shutdown
        /\ v = [loop |-> l, fd |-> [input |-> f, socket |-> f, output |-> f],
                outbound |-> b, inbound |-> b,
                outbound_shutdown |-> FALSE, inbound_shutdown |-> FALSE, kernel |-> k]
    BY DEF CopyNew
  <1>2. /\ k \in KernelType /\ ~k.shut /\ k.typed = 0 /\ k.sent = 0
        /\ k.to_remote = <<>> /\ k.at_remote = <<>> /\ k.to_reader = <<>> /\ k.at_reader = <<>>
    <2>1. <<>> \in Seq(Char)
      BY EmptySeq
    <2> QED BY <2>1 DEF KernelNew, KernelType
  <1>3. f \in FDType /\ ~f.eof /\ ~f.closed
    BY DEF FDNew, FDType
  <1>4. l \in LoopType /\ l.rules = RuleSet
    <2> DEFINE none == [r \in {} |-> {}]
    <2>1. {Rules[i] : i \in DOMAIN Rules} = RuleSet
      <3>1. \A i \in 1..4 : i = 1 \/ i = 2 \/ i = 3 \/ i = 4
        OBVIOUS
      <3> QED BY <3>1, FourRules DEF RuleSet
    <2>2. none \in UNION {[S -> SUBSET Event] : S \in SUBSET RuleSet}
      BY EmptySeen
    <2>3. l = [rules |-> RuleSet, asked |-> {}, seen |-> none, todo |-> {}, thrown |-> "no"]
      BY <2>1 DEF L!LoopNew
    <2> HIDE DEF none, l
    <2> QED BY <2>2, <2>3, LoopRecord
  <1>5. /\ Carried(b, <<>>, <<>>, Input, 0) /\ Carried(b, <<>>, <<>>, Remote, 0)
        /\ b \in ByteStreamOf(Char) /\ ~b.is_eof /\ ~b.error
    BY Numbers, NewCarried
  <1> HIDE DEF v, k, b, l, f
  <1>6. v \in WorkType
    BY <1>1, <1>2, <1>3, <1>4, <1>5 DEF WorkType
  <1>7. Base(v)
    BY <1>1, <1>2, <1>5, <1>6 DEF Base
  <1>8. Ends(v)
    <2>1. /\ v.kernel.shut = v.outbound_shutdown /\ ~v.kernel.shut
          /\ v.fd.output.closed = v.inbound_shutdown /\ ~v.fd.output.closed
      <3>1. v.kernel.shut \in BOOLEAN /\ v.fd.output.closed \in BOOLEAN
        BY <1>1, <1>2, <1>3 DEF KernelType, FDType
      <3>2. v.outbound_shutdown \in BOOLEAN /\ v.inbound_shutdown \in BOOLEAN
        BY <1>6 DEF WorkType
      <3>3. ~v.kernel.shut /\ ~v.fd.output.closed /\ ~v.outbound_shutdown /\ ~v.inbound_shutdown
        BY <1>1, <1>2, <1>3
      <3> QED BY <3>1, <3>2, <3>3, Zenon
    <2> QED BY <1>1, <1>3, <1>4, <1>5, <2>1 DEF Ends, RuleSet
  <1> QED BY <1>7, <1>8 DEF Good, v

\* A step of the other sides.
LEMMA OtherInv ==
  ASSUME Inv, NEW k, Other(k), Outside(w, k)
  PROVE  Inv'
  <1> DEFINE u == [w EXCEPT !.kernel = k]
  <1>1. /\ Good(u) /\ (Asked(w) => Asked(u)) /\ (ToServe(w) => ToServe(u))
        /\ u.loop = w.loop
    BY OutsideGood DEF Inv
  <1>2. pc' = pc /\ pc # "returned" /\ w' = u
    BY DEF Other
  <1> HIDE DEF u
  <1>3. NothingLeft'
    BY <1>2 DEF NothingLeft
  <1> QED BY <1>1, <1>2, <1>3 DEF Inv

\* The other sides before a step.
LEMMA KernelFacts ==
  ASSUME Inv
  PROVE  LET k == w.kernel
         IN  /\ k \in KernelType /\ k.typed \in Nat /\ k.sent \in Nat
             /\ Len(Input) \in Nat /\ Len(Remote) \in Nat
             /\ Carried(w.outbound, k.at_remote, k.to_remote, Input, k.typed)
             /\ Carried(w.inbound, k.at_reader, k.to_reader, Remote, k.sent)
  BY Numbers, LenProperties DEF Inv, Good, Base, WorkType, KernelType

\* More comes at stdin, or its end.
LEMMA TypeInv ==
  ASSUME Inv, Type
  PROVE  Inv'
  <1> DEFINE k == w.kernel
  <1>0. /\ k \in KernelType /\ k.typed \in Nat /\ k.sent \in Nat /\ Len(Input) \in Nat
        /\ Carried(w.outbound, k.at_remote, k.to_remote, Input, k.typed)
        /\ Carried(w.inbound, k.at_reader, k.to_reader, Remote, k.sent)
    BY KernelFacts
  <1>1. CASE \E n \in (k.typed + 1)..Len(Input) : Other([k EXCEPT !.typed = n])
    <2>1. PICK n \in (k.typed + 1)..Len(Input) : Other([k EXCEPT !.typed = n])
      BY <1>1
    <2>2. n \in Nat /\ k.typed <= n /\ n <= Len(Input)
      BY <1>0
    <2>3. Carried(w.outbound, k.at_remote, k.to_remote, Input, n)
      BY <1>0, <2>2, MoreCarried
    <2>4. k.sent <= k.sent
      BY <1>0
    <2>5. Outside(w, [k EXCEPT !.typed = n])
      BY <1>0, <2>2, <2>3, <2>4 DEF Outside, KernelType
    <2> QED BY <2>1, <2>5, OtherInv
  <1>2. CASE Other([k EXCEPT !.typed_end = TRUE])
    <2>1. k.sent <= k.sent
      BY <1>0
    <2>2. Outside(w, [k EXCEPT !.typed_end = TRUE])
      BY <1>0, <2>1 DEF Outside, KernelType
    <2> QED BY <1>2, <2>2, OtherInv
  <1> QED BY <1>1, <1>2 DEF Type

\* The remote sends more, or ends.
LEMMA SendInv ==
  ASSUME Inv, Send
  PROVE  Inv'
  <1> DEFINE k == w.kernel
  <1>0. /\ k \in KernelType /\ k.sent \in Nat /\ Len(Remote) \in Nat
        /\ Carried(w.outbound, k.at_remote, k.to_remote, Input, k.typed)
        /\ Carried(w.inbound, k.at_reader, k.to_reader, Remote, k.sent)
    BY KernelFacts
  <1>3. ~k.sent_end
    BY DEF Send
  <1>1. CASE \E n \in (k.sent + 1)..Len(Remote) : Other([k EXCEPT !.sent = n])
    <2>1. PICK n \in (k.sent + 1)..Len(Remote) : Other([k EXCEPT !.sent = n])
      BY <1>1
    <2>2. n \in Nat /\ k.sent <= n /\ n <= Len(Remote)
      BY <1>0
    <2>3. Carried(w.inbound, k.at_reader, k.to_reader, Remote, n)
      BY <1>0, <2>2, MoreCarried
    <2>4. Outside(w, [k EXCEPT !.sent = n])
      BY <1>0, <1>3, <2>2, <2>3 DEF Outside, KernelType
    <2> QED BY <2>1, <2>4, OtherInv
  <1>2. CASE Other([k EXCEPT !.sent_end = TRUE])
    <2>1. k.sent <= k.sent
      BY <1>0
    <2>2. Outside(w, [k EXCEPT !.sent_end = TRUE])
      BY <1>0, <1>3, <2>1 DEF Outside, KernelType
    <2> QED BY <1>2, <2>2, OtherInv
  <1> QED BY <1>1, <1>2 DEF Send

\* The remote or the reader of stdout takes what was written.
LEMMA ReadsInv ==
  ASSUME Inv, RemoteReads \/ ReaderReads
  PROVE  Inv'
  <1> DEFINE k == w.kernel
             a == k.at_remote \o k.to_remote
             b == k.at_reader \o k.to_reader
  <1>0. /\ k \in KernelType /\ k.sent \in Nat
        /\ Carried(w.outbound, k.at_remote, k.to_remote, Input, k.typed)
        /\ Carried(w.inbound, k.at_reader, k.to_reader, Remote, k.sent)
    BY KernelFacts
  <1>1. Carried(w.outbound, a, <<>>, Input, k.typed) /\ Carried(w.inbound, b, <<>>, Remote, k.sent)
    BY <1>0, TakenCarried
  <1>2. a \in Seq(Char) /\ b \in Seq(Char) /\ <<>> \in Seq(Char)
    BY <1>1 DEF Carried
  <1>3. k.sent <= k.sent
    BY <1>0
  <1>4. CASE RemoteReads
    <2>1. Other([k EXCEPT !.to_remote = <<>>, !.at_remote = a])
      BY <1>4 DEF RemoteReads
    <2> HIDE DEF a
    <2>2. Outside(w, [k EXCEPT !.to_remote = <<>>, !.at_remote = a])
      BY <1>0, <1>1, <1>2, <1>3 DEF Outside, KernelType
    <2> QED BY <2>1, <2>2, OtherInv
  <1>5. CASE ReaderReads
    <2>1. Other([k EXCEPT !.to_reader = <<>>, !.at_reader = b])
      BY <1>5 DEF ReaderReads
    <2> HIDE DEF b
    <2>2. Outside(w, [k EXCEPT !.to_reader = <<>>, !.at_reader = b])
      BY <1>0, <1>1, <1>2, <1>3 DEF Outside, KernelType
    <2> QED BY <2>1, <2>2, OtherInv
  <1> QED BY <1>4, <1>5

\* One of them vanishes.
LEMMA FailInv ==
  ASSUME Inv, Fail
  PROVE  Inv'
  <1> DEFINE k == w.kernel
  <1>0. /\ k \in KernelType /\ k.sent \in Nat
        /\ Carried(w.outbound, k.at_remote, k.to_remote, Input, k.typed)
        /\ Carried(w.inbound, k.at_reader, k.to_reader, Remote, k.sent)
    BY KernelFacts
  <1>1. PICK f \in Faults : Other([k EXCEPT !.failed = @ \cup {f}])
    BY DEF Fail
  <1>2. f \in {"no reader", "no remote"}
    BY <1>1, CopyAssumption
  <1>6. k.sent <= k.sent
    BY <1>0
  <1> DEFINE more == k.failed \cup {f}
  <1>3. more \in SUBSET {"no reader", "no remote"} /\ k.failed \subseteq more
    BY <1>0, <1>2 DEF KernelType
  <1>4. Other([k EXCEPT !.failed = more])
    BY <1>1
  <1> HIDE DEF more
  <1>5. Outside(w, [k EXCEPT !.failed = more])
    BY <1>0, <1>3, <1>6 DEF Outside, KernelType
  <1> QED BY <1>4, <1>5, OtherInv

\* The loop that fills pollfds; if it asks for nothing, that is the end.
LEMMA PrepareInv ==
  ASSUME Inv, Prepare
  PROVE  Inv'
  <1>1. /\ Good(w') /\ Asked(w') /\ \A r \in {SocketOut, SocketIn, OutputOut} : Idle(r, w')
    BY PreparedFacts DEF Prepare, Inv
  <1>2. /\ pc' \in {"returned", "poll"} /\ (pc' = "returned" => w'.loop.asked = {})
    BY DEF Prepare, L!exits
  <1>3. NothingLeft'
    <2> SUFFICES ASSUME pc' = "returned", ~Lost(w')
                 PROVE  /\ w'.kernel.sent_end /\ w'.fd.output.closed
                        /\ w'.kernel.at_reader \o w'.kernel.to_reader
                             = SubSeq(Remote, 1, w'.kernel.sent)
                        /\ buffer_empty(w'.outbound) /\ (w'.outbound.is_eof => w'.kernel.shut)
      BY DEF NothingLeft, Lost
    <2> QED BY <1>1, <1>2, ExitFacts
  <1> QED BY <1>1, <1>2, <1>3 DEF Inv

\* poll, and its results.
LEMMA PollInv ==
  ASSUME Inv, Poll
  PROVE  Inv'
  <1>1. Good(L!polled(w)) /\ ToServe(L!polled(w)) /\ Good(L!returned(L!polled(w)))
    BY PolledFacts, ReturnedGood DEF Poll, Inv
  <1>2. \/ pc' = "loop" /\ w' = L!returned(L!polled(w))
        \/ pc' = "serve" /\ w' = L!polled(w) /\ w'.loop.todo # {}
    BY DEF Poll
  <1>3. NothingLeft'
    BY <1>2 DEF NothingLeft
  <1> QED BY <1>1, <1>2, <1>3 DEF Inv

\* A rule is served.
LEMMA ServeInv ==
  ASSUME Inv, Serve
  PROVE  Inv'
  <1>1. PICK v \in L!serve(w) :
          /\ pc' = IF v.loop.thrown # "no" THEN "thrown" ELSE IF v.loop.todo = {} THEN "loop" ELSE "serve"
          /\ w' = IF v.loop.todo = {} THEN L!returned(v) ELSE v
    BY DEF Serve
  <1>2. Good(v) /\ ToServe(v)
    BY ServeFacts DEF Serve, Inv
  <1>3. Good(L!returned(v))
    BY <1>2, ReturnedGood
  <1>4. NothingLeft'
    BY <1>1 DEF NothingLeft
  <1> QED BY <1>1, <1>2, <1>3, <1>4 DEF Inv

\* The invariant holds at first and is kept.
LEMMA InvHolds == Spec => []Inv
  <1>1. Init => Inv
    BY InitGood DEF Init, Inv, NothingLeft
  <1>2. Inv /\ [Next]_vars => Inv'
    <2> SUFFICES ASSUME Inv, [Next]_vars PROVE Inv'
      OBVIOUS
    <2>1. CASE Prepare
      BY <2>1, PrepareInv
    <2>2. CASE Poll
      BY <2>2, PollInv
    <2>3. CASE Serve
      BY <2>3, ServeInv
    <2>4. CASE Type
      BY <2>4, TypeInv
    <2>5. CASE Send
      BY <2>5, SendInv
    <2>6. CASE RemoteReads \/ ReaderReads
      BY <2>6, ReadsInv
    <2>7. CASE Fail
      BY <2>7, FailInv
    <2>8. CASE UNCHANGED vars
      BY <2>8 DEF vars, Inv, NothingLeft
    <2> QED BY <2>1, <2>2, <2>3, <2>4, <2>5, <2>6, <2>7, <2>8 DEF Next
  <1> QED BY <1>1, <1>2, PTL DEF Spec

\* Every byte that was read from stdin or the socket is still in the buffer or
\* was written, once and in order, whatever the buffer size, the length of a
\* copy and the cut of reads and writes, also when the remote or the reader
\* vanishes (bidirectional_stream_copy.cc:33, 45-47, 61, 73-75: the reads are
\* bounded by the room, a write pops only what was taken).
THEOREM CopyLosesNothing == Spec => []NothingLost
  <1>1. Inv => NothingLost
    BY DEF Inv, Good, Base, Carried, NothingLost
  <1> QED BY <1>1, InvHolds, PTL

\* When the loop finds nothing to wait for and the remote has not vanished, all
\* that the remote sent is at stdout, stdout is closed, and what was read from
\* stdin is in the socket, with its end if it was seen: no interest and no cancel
\* of the four rules lets a direction end early
\* (bidirectional_stream_copy.cc:28-83, eventloop.cc:70-95).
THEOREM CopyLeavesNothing == Spec => []NothingLeft
  <1>1. Inv => NothingLeft
    BY DEF Inv
  <1> QED BY <1>1, InvHolds, PTL

===============================================================================
