------------------------------ MODULE ClassLemmas ------------------------------
(***************************************************************************)
(* Facts about the methods of ByteStream, WrappingInt32 and                *)
(* StreamReassembler, for the proofs about these classes and about what    *)
(* is built from them, with the facts on numbers, sequences and sets that  *)
(* those need.  What a right reassembler is, is split along its fields:    *)
(* OutRight is about the output, MapRight about the map of held bytes;     *)
(* each piece of push_substring moves one or both of them by the same      *)
(* number of bytes.                                                        *)
(***************************************************************************)
EXTENDS StreamReassembler, CarriedStream, WrappingIntegers, SequenceTheorems,
        FiniteSetTheorems, WellFoundedInduction, TLAPS

-------------------------------------------------------------------------------
(* Numbers, sequences, ByteStream and WrappingInt32 *)

\* The smaller of two integers.
LEMMA LeastFacts ==
  ASSUME NEW a \in Int, NEW b \in Int
  PROVE  /\ Least(a, b) \in Int
         /\ Least(a, b) <= a /\ Least(a, b) <= b
         /\ Least(a, b) = a \/ Least(a, b) = b
BY DEF Least

-------------------------------------------------------------------------------
(* Induction over the natural numbers, stated for sets: a set of numbers is a
   constant the provers can instantiate, a predicate is not. *)

\* A set of numbers that is not empty has a least member.
LEMMA LeastMember ==
  ASSUME NEW T \in SUBSET Nat, T # {}
  PROVE  \E x \in T : \A y \in T : x <= y
<1> DEFINE R == OpToRel(<, Nat)
<1>1. IsWellFoundedOn(R, Nat)
  BY NatLessThanWellFounded
<1>2. \A x, y \in Nat : <<y, x>> \in R <=> y < x
  BY DEF OpToRel
<1> HIDE DEF R
<1>3. PICK x \in T : \A y \in T : ~(<<y, x>> \in R)
  BY <1>1, WFMin
<1>4. ASSUME NEW y \in T PROVE x <= y
  <2>1. x \in Nat /\ y \in Nat
    OBVIOUS
  <2>2. ~(y < x)
    BY <1>2, <1>3, <2>1
  <2> QED  BY <2>1, <2>2
<1> QED  BY <1>4

\* A set of numbers that holds 0 and with every number the next one holds all.
LEMMA NatSetInduction ==
  ASSUME NEW T \in SUBSET Nat, 0 \in T, \A n \in T : n + 1 \in T
  PROVE  T = Nat
<1> SUFFICES ASSUME T # Nat PROVE FALSE
  OBVIOUS
<1> DEFINE U == Nat \ T
<1>1. U \in SUBSET Nat /\ U # {}
  OBVIOUS
<1>2. PICK x \in U : \A y \in U : x <= y
  BY <1>1, LeastMember
<1>3. x \in Nat /\ x \notin T /\ x # 0
  OBVIOUS
<1>4. x - 1 \in Nat /\ ~(x <= x - 1) /\ (x - 1) + 1 = x
  BY <1>3
<1>5. x - 1 \in T
  BY <1>2, <1>4
<1> QED  BY <1>3, <1>4, <1>5

-------------------------------------------------------------------------------
(* Prefixes and suffixes *)

\* The elements m..n of a sequence, m and n within it.
LEMMA SubSeqFacts ==
  ASSUME NEW S, NEW s \in Seq(S), NEW m \in Nat \ {0}, NEW n \in Nat,
         m <= n + 1, n <= Len(s)
  PROVE  /\ SubSeq(s, m, n) \in Seq(S)
         /\ Len(SubSeq(s, m, n)) = n - m + 1
         /\ \A i \in 1..(n - m + 1) : SubSeq(s, m, n)[i] = s[m + i - 1]
<1>1. Len(s) \in Nat
  BY LenProperties
<1>2. \A i \in m..n : s[i] \in S
  BY <1>1, ElementOfSeq
<1>3. /\ SubSeq(s, m, n) \in Seq(S)
      /\ Len(SubSeq(s, m, n)) = IF m <= n THEN n - m + 1 ELSE 0
      /\ \A i \in 1..(n - m + 1) : SubSeq(s, m, n)[i] = s[m + i - 1]
  BY <1>2, SubSeqProperties
<1>4. CASE m <= n
  BY <1>3, <1>4
<1>5. CASE ~(m <= n)
  <2>1. n - m + 1 = 0
    BY <1>5
  <2> QED  BY <1>3, <1>5, <2>1
<1> QED  BY <1>4, <1>5

\* The first n elements of a sequence, n at most its length.
LEMMA PrefixOf ==
  ASSUME NEW S, NEW s \in Seq(S), NEW n \in 0..Len(s)
  PROVE  SubSeq(s, 1, n) \in Seq(S) /\ Len(SubSeq(s, 1, n)) = n
<1>1. Len(s) \in Nat
  BY LenProperties
<1>2. n \in Nat /\ n <= Len(s) /\ 1 <= n + 1 /\ n - 1 + 1 = n /\ 1 \in Nat \ {0}
  BY <1>1
<1> QED  BY <1>2, SubSeqFacts

\* Nothing of a sequence.
LEMMA EmptyPrefix ==
  ASSUME NEW S, NEW s \in Seq(S)
  PROVE  SubSeq(s, 1, 0) = <<>>
<1>1. 0 \in 0..Len(s)
  BY LenProperties
<1>2. SubSeq(s, 1, 0) \in Seq(S) /\ Len(SubSeq(s, 1, 0)) = 0
  BY <1>1, PrefixOf
<1> QED  BY <1>2, EmptySeq

\* What is left after the first n.
LEMMA SuffixOf ==
  ASSUME NEW S, NEW s \in Seq(S), NEW n \in 0..Len(s)
  PROVE  /\ SubSeq(s, n + 1, Len(s)) \in Seq(S)
         /\ Len(SubSeq(s, n + 1, Len(s))) = Len(s) - n
<1>1. Len(s) \in Nat
  BY LenProperties
<1>2. /\ n + 1 \in Nat \ {0} /\ n + 1 <= Len(s) + 1 /\ Len(s) <= Len(s)
      /\ Len(s) - (n + 1) + 1 = Len(s) - n
  BY <1>1
<1> QED  BY <1>1, <1>2, SubSeqFacts

\* A sequence cut in two and put together again.
LEMMA CutAndJoin ==
  ASSUME NEW S, NEW s \in Seq(S), NEW n \in 0..Len(s)
  PROVE  SubSeq(s, 1, n) \o SubSeq(s, n + 1, Len(s)) = s
<1>1. Len(s) \in Nat
  BY LenProperties
<1>2. 1 \in 1..(Len(s) + 1) /\ n \in (1 - 1)..Len(s) /\ Len(s) \in n..Len(s)
  BY <1>1
<1>3. SubSeq(s, 1, n) \o SubSeq(s, n + 1, Len(s)) = SubSeq(s, 1, Len(s))
  BY <1>2, ConcatAdjacentSubSeq
<1> QED  BY <1>3, SubSeqFull

-------------------------------------------------------------------------------
(* The methods of ByteStream *)

\* What the fields of a stream are.
LEMMA StreamFields ==
  ASSUME NEW Value, NEW bs \in ByteStreamOf(Value)
  PROVE  /\ bs.buf \in Seq(Value) /\ Len(bs.buf) \in Nat
         /\ bs.capacity \in Nat /\ bs.write_count \in Nat /\ bs.read_count \in Nat
         /\ bs.is_eof \in BOOLEAN /\ bs.error \in BOOLEAN
<1>1. bs.buf \in Seq(Value)
  BY DEF ByteStreamOf
<1>2. Len(bs.buf) \in Nat
  BY <1>1, LenProperties
<1> QED  BY <1>1, <1>2 DEF ByteStreamOf

\* How much of data a write accepts: all, or what there is room for.
LEMMA AcceptedLen ==
  ASSUME NEW Value, NEW bs \in ByteStreamOf(Value), Len(bs.buf) <= bs.capacity,
         NEW data \in Seq(Value)
  PROVE  /\ accepted_len(bs, data) \in 0..Len(data)
         /\ accepted_len(bs, data) <= bs.capacity - Len(bs.buf)
         /\ Len(data) <= bs.capacity - Len(bs.buf) => accepted_len(bs, data) = Len(data)
<1>1. Len(data) \in Nat /\ Len(data) \in Int
  BY LenProperties
<1>2. /\ remaining_capacity(bs) = bs.capacity - Len(bs.buf)
      /\ remaining_capacity(bs) \in Int /\ remaining_capacity(bs) >= 0
  BY StreamFields DEF remaining_capacity
<1>3. /\ accepted_len(bs, data) \in Int
      /\ accepted_len(bs, data) <= Len(data)
      /\ accepted_len(bs, data) <= remaining_capacity(bs)
      /\ accepted_len(bs, data) = Len(data) \/ accepted_len(bs, data) = remaining_capacity(bs)
  BY <1>1, <1>2, LeastFacts DEF accepted_len
<1> QED  BY <1>1, <1>2, <1>3

\* write: the accepted part goes to the end of the buffer and is counted.
LEMMA WriteFacts ==
  ASSUME NEW Value, NEW bs \in ByteStreamOf(Value), Len(bs.buf) <= bs.capacity,
         NEW data \in Seq(Value)
  PROVE  LET n == accepted_len(bs, data)
             d == SubSeq(data, 1, n)
             w == write(bs, data)
         IN  /\ d \in Seq(Value) /\ Len(d) = n
             /\ w \in ByteStreamOf(Value)
             /\ w.buf = bs.buf \o d /\ Len(w.buf) = Len(bs.buf) + n
             /\ Len(w.buf) <= w.capacity
             /\ w.write_count = bs.write_count + n
             /\ w.capacity = bs.capacity /\ w.read_count = bs.read_count
             /\ w.is_eof = bs.is_eof /\ w.error = bs.error
<1> DEFINE n == accepted_len(bs, data)
           d == SubSeq(data, 1, n)
           e == bs.buf \o d
           c == bs.write_count + n
           w == write(bs, data)
<1>1. n \in 0..Len(data) /\ n <= bs.capacity - Len(bs.buf)
  BY AcceptedLen
<1>2. d \in Seq(Value) /\ Len(d) = n
  BY <1>1, PrefixOf
<1>3. Len(data) \in Nat /\ bs.buf \in Seq(Value)
  BY LenProperties, StreamFields
<1>4. w = [bs EXCEPT !.buf = e, !.write_count = c]
  BY DEF write
<1> HIDE DEF n, d, e, c, w
<1>5. e \in Seq(Value) /\ Len(e) = Len(bs.buf) + n
  BY <1>2, <1>3, ConcatProperties DEF e
<1>6. n \in Nat /\ c \in Nat /\ Len(bs.buf) + n <= bs.capacity
  BY <1>1, <1>3, StreamFields DEF c
<1>7. w \in ByteStreamOf(Value)
  BY <1>4, <1>5, <1>6 DEF ByteStreamOf
<1>8. /\ w.buf = e /\ w.write_count = c
      /\ w.capacity = bs.capacity /\ w.read_count = bs.read_count
      /\ w.is_eof = bs.is_eof /\ w.error = bs.error
  BY <1>4 DEF ByteStreamOf
<1> QED  BY <1>2, <1>5, <1>6, <1>7, <1>8 DEF n, d, e, c, w

\* pop_output of at most what is there.
LEMMA PopFacts ==
  ASSUME NEW Value, NEW bs \in ByteStreamOf(Value), Len(bs.buf) <= bs.capacity,
         NEW n \in 0..Len(bs.buf)
  PROVE  LET p == SubSeq(bs.buf, 1, n)
             w == pop_output(bs, n)
         IN  /\ p \in Seq(Value) /\ Len(p) = n
             /\ w \in ByteStreamOf(Value)
             /\ w.buf = SubSeq(bs.buf, n + 1, Len(bs.buf))
             /\ Len(w.buf) = Len(bs.buf) - n /\ Len(w.buf) <= w.capacity
             /\ p \o w.buf = bs.buf
             /\ w.read_count = bs.read_count + n
             /\ w.capacity = bs.capacity /\ w.write_count = bs.write_count
             /\ w.is_eof = bs.is_eof /\ w.error = bs.error
<1> DEFINE r == SubSeq(bs.buf, n + 1, Len(bs.buf))
           w == pop_output(bs, n)
<1>1. /\ bs.buf \in Seq(Value) /\ Len(bs.buf) \in Nat
      /\ bs.capacity \in Nat /\ bs.read_count \in Nat
  BY StreamFields
<1>2. SubSeq(bs.buf, 1, n) \in Seq(Value) /\ Len(SubSeq(bs.buf, 1, n)) = n
  BY <1>1, PrefixOf
<1>3. r \in Seq(Value) /\ Len(r) = Len(bs.buf) - n
  BY <1>1, SuffixOf
<1>4. SubSeq(bs.buf, 1, n) \o r = bs.buf
  BY <1>1, CutAndJoin
<1>5. w = [bs EXCEPT !.read_count = bs.read_count + n, !.buf = r]
  BY DEF pop_output
<1> HIDE DEF r, w
<1>6. bs.read_count + n \in Nat /\ Len(bs.buf) - n <= bs.capacity
  BY <1>1
<1>7. w \in ByteStreamOf(Value)
  BY <1>3, <1>5, <1>6 DEF ByteStreamOf
<1>8. /\ w.buf = r /\ w.read_count = bs.read_count + n
      /\ w.capacity = bs.capacity /\ w.write_count = bs.write_count
      /\ w.is_eof = bs.is_eof /\ w.error = bs.error
  BY <1>5 DEF ByteStreamOf
<1> QED  BY <1>2, <1>3, <1>4, <1>6, <1>7, <1>8 DEF r, w

\* read hands out a prefix and pops it.
LEMMA ReadFacts ==
  ASSUME NEW Value, NEW bs \in ByteStreamOf(Value), NEW len \in Nat
  PROVE  /\ read_len(bs, len) \in 0..Len(bs.buf)
         /\ read_data(bs, len) = SubSeq(bs.buf, 1, read_len(bs, len))
         /\ read(bs, len) = pop_output(bs, read_len(bs, len))
<1>1. Len(bs.buf) \in Nat /\ Len(bs.buf) \in Int /\ len \in Int
  BY StreamFields
<1>2. /\ read_len(bs, len) \in Int
      /\ read_len(bs, len) <= Len(bs.buf)
      /\ read_len(bs, len) = len \/ read_len(bs, len) = Len(bs.buf)
  BY <1>1, LeastFacts DEF read_len
<1>3. read_len(bs, len) \in 0..Len(bs.buf)
  BY <1>1, <1>2
<1>4. Least(read_len(bs, len), Len(bs.buf)) = read_len(bs, len)
  BY <1>1, <1>2 DEF Least
<1> QED  BY <1>3, <1>4 DEF read_data, peek_output, read

-------------------------------------------------------------------------------
(* Remainders *)

\* A number is a whole number of turns and its remainder.
LEMMA ModFacts ==
  ASSUME NEW a \in Int, NEW m \in Nat, m > 0
  PROVE  /\ a % m \in 0..(m - 1)
         /\ a \div m \in Int
         /\ a = m * (a \div m) + (a % m)
OBVIOUS

\* A multiple of m that is nearer to 0 than m is 0.
LEMMA SmallMultiple ==
  ASSUME NEW k \in Int, NEW m \in Nat, m > 0, -m < m * k, m * k < m
  PROVE  k = 0
OBVIOUS

\* The remainder is the only number of its kind.
LEMMA ModUnique ==
  ASSUME NEW m \in Nat, m > 0, NEW k \in Int, NEW x \in 0..(m - 1), NEW a \in Int,
         a = m * k + x
  PROVE  a % m = x
<1> DEFINE q == a \div m
           y == a % m
<1>1. y \in 0..(m - 1) /\ q \in Int /\ a = m * q + y
  BY ModFacts
<1> HIDE DEF q, y
<1>2. m * (k - q) = y - x
  BY <1>1
<1>3. k - q \in Int /\ -m < m * (k - q) /\ m * (k - q) < m
  BY <1>1, <1>2
<1>4. k - q = 0
  BY <1>3, SmallMultiple
<1> QED  BY <1>1, <1>2, <1>4 DEF y

\* Numbers with the same remainder differ by whole turns.
LEMMA SameRemainder ==
  ASSUME NEW m \in Nat, m > 0, NEW a \in Int, NEW b \in Int
  PROVE  (a % m = b % m) <=> \E k \in Int : a = b + m * k
<1> DEFINE qa == a \div m
           qb == b \div m
           x  == a % m
           y  == b % m
<1>1. x \in 0..(m - 1) /\ qa \in Int /\ a = m * qa + x
  BY ModFacts
<1>2. y \in 0..(m - 1) /\ qb \in Int /\ b = m * qb + y
  BY ModFacts
<1> HIDE DEF qa, qb, x, y
<1>3. ASSUME x = y PROVE \E k \in Int : a = b + m * k
  <2>1. qa - qb \in Int /\ a = b + m * (qa - qb)
    BY <1>1, <1>2, <1>3
  <2> QED  BY <2>1
<1>4. ASSUME NEW k \in Int, a = b + m * k PROVE x = y
  <2>1. qb + k \in Int /\ a = m * (qb + k) + y
    BY <1>2, <1>4
  <2> QED  BY <1>2, <2>1, ModUnique DEF x
<1> QED  BY <1>3, <1>4 DEF x, y

\* A number below the modulus is its own remainder.
LEMMA ModSmall ==
  ASSUME NEW m \in Nat, m > 0, NEW a \in 0..(m - 1)
  PROVE  a % m = a
<1>1. a \in Int /\ a = m * 0 + a /\ 0 \in Int
  OBVIOUS
<1> QED  BY <1>1, ModUnique

-------------------------------------------------------------------------------
(* wrap *)

\* What the assumption says, in the form the proofs use it.
LEMMA Widths ==
  /\ Mod \in Nat /\ Mod > 1 /\ Mod > 0
  /\ Wide \in Nat /\ Wide >= 4 * Mod /\ Wide > 0
  /\ Wide = 2 * (Wide \div 2) /\ Wide \div 2 \in Nat
<1>1. /\ Mod \in Nat /\ Mod > 1 /\ Wide \in Nat /\ Wide >= 4 * Mod /\ Wide % 2 = 0
  BY WrapAssumption
<1>2. Wide = 2 * (Wide \div 2) + (Wide % 2) /\ Wide \div 2 \in Int
  BY <1>1, ModFacts
<1> QED  BY <1>1, <1>2

\* wrap yields a word, and a number wraps to w if it is w - start, up to turns.
LEMMA WrapFacts ==
  ASSUME NEW a \in Int, NEW start \in Word
  PROVE  /\ wrap(a, start) \in Word
         /\ \A w \in Word : wrap(a, start) = w <=> a % Mod = (w - start) % Mod
<1> DEFINE x == a % Mod
<1>1. Mod \in Nat /\ Mod > 0 /\ start \in Int
  BY Widths DEF Word
<1>2. x \in 0..(Mod - 1)
  BY <1>1, ModFacts
<1>3. wrap(a, start) = (x + start) % Mod
  BY DEF wrap
<1> HIDE DEF x
<1>4. x + start \in Int
  BY <1>1, <1>2
<1>5. wrap(a, start) \in Word
  BY <1>1, <1>3, <1>4, ModFacts DEF Word
<1>6. ASSUME NEW w \in Word
      PROVE  wrap(a, start) = w <=> x = (w - start) % Mod
  <2>1. w \in Int /\ w - start \in Int /\ x \in Int /\ w \in 0..(Mod - 1)
    BY <1>1, <1>2 DEF Word
  <2>2. w % Mod = w /\ x % Mod = x
    BY <1>1, <1>2, <2>1, ModSmall
  <2>3. (x + start) % Mod = w % Mod <=> \E k \in Int : x + start = w + Mod * k
    BY <1>1, <1>4, <2>1, SameRemainder
  <2>4. x % Mod = (w - start) % Mod <=> \E k \in Int : x = (w - start) + Mod * k
    BY <1>1, <2>1, SameRemainder
  <2>5. \A k \in Int : x + start = w + Mod * k <=> x = (w - start) + Mod * k
    BY <1>1, <2>1
  <2> QED  BY <1>3, <2>2, <2>3, <2>4, <2>5
<1> QED  BY <1>5, <1>6 DEF x

-------------------------------------------------------------------------------
(* unwrap *)

\* AbsSigned is the absolute value, for differences that fit the signed type.
LEMMA AbsSignedFacts ==
  ASSUME NEW x \in Int, -(Wide \div 2) < x, x < Wide \div 2
  PROVE  AbsSigned(x) = IF x < 0 THEN -x ELSE x
<1> DEFINE u == x % Wide
           h == Wide \div 2
<1>1. /\ Wide \in Nat /\ Wide > 0 /\ h \in Nat /\ Wide = 2 * h
  BY Widths
<1>2. AbsSigned(x) = IF u >= h THEN Wide - u ELSE u
  BY DEF AbsSigned
<1> HIDE DEF u, h
<1>3. CASE x < 0
  <2>1. x + Wide \in 0..(Wide - 1) /\ x = Wide * (-1) + (x + Wide) /\ -1 \in Int
    BY <1>1, <1>3 DEF h
  <2>2. u = x + Wide
    BY <1>1, <2>1, ModUnique DEF u
  <2> QED  BY <1>1, <1>2, <1>3, <2>2 DEF h
<1>4. CASE ~(x < 0)
  <2>1. x \in 0..(Wide - 1)
    BY <1>1, <1>4 DEF h
  <2>2. u = x
    BY <1>1, <2>1, ModSmall DEF u
  <2> QED  BY <1>1, <1>2, <1>4, <2>2 DEF h
<1> QED  BY <1>3, <1>4

\* unwrap by cases: where the candidate in checkpoint's turn is, and which of
\* the three is taken.
LEMMA UnwrapCases ==
  ASSUME NEW w \in Word, NEW start \in Word, NEW c \in LongWord, c < Wide - Mod
  PROVE  LET ans == SameTurn(w, start, c)
             x   == ans - c
         IN  /\ ans \in Nat /\ x \in Int /\ -Mod < x /\ x < Mod
             /\ ans % Mod = (w - start) % Mod
             /\ unwrap(w, start, c) =
                  IF 2 * x < -Mod THEN ans + Mod
                  ELSE IF 2 * x > Mod /\ ans >= Mod THEN ans - Mod ELSE ans
<1> DEFINE o   == (w - start) % Mod
           e   == c % Mod
           q   == c \div Mod
           ans == SameTurn(w, start, c)
           x   == ans - c
           h   == Wide \div 2
<1>1. /\ Mod \in Nat /\ Mod > 0 /\ Wide \in Nat /\ Wide >= 4 * Mod /\ Wide > 0
      /\ Wide = 2 * h /\ h \in Nat /\ c \in Nat /\ w - start \in Int
  BY Widths DEF Word, LongWord
<1>2. o \in 0..(Mod - 1) /\ e \in 0..(Mod - 1) /\ q \in Int /\ c = Mod * q + e
  BY <1>1, ModFacts
<1>3. ans = (c - e) + o
  BY DEF SameTurn
<1>4. unwrap(w, start, c) =
        IF AbsSigned(ans + Mod - c) < AbsSigned(ans - c) THEN (ans + Mod) % Wide
        ELSE IF ans >= Mod /\ AbsSigned(ans - Mod - c) < AbsSigned(ans - c)
        THEN ans - Mod ELSE ans
  BY DEF unwrap
<1> HIDE DEF o, e, q, ans, h
<1>5. q \in Nat
  <2>1. SUFFICES ASSUME q < 0 PROVE FALSE
    BY <1>2
  <2>2. Mod * q <= -Mod
    BY <1>1, <1>2, <2>1
  <2> QED  BY <1>1, <1>2, <2>2
<1>6. Mod * q \in Nat
  BY <1>1, <1>5
<1>7. ans = Mod * q + o /\ ans \in Nat /\ x = o - e
  BY <1>1, <1>2, <1>3, <1>6
<1>8. x \in Int /\ -Mod < x /\ x < Mod
  BY <1>1, <1>2, <1>7
<1>9. ans % Mod = o
  <2>1. ans \in Int
    BY <1>7
  <2> QED  BY <1>1, <1>2, <1>7, <2>1, ModUnique
<1>10. AbsSigned(ans - c) = IF x < 0 THEN -x ELSE x
  <2>1. -h < x /\ x < h
    BY <1>1, <1>8
  <2> QED  BY <1>8, <2>1, AbsSignedFacts DEF h
<1>11. AbsSigned(ans + Mod - c) = x + Mod
  <2>1. /\ x + Mod \in Int /\ -h < x + Mod /\ x + Mod < h /\ ~(x + Mod < 0)
        /\ ans + Mod - c = x + Mod
    BY <1>1, <1>7, <1>8
  <2> QED  BY <2>1, AbsSignedFacts DEF h
<1>12. AbsSigned(ans - Mod - c) = Mod - x
  <2>1. /\ x - Mod \in Int /\ -h < x - Mod /\ x - Mod < h /\ x - Mod < 0
        /\ ans - Mod - c = x - Mod /\ -(x - Mod) = Mod - x
    BY <1>1, <1>7, <1>8
  <2> QED  BY <2>1, AbsSignedFacts DEF h
<1>13. 2 * x < -Mod => (ans + Mod) % Wide = ans + Mod
  <2>1. SUFFICES ASSUME 2 * x < -Mod PROVE (ans + Mod) % Wide = ans + Mod
    OBVIOUS
  <2>2. ans + Mod \in 0..(Wide - 1)
    BY <1>1, <1>7, <1>8, <2>1
  <2> QED  BY <1>1, <2>2, ModSmall
<1>14. /\ AbsSigned(ans + Mod - c) < AbsSigned(ans - c) <=> 2 * x < -Mod
       /\ AbsSigned(ans - Mod - c) < AbsSigned(ans - c) <=> 2 * x > Mod
  BY <1>1, <1>8, <1>10, <1>11, <1>12
<1>15. unwrap(w, start, c) =
         IF 2 * x < -Mod THEN ans + Mod
         ELSE IF 2 * x > Mod /\ ans >= Mod THEN ans - Mod ELSE ans
  BY <1>4, <1>13, <1>14
<1> QED  BY <1>7, <1>8, <1>9, <1>15 DEF ans, o

\* A number less than half a turn from the checkpoint survives the wire.
LEMMA UnwrapExact ==
  ASSUME NEW a \in Nat, NEW start \in Word, NEW c \in LongWord, c < Wide - Mod,
         2 * (a - c) < Mod, 2 * (c - a) < Mod
  PROVE  unwrap(wrap(a, start), start, c) = a
<1> DEFINE w   == wrap(a, start)
           ans == SameTurn(w, start, c)
           x   == ans - c
           u   == unwrap(w, start, c)
<1>1. Mod \in Nat /\ Mod > 0 /\ c \in Nat /\ a \in Int
  BY Widths DEF LongWord
<1>2. w \in Word /\ a % Mod = (w - start) % Mod
  BY <1>1, WrapFacts
<1>3. /\ ans \in Nat /\ x \in Int /\ -Mod < x /\ x < Mod
      /\ ans % Mod = (w - start) % Mod
      /\ u = IF 2 * x < -Mod THEN ans + Mod
             ELSE IF 2 * x > Mod /\ ans >= Mod THEN ans - Mod ELSE ans
  BY <1>2, UnwrapCases
<1>4. ans = c + x
  BY <1>1, <1>3
<1>5. PICK k \in Int : a = ans + Mod * k
  <2>1. ans \in Int /\ a % Mod = ans % Mod
    BY <1>2, <1>3
  <2> HIDE DEF ans
  <2> QED  BY <1>1, <2>1, SameRemainder
<1> HIDE DEF w, ans, x, u
<1>6. k >= 2 => Mod * k >= 2 * Mod
  BY <1>1
<1>7. k <= -2 => Mod * k <= -(2 * Mod)
  BY <1>1
<1>8. k = 0 \/ k = 1 \/ k = -1
  BY <1>1, <1>3, <1>4, <1>5, <1>6, <1>7
<1>9. a = ans \/ a = ans + Mod \/ a = ans - Mod
  BY <1>1, <1>3, <1>5, <1>8
<1>10. u = a
  BY <1>1, <1>3, <1>4, <1>9
<1> QED  BY <1>10 DEF u, w

-------------------------------------------------------------------------------
(* StreamReassembler *)

\* The output out holds what follows the r bytes already read, up to next.
OutRight(out, r, next) ==
  /\ out \in ByteStreamOf(Byte)
  /\ out.capacity = Capacity /\ Len(out.buf) <= Capacity
  /\ r \in Nat /\ next \in Nat /\ r <= next /\ next <= Len(Stream)
  /\ out.write_count = next /\ out.read_count = r
  /\ out.buf = SubSeq(Stream, r + 1, next)

\* The map holds bytes of the stream from next on, and count says how many.
MapRight(held, next, count) ==
  /\ held \in [DOMAIN held -> Byte]
  /\ DOMAIN held \subseteq next .. (Len(Stream) - 1)
  /\ \A k \in DOMAIN held : held[k] = Stream[k + 1]
  /\ IsFiniteSet(DOMAIN held)
  /\ count = Cardinality(DOMAIN held)

\* The whole object.
Right(s, r) ==
  /\ s \in ReassemblerOf(Byte, DOMAIN s.myMap)
  /\ s.capacity = Capacity
  /\ OutRight(s.output, r, s.nextIndex)
  /\ MapRight(s.myMap, s.nextIndex, s.bytesUnAssembled)

\* data is what the stream has from index on.
Piece(data, index) ==
  /\ data \in Seq(Byte)
  /\ \A i \in 1..Len(data) : index + i <= Len(Stream) /\ data[i] = Stream[index + i]

\* Byte k has been written to the output or is held back.
Has(s, k) == k < s.nextIndex \/ k \in DOMAIN s.myMap

-------------------------------------------------------------------------------
(* Sequences and sets *)

\* A piece of a piece of a sequence is a piece of the sequence.
LEMMA PieceOfPiece ==
  ASSUME NEW S, NEW s \in Seq(S), NEW from \in Nat, NEW len \in Nat,
         from + len <= Len(s), NEW n \in 0..len, NEW k \in 0..n
  PROVE  /\ SubSeq(s, from + 1, from + len) \in Seq(S)
         /\ Len(SubSeq(s, from + 1, from + len)) = len
         /\ SubSeq(SubSeq(s, from + 1, from + len), k + 1, n)
              = SubSeq(s, from + k + 1, from + n)
<1> DEFINE p == SubSeq(s, from + 1, from + len)
           a == SubSeq(p, k + 1, n)
           b == SubSeq(s, from + k + 1, from + n)
<1>1. Len(s) \in Nat
  BY LenProperties
<1>2. /\ from + 1 \in Nat \ {0} /\ from + len \in Nat
      /\ from + 1 <= from + len + 1 /\ from + len <= Len(s)
      /\ (from + len) - (from + 1) + 1 = len
  BY <1>1
<1>3. /\ p \in Seq(S) /\ Len(p) = len
      /\ \A i \in 1..len : p[i] = s[from + 1 + i - 1]
  BY <1>1, <1>2, SubSeqFacts
<1>4. /\ k + 1 \in Nat \ {0} /\ n \in Nat /\ k + 1 <= n + 1 /\ n <= len
      /\ n - (k + 1) + 1 = n - k
  OBVIOUS
<1>5. /\ from + k + 1 \in Nat \ {0} /\ from + n \in Nat
      /\ from + k + 1 <= from + n + 1 /\ from + n <= Len(s)
      /\ (from + n) - (from + k + 1) + 1 = n - k
  BY <1>1
<1>6. /\ b \in Seq(S) /\ Len(b) = n - k
      /\ \A i \in 1..(n - k) : b[i] = s[from + k + 1 + i - 1]
  BY <1>1, <1>5, SubSeqFacts
<1> HIDE DEF p
<1>7. /\ a \in Seq(S) /\ Len(a) = n - k
      /\ \A i \in 1..(n - k) : a[i] = p[k + 1 + i - 1]
  BY <1>3, <1>4, SubSeqFacts
<1> HIDE DEF a, b
<1>8. ASSUME NEW i \in 1..(n - k) PROVE a[i] = b[i]
  <2>1. k + 1 + i - 1 \in 1..len /\ k + 1 + i - 1 = k + i
    OBVIOUS
  <2>2. a[i] = p[k + i] /\ k + i \in 1..len
    BY <1>7, <2>1
  <2>3. p[k + i] = s[from + 1 + (k + i) - 1]
    BY <1>3, <2>2
  <2>4. from + 1 + (k + i) - 1 = from + k + 1 + i - 1
    OBVIOUS
  <2> QED  BY <2>2, <2>3, <2>4, <1>6
<1>9. a = b
  BY <1>6, <1>7, <1>8, SeqEqual
<1> QED  BY <1>3, <1>9 DEF p, a, b

\* Taking a set apart.
LEMMA CardinalityApart ==
  ASSUME NEW D, IsFiniteSet(D), NEW W
  PROVE  /\ IsFiniteSet(D \ W) /\ IsFiniteSet(W \cap D)
         /\ Cardinality(D) \in Nat /\ Cardinality(W \cap D) \in Nat
         /\ Cardinality(D \ W) \in Nat
         /\ Cardinality(D \ W) = Cardinality(D) - Cardinality(W \cap D)
<1>1. D \ W \in SUBSET D /\ W \cap D \in SUBSET D
  OBVIOUS
<1>2. IsFiniteSet(D \ W) /\ IsFiniteSet(W \cap D)
  BY <1>1, FS_Subset
<1>3. /\ Cardinality(D) \in Nat /\ Cardinality(W \cap D) \in Nat
      /\ Cardinality(D \ W) \in Nat
  BY <1>2, FS_CardinalityType
<1>4. (D \ W) \cup (W \cap D) = D /\ (D \ W) \cap (W \cap D) = {}
  OBVIOUS
<1>5. Cardinality((D \ W) \cup (W \cap D))
        = Cardinality(D \ W) + Cardinality(W \cap D) - Cardinality((D \ W) \cap (W \cap D))
  BY <1>2, FS_Union
<1>6. Cardinality(D) = Cardinality(D \ W) + Cardinality(W \cap D) - 0
  BY <1>4, <1>5, FS_EmptySet
<1> QED  BY <1>2, <1>3, <1>6

\* Putting two sets together that have nothing in common.
LEMMA CardinalityJoined ==
  ASSUME NEW D, IsFiniteSet(D), NEW F, IsFiniteSet(F), D \cap F = {}
  PROVE  /\ IsFiniteSet(D \cup F)
         /\ Cardinality(D) \in Nat /\ Cardinality(F) \in Nat
         /\ Cardinality(D \cup F) = Cardinality(D) + Cardinality(F)
<1>1. /\ IsFiniteSet(D \cup F)
      /\ Cardinality(D \cup F) = Cardinality(D) + Cardinality(F) - Cardinality(D \cap F)
  BY FS_Union
<1>2. Cardinality(D) \in Nat /\ Cardinality(F) \in Nat /\ Cardinality(D \cap F) = 0
  BY FS_CardinalityType, FS_EmptySet
<1> QED  BY <1>1, <1>2

-------------------------------------------------------------------------------
(* Pieces of the stream *)

\* What a segment of the peer carries is a piece of the stream.
LEMMA SubSeqPiece ==
  ASSUME NEW index \in Nat, NEW len \in Nat, index + len <= Len(Stream)
  PROVE  /\ Piece(SubSeq(Stream, index + 1, index + len), index)
         /\ Len(SubSeq(Stream, index + 1, index + len)) = len
<1> DEFINE data == SubSeq(Stream, index + 1, index + len)
<1>1. Stream \in Seq(Byte) /\ Len(Stream) \in Nat
  BY StreamAssumption, LenProperties
<1>2. /\ index + 1 \in Nat \ {0} /\ index + len \in Nat
      /\ index + 1 <= index + len + 1
      /\ (index + len) - (index + 1) + 1 = len
  OBVIOUS
<1>3. /\ data \in Seq(Byte) /\ Len(data) = len
      /\ \A i \in 1..len : data[i] = Stream[(index + 1) + i - 1]
  BY <1>1, <1>2, SubSeqFacts
<1> HIDE DEF data
<1>4. \A i \in 1..len : (index + 1) + i - 1 = index + i /\ index + i <= Len(Stream)
  BY <1>1
<1>5. Piece(data, index)
  BY <1>3, <1>4 DEF Piece
<1> QED  BY <1>3, <1>5 DEF data

\* Nothing is a piece of the stream, wherever it is said to be.
LEMMA EmptyPiece ==
  ASSUME NEW index
  PROVE  Piece(<<>>, index)
<1>1. <<>> \in Seq(Byte) /\ Len(<<>>) = 0
  OBVIOUS
<1>2. 1..0 = {}
  OBVIOUS
<1> QED  BY <1>1, <1>2 DEF Piece

\* A piece that starts within the stream is the subsequence there.
LEMMA PieceIsSubSeq ==
  ASSUME NEW index \in Nat, index <= Len(Stream), NEW data, Piece(data, index)
  PROVE  /\ Len(data) \in Nat /\ index + Len(data) <= Len(Stream)
         /\ data = SubSeq(Stream, index + 1, index + Len(data))
<1> DEFINE n == Len(data)
           b == SubSeq(Stream, index + 1, index + n)
<1>1. /\ data \in Seq(Byte)
      /\ \A i \in 1..n : index + i <= Len(Stream) /\ data[i] = Stream[index + i]
  BY DEF Piece
<1>2. n \in Nat /\ Stream \in Seq(Byte) /\ Len(Stream) \in Nat
  BY <1>1, StreamAssumption, LenProperties
<1> HIDE DEF n
<1>3. index + n <= Len(Stream)
  <2>1. CASE n = 0
    BY <2>1
  <2>2. CASE n # 0
    <3>1. n \in 1..n
      BY <1>2, <2>2
    <3> QED  BY <1>1, <3>1
  <2> QED  BY <2>1, <2>2
<1>4. Piece(b, index) /\ Len(b) = n
  BY <1>2, <1>3, SubSeqPiece
<1> HIDE DEF b
<1>5. b \in Seq(Byte) /\ \A i \in 1..n : b[i] = Stream[index + i]
  BY <1>4 DEF Piece
<1>6. Len(data) = Len(b) /\ \A i \in 1..Len(data) : data[i] = b[i]
  BY <1>1, <1>4, <1>5 DEF n
<1>7. data = b
  BY <1>1, <1>5, <1>6, SeqEqual
<1> QED  BY <1>2, <1>3, <1>7 DEF n, b

-------------------------------------------------------------------------------
(* The output and the map *)

\* Writing the next n bytes of the stream, n no more than there is room for.
LEMMA OutMoves ==
  ASSUME NEW out, NEW r, NEW next, OutRight(out, r, next),
         NEW n \in Nat, n <= remaining_capacity(out), next + n <= Len(Stream)
  PROVE  OutRight(write(out, SubSeq(Stream, next + 1, next + n)), r, next + n)
<1> DEFINE d == SubSeq(Stream, next + 1, next + n)
           w == write(out, d)
           m == accepted_len(out, d)
<1>1. /\ out \in ByteStreamOf(Byte) /\ out.capacity = Capacity
      /\ Len(out.buf) <= Capacity
      /\ r \in Nat /\ next \in Nat /\ r <= next /\ next <= Len(Stream)
      /\ out.write_count = next /\ out.read_count = r
      /\ out.buf = SubSeq(Stream, r + 1, next)
  BY DEF OutRight
<1>2. Stream \in Seq(Byte) /\ Len(Stream) \in Nat /\ Capacity \in Nat
  BY StreamAssumption, LenProperties
<1>3. n \in 0..n /\ 0 \in 0..n
  OBVIOUS
<1>4. d \in Seq(Byte) /\ Len(d) = n
  BY <1>1, <1>2, <1>3, PieceOfPiece
<1>5. Len(out.buf) \in Nat /\ n <= out.capacity - Len(out.buf)
  BY <1>1, StreamFields DEF remaining_capacity
<1> HIDE DEF d
<1>6. m = n
  BY <1>1, <1>4, <1>5, AcceptedLen
<1>7. SubSeq(d, 1, n) = d
  BY <1>4, SubSeqFull
<1>8. /\ w \in ByteStreamOf(Byte)
      /\ w.buf = out.buf \o SubSeq(d, 1, m)
      /\ Len(w.buf) <= w.capacity
      /\ w.write_count = out.write_count + m
      /\ w.capacity = out.capacity /\ w.read_count = out.read_count
  BY <1>1, <1>4, WriteFacts
<1>9. SubSeq(Stream, r + 1, next) \o d = SubSeq(Stream, r + 1, next + n)
  <2>1. r + 1 \in 1..(Len(Stream) + 1) /\ next \in ((r + 1) - 1)..Len(Stream)
    BY <1>1, <1>2
  <2>2. next + n \in next..Len(Stream)
    BY <1>1, <1>2
  <2> QED  BY <1>2, <2>1, <2>2, ConcatAdjacentSubSeq DEF d
<1>10. w.buf = SubSeq(Stream, r + 1, next + n)
  BY <1>1, <1>6, <1>7, <1>8, <1>9
<1>11. next + n \in Nat /\ r <= next + n
  BY <1>1
<1> HIDE DEF w
<1>12. OutRight(w, r, next + n)
  BY <1>1, <1>6, <1>8, <1>10, <1>11 DEF OutRight
<1> QED  BY <1>12 DEF w, d

\* Holding more bytes back.
LEMMA MapGrows ==
  ASSUME NEW held, NEW next \in Nat, NEW count, MapRight(held, next, count),
         NEW F \in SUBSET (next .. (Len(Stream) - 1)), F \cap DOMAIN held = {},
         NEW more, more \in [DOMAIN held \cup F -> Byte],
         \A k \in DOMAIN held : more[k] = held[k],
         \A k \in F : more[k] = Stream[k + 1]
  PROVE  /\ MapRight(more, next, count + Cardinality(F))
         /\ DOMAIN more = DOMAIN held \cup F
         /\ count + Cardinality(F) \in Nat
<1>1. Len(Stream) \in Nat
  BY StreamAssumption, LenProperties
<1>2. next \in Int /\ Len(Stream) - 1 \in Int
  BY <1>1
<1>3. IsFiniteSet(next .. (Len(Stream) - 1))
  BY <1>2, FS_Interval
<1>4. IsFiniteSet(F)
  BY <1>3, FS_Subset
<1>5. IsFiniteSet(DOMAIN held) /\ count = Cardinality(DOMAIN held)
  BY DEF MapRight
<1>6. /\ IsFiniteSet(DOMAIN held \cup F)
      /\ Cardinality(DOMAIN held) \in Nat /\ Cardinality(F) \in Nat
      /\ Cardinality(DOMAIN held \cup F) = count + Cardinality(F)
  BY <1>4, <1>5, CardinalityJoined
<1>7. DOMAIN more = DOMAIN held \cup F
  OBVIOUS
<1>8. \A k \in DOMAIN more : more[k] = Stream[k + 1]
  BY <1>7 DEF MapRight
<1>9. DOMAIN more \subseteq next .. (Len(Stream) - 1)
  BY <1>7 DEF MapRight
<1>10. MapRight(more, next, count + Cardinality(F))
  BY <1>6, <1>7, <1>8, <1>9 DEF MapRight
<1> QED  BY <1>5, <1>6, <1>7, <1>10

\* Dropping what is before next + n.
LEMMA MapMoves ==
  ASSUME NEW held, NEW next \in Nat, NEW count, MapRight(held, next, count),
         NEW n \in Nat
  PROVE  LET W    == Span(next, n)
             less == [k \in DOMAIN held \ W |-> held[k]]
         IN  /\ MapRight(less, next + n, count - Cardinality(W \cap DOMAIN held))
             /\ DOMAIN less = DOMAIN held \ W
             /\ less \in [DOMAIN held \ W -> Byte]
             /\ count - Cardinality(W \cap DOMAIN held) \in Nat
<1> DEFINE W    == Span(next, n)
           less == [k \in DOMAIN held \ W |-> held[k]]
<1>1. /\ held \in [DOMAIN held -> Byte]
      /\ DOMAIN held \subseteq next .. (Len(Stream) - 1)
      /\ \A k \in DOMAIN held : held[k] = Stream[k + 1]
      /\ IsFiniteSet(DOMAIN held) /\ count = Cardinality(DOMAIN held)
  BY DEF MapRight
<1>2. Len(Stream) \in Nat
  BY StreamAssumption, LenProperties
<1>3. DOMAIN held \ W \subseteq (next + n) .. (Len(Stream) - 1)
  BY <1>1, <1>2 DEF Span
<1> HIDE DEF W
<1>4. /\ IsFiniteSet(DOMAIN held \ W)
      /\ Cardinality(DOMAIN held \ W) \in Nat
      /\ Cardinality(DOMAIN held \ W) = count - Cardinality(W \cap DOMAIN held)
  BY <1>1, CardinalityApart
<1>5. /\ less \in [DOMAIN held \ W -> Byte] /\ DOMAIN less = DOMAIN held \ W
      /\ \A k \in DOMAIN less : less[k] = Stream[k + 1]
  BY <1>1
<1> HIDE DEF less
<1>6. MapRight(less, next + n, count - Cardinality(W \cap DOMAIN held))
  BY <1>3, <1>4, <1>5 DEF MapRight
<1> QED  BY <1>4, <1>5, <1>6 DEF W, less

-------------------------------------------------------------------------------
(* The pieces of push_substring *)

\* What Right says about the fields.
LEMMA RightFields ==
  ASSUME NEW s, NEW r, Right(s, r)
  PROVE  /\ s.nextIndex \in Nat /\ s.nextIndex <= Len(Stream)
         /\ Len(Stream) \in Nat /\ Stream \in Seq(Byte) /\ Capacity \in Nat
         /\ s.output \in ByteStreamOf(Byte)
         /\ remaining_capacity(s.output) \in Nat
         /\ s.bytesUnAssembled \in Nat /\ s.eof_flag \in BOOLEAN
         /\ s.myMap \in [DOMAIN s.myMap -> Byte]
<1>1. Len(Stream) \in Nat /\ Stream \in Seq(Byte) /\ Capacity \in Nat
  BY StreamAssumption, LenProperties
<1>2. /\ s.output \in ByteStreamOf(Byte) /\ s.output.capacity = Capacity
      /\ Len(s.output.buf) <= Capacity
      /\ s.nextIndex \in Nat /\ s.nextIndex <= Len(Stream)
  BY DEF Right, OutRight
<1>3. Len(s.output.buf) \in Nat
  BY <1>2, StreamFields
<1>4. remaining_capacity(s.output) \in Nat
  BY <1>1, <1>2, <1>3 DEF remaining_capacity
<1> QED  BY <1>1, <1>2, <1>4 DEF Right, ReassemblerOf

\* Putting an object together from an output, a map and a count that are right.
LEMMA RightMoves ==
  ASSUME NEW s, NEW r, Right(s, r),
         NEW out, NEW next, OutRight(out, r, next),
         NEW held, NEW count \in Nat, MapRight(held, next, count)
  PROVE  Right([s EXCEPT !.output = out, !.nextIndex = next, !.myMap = held,
                         !.bytesUnAssembled = count], r)
<1> DEFINE t == [s EXCEPT !.output = out, !.nextIndex = next, !.myMap = held,
                          !.bytesUnAssembled = count]
<1>1. s \in ReassemblerOf(Byte, DOMAIN s.myMap) /\ s.capacity = Capacity
  BY DEF Right
<1>2. /\ t.output = out /\ t.nextIndex = next /\ t.myMap = held
      /\ t.bytesUnAssembled = count /\ t.capacity = Capacity
  BY <1>1 DEF ReassemblerOf
<1>3. out \in ByteStreamOf(Byte) /\ next \in Nat /\ held \in [DOMAIN held -> Byte]
  BY DEF OutRight, MapRight
<1>4. t \in ReassemblerOf(Byte, DOMAIN held)
  BY <1>1, <1>3 DEF ReassemblerOf
<1> HIDE DEF t
<1>5. Right(t, r)
  BY <1>2, <1>4 DEF Right
<1> QED  BY <1>5 DEF t

\* The constructor makes a right object.
LEMMA NewRight == Right(ReassemblerNew(Capacity), 0)
<1> DEFINE e   == [k \in {} |-> k]
           out == ByteStreamNew(Capacity)
           s   == ReassemblerNew(Capacity)
<1>1. Capacity \in Nat /\ Stream \in Seq(Byte) /\ Len(Stream) \in Nat
  BY StreamAssumption, LenProperties
<1>2. <<>> \in Seq(Byte) /\ Len(<<>>) = 0
  OBVIOUS
<1>3. SubSeq(Stream, 1, 0) = <<>>
  BY <1>1, EmptyPrefix
<1>4. out \in ByteStreamOf(Byte)
  BY <1>1, <1>2 DEF ByteStreamNew, ByteStreamOf
<1>5. OutRight(out, 0, 0)
  <2>1. 0 + 1 = 1 /\ 0 <= Capacity /\ 0 <= Len(Stream) /\ 0 \in Nat
    BY <1>1
  <2> QED  BY <1>2, <1>3, <1>4, <2>1 DEF OutRight, ByteStreamNew
<1>6. DOMAIN e = {} /\ e \in [{} -> Byte]
  OBVIOUS
<1>7. s = [output |-> out, capacity |-> Capacity, nextIndex |-> 0,
           bytesUnAssembled |-> 0, eof_flag |-> FALSE, myMap |-> e]
  BY DEF ReassemblerNew
<1> HIDE DEF e, out, s
<1>8. MapRight(e, 0, 0)
  BY <1>6, FS_EmptySet DEF MapRight
<1>9. s \in ReassemblerOf(Byte, DOMAIN e)
  BY <1>1, <1>4, <1>6, <1>7 DEF ReassemblerOf
<1>10. Right(s, 0)
  BY <1>5, <1>7, <1>8, <1>9 DEF Right
<1> QED  BY <1>10 DEF s

\* note_eof touches the flag only.
LEMMA NoteRight ==
  ASSUME NEW s, NEW r, Right(s, r), NEW data, NEW index, NEW eof
  PROVE  LET t == note_eof(s, data, index, eof)
         IN  Right(t, r) /\ t.nextIndex = s.nextIndex
<1> DEFINE e == s.eof_flag \/ (eof /\ Len(data) - s.nextIndex + index <= s.capacity)
           t == [s EXCEPT !.eof_flag = e]
<1>1. s \in ReassemblerOf(Byte, DOMAIN s.myMap)
  BY DEF Right
<1>2. note_eof(s, data, index, eof) = t
  BY DEF note_eof
<1>3. e \in BOOLEAN
  OBVIOUS
<1> HIDE DEF e
<1>4. /\ t.output = s.output /\ t.nextIndex = s.nextIndex /\ t.myMap = s.myMap
      /\ t.bytesUnAssembled = s.bytesUnAssembled /\ t.capacity = s.capacity
      /\ t \in ReassemblerOf(Byte, DOMAIN s.myMap)
  BY <1>1, <1>3 DEF ReassemblerOf
<1> HIDE DEF t
<1> QED  BY <1>2, <1>4 DEF Right

\* maxLen is within the data and the room.
LEMMA MaxLenFacts ==
  ASSUME NEW s, NEW r, Right(s, r), NEW data \in Seq(Byte)
  PROVE  maxLen(s, data) \in 0..Len(data) /\ maxLen(s, data) <= remaining_capacity(s.output)
<1>1. Len(data) \in Nat /\ remaining_capacity(s.output) \in Nat
  BY LenProperties, RightFields
<1>2. Len(data) \in Int /\ remaining_capacity(s.output) \in Int
  BY <1>1
<1>3. /\ maxLen(s, data) \in Int
      /\ maxLen(s, data) <= Len(data) /\ maxLen(s, data) <= remaining_capacity(s.output)
      /\ maxLen(s, data) = Len(data) \/ maxLen(s, data) = remaining_capacity(s.output)
  BY <1>2, LeastFacts DEF maxLen
<1> QED  BY <1>1, <1>3

\* store: an out-of-order substring.
LEMMA StoreRight ==
  ASSUME NEW s, NEW r, Right(s, r), NEW index \in Nat, s.nextIndex <= index,
         NEW data, Piece(data, index)
  PROVE  Right(store(s, data, index), r)
<1> DEFINE len  == Len(data)
           F    == fresh(s, data, index)
           more == held_with(s, data, index)
           c    == s.bytesUnAssembled + Cardinality(F)
<1>1. /\ s.nextIndex \in Nat /\ Len(Stream) \in Nat /\ Stream \in Seq(Byte)
      /\ s.bytesUnAssembled \in Nat /\ s.myMap \in [DOMAIN s.myMap -> Byte]
  BY RightFields
<1>2. /\ OutRight(s.output, r, s.nextIndex)
      /\ MapRight(s.myMap, s.nextIndex, s.bytesUnAssembled)
  BY DEF Right
<1>3. /\ data \in Seq(Byte) /\ len \in Nat
      /\ \A i \in 1..len : /\ data[i] = Stream[index + i] /\ data[i] \in Byte
                           /\ index + i <= Len(Stream)
  BY LenProperties, ElementOfSeq DEF Piece
<1> HIDE DEF len
<1>4. maxLen(s, data) \in 0..len
  BY <1>3, MaxLenFacts DEF len
<1>5. F = Span(index, maxLen(s, data)) \ DOMAIN s.myMap
  BY DEF fresh
<1>6. \A k \in F : k \in Nat /\ k - index + 1 \in 1..len /\ index + (k - index + 1) = k + 1
  BY <1>3, <1>4, <1>5 DEF Span
<1>7. F \in SUBSET (s.nextIndex .. (Len(Stream) - 1)) /\ F \cap DOMAIN s.myMap = {}
  <2>1. ASSUME NEW k \in F PROVE k \in s.nextIndex .. (Len(Stream) - 1)
    <3>1. k \in Nat /\ k >= index
      BY <1>3, <1>4, <1>5 DEF Span
    <3>2. k + 1 <= Len(Stream)
      BY <1>3, <1>6
    <3> QED  BY <1>1, <3>1, <3>2
  <2> QED  BY <1>5, <2>1
<1>8. more = [k \in DOMAIN s.myMap \cup F |->
                IF k \in DOMAIN s.myMap THEN s.myMap[k] ELSE data[k - index + 1]]
  BY DEF held_with
<1> HIDE DEF F, more
<1>9. \A k \in F : data[k - index + 1] = Stream[k + 1] /\ data[k - index + 1] \in Byte
  <2> TAKE k \in F
  <2>1. k - index + 1 \in 1..len /\ index + (k - index + 1) = k + 1
    BY <1>6
  <2> QED  BY <1>3, <2>1
<1>10. /\ more \in [DOMAIN s.myMap \cup F -> Byte]
       /\ \A k \in DOMAIN s.myMap : more[k] = s.myMap[k]
       /\ \A k \in F : more[k] = Stream[k + 1]
  BY <1>1, <1>7, <1>8, <1>9
<1>11. MapRight(more, s.nextIndex, c) /\ c \in Nat
  BY <1>1, <1>2, <1>7, <1>10, MapGrows
<1> HIDE DEF c
<1>12. Right([s EXCEPT !.output = s.output, !.nextIndex = s.nextIndex,
                       !.myMap = more, !.bytesUnAssembled = c], r)
  BY <1>2, <1>11, RightMoves
<1>13. store(s, data, index) = [s EXCEPT !.myMap = more, !.bytesUnAssembled = c]
  BY DEF store, more, c, F
<1>14. [s EXCEPT !.output = s.output, !.nextIndex = s.nextIndex,
                 !.myMap = more, !.bytesUnAssembled = c]
         = [s EXCEPT !.myMap = more, !.bytesUnAssembled = c]
  BY DEF Right, ReassemblerOf
<1> QED  BY <1>12, <1>13, <1>14

\* write_through: the bytes that are next.
LEMMA WriteThroughRight ==
  ASSUME NEW s, NEW r, Right(s, r), NEW len \in Nat, s.nextIndex + len <= Len(Stream)
  PROVE  Right(write_through(s, SubSeq(Stream, s.nextIndex + 1, s.nextIndex + len)), r)
<1> DEFINE next == s.nextIndex
           data == SubSeq(Stream, next + 1, next + len)
           n    == maxLen(s, data)
           W    == Span(next, n)
           out  == write(s.output, SubSeq(data, 1, n))
           less == [k \in DOMAIN s.myMap \ W |-> s.myMap[k]]
           c    == s.bytesUnAssembled - Cardinality(W \cap DOMAIN s.myMap)
<1>1. /\ next \in Nat /\ next <= Len(Stream)
      /\ Len(Stream) \in Nat /\ Stream \in Seq(Byte)
      /\ remaining_capacity(s.output) \in Nat
  BY RightFields
<1>2. OutRight(s.output, r, next) /\ MapRight(s.myMap, next, s.bytesUnAssembled)
  BY DEF Right
<1>3. write_through(s, data)
        = [s EXCEPT !.output = out, !.nextIndex = next + n, !.myMap = less,
                    !.bytesUnAssembled = c]
  BY DEF write_through
<1>4. data \in Seq(Byte) /\ Len(data) = len
  <2>1. len \in 0..len /\ 0 \in 0..len
    OBVIOUS
  <2> QED  BY <1>1, <2>1, PieceOfPiece
<1> HIDE DEF next
<1>5. n \in 0..len /\ n <= remaining_capacity(s.output)
  BY <1>4, MaxLenFacts
<1>6. n \in Nat /\ next + n <= Len(Stream)
  BY <1>1, <1>5 DEF next
<1>7. SubSeq(data, 1, n) = SubSeq(Stream, next + 1, next + n)
  <2>1. 0 \in 0..n /\ next + len <= Len(Stream)
    BY <1>5 DEF next
  <2>2. SubSeq(data, 0 + 1, n) = SubSeq(Stream, next + 0 + 1, next + n)
    BY <1>1, <1>5, <2>1, PieceOfPiece
  <2>3. 0 + 1 = 1 /\ next + 0 + 1 = next + 1
    BY <1>1
  <2> QED  BY <2>2, <2>3
<1> HIDE DEF data, n
<1>8. OutRight(out, r, next + n)
  BY <1>2, <1>5, <1>6, <1>7, OutMoves
<1>9. MapRight(less, next + n, c) /\ c \in Nat
  BY <1>1, <1>2, <1>6, MapMoves
<1> HIDE DEF out, W, less, c
<1>10. Right([s EXCEPT !.output = out, !.nextIndex = next + n, !.myMap = less,
                       !.bytesUnAssembled = c], r)
  BY <1>8, <1>9, RightMoves
<1> QED  BY <1>3, <1>10 DEF data, next

\* ready is the length of the run of held bytes that starts at the next index,
\* as far as there is room.
LEMMA ReadyFacts ==
  ASSUME NEW s, NEW r, Right(s, r)
  PROVE  /\ ready(s) \in 0..remaining_capacity(s.output)
         /\ Span(s.nextIndex, ready(s)) \subseteq DOMAIN s.myMap
         /\ \/ ready(s) = remaining_capacity(s.output)
            \/ s.nextIndex + ready(s) \notin DOMAIN s.myMap
<1> DEFINE next == s.nextIndex
           room == remaining_capacity(s.output)
           D    == DOMAIN s.myMap
           T    == {n \in Nat : n = room \/ next + n \notin D}
<1>1. next \in Nat /\ room \in Nat
  BY RightFields
<1>2. ready(s) = CHOOSE n \in 0..room :
                   /\ Span(next, n) \subseteq D
                   /\ n = room \/ next + n \notin D
  BY DEF ready
<1> HIDE DEF next, room, D
<1>3. room \in T
  BY <1>1
<1>4. PICK n \in T : \A m \in T : n <= m
  BY <1>3, LeastMember
<1>5. n \in Nat /\ n <= room
  BY <1>1, <1>3, <1>4
<1>6. Span(next, n) \subseteq D
  <2> SUFFICES ASSUME NEW k \in Span(next, n) PROVE k \in D
    OBVIOUS
  <2>1. k - next \in Nat /\ k - next < n /\ next + (k - next) = k
    BY <1>1, <1>5 DEF Span
  <2>2. k - next \notin T
    BY <1>4, <2>1
  <2> QED  BY <2>1, <2>2
<1>7. n \in 0..room /\ (n = room \/ next + n \notin D)
  BY <1>1, <1>4, <1>5
<1>8. /\ ready(s) \in 0..room /\ Span(next, ready(s)) \subseteq D
      /\ ready(s) = room \/ next + ready(s) \notin D
  BY <1>2, <1>6, <1>7
<1> QED  BY <1>8 DEF next, room, D

\* drain: the held bytes that are next.
LEMMA DrainRight ==
  ASSUME NEW s, NEW r, Right(s, r)
  PROVE  Right(drain(s), r)
<1> DEFINE next == s.nextIndex
           n    == ready(s)
           W    == Span(next, n)
           d    == [i \in 1..n |-> s.myMap[next + i - 1]]
           p    == SubSeq(Stream, next + 1, next + n)
           out  == write(s.output, d)
           less == [k \in DOMAIN s.myMap \ W |-> s.myMap[k]]
           c    == s.bytesUnAssembled - n
<1>1. /\ next \in Nat /\ Len(Stream) \in Nat /\ Stream \in Seq(Byte)
      /\ next <= Len(Stream)
      /\ remaining_capacity(s.output) \in Nat
  BY RightFields
<1>2. OutRight(s.output, r, next) /\ MapRight(s.myMap, next, s.bytesUnAssembled)
  BY DEF Right
<1>3. n \in Nat /\ n <= remaining_capacity(s.output) /\ W \subseteq DOMAIN s.myMap
  BY <1>1, ReadyFacts
<1>4. drain(s) = [s EXCEPT !.output = out, !.nextIndex = next + n, !.myMap = less,
                           !.bytesUnAssembled = c]
  BY DEF drain
<1> HIDE DEF next, n
<1>5. /\ DOMAIN s.myMap \subseteq next .. (Len(Stream) - 1)
      /\ \A k \in DOMAIN s.myMap : s.myMap[k] = Stream[k + 1]
  BY <1>2 DEF MapRight
<1>6. next + n <= Len(Stream)
  <2>1. CASE n = 0
    BY <1>1, <2>1
  <2>2. CASE n # 0
    <3>1. next + n - 1 \in W
      BY <1>1, <1>3, <2>2 DEF Span
    <3>2. next + n - 1 \in next .. (Len(Stream) - 1)
      BY <1>3, <1>5, <3>1
    <3> QED  BY <1>1, <1>3, <3>2
  <2> QED  BY <2>1, <2>2
<1>7. /\ p \in Seq(Byte) /\ Len(p) = n
      /\ \A i \in 1..n : p[i] = Stream[next + i]
  <2>1. /\ next + 1 \in Nat \ {0} /\ next + n \in Nat
        /\ next + 1 <= next + n + 1
        /\ (next + n) - (next + 1) + 1 = n
    BY <1>1, <1>3
  <2>2. /\ p \in Seq(Byte) /\ Len(p) = n
        /\ \A i \in 1..n : p[i] = Stream[(next + 1) + i - 1]
    BY <1>1, <1>6, <2>1, SubSeqFacts
  <2>3. \A i \in 1..n : (next + 1) + i - 1 = next + i
    BY <1>1
  <2> QED  BY <2>2, <2>3
<1> HIDE DEF p
<1>8. \A i \in 1..n : s.myMap[next + i - 1] = p[i]
  <2> TAKE i \in 1..n
  <2>1. next + i - 1 \in W /\ (next + i - 1) + 1 = next + i
    BY <1>1, <1>3 DEF Span
  <2>2. s.myMap[next + i - 1] = Stream[next + i]
    BY <1>3, <1>5, <2>1
  <2> QED  BY <1>7, <2>2
<1>9. d = p
  <2>1. p = [i \in 1..n |-> p[i]]
    BY <1>7, LenProperties
  <2> QED  BY <1>8, <2>1
<1>10. Cardinality(W \cap DOMAIN s.myMap) = n
  <2>1. next \in Int /\ next + n - 1 \in Int
    BY <1>1, <1>3
  <2>2. Cardinality(W) = IF next > next + n - 1 THEN 0 ELSE (next + n - 1) - next + 1
    BY <2>1, FS_Interval DEF Span
  <2>3. Cardinality(W) = n
    BY <1>1, <1>3, <2>2
  <2>4. W \cap DOMAIN s.myMap = W
    BY <1>3
  <2> QED  BY <2>3, <2>4
<1>11. OutRight(out, r, next + n)
  BY <1>2, <1>3, <1>6, <1>9, OutMoves DEF p
<1>12. MapRight(less, next + n, c) /\ c \in Nat
  <2> DEFINE b == s.bytesUnAssembled - Cardinality(W \cap DOMAIN s.myMap)
  <2>1. MapRight(less, next + n, b) /\ b \in Nat
    BY <1>1, <1>2, <1>3, MapMoves
  <2> QED  BY <1>10, <2>1
<1> HIDE DEF d, out, W, less, c
<1>13. Right([s EXCEPT !.output = out, !.nextIndex = next + n, !.myMap = less,
                       !.bytesUnAssembled = c], r)
  BY <1>11, <1>12, RightMoves
<1> QED  BY <1>4, <1>13

\* Putting an object together from another output.
LEMMA RightOutput ==
  ASSUME NEW s, NEW r, Right(s, r), NEW out, NEW q, OutRight(out, q, s.nextIndex)
  PROVE  Right([s EXCEPT !.output = out], q)
<1> DEFINE t == [s EXCEPT !.output = out]
<1>1. s \in ReassemblerOf(Byte, DOMAIN s.myMap) /\ s.capacity = Capacity
  BY DEF Right
<1>2. out \in ByteStreamOf(Byte)
  BY DEF OutRight
<1>3. /\ t.output = out /\ t.nextIndex = s.nextIndex /\ t.myMap = s.myMap
      /\ t.bytesUnAssembled = s.bytesUnAssembled /\ t.capacity = Capacity
      /\ t \in ReassemblerOf(Byte, DOMAIN s.myMap)
  BY <1>1, <1>2 DEF ReassemblerOf
<1>4. MapRight(s.myMap, s.nextIndex, s.bytesUnAssembled)
  BY DEF Right
<1> HIDE DEF t
<1>5. Right(t, q)
  BY <1>3, <1>4 DEF Right
<1> QED  BY <1>5 DEF t

\* signal_eof: ending the output moves no byte.
LEMMA SignalRight ==
  ASSUME NEW s, NEW r, Right(s, r)
  PROVE  Right(signal_eof(s), r)
<1> DEFINE w == end_input(s.output)
<1>1. OutRight(s.output, r, s.nextIndex)
  BY DEF Right
<1>2. s.output \in ByteStreamOf(Byte)
  BY <1>1 DEF OutRight
<1>3. /\ w \in ByteStreamOf(Byte) /\ w.buf = s.output.buf
      /\ w.capacity = s.output.capacity /\ w.write_count = s.output.write_count
      /\ w.read_count = s.output.read_count
  BY <1>2 DEF end_input, ByteStreamOf
<1> HIDE DEF w
<1>4. OutRight(w, r, s.nextIndex)
  BY <1>1, <1>3 DEF OutRight
<1>5. Right([s EXCEPT !.output = w], r)
  BY <1>4, RightOutput
<1> QED  BY <1>5 DEF signal_eof, w

\* The path of a substring that is next.
LEMMA AssembleRight ==
  ASSUME NEW s, NEW r, Right(s, r), NEW len \in Nat, s.nextIndex + len <= Len(Stream)
  PROVE  Right(assemble(s, SubSeq(Stream, s.nextIndex + 1, s.nextIndex + len)), r)
<1> DEFINE w == write_through(s, SubSeq(Stream, s.nextIndex + 1, s.nextIndex + len))
<1>1. Right(w, r)
  BY WriteThroughRight
<1> HIDE DEF w
<1>2. Right(drain(w), r)
  BY <1>1, DrainRight
<1>3. Right(signal_eof(drain(w)), r)
  BY <1>2, SignalRight
<1> QED  BY <1>3 DEF assemble, w

\* The ways through push_substring from s to res, t being s with the mark noted:
\* dropped, nothing new in it, held back, or written.
PushPath(s, t, data, index, res) ==
  \/ /\ res = s
     /\ TooFarAhead(s, index) \/ index + Len(data) < s.nextIndex
  \/ res = t /\ index + Len(data) = s.nextIndex
  \/ /\ s.nextIndex < index /\ ~TooFarAhead(s, index)
     /\ res = store(t, data, index)
  \/ \E m \in Nat :
       /\ index <= s.nextIndex /\ s.nextIndex + m = index + Len(data)
       /\ s.nextIndex + m <= Len(Stream)
       /\ res = assemble(t, SubSeq(Stream, s.nextIndex + 1, s.nextIndex + m))

\* push_substring takes one of them.
LEMMA PushCases ==
  ASSUME NEW s, NEW r, Right(s, r), NEW index \in Nat,
         NEW data, Piece(data, index), NEW eof
  PROVE  PushPath(s, note_eof(s, data, index, eof), data, index,
                  push_substring(s, data, index, eof))
<1> DEFINE t    == note_eof(s, data, index, eof)
           next == s.nextIndex
           len  == Len(data)
           far  == TooFarAhead(s, index)
           old  == WhollyWritten(s, data, index)
           res  == push_substring(s, data, index, eof)
           cut  == SubSeq(data, next - index + 1, len)
           whole(x) == \E m \in Nat : /\ next + m = index + len
                                      /\ next + m <= Len(Stream)
                                      /\ x = SubSeq(Stream, next + 1, next + m)
<1>1. next \in Nat /\ next <= Len(Stream) /\ Len(Stream) \in Nat /\ Stream \in Seq(Byte)
  BY RightFields
<1>2. data \in Seq(Byte) /\ len \in Nat
  BY LenProperties DEF Piece
<1>3. old <=> index + len < next
  BY DEF WhollyWritten
<1>4. index <= next => /\ index + len <= Len(Stream)
                       /\ data = SubSeq(Stream, index + 1, index + len)
  <2>1. SUFFICES ASSUME index <= next
                 PROVE  /\ index + len <= Len(Stream)
                        /\ data = SubSeq(Stream, index + 1, index + len)
    OBVIOUS
  <2>2. index <= Len(Stream)
    BY <1>1, <2>1
  <2> QED  BY <2>2, PieceIsSubSeq
<1>5. res = CASE far \/ old -> s
              [] index = next -> assemble(t, data)
              [] index > next /\ ~far -> store(t, data, index)
              [] index < next /\ index + len = next -> t
              [] index < next /\ index + len > next -> assemble(t, cut)
  BY DEF push_substring
<1> HIDE DEF next, len
<1>6. index = next => whole(data)
  BY <1>2, <1>4
<1>7. ASSUME index < next, index + len > next
      PROVE  whole(cut)
  <2> DEFINE k == next - index
             m == len - k
  <2>1. /\ k \in 0..len /\ m \in Nat /\ index + k + 1 = next + 1
        /\ index + len = next + m /\ len \in 0..len
    BY <1>1, <1>2, <1>7
  <2>2. index + len <= Len(Stream) /\ data = SubSeq(Stream, index + 1, index + len)
    BY <1>1, <1>4, <1>7
  <2> HIDE DEF k, m
  <2>3. SubSeq(data, k + 1, len) = SubSeq(Stream, index + k + 1, index + len)
    BY <1>1, <1>2, <2>1, <2>2, PieceOfPiece
  <2>4. cut = SubSeq(Stream, next + 1, next + m)
    BY <2>1, <2>3 DEF k
  <2> QED  BY <2>1, <2>2, <2>4
<1> HIDE DEF t, far, old, res, cut
<1>8. \/ far \/ old
      \/ index = next
      \/ (index > next /\ ~far)
      \/ (index < next /\ index + len = next)
      \/ (index < next /\ index + len > next)
  BY <1>1, <1>2, <1>3
<1>9. \/ res = s /\ (far \/ old)
      \/ res = t /\ index + len = next
      \/ index > next /\ ~far /\ res = store(t, data, index)
      \/ index = next /\ res = assemble(t, data)
      \/ index < next /\ index + len > next /\ res = assemble(t, cut)
  BY <1>5, <1>8
<1>10. /\ index > next => next < index
       /\ index = next \/ index < next => index <= next
  BY <1>1
<1>11. ASSUME NEW x, whole(x), res = assemble(t, x), index <= next
       PROVE  \E m \in Nat : /\ index <= next /\ next + m = index + len
                             /\ next + m <= Len(Stream)
                             /\ res = assemble(t, SubSeq(Stream, next + 1, next + m))
  BY <1>11
<1> HIDE DEF whole
<1> QED  BY <1>3, <1>6, <1>7, <1>9, <1>10, <1>11 DEF PushPath, res, t, far, next, len

\* push_substring, whatever the substring.
LEMMA PushRight ==
  ASSUME NEW s, NEW r, Right(s, r), NEW index \in Nat,
         NEW data, Piece(data, index), NEW eof
  PROVE  Right(push_substring(s, data, index, eof), r)
<1> DEFINE t    == note_eof(s, data, index, eof)
           res  == push_substring(s, data, index, eof)
<1>1. Right(t, r) /\ t.nextIndex = s.nextIndex
  BY NoteRight
<1>2. PushPath(s, t, data, index, res)
  BY PushCases
<1> HIDE DEF t, res
<1>3. s.nextIndex < index => Right(store(t, data, index), r)
  <2>1. s.nextIndex < index => t.nextIndex <= index
    BY <1>1, RightFields
  <2> QED  BY <1>1, <2>1, StoreRight
<1>4. \A m \in Nat : s.nextIndex + m <= Len(Stream) =>
        Right(assemble(t, SubSeq(Stream, s.nextIndex + 1, s.nextIndex + m)), r)
  BY <1>1, AssembleRight
<1>5. Right(res, r)
  BY <1>1, <1>2, <1>3, <1>4 DEF PushPath
<1> QED  BY <1>5 DEF res

\* A read takes the next bytes of the stream out of the output.
LEMMA OutReads ==
  ASSUME NEW bs, NEW r, NEW next, OutRight(bs, r, next), NEW len \in 0..buffer_size(bs)
  PROVE  /\ r + len <= Len(Stream) /\ Len(bs.buf) = next - r
         /\ read_data(bs, len) = SubSeq(Stream, r + 1, r + len)
         /\ OutRight(read(bs, len), r + len, next)
<1> DEFINE w == read(bs, len)
<1>1. /\ bs \in ByteStreamOf(Byte) /\ bs.capacity = Capacity
      /\ Len(bs.buf) <= Capacity
      /\ r \in Nat /\ next \in Nat /\ r <= next /\ next <= Len(Stream)
      /\ bs.write_count = next /\ bs.read_count = r
      /\ bs.buf = SubSeq(Stream, r + 1, next)
  BY DEF OutRight
<1>2. Stream \in Seq(Byte) /\ Len(Stream) \in Nat
  BY StreamAssumption, LenProperties
<1> DEFINE m == next - r
<1>3. /\ m \in Nat /\ r + m = next /\ r + m <= Len(Stream)
      /\ m \in 0..m /\ 0 \in 0..m
  BY <1>1, <1>2
<1> HIDE DEF m
<1>4. Len(SubSeq(Stream, r + 1, r + m)) = m
  BY <1>1, <1>2, <1>3, PieceOfPiece
<1>5. Len(bs.buf) = m /\ len \in 0..m /\ len \in Nat
  BY <1>1, <1>3, <1>4 DEF buffer_size
<1>6. read_len(bs, len) = len
  BY <1>3, <1>5 DEF read_len, Least
<1>7. /\ read_data(bs, len) = SubSeq(bs.buf, 1, len)
      /\ w = pop_output(bs, len)
  BY <1>1, <1>5, <1>6, ReadFacts
<1>8. SubSeq(bs.buf, 1, len) = SubSeq(Stream, r + 1, r + len)
  <2>1. 0 \in 0..len
    BY <1>5
  <2>2. SubSeq(SubSeq(Stream, r + 1, r + m), 0 + 1, len)
          = SubSeq(Stream, r + 0 + 1, r + len)
    BY <1>1, <1>2, <1>3, <1>5, <2>1, PieceOfPiece
  <2>3. 0 + 1 = 1 /\ r + 0 + 1 = r + 1
    BY <1>1
  <2> QED  BY <1>1, <1>3, <2>2, <2>3
<1>9. SubSeq(bs.buf, len + 1, m) = SubSeq(Stream, r + len + 1, next)
  <2>1. SubSeq(SubSeq(Stream, r + 1, r + m), len + 1, m)
          = SubSeq(Stream, r + len + 1, r + m)
    BY <1>1, <1>2, <1>3, <1>5, PieceOfPiece
  <2> QED  BY <1>1, <1>3, <2>1
<1>10. /\ w \in ByteStreamOf(Byte) /\ w.buf = SubSeq(bs.buf, len + 1, Len(bs.buf))
       /\ Len(w.buf) <= w.capacity
       /\ w.read_count = bs.read_count + len
       /\ w.capacity = bs.capacity /\ w.write_count = bs.write_count
  <2>1. len \in 0..Len(bs.buf) /\ Len(bs.buf) <= bs.capacity
    BY <1>1, <1>5
  <2> HIDE DEF w
  <2> QED  BY <1>1, <1>7, <2>1, PopFacts
<1>11. r + len \in Nat /\ r + len <= next /\ r + len <= Len(Stream)
  BY <1>1, <1>2, <1>3, <1>5
<1> HIDE DEF w
<1>12. OutRight(w, r + len, next)
  BY <1>1, <1>5, <1>9, <1>10, <1>11 DEF OutRight
<1>13. Len(bs.buf) = next - r
  BY <1>5 DEF m
<1> QED  BY <1>7, <1>8, <1>11, <1>12, <1>13 DEF w

\* The application reads the next n bytes of the stream.
LEMMA ReadRight ==
  ASSUME NEW s, NEW r, Right(s, r), NEW len \in 1..buffer_size(s.output)
  PROVE  /\ r + len <= Len(Stream)
         /\ read_data(s.output, len) = SubSeq(Stream, r + 1, r + len)
         /\ Right([s EXCEPT !.output = read(@, len)], r + len)
<1>1. OutRight(s.output, r, s.nextIndex)
  BY DEF Right
<1>2. len \in 0..buffer_size(s.output)
  <2>1. Len(s.output.buf) \in Nat
    BY <1>1, StreamFields DEF OutRight
  <2> QED  BY <2>1 DEF buffer_size
<1>3. /\ r + len <= Len(Stream)
      /\ read_data(s.output, len) = SubSeq(Stream, r + 1, r + len)
      /\ OutRight(read(s.output, len), r + len, s.nextIndex)
  BY <1>1, <1>2, OutReads
<1> QED  BY <1>3, RightOutput

-------------------------------------------------------------------------------
(* The end of the output *)

\* The output of t is ended as that of s is, or is now ended and had a reason.
EndsWell(s, t) ==
  t.output.is_eof # s.output.is_eof =>
    t.output.is_eof /\ t.eof_flag /\ reassembler_empty(t)

\* Writing and reading leave the end alone.
LEMMA EndKept ==
  ASSUME NEW bs \in ByteStreamOf(Byte)
  PROVE  /\ \A data : write(bs, data).is_eof = bs.is_eof
         /\ \A len : read(bs, len).is_eof = bs.is_eof
BY DEF write, read, pop_output, ByteStreamOf

\* A substring that is next: only signal_eof ends the output.
LEMMA AssembleEnds ==
  ASSUME NEW s, NEW r, Right(s, r), NEW len \in Nat, s.nextIndex + len <= Len(Stream)
  PROVE  EndsWell(s, assemble(s, SubSeq(Stream, s.nextIndex + 1, s.nextIndex + len)))
<1> DEFINE data == SubSeq(Stream, s.nextIndex + 1, s.nextIndex + len)
           w    == write_through(s, data)
           d    == drain(w)
           e    == signal_eof(d)
<1>1. Right(s, r) /\ Right(w, r)
  BY WriteThroughRight
<1>2. w.output.is_eof = s.output.is_eof
  <2>1. s.output \in ByteStreamOf(Byte) /\ s \in ReassemblerOf(Byte, DOMAIN s.myMap)
    BY RightFields DEF Right
  <2>2. w.output = write(s.output, SubSeq(data, 1, maxLen(s, data)))
    BY <2>1 DEF write_through, ReassemblerOf
  <2> QED  BY <2>1, <2>2, EndKept
<1> HIDE DEF w
<1>3. d.output.is_eof = w.output.is_eof /\ Right(d, r)
  <2>1. w.output \in ByteStreamOf(Byte) /\ w \in ReassemblerOf(Byte, DOMAIN w.myMap)
    BY <1>1, RightFields DEF Right
  <2>2. d.output = write(w.output, [i \in 1..ready(w) |-> w.myMap[w.nextIndex + i - 1]])
    BY <2>1 DEF drain, ReassemblerOf
  <2>3. d.output.is_eof = w.output.is_eof
    BY <2>1, <2>2, EndKept
  <2> QED  BY <1>1, <2>3, DrainRight
<1> HIDE DEF d
<1>4. d \in ReassemblerOf(Byte, DOMAIN d.myMap) /\ d.output \in ByteStreamOf(Byte)
  BY <1>3, RightFields DEF Right
<1>5. CASE d.eof_flag /\ reassembler_empty(d)
  <2>1. e = [d EXCEPT !.output = end_input(d.output)]
    BY <1>5 DEF signal_eof
  <2>2. /\ e.output = end_input(d.output) /\ e.eof_flag = d.eof_flag
        /\ e.bytesUnAssembled = d.bytesUnAssembled
    BY <1>4, <2>1 DEF ReassemblerOf
  <2>3. end_input(d.output).is_eof = TRUE
    BY <1>4 DEF end_input, ByteStreamOf
  <2> QED  BY <1>5, <2>2, <2>3 DEF EndsWell, reassembler_empty, assemble, d, w
<1>6. CASE ~(d.eof_flag /\ reassembler_empty(d))
  <2>1. e = d
    BY <1>6 DEF signal_eof
  <2> QED  BY <1>2, <1>3, <2>1 DEF EndsWell, assemble, d, w
<1> QED  BY <1>5, <1>6

\* push_substring, whatever the substring.
LEMMA PushEnds ==
  ASSUME NEW s, NEW r, Right(s, r), NEW index \in Nat,
         NEW data, Piece(data, index), NEW eof
  PROVE  EndsWell(s, push_substring(s, data, index, eof))
<1> DEFINE t    == note_eof(s, data, index, eof)
           res  == push_substring(s, data, index, eof)
<1>1. Right(t, r) /\ t.nextIndex = s.nextIndex
  BY NoteRight
<1>2. t.output = s.output
  BY DEF Right, ReassemblerOf, note_eof
<1>3. PushPath(s, t, data, index, res)
  BY PushCases
<1> HIDE DEF t, res
<1>4. store(t, data, index).output = t.output
  BY <1>1 DEF store, Right, ReassemblerOf
<1>5. \A m \in Nat : s.nextIndex + m <= Len(Stream) =>
        EndsWell(t, assemble(t, SubSeq(Stream, s.nextIndex + 1, s.nextIndex + m)))
  BY <1>1, AssembleEnds
<1>6. EndsWell(s, res)
  BY <1>2, <1>3, <1>4, <1>5 DEF EndsWell, PushPath
<1> QED  BY <1>6 DEF res

-------------------------------------------------------------------------------
(* What each piece of push_substring does to the fields *)

\* The next index and the room behind it end where the capacity does, counted
\* from what has been read.
LEMMA RoomFacts ==
  ASSUME NEW s, NEW r, Right(s, r)
  PROVE  /\ r \in Nat /\ r <= s.nextIndex
         /\ Len(s.output.buf) = s.nextIndex - r
         /\ s.nextIndex + remaining_capacity(s.output) = r + Capacity
         /\ remaining_capacity(s.output) <= Capacity
<1> DEFINE next == s.nextIndex
           m    == next - r
<1>1. /\ s.output.capacity = Capacity /\ r \in Nat /\ next \in Nat /\ r <= next
      /\ next <= Len(Stream) /\ s.output.buf = SubSeq(Stream, r + 1, next)
  BY DEF Right, OutRight
<1>2. Len(Stream) \in Nat /\ Stream \in Seq(Byte) /\ Capacity \in Nat
  BY RightFields
<1> HIDE DEF next
<1>3. /\ m \in Nat /\ r + m = next /\ r + m <= Len(Stream)
      /\ m \in 0..m /\ 0 \in 0..m
  <2>1. r \in Nat /\ next \in Nat /\ r <= next /\ next <= Len(Stream)
    BY <1>1
  <2> QED  BY <1>2, <2>1
<1>4. Len(SubSeq(Stream, r + 1, r + m)) = m
  BY <1>1, <1>2, <1>3, PieceOfPiece
<1>5. Len(s.output.buf) = m
  BY <1>1, <1>3, <1>4
<1>6. remaining_capacity(s.output) = Capacity - m
  BY <1>1, <1>5 DEF remaining_capacity
<1> HIDE DEF m
<1>7. r <= next /\ next + (Capacity - m) = r + Capacity /\ Capacity - m <= Capacity
  BY <1>1, <1>2, <1>3
<1> QED  BY <1>1, <1>5, <1>6, <1>7 DEF m, next

\* note_eof.
LEMMA NoteFields ==
  ASSUME NEW s, NEW r, Right(s, r), NEW data, NEW index, NEW eof
  PROVE  LET t == note_eof(s, data, index, eof)
         IN  /\ t.nextIndex = s.nextIndex /\ t.myMap = s.myMap
             /\ t.output = s.output
             /\ t.eof_flag = (s.eof_flag \/
                    (eof /\ Len(data) - s.nextIndex + index <= s.capacity))
BY DEF Right, ReassemblerOf, note_eof

\* store.
LEMMA StoreFields ==
  ASSUME NEW s, NEW r, Right(s, r), NEW data, NEW index
  PROVE  LET t == store(s, data, index)
         IN  /\ t.nextIndex = s.nextIndex /\ t.output = s.output
             /\ t.eof_flag = s.eof_flag
             /\ DOMAIN t.myMap = DOMAIN s.myMap \cup Span(index, maxLen(s, data))
<1> DEFINE t == store(s, data, index)
<1>1. /\ t.nextIndex = s.nextIndex /\ t.output = s.output
      /\ t.eof_flag = s.eof_flag /\ t.myMap = held_with(s, data, index)
  BY DEF Right, ReassemblerOf, store
<1>2. DOMAIN held_with(s, data, index)
        = DOMAIN s.myMap \cup Span(index, maxLen(s, data))
  BY DEF held_with, fresh
<1> QED  BY <1>1, <1>2

\* write_through.
LEMMA WriteThroughFields ==
  ASSUME NEW s, NEW r, Right(s, r), NEW data
  PROVE  LET t == write_through(s, data)
             n == maxLen(s, data)
         IN  /\ t.nextIndex = s.nextIndex + n
             /\ DOMAIN t.myMap = DOMAIN s.myMap \ Span(s.nextIndex, n)
             /\ t.eof_flag = s.eof_flag
             /\ t.output.is_eof = s.output.is_eof
<1> DEFINE t == write_through(s, data)
           n == maxLen(s, data)
<1>1. s \in ReassemblerOf(Byte, DOMAIN s.myMap) /\ s.output \in ByteStreamOf(Byte)
  BY RightFields DEF Right
<1>2. /\ t.nextIndex = s.nextIndex + n
      /\ t.myMap = [k \in DOMAIN s.myMap \ Span(s.nextIndex, n) |-> s.myMap[k]]
      /\ t.eof_flag = s.eof_flag
      /\ t.output = write(s.output, SubSeq(data, 1, n))
  BY <1>1 DEF write_through, ReassemblerOf
<1> HIDE DEF t, n
<1>3. t.output.is_eof = s.output.is_eof
  BY <1>1, <1>2, EndKept
<1> QED  BY <1>2, <1>3 DEF t, n

\* drain.
LEMMA DrainFields ==
  ASSUME NEW s, NEW r, Right(s, r)
  PROVE  LET t == drain(s)
             n == ready(s)
         IN  /\ t.nextIndex = s.nextIndex + n
             /\ DOMAIN t.myMap = DOMAIN s.myMap \ Span(s.nextIndex, n)
             /\ t.eof_flag = s.eof_flag
             /\ t.output.is_eof = s.output.is_eof
<1> DEFINE t == drain(s)
           n == ready(s)
<1>1. s \in ReassemblerOf(Byte, DOMAIN s.myMap) /\ s.output \in ByteStreamOf(Byte)
  BY RightFields DEF Right
<1>2. /\ t.nextIndex = s.nextIndex + n
      /\ t.myMap = [k \in DOMAIN s.myMap \ Span(s.nextIndex, n) |-> s.myMap[k]]
      /\ t.eof_flag = s.eof_flag
      /\ t.output = write(s.output, [i \in 1..n |-> s.myMap[s.nextIndex + i - 1]])
  BY <1>1 DEF drain, ReassemblerOf
<1> HIDE DEF t, n
<1>3. t.output.is_eof = s.output.is_eof
  BY <1>1, <1>2, EndKept
<1> QED  BY <1>2, <1>3 DEF t, n

\* signal_eof.
LEMMA SignalFields ==
  ASSUME NEW s, NEW r, Right(s, r)
  PROVE  LET t == signal_eof(s)
         IN  /\ t.nextIndex = s.nextIndex /\ t.myMap = s.myMap
             /\ t.eof_flag = s.eof_flag
             /\ reassembler_empty(t) <=> reassembler_empty(s)
             /\ remaining_capacity(t.output) = remaining_capacity(s.output)
             /\ t.output.is_eof \/ ~(s.eof_flag /\ reassembler_empty(s))
<1> DEFINE t == [s EXCEPT !.output = end_input(@)]
<1>1. s \in ReassemblerOf(Byte, DOMAIN s.myMap) /\ s.output \in ByteStreamOf(Byte)
  BY RightFields DEF Right
<1>2. /\ t.nextIndex = s.nextIndex /\ t.myMap = s.myMap /\ t.eof_flag = s.eof_flag
      /\ t.bytesUnAssembled = s.bytesUnAssembled
      /\ t.output = [s.output EXCEPT !.is_eof = TRUE]
  BY <1>1 DEF ReassemblerOf, end_input
<1> HIDE DEF t
<1>3. /\ t.output.is_eof /\ t.output.buf = s.output.buf
      /\ t.output.capacity = s.output.capacity
  BY <1>1, <1>2 DEF ByteStreamOf
<1>4. signal_eof(s) = IF s.eof_flag /\ reassembler_empty(s) THEN t ELSE s
  BY DEF signal_eof, t
<1> QED  BY <1>2, <1>3, <1>4 DEF reassembler_empty, remaining_capacity

\* A substring of len bytes that is next: what fits is written, and what was
\* held behind it as far as it goes and fits; nothing is forgotten.
LEMMA AssembleFacts ==
  ASSUME NEW s, NEW r, Right(s, r), NEW len \in Nat, s.nextIndex + len <= Len(Stream)
  PROVE  LET a == assemble(s, SubSeq(Stream, s.nextIndex + 1, s.nextIndex + len))
             n == Least(len, remaining_capacity(s.output))
         IN  /\ a.nextIndex \in Nat /\ s.nextIndex + n <= a.nextIndex
             /\ a.eof_flag = s.eof_flag
             /\ DOMAIN a.myMap \subseteq DOMAIN s.myMap
             /\ \A k \in Nat : Has(a, k) <=> Has(s, k) \/ k < s.nextIndex + n
             /\ a.nextIndex \in DOMAIN a.myMap => remaining_capacity(a.output) = 0
             /\ a.eof_flag /\ reassembler_empty(a) => a.output.is_eof
<1> DEFINE next == s.nextIndex
           data == SubSeq(Stream, next + 1, next + len)
           n    == Least(len, remaining_capacity(s.output))
           w    == write_through(s, data)
           p    == ready(w)
           d    == drain(w)
           a    == signal_eof(d)
<1>1. Right(w, r)
  BY WriteThroughRight
<1>2. /\ next \in Nat /\ n \in Nat
      /\ data \in Seq(Byte) /\ Len(data) = len
  <2>1. next \in Nat /\ remaining_capacity(s.output) \in Nat
    BY RightFields
  <2>2. len \in Int /\ remaining_capacity(s.output) \in Int
    BY <2>1
  <2>3. n \in Nat
    BY <2>1, <2>2, LeastFacts
  <2>4. Piece(data, next) /\ Len(data) = len
    BY <2>1, SubSeqPiece
  <2> QED  BY <2>1, <2>3, <2>4 DEF Piece
<1> HIDE DEF data
<1>3. maxLen(s, data) = n
  BY <1>2 DEF maxLen
<1>4. /\ w.nextIndex = next + n /\ DOMAIN w.myMap = DOMAIN s.myMap \ Span(next, n)
      /\ w.eof_flag = s.eof_flag
  BY <1>3, WriteThroughFields
<1> HIDE DEF n, w
<1>5. /\ p \in 0..remaining_capacity(w.output)
      /\ Span(w.nextIndex, p) \subseteq DOMAIN w.myMap
      /\ p = remaining_capacity(w.output) \/ w.nextIndex + p \notin DOMAIN w.myMap
      /\ remaining_capacity(w.output) \in Nat
  BY <1>1, ReadyFacts, RightFields
<1>6. /\ d.nextIndex = w.nextIndex + p /\ d.eof_flag = s.eof_flag
      /\ DOMAIN d.myMap = DOMAIN w.myMap \ Span(w.nextIndex, p)
  BY <1>1, <1>4, DrainFields
<1>7. Right(d, r)
  BY <1>1, DrainRight
<1> HIDE DEF p, d
<1>8. remaining_capacity(d.output) = remaining_capacity(w.output) - p
  <2>1. /\ d.nextIndex + remaining_capacity(d.output) = r + Capacity
        /\ w.nextIndex + remaining_capacity(w.output) = r + Capacity
        /\ d.nextIndex \in Nat /\ w.nextIndex \in Nat /\ remaining_capacity(d.output) \in Nat
    BY <1>1, <1>7, RoomFacts, RightFields
  <2> QED  BY <1>5, <1>6, <2>1
<1>9. d.nextIndex \in DOMAIN d.myMap => remaining_capacity(d.output) = 0
  BY <1>5, <1>6, <1>8
<1>10. /\ a.nextIndex = d.nextIndex /\ a.myMap = d.myMap /\ a.eof_flag = d.eof_flag
       /\ reassembler_empty(a) <=> reassembler_empty(d)
       /\ remaining_capacity(a.output) = remaining_capacity(d.output)
       /\ a.output.is_eof \/ ~(d.eof_flag /\ reassembler_empty(d))
  BY <1>7, SignalFields
<1> HIDE DEF a
<1>11. a.nextIndex \in Nat /\ next + n <= a.nextIndex
  BY <1>2, <1>4, <1>5, <1>6, <1>10
<1>12. ASSUME NEW k \in Nat PROVE Has(a, k) <=> Has(s, k) \/ k < next + n
  <2>1. k \in Span(next, n) <=> next <= k /\ k < next + n
    BY <1>2 DEF Span
  <2>2. k \in Span(w.nextIndex, p) <=> next + n <= k /\ k < a.nextIndex
    BY <1>2, <1>4, <1>5, <1>6, <1>10 DEF Span
  <2>3. k \in DOMAIN a.myMap <=> /\ k \in DOMAIN s.myMap /\ k \notin Span(next, n)
                                 /\ k \notin Span(w.nextIndex, p)
    BY <1>4, <1>6, <1>10
  <2>4. k \in Span(w.nextIndex, p) => k \in DOMAIN s.myMap
    BY <1>4, <1>5
  <2>5. k < next => k < next + n
    BY <1>2
  <2>6. k < next + n => k < a.nextIndex
    BY <1>2, <1>11
  <2>7. k < a.nextIndex => k < next \/ k \in Span(next, n) \/ k \in Span(w.nextIndex, p)
    BY <1>2, <1>11, <2>1, <2>2
  <2> QED  BY <2>1, <2>2, <2>3, <2>4, <2>5, <2>6, <2>7 DEF Has, next
<1>13. DOMAIN a.myMap \subseteq DOMAIN s.myMap
  BY <1>4, <1>6, <1>10
<1> QED  BY <1>6, <1>9, <1>10, <1>11, <1>12, <1>13 DEF assemble, a, d, w, data, next, n

-------------------------------------------------------------------------------
(* What a push adds *)

\* A piece within the capacity that is offered is kept, nothing is forgotten,
\* and nothing is taken that was not in the piece.
LEMMA PushHas ==
  ASSUME NEW s, NEW r, Right(s, r), NEW index \in Nat,
         NEW data, Piece(data, index), NEW eof
  PROVE  LET res == push_substring(s, data, index, eof)
         IN  /\ res.nextIndex \in Nat /\ s.nextIndex <= res.nextIndex
             /\ \A k \in Nat : Has(s, k) => Has(res, k)
             /\ \A k \in Nat : Has(res, k) => Has(s, k) \/ k \in Span(index, Len(data))
             /\ index + Len(data) <= r + Capacity =>
                  \A k \in Span(index, Len(data)) : Has(res, k)
<1> DEFINE t    == note_eof(s, data, index, eof)
           next == s.nextIndex
           len  == Len(data)
           room == remaining_capacity(s.output)
           res  == push_substring(s, data, index, eof)
           Goal == /\ res.nextIndex \in Nat /\ next <= res.nextIndex
                   /\ \A k \in Nat : Has(s, k) => Has(res, k)
                   /\ \A k \in Nat : Has(res, k) => Has(s, k) \/ k \in Span(index, len)
                   /\ index + len <= r + Capacity =>
                        \A k \in Span(index, len) : Has(res, k)
<1>1. /\ next \in Nat /\ room \in Nat /\ r \in Nat /\ Capacity \in Nat
      /\ next + room = r + Capacity /\ room <= Capacity /\ s.capacity = Capacity
  BY RightFields, RoomFacts DEF Right
<1>2. data \in Seq(Byte) /\ len \in Nat
  BY LenProperties DEF Piece
<1>3. Right(t, r) /\ t.nextIndex = next /\ t.myMap = s.myMap /\ t.output = s.output
  BY NoteRight, NoteFields
<1>4. PushPath(s, t, data, index, res)
  BY PushCases
<1>5. TooFarAhead(s, index) => index >= next + Capacity
  BY <1>1 DEF TooFarAhead
<1>6. \A k : Has(t, k) <=> Has(s, k)
  BY <1>3 DEF Has
<1>7. \A k \in Span(index, len) : k \in Nat /\ index <= k /\ k < index + len
  BY <1>2 DEF Span
<1> HIDE DEF t, next, len, room, res
<1>8. ASSUME res = s, TooFarAhead(s, index) \/ index + len < next PROVE Goal
  <2>1. ASSUME index + len <= r + Capacity, NEW k \in Span(index, len)
        PROVE  k < next
    <3>1. k \in Nat /\ index <= k /\ k < index + len
      BY <1>7
    <3>2. index < next + Capacity
      BY <1>1, <1>2, <2>1, <3>1
    <3>3. index + len < next
      BY <1>1, <1>5, <1>8, <3>2
    <3> QED  BY <1>1, <1>2, <3>1, <3>3
  <2>2. next <= next
    BY <1>1
  <2> QED  BY <1>1, <1>8, <2>1, <2>2 DEF Has, next
<1>9. ASSUME res = t, index + len = next PROVE Goal
  <2>1. \A k \in Span(index, len) : Has(s, k)
    BY <1>1, <1>2, <1>7, <1>9 DEF Has, next
  <2>2. next <= next
    BY <1>1
  <2> QED  BY <1>1, <1>3, <1>6, <1>9, <2>1, <2>2
<1>10. ASSUME next < index, res = store(t, data, index) PROVE Goal
  <2> DEFINE n == maxLen(t, data)
  <2>1. /\ res.nextIndex = next
        /\ DOMAIN res.myMap = DOMAIN s.myMap \cup Span(index, n)
    BY <1>3, <1>10, StoreFields
  <2>2. n \in 0..len /\ n \in Int
    BY <1>2, <1>3, MaxLenFacts DEF len
  <2>3. n = IF len <= room THEN len ELSE room
    BY <1>3 DEF maxLen, Least, len, room
  <2> HIDE DEF n
  <2>4. Span(index, n) \subseteq Span(index, len)
    BY <1>2, <2>2 DEF Span
  <2>5. ASSUME index + len <= r + Capacity PROVE n = len
    BY <1>1, <1>2, <1>10, <2>3, <2>5
  <2>6. \A k : Has(res, k) <=> Has(s, k) \/ k \in Span(index, n)
    BY <2>1 DEF Has, next
  <2>7. next <= next
    BY <1>1
  <2> QED  BY <1>1, <2>1, <2>4, <2>5, <2>6, <2>7
<1>11. ASSUME NEW m \in Nat, index <= next, next + m = index + len,
              next + m <= Len(Stream),
              res = assemble(t, SubSeq(Stream, next + 1, next + m))
       PROVE  Goal
  <2> DEFINE n == Least(m, room)
  <2>1. /\ res.nextIndex \in Nat /\ next + n <= res.nextIndex
        /\ \A k \in Nat : Has(res, k) <=> Has(t, k) \/ k < next + n
    BY <1>3, <1>11, AssembleFacts DEF room
  <2>2. n = IF m <= room THEN m ELSE room
    BY DEF Least
  <2> HIDE DEF n
  <2>3. n \in Nat /\ n <= m /\ next <= next + n
    BY <1>1, <2>2
  <2>4. next <= res.nextIndex
    BY <1>1, <2>1, <2>3
  <2>5. \A k \in Nat : Has(s, k) => Has(res, k)
    BY <1>6, <2>1
  <2>6. ASSUME NEW k \in Nat, Has(res, k) PROVE Has(s, k) \/ k \in Span(index, len)
    <3>1. CASE Has(t, k)
      BY <1>6, <3>1
    <3>2. CASE k < next + n
      <4>1. CASE k < next
        BY <4>1 DEF Has, next
      <4>2. CASE ~(k < next)
        <5>1. k \in Span(index, len)
          BY <1>1, <1>2, <1>11, <2>3, <3>2, <4>2 DEF Span
        <5> QED  BY <5>1
      <4> QED  BY <4>1, <4>2
    <3> QED  BY <2>1, <2>6, <3>1, <3>2
  <2>7. ASSUME index + len <= r + Capacity, NEW k \in Span(index, len)
        PROVE  Has(res, k)
    <3>1. k \in Nat /\ k < index + len
      BY <1>7
    <3>2. n = m
      BY <1>1, <1>2, <1>11, <2>2, <2>7
    <3>3. k < next + n
      BY <1>11, <3>1, <3>2
    <3> QED  BY <2>1, <3>1, <3>3
  <2> QED  BY <2>1, <2>4, <2>5, <2>6, <2>7
<1>12. Goal
  BY <1>4, <1>8, <1>9, <1>10, <1>11 DEF PushPath, next, len
<1> QED  BY <1>12 DEF next, len, res

\* How far ahead a byte is held back: the start of the piece and its length are
\* each limited to the capacity.
LEMMA PushNear ==
  ASSUME NEW s, NEW r, Right(s, r), NEW index \in Nat,
         NEW data, Piece(data, index), NEW eof
  PROVE  \A k \in DOMAIN push_substring(s, data, index, eof).myMap :
           k \in DOMAIN s.myMap \/ k <= s.nextIndex + 2 * Capacity - 2
<1> DEFINE t    == note_eof(s, data, index, eof)
           next == s.nextIndex
           room == remaining_capacity(s.output)
           n    == maxLen(t, data)
           res  == push_substring(s, data, index, eof)
<1>1. /\ next \in Nat /\ room \in Nat /\ Capacity \in Nat
      /\ room <= Capacity /\ s.capacity = Capacity
  BY RightFields, RoomFacts DEF Right
<1>2. Right(t, r) /\ t.nextIndex = next /\ t.myMap = s.myMap /\ t.output = s.output
  BY NoteRight, NoteFields
<1>3. PushPath(s, t, data, index, res)
  BY PushCases
<1>4. data \in Seq(Byte) /\ Len(data) \in Nat
  BY LenProperties DEF Piece
<1>5. n \in Nat /\ n <= room
  BY <1>2, <1>4, MaxLenFacts
<1> HIDE DEF t, next, room, n, res
<1>6. ASSUME next < index, ~TooFarAhead(s, index), res = store(t, data, index),
             NEW k \in DOMAIN res.myMap
      PROVE  k \in DOMAIN s.myMap \/ k <= next + 2 * Capacity - 2
  <2>1. index - next < Capacity
    BY <1>1, <1>6 DEF TooFarAhead, next
  <2>2. DOMAIN res.myMap = DOMAIN s.myMap \cup Span(index, n)
    BY <1>2, <1>6, StoreFields DEF n
  <2>3. k \in Span(index, n) => k <= next + 2 * Capacity - 2
    BY <1>1, <1>5, <2>1 DEF Span
  <2> QED  BY <2>2, <2>3
<1>7. ASSUME NEW m \in Nat, next + m <= Len(Stream),
             res = assemble(t, SubSeq(Stream, next + 1, next + m))
      PROVE  DOMAIN res.myMap \subseteq DOMAIN s.myMap
  BY <1>2, <1>7, AssembleFacts
<1>8. \A k \in DOMAIN res.myMap : k \in DOMAIN s.myMap \/ k <= next + 2 * Capacity - 2
  BY <1>2, <1>3, <1>6, <1>7 DEF PushPath, next
<1> QED  BY <1>8 DEF res, next

\* A push that moves the next index leaves it out of the map if there is room,
\* and signals the end if that is what there is to do.
LEMMA PushMoves ==
  ASSUME NEW s, NEW r, Right(s, r), NEW index \in Nat,
         NEW data, Piece(data, index), NEW eof
  PROVE  LET res == push_substring(s, data, index, eof)
         IN  res.nextIndex # s.nextIndex =>
               /\ res.nextIndex \in DOMAIN res.myMap => remaining_capacity(res.output) = 0
               /\ res.eof_flag /\ reassembler_empty(res) => res.output.is_eof
<1> DEFINE t    == note_eof(s, data, index, eof)
           next == s.nextIndex
           res  == push_substring(s, data, index, eof)
           Goal == /\ res.nextIndex \in DOMAIN res.myMap
                        => remaining_capacity(res.output) = 0
                   /\ res.eof_flag /\ reassembler_empty(res) => res.output.is_eof
<1>1. Right(t, r) /\ t.nextIndex = next
  BY NoteRight
<1>2. PushPath(s, t, data, index, res)
  BY PushCases
<1>3. store(t, data, index).nextIndex = next
  BY <1>1, StoreFields
<1> HIDE DEF t, next, res
<1>4. ASSUME NEW m \in Nat, next + m <= Len(Stream),
             res = assemble(t, SubSeq(Stream, next + 1, next + m))
      PROVE  Goal
  BY <1>1, <1>4, AssembleFacts
<1>5. res.nextIndex # next => Goal
  BY <1>1, <1>2, <1>3, <1>4 DEF PushPath, next
<1> QED  BY <1>5 DEF res, next

\* The eof mark is never forgotten, is not made up, and is taken with a piece
\* that brings bytes within the capacity on offer.
LEMMA PushFlag ==
  ASSUME NEW s, NEW r, Right(s, r), NEW index \in Nat,
         NEW data, Piece(data, index), NEW eof
  PROVE  LET res == push_substring(s, data, index, eof)
         IN  /\ s.eof_flag => res.eof_flag
             /\ res.eof_flag => s.eof_flag \/ eof
             /\ ( /\ eof /\ Len(data) > 0 /\ index + Len(data) <= r + Capacity
                  /\ s.nextIndex <= index + Len(data) ) => res.eof_flag
<1> DEFINE t    == note_eof(s, data, index, eof)
           next == s.nextIndex
           len  == Len(data)
           room == remaining_capacity(s.output)
           res  == push_substring(s, data, index, eof)
<1>1. /\ next \in Nat /\ room \in Nat /\ r \in Nat /\ Capacity \in Nat
      /\ next + room = r + Capacity /\ room <= Capacity /\ s.capacity = Capacity
  BY RightFields, RoomFacts DEF Right
<1>2. len \in Nat
  BY LenProperties DEF Piece
<1>3. /\ Right(t, r) /\ t.nextIndex = next
      /\ t.eof_flag = (s.eof_flag \/ (eof /\ len - next + index <= Capacity))
  BY <1>1, NoteRight, NoteFields
<1>4. PushPath(s, t, data, index, res)
  BY PushCases
<1>5. TooFarAhead(s, index) => index >= next + Capacity
  BY <1>1 DEF TooFarAhead
<1>6. store(t, data, index).eof_flag = t.eof_flag
  BY <1>3, StoreFields
<1> HIDE DEF t, next, len, room, res
<1>7. ASSUME NEW m \in Nat, next + m <= Len(Stream),
             res = assemble(t, SubSeq(Stream, next + 1, next + m))
      PROVE  res.eof_flag = t.eof_flag
  BY <1>3, <1>7, AssembleFacts
<1>8. \/ res = s /\ (TooFarAhead(s, index) \/ index + len < next)
      \/ res.eof_flag = t.eof_flag
  BY <1>4, <1>6, <1>7 DEF PushPath, next, len
<1>9. ASSUME len > 0, index + len <= r + Capacity, next <= index + len
      PROVE  /\ len - next + index <= Capacity
             /\ ~(TooFarAhead(s, index) \/ index + len < next)
  BY <1>1, <1>2, <1>5, <1>9
<1> QED  BY <1>3, <1>8, <1>9 DEF res, next, len

================================================================================
