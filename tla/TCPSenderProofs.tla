---------------------------- MODULE TCPSenderProofs ----------------------------
(***************************************************************************)
(* TCPSender, for every stream, payload size, window, timeout and initial  *)
(* number.  The invariant gives the queue of outstanding segments a layout *)
(* at: segment i starts at number at[i] and the last one ends at           *)
(* next_seqno, so that sums over the queue become differences of two       *)
(* numbers and cutting or growing it leaves the other places alone.        *)
(*   Base     types, the stream, and what next_seqno counts;               *)
(*   Timed    the timer;                                                   *)
(*   QueueAt  the layout, and what each segment carries at its place.      *)
(* They are kept by every method as a function on records (Moved, Filled,  *)
(* Answered), and SenderInv puts them together for the specification.      *)
(* AckInv adds what has been acknowledged; it needs NoWrap, because        *)
(* ack_received compares raw numbers.                                      *)
(***************************************************************************)
EXTENDS TCPSenderSpec, ClassLemmas, FunctionTheorems

-------------------------------------------------------------------------------
(* Queues of segments *)

\* The objects of class TCPSegment.
SegmentOf ==
  [seqno : Nat, ackno : Nat, ack : BOOLEAN, rst : BOOLEAN, syn : BOOLEAN,
   fin : BOOLEAN, win : Nat, payload : Seq(Byte)]

\* at[i] is the number at which segment i of the queue starts, the last entry
\* the number after the queue.
Laid(q, at) ==
  /\ at \in [1..(Len(q) + 1) -> Nat]
  /\ \A i \in 1..Len(q) : at[i + 1] = at[i] + length_in_sequence_space(q[i])

\* A segment occupies a number of sequence numbers.
LEMMA SegmentLength ==
  ASSUME NEW seg \in SegmentOf
  PROVE  /\ length_in_sequence_space(seg) \in Nat
         /\ length_in_sequence_space(seg) = Len(seg.payload) + flag(seg.syn) + flag(seg.fin)
         /\ Len(seg.payload) \in Nat /\ flag(seg.syn) \in 0..1 /\ flag(seg.fin) \in 0..1
<1>1. seg.payload \in Seq(Byte) /\ seg.syn \in BOOLEAN /\ seg.fin \in BOOLEAN
  BY DEF SegmentOf
<1>2. Len(seg.payload) \in Nat
  BY <1>1, LenProperties
<1>3. flag(seg.syn) \in 0..1 /\ flag(seg.fin) \in 0..1
  BY DEF flag
<1>4. length_in_sequence_space(seg) = Len(seg.payload) + flag(seg.syn) + flag(seg.fin)
  BY DEF length_in_sequence_space
<1> QED  BY <1>2, <1>3, <1>4

\* The sums that SpaceOf goes through.
Sums(q, n, f) ==
  f = [i \in 0..n |-> IF i = 0 THEN 0 ELSE f[i - 1] + length_in_sequence_space(q[i])]

\* They exist: the recursion of SpaceOf is well defined.
LEMMA SumsExist ==
  ASSUME NEW q, NEW m \in Nat
  PROVE  \E f : Sums(q, m, f)
<1> DEFINE T == {n \in Nat : \E f : Sums(q, n, f)}
<1>1. 0 \in T
  <2>1. Sums(q, 0, [i \in 0..0 |-> 0])
    BY DEF Sums
  <2> QED  BY <2>1
<1>2. ASSUME NEW n \in T PROVE n + 1 \in T
  <2>1. PICK f : Sums(q, n, f)
    BY <1>2
  <2> DEFINE g == [i \in 0..(n + 1) |->
                     IF i = n + 1 THEN f[n] + length_in_sequence_space(q[n + 1]) ELSE f[i]]
  <2>2. \A i \in 0..(n + 1) :
          g[i] = IF i = 0 THEN 0 ELSE g[i - 1] + length_in_sequence_space(q[i])
    BY <2>1 DEF Sums
  <2>3. Sums(q, n + 1, g)
    BY <2>2 DEF Sums
  <2> QED  BY <2>3
<1> HIDE DEF T
<1>3. T = Nat
  BY <1>1, <1>2, NatSetInduction DEF T
<1> QED  BY <1>3 DEF T

\* SpaceOf is the last of the sums.
LEMMA SpaceIsSum ==
  ASSUME NEW q, Len(q) \in Nat
  PROVE  \E f : Sums(q, Len(q), f) /\ SpaceOf(q) = f[Len(q)]
<1> DEFINE f == CHOOSE f : Sums(q, Len(q), f)
<1>1. Sums(q, Len(q), f)
  BY SumsExist
<1>2. SpaceOf(q) = f[Len(q)]
  BY DEF SpaceOf, Sums
<1> QED  BY <1>1, <1>2

\* A queue that is laid out occupies what lies between its ends.
LEMMA LaidSpace ==
  ASSUME NEW q \in Seq(SegmentOf), NEW at, Laid(q, at)
  PROVE  /\ SpaceOf(q) = at[Len(q) + 1] - at[1]
         /\ at[1] \in Nat /\ at[Len(q) + 1] \in Nat
<1>1. PICK f : Sums(q, Len(q), f) /\ SpaceOf(q) = f[Len(q)]
  BY SpaceIsSum, LenProperties
<1> DEFINE n == Len(q)
           T == {i \in Nat : i <= n => f[i] = at[i + 1] - at[1]}
<1>2. n \in Nat /\ at \in [1..(n + 1) -> Nat]
  BY LenProperties DEF Laid
<1>3. 0 \in T
  <2>1. f[0] = 0
    BY <1>1, <1>2 DEF Sums
  <2> QED  BY <1>2, <2>1
<1>4. ASSUME NEW i \in T PROVE i + 1 \in T
  <2> SUFFICES ASSUME i + 1 <= n PROVE f[i + 1] = at[i + 2] - at[1]
    BY <1>2
  <2>1. f[i] = at[i + 1] - at[1]
    BY <1>2, <1>4
  <2>2. i + 1 \in 0..n /\ i + 1 # 0 /\ (i + 1) - 1 = i /\ i + 1 \in 1..n
    BY <1>2
  <2>3. f[i + 1] = f[i] + length_in_sequence_space(q[i + 1])
    BY <1>1, <2>2 DEF Sums
  <2>4. at[(i + 1) + 1] = at[i + 1] + length_in_sequence_space(q[i + 1])
    BY <2>2 DEF Laid
  <2>5. length_in_sequence_space(q[i + 1]) \in Nat
    BY <2>2, SegmentLength
  <2>6. (i + 1) + 1 = i + 2 /\ at[i + 1] \in Nat /\ at[1] \in Nat /\ at[i + 2] \in Nat
    BY <1>2, <2>2
  <2> QED  BY <2>1, <2>3, <2>4, <2>5, <2>6
<1> HIDE DEF T
<1>5. n \in T
  BY <1>2, <1>3, <1>4, NatSetInduction DEF T
<1> QED  BY <1>1, <1>2, <1>5 DEF T

\* Every queue can be laid out from number 0 on.
LEMMA SomeLaid ==
  ASSUME NEW q \in Seq(SegmentOf)
  PROVE  \E at : Laid(q, at)
<1>1. Len(q) \in Nat
  BY LenProperties
<1>2. PICK f : Sums(q, Len(q), f)
  BY <1>1, SumsExist
<1> DEFINE n == Len(q)
           T == {i \in Nat : i <= n => f[i] \in Nat}
           at == [i \in 1..(n + 1) |-> f[i - 1]]
<1>3. 0 \in T
  BY <1>1, <1>2 DEF Sums
<1>4. ASSUME NEW i \in T PROVE i + 1 \in T
  <2> SUFFICES ASSUME i + 1 <= n PROVE f[i + 1] \in Nat
    BY <1>1
  <2>1. f[i] \in Nat /\ i + 1 \in 0..n /\ i + 1 # 0 /\ (i + 1) - 1 = i /\ i + 1 \in 1..n
    BY <1>1, <1>4
  <2>2. f[i + 1] = f[i] + length_in_sequence_space(q[i + 1])
    BY <1>2, <2>1 DEF Sums
  <2>3. length_in_sequence_space(q[i + 1]) \in Nat
    BY <2>1, SegmentLength
  <2> QED  BY <2>1, <2>2, <2>3
<1> HIDE DEF T
<1>5. \A i \in 0..n : f[i] \in Nat
  <2>1. T = Nat
    BY <1>3, <1>4, NatSetInduction DEF T
  <2> QED  BY <1>1, <2>1 DEF T
<1>6. at \in [1..(n + 1) -> Nat]
  BY <1>1, <1>5
<1>7. ASSUME NEW i \in 1..n PROVE at[i + 1] = at[i] + length_in_sequence_space(q[i])
  <2>1. i \in 0..n /\ i # 0 /\ (i + 1) - 1 = i /\ i \in 1..(n + 1) /\ i + 1 \in 1..(n + 1)
    BY <1>1
  <2>2. f[i] = f[i - 1] + length_in_sequence_space(q[i])
    BY <1>2, <2>1 DEF Sums
  <2> QED  BY <2>1, <2>2
<1> QED  BY <1>6, <1>7 DEF Laid

\* A queue without its first k segments, and those segments.
Later(at, k, n) == [i \in 1..(n - k + 1) |-> at[i + k]]
Earlier(at, k) == [i \in 1..(k + 1) |-> at[i]]

\* Cutting a queue.
LEMMA LaidCut ==
  ASSUME NEW q \in Seq(SegmentOf), NEW at, Laid(q, at), NEW k \in 0..Len(q)
  PROVE  /\ SubSeq(q, k + 1, Len(q)) \in Seq(SegmentOf)
         /\ Len(SubSeq(q, k + 1, Len(q))) = Len(q) - k
         /\ \A i \in 1..(Len(q) - k) : SubSeq(q, k + 1, Len(q))[i] = q[i + k]
         /\ Laid(SubSeq(q, k + 1, Len(q)), Later(at, k, Len(q)))
         /\ SpaceOf(SubSeq(q, k + 1, Len(q))) = at[Len(q) + 1] - at[k + 1]
         /\ SpaceOf(SubSeq(q, 1, k)) = at[k + 1] - at[1]
         /\ at[k + 1] \in Nat
<1> DEFINE n == Len(q)
           s == SubSeq(q, k + 1, n)
           p == SubSeq(q, 1, k)
           u == Later(at, k, n)
           v == Earlier(at, k)
<1>1. /\ n \in Nat /\ at \in [1..(n + 1) -> Nat]
      /\ \A i \in 1..n : at[i + 1] = at[i] + length_in_sequence_space(q[i])
  BY LenProperties DEF Laid
<1>2. /\ k + 1 \in Nat \ {0} /\ n \in Nat /\ k + 1 <= n + 1 /\ n <= n /\ n - (k + 1) + 1 = n - k
      /\ 1 \in Nat \ {0} /\ k \in Nat /\ 1 <= k + 1 /\ k <= n /\ k - 1 + 1 = k
  BY <1>1
<1>3. s \in Seq(SegmentOf) /\ Len(s) = n - k /\ \A i \in 1..(n - k) : s[i] = q[(k + 1) + i - 1]
  BY <1>2, SubSeqFacts
<1>4. p \in Seq(SegmentOf) /\ Len(p) = k /\ \A i \in 1..k : p[i] = q[1 + i - 1]
  BY <1>2, SubSeqFacts
<1>5. \A i \in 1..(n - k) : s[i] = q[i + k]
  <2>1. ASSUME NEW i \in 1..(n - k) PROVE s[i] = q[i + k]
    <3>1. (k + 1) + i - 1 = i + k
      BY <1>2
    <3> QED  BY <1>3, <3>1
  <2> QED  BY <2>1
<1>6. \A i \in 1..k : p[i] = q[i]
  <2>1. ASSUME NEW i \in 1..k PROVE p[i] = q[i]
    <3>1. 1 + i - 1 = i
      BY <1>2
    <3> QED  BY <1>4, <3>1
  <2> QED  BY <2>1
<1> HIDE DEF s, p
<1>7. Laid(s, u)
  <2>1. u \in [1..(Len(s) + 1) -> Nat]
    BY <1>1, <1>2, <1>3 DEF Later
  <2>2. ASSUME NEW i \in 1..Len(s) PROVE u[i + 1] = u[i] + length_in_sequence_space(s[i])
    <3>1. i + k \in 1..n /\ i \in 1..(n - k + 1) /\ i + 1 \in 1..(n - k + 1) /\ i \in 1..(n - k)
          /\ (i + 1) + k = (i + k) + 1
      BY <1>2, <1>3
    <3>2. u[i + 1] = at[(i + k) + 1] /\ u[i] = at[i + k] /\ s[i] = q[i + k]
      BY <1>5, <3>1 DEF Later
    <3> QED  BY <1>1, <3>1, <3>2
  <2> QED  BY <2>1, <2>2 DEF Laid
<1>8. Laid(p, v)
  <2>1. v \in [1..(Len(p) + 1) -> Nat]
    BY <1>1, <1>2, <1>4 DEF Earlier
  <2>2. ASSUME NEW i \in 1..Len(p) PROVE v[i + 1] = v[i] + length_in_sequence_space(p[i])
    <3>1. i \in 1..n /\ i \in 1..(k + 1) /\ i + 1 \in 1..(k + 1) /\ i \in 1..k
      BY <1>2, <1>4
    <3>2. v[i + 1] = at[i + 1] /\ v[i] = at[i] /\ p[i] = q[i]
      BY <1>6, <3>1 DEF Earlier
    <3> QED  BY <1>1, <3>1, <3>2
  <2> QED  BY <2>1, <2>2 DEF Laid
<1>9. SpaceOf(s) = at[n + 1] - at[k + 1]
  <2>1. SpaceOf(s) = u[Len(s) + 1] - u[1]
    BY <1>3, <1>7, LaidSpace
  <2>2. Len(s) + 1 \in 1..(n - k + 1) /\ 1 \in 1..(n - k + 1)
        /\ (Len(s) + 1) + k = n + 1 /\ 1 + k = k + 1
    BY <1>2, <1>3
  <2>3. u[Len(s) + 1] = at[n + 1] /\ u[1] = at[k + 1]
    BY <2>2 DEF Later
  <2> QED  BY <2>1, <2>3
<1>10. SpaceOf(p) = at[k + 1] - at[1]
  <2>1. SpaceOf(p) = v[Len(p) + 1] - v[1]
    BY <1>4, <1>8, LaidSpace
  <2>2. k + 1 \in 1..(k + 1) /\ 1 \in 1..(k + 1)
    BY <1>2
  <2> QED  BY <1>4, <2>1, <2>2 DEF Earlier
<1>11. at[k + 1] \in Nat
  BY <1>1, <1>2
<1> QED  BY <1>3, <1>5, <1>7, <1>9, <1>10, <1>11 DEF s, p

\* Two layouts one after the other.
Joined(at, n, bt, m) == [i \in 1..(n + m + 1) |-> IF i <= n + 1 THEN at[i] ELSE bt[i - n]]

\* Joining two queues.
LEMMA LaidJoin ==
  ASSUME NEW q \in Seq(SegmentOf), NEW at, Laid(q, at),
         NEW p \in Seq(SegmentOf), NEW bt, Laid(p, bt), bt[1] = at[Len(q) + 1]
  PROVE  /\ q \o p \in Seq(SegmentOf) /\ Len(q \o p) = Len(q) + Len(p)
         /\ Len(q) \in Nat /\ Len(p) \in Nat
         /\ \A i \in 1..Len(q) : (q \o p)[i] = q[i]
         /\ \A i \in 1..Len(p) : (q \o p)[Len(q) + i] = p[i]
         /\ Laid(q \o p, Joined(at, Len(q), bt, Len(p)))
<1> DEFINE n == Len(q)
           m == Len(p)
           s == q \o p
           u == Joined(at, n, bt, m)
<1>1. /\ n \in Nat /\ at \in [1..(n + 1) -> Nat]
      /\ \A i \in 1..n : at[i + 1] = at[i] + length_in_sequence_space(q[i])
  BY LenProperties DEF Laid
<1>2. /\ m \in Nat /\ bt \in [1..(m + 1) -> Nat]
      /\ \A i \in 1..m : bt[i + 1] = bt[i] + length_in_sequence_space(p[i])
  BY LenProperties DEF Laid
<1>3. s \in Seq(SegmentOf) /\ Len(s) = n + m
  BY ConcatProperties
<1>4. \A i \in 1..n : s[i] = q[i]
  BY <1>1, <1>2, ConcatProperties
<1>5. ASSUME NEW i \in 1..m PROVE s[n + i] = p[i]
  <2>1. n + i \in 1..(n + m) /\ n + i > n /\ (n + i) - n = i
    BY <1>1, <1>2
  <2> QED  BY <1>3, <2>1, ConcatProperties
<1> HIDE DEF s
<1>6. u \in [1..(n + m + 1) -> Nat]
  BY <1>1, <1>2 DEF Joined
<1>7. ASSUME NEW i \in 1..(n + m) PROVE u[i + 1] = u[i] + length_in_sequence_space(s[i])
  <2>1. i \in 1..(n + m + 1) /\ i + 1 \in 1..(n + m + 1)
    BY <1>1, <1>2
  <2>2. CASE i <= n
    <3>1. i \in 1..n /\ i <= n + 1 /\ i + 1 <= n + 1
      BY <1>1, <2>2
    <3>2. u[i] = at[i] /\ u[i + 1] = at[i + 1] /\ s[i] = q[i]
      BY <1>4, <2>1, <3>1 DEF Joined
    <3> QED  BY <1>1, <3>1, <3>2
  <2>3. CASE ~(i <= n)
    <3> DEFINE j == i - n
    <3>1. j \in 1..m /\ n + j = i /\ ~(i + 1 <= n + 1) /\ (i + 1) - n = j + 1
      BY <1>1, <1>2, <2>3
    <3>2. u[i] = bt[j]
      BY <1>1, <2>1, <2>3, <3>1 DEF Joined
    <3>3. u[i + 1] = bt[j + 1]
      BY <1>1, <2>1, <2>3, <3>1 DEF Joined
    <3>4. s[i] = p[j]
      BY <1>5, <3>1
    <3> HIDE DEF j
    <3> QED  BY <1>2, <3>1, <3>2, <3>3, <3>4
  <2> QED  BY <2>2, <2>3
<1>8. Laid(s, u)
  BY <1>3, <1>6, <1>7 DEF Laid
<1> QED  BY <1>1, <1>2, <1>3, <1>4, <1>5, <1>8 DEF s

-------------------------------------------------------------------------------
(* The sender *)

\* The constants, in the form the proofs use them.
LEMMA SenderNumbers ==
  /\ Mod \in Nat /\ Mod > 1 /\ Isn \in Word /\ Isn \in Nat
  /\ RetxTimeout \in Nat /\ RetxTimeout > 0
  /\ MAX_PAYLOAD_SIZE \in Nat /\ MAX_PAYLOAD_SIZE > 0
  /\ Stream \in Seq(Byte) /\ Len(Stream) \in Nat
  /\ Capacity \in Nat /\ Capacity > 0
  /\ MaxWindow \in Nat
BY Widths, StreamAssumption, SenderAssumption, PayloadAssumption, LenProperties DEF Word

\* The objects of the classes.
TimerOf == [rto : Nat, time : Nat, isrunning : BOOLEAN]
SenderOf ==
  [isn : {Isn}, segments_out : Seq(SegmentOf),
   initial_retransmission_timeout : {RetxTimeout},
   stream : ByteStreamOf(Byte), next_seqno : Nat, outSegments : Seq(SegmentOf),
   bytes_in_flight : Int, ackGot : Nat, true_window_size : Nat,
   consecutive_retransmission : Nat, fin_flag : BOOLEAN, syn_flag : BOOLEAN,
   timer : TimerOf]

\* The stream holds what the application has written and nobody has sent, and
\* was ended, if at all, after the last byte.
StreamRight(bs) ==
  /\ OutRight(bs, bs.read_count, bs.write_count)
  /\ bs.is_eof = TRUE => bs.write_count = Len(Stream)

\* The numbers used are those of the SYN, the bytes sent and the FIN.
Counted(s) ==
  /\ s.next_seqno = flag(s.syn_flag) + s.stream.read_count + flag(s.fin_flag)
  /\ s.syn_flag = FALSE => s.stream.read_count = 0 /\ s.fin_flag = FALSE

\* Both, for every object.
Base(s) == s \in SenderOf /\ StreamRight(s.stream) /\ Counted(s)

\* A segment that starts at number p: the SYN at 0, then the bytes, then the FIN.
Carries(seg, p, ended) ==
  /\ seg.seqno = wrap(p, Isn)
  /\ seg.syn = TRUE <=> p = 0
  /\ seg.syn = FALSE => /\ p + Len(seg.payload) - 1 <= Len(Stream)
                        /\ seg.payload = SubSeq(Stream, p, p + Len(seg.payload) - 1)
  /\ seg.fin = TRUE => p + Len(seg.payload) = Len(Stream) + 1 /\ ended = TRUE
  /\ Len(seg.payload) <= MAX_PAYLOAD_SIZE

\* One that occupies no number has the number 0, whatever p is.
Placed(seg, p, ended) ==
  \/ length_in_sequence_space(seg) > 0 /\ Carries(seg, p, ended)
  \/ length_in_sequence_space(seg) = 0 /\ seg.seqno = 0

\* The outstanding segments follow each other up to next_seqno.
QueueAt(s, at) ==
  /\ Laid(s.outSegments, at)
  /\ at[Len(s.outSegments) + 1] = s.next_seqno
  /\ s.bytes_in_flight = s.next_seqno - at[1]
  /\ \A i \in 1..Len(s.outSegments) : Placed(s.outSegments[i], at[i], s.stream.is_eof)

\* The timer runs while something is outstanding, has not passed its timeout,
\* and has been backed off as often as counted.
Timed(s) ==
  /\ s.outSegments # <<>> => s.timer.isrunning = TRUE
  /\ s.timer.time < s.timer.rto
  /\ s.timer.rto = RetxTimeout * 2^s.consecutive_retransmission

\* What the first of these says about the fields.
LEMMA BaseFields ==
  ASSUME NEW s, Base(s)
  PROVE  /\ s.isn = Isn /\ s.initial_retransmission_timeout = RetxTimeout
         /\ s.segments_out \in Seq(SegmentOf) /\ s.outSegments \in Seq(SegmentOf)
         /\ Len(s.outSegments) \in Nat
         /\ s.next_seqno \in Nat /\ s.bytes_in_flight \in Int /\ s.ackGot \in Nat
         /\ s.true_window_size \in Nat /\ s.consecutive_retransmission \in Nat
         /\ s.fin_flag \in BOOLEAN /\ s.syn_flag \in BOOLEAN
         /\ s.stream.is_eof \in BOOLEAN
         /\ s.stream.read_count \in Nat /\ s.stream.write_count \in Nat
         /\ s.stream.read_count <= s.stream.write_count
         /\ s.stream.write_count <= Len(Stream)
         /\ s.stream \in ByteStreamOf(Byte)
         /\ s.stream.buf = SubSeq(Stream, s.stream.read_count + 1, s.stream.write_count)
         /\ Len(s.stream.buf) = s.stream.write_count - s.stream.read_count
         /\ s.timer \in TimerOf
<1>1. s \in SenderOf /\ OutRight(s.stream, s.stream.read_count, s.stream.write_count)
  BY DEF Base, StreamRight
<1>2. /\ s.isn = Isn /\ s.initial_retransmission_timeout = RetxTimeout
      /\ s.segments_out \in Seq(SegmentOf) /\ s.outSegments \in Seq(SegmentOf)
      /\ s.next_seqno \in Nat /\ s.bytes_in_flight \in Int /\ s.ackGot \in Nat
      /\ s.true_window_size \in Nat /\ s.consecutive_retransmission \in Nat
      /\ s.fin_flag \in BOOLEAN /\ s.syn_flag \in BOOLEAN
      /\ s.stream \in ByteStreamOf(Byte) /\ s.timer \in TimerOf
  BY <1>1 DEF SenderOf
<1>3. s.stream.is_eof \in BOOLEAN /\ Len(s.stream.buf) \in Nat
  BY <1>2, StreamFields
<1>4. /\ s.stream.read_count \in Nat /\ s.stream.write_count \in Nat
      /\ s.stream.read_count <= s.stream.write_count
      /\ s.stream.write_count <= Len(Stream)
      /\ s.stream.buf = SubSeq(Stream, s.stream.read_count + 1, s.stream.write_count)
  BY <1>1 DEF OutRight
<1>5. Len(s.stream.buf) = s.stream.write_count - s.stream.read_count
  <2>1. 0 \in 0..buffer_size(s.stream)
    BY <1>3 DEF buffer_size
  <2> QED  BY <1>1, <2>1, OutReads
<1>6. Len(s.outSegments) \in Nat
  BY <1>2, LenProperties
<1> QED  BY <1>2, <1>3, <1>4, <1>5, <1>6

-------------------------------------------------------------------------------
(* The segments of one fill *)

\* How n bytes are cut into c pieces of at most MAX_PAYLOAD_SIZE.
Cut(n, c, i, from, to) ==
  /\ from \in Nat /\ to \in Nat /\ from <= to /\ to <= n
  /\ to - from <= MAX_PAYLOAD_SIZE
  /\ i < c => to = i * MAX_PAYLOAD_SIZE /\ to > from
  /\ i = c => to = n
  /\ n > 0 => to > from
  /\ i = 1 => from = 0

\* Piece i.
LEMMA CutFacts ==
  ASSUME NEW n \in Nat, NEW c \in Nat, n = 0 => c <= 1,
         n > 0 => c = (n + MAX_PAYLOAD_SIZE - 1) \div MAX_PAYLOAD_SIZE,
         NEW i \in 1..c
  PROVE  Cut(n, c, i, (i - 1) * MAX_PAYLOAD_SIZE,
             Least((i - 1) * MAX_PAYLOAD_SIZE + MAX_PAYLOAD_SIZE, n))
<1> DEFINE M == MAX_PAYLOAD_SIZE
           from == (i - 1) * M
           to == Least(from + M, n)
<1>1. M \in Nat /\ M > 0
  BY SenderNumbers
<1>2. from \in Nat /\ from + M = i * M /\ (i = 1 => from = 0)
  BY <1>1
<1>3. CASE n = 0
  <2>1. i = 1 /\ c = 1
    BY <1>3
  <2>2. to = 0
    BY <1>1, <1>2, <1>3, <2>1 DEF Least
  <2> QED  BY <1>1, <1>2, <1>3, <2>1, <2>2 DEF Cut
<1>4. CASE n > 0
  <2> DEFINE a == n + M - 1
  <2>1. a \in Int /\ a = M * (a \div M) + (a % M) /\ a % M \in 0..(M - 1)
    BY <1>1, <1>4, ModFacts
  <2>2. a \div M = c
    BY <1>4
  <2>3. a = M * c + (a % M)
    BY <2>1, <2>2
  <2>4. (c - 1) * M = M * c - M /\ c * M = M * c
    BY <1>1
  <2>5. (c - 1) * M < n /\ n <= c * M
    BY <1>1, <1>4, <2>1, <2>3, <2>4
  <2> HIDE DEF a
  <2>6. i < c => from + M <= (c - 1) * M
    <3>1. ASSUME i < c PROVE i * M <= (c - 1) * M
      <4>1. (c - 1) - i \in Nat
        BY <3>1
      <4>2. ((c - 1) - i) * M \in Nat
        BY <1>1, <4>1
      <4>3. (c - 1) * M = i * M + ((c - 1) - i) * M
        BY <1>1
      <4> QED  BY <1>1, <4>2, <4>3
    <3> QED  BY <1>2, <3>1
  <2>7. (c - 1) * M \in Int /\ c * M \in Int /\ i * M \in Int
    BY <1>1
  <2>8. i = c => from = (c - 1) * M
    OBVIOUS
  <2> HIDE DEF from
  <2>9. i < c => to = from + M /\ from + M <= n
    BY <1>1, <1>2, <1>4, <2>5, <2>6, <2>7 DEF Least
  <2>10. i = c => to = n /\ from < n /\ n - from <= M
    BY <1>1, <1>2, <1>4, <2>5, <2>7, <2>8 DEF Least
  <2>11. i < c \/ i = c
    OBVIOUS
  <2>12. Cut(n, c, i, from, to)
    <3>1. CASE i < c
      BY <1>1, <1>2, <2>9, <3>1 DEF Cut
    <3>2. CASE i = c
      BY <1>1, <1>2, <2>10, <3>2 DEF Cut
    <3> QED  BY <2>11, <3>1, <3>2
  <2> QED  BY <2>12 DEF from
<1> QED  BY <1>3, <1>4

\* What a fill sends, in numbers.
FillFacts(s, n, c, fin) ==
  /\ remain(s) \in 0..(Mod - 1)
  /\ n \in Nat /\ n <= remain(s) /\ n <= Len(s.stream.buf)
  /\ fin \in BOOLEAN
  /\ fin = TRUE => /\ s.stream.is_eof = TRUE /\ n = Len(s.stream.buf)
                   /\ n + 1 <= remain(s)
  /\ c \in Nat
  /\ n = 0 => c = flag(fin)
  /\ n > 0 => c = (n + MAX_PAYLOAD_SIZE - 1) \div MAX_PAYLOAD_SIZE /\ c > 0

\* They are so for every object.
LEMMA FillNumbers ==
  ASSUME NEW s, Base(s)
  PROVE  FillFacts(s, payload_len(s), segment_count(s), fills_fin(s))
<1> DEFINE n == payload_len(s)
           c == segment_count(s)
           fin == fills_fin(s)
           M == MAX_PAYLOAD_SIZE
           L == Len(s.stream.buf)
           w == usable_window(s) - (wrap(s.next_seqno, s.isn) - s.ackGot)
<1>1. /\ s.isn = Isn /\ s.next_seqno \in Nat /\ s.ackGot \in Nat
      /\ s.true_window_size \in Nat /\ s.stream.is_eof \in BOOLEAN
      /\ s.stream \in ByteStreamOf(Byte)
  BY BaseFields
<1>2. L \in Nat
  BY <1>1, StreamFields
<1>3. M \in Nat /\ M > 0
  BY SenderNumbers
<1>4. remain(s) \in 0..(Mod - 1)
  <2>1. wrap(s.next_seqno, Isn) \in Word
    <3>1. s.next_seqno \in Int
      BY <1>1
    <3> QED  BY <3>1, SenderNumbers, WrapFacts
  <2>2. wrap(s.next_seqno, s.isn) \in Int
    BY <1>1, <2>1, SenderNumbers DEF Word
  <2>3. usable_window(s) \in Int
    BY <1>1 DEF usable_window
  <2>4. w \in Int
    BY <1>1, <2>2, <2>3
  <2> HIDE DEF w
  <2>5. w % Mod \in 0..(Mod - 1)
    BY <2>4, SenderNumbers, ModFacts
  <2> QED  BY <2>5 DEF remain, w
<1>5. remain(s) \in Nat
  BY <1>4, SenderNumbers
<1>6. n \in Nat /\ n <= remain(s) /\ n <= L /\ (remain(s) > L => n = L)
  BY <1>2, <1>5 DEF payload_len, buffer_size, Least
<1>7. /\ fin \in BOOLEAN
      /\ fin = TRUE => s.stream.is_eof = TRUE /\ remain(s) > L
  BY <1>1 DEF fills_fin, buffer_size
<1> HIDE DEF n, fin, L
<1>8. fin = TRUE => s.stream.is_eof = TRUE /\ n = L /\ n + 1 <= remain(s)
  BY <1>2, <1>5, <1>6, <1>7
<1>9. flag(fin) \in Nat
  BY DEF flag
<1>10. CASE n = 0
  <2>1. c = flag(fin)
    BY <1>10 DEF segment_count, n, fin
  <2> HIDE DEF c
  <2> QED  BY <1>4, <1>6, <1>7, <1>8, <1>9, <1>10, <2>1 DEF FillFacts, c, n, fin, L
<1>11. CASE n > 0
  <2> DEFINE a == n + M - 1
  <2>1. c = a \div M
    BY <1>6, <1>11 DEF segment_count, n
  <2>2. a \in Int /\ a \div M \in Int /\ a = M * (a \div M) + (a % M) /\ a % M \in 0..(M - 1)
    BY <1>3, <1>6, ModFacts
  <2> HIDE DEF c
  <2>3. c \in Int /\ a = M * c + (a % M)
    BY <2>1, <2>2
  <2>4. M * c > 0
    BY <1>3, <1>6, <1>11, <2>2, <2>3
  <2>5. c > 0
    BY <1>3, <2>3, <2>4
  <2>6. c \in Nat
    BY <2>3, <2>5
  <2> QED  BY <1>4, <1>6, <1>7, <1>8, <1>11, <2>1, <2>5, <2>6
           DEF FillFacts, c, n, fin, L
<1> QED  BY <1>6, <1>10, <1>11

\* What segment i of a fill is: the bytes from from to to, and the FIN at the end.
WindowPiece(s, seg, from, to, last) ==
  /\ seg \in SegmentOf /\ seg.syn = FALSE
  /\ seg.seqno = wrap(s.next_seqno + from, Isn)
  /\ Len(seg.payload) = to - from
  /\ seg.payload = SubSeq(Stream, s.stream.read_count + from + 1, s.stream.read_count + to)
  /\ s.stream.read_count + to <= Len(Stream)
  /\ seg.fin = (fills_fin(s) /\ last)
  /\ length_in_sequence_space(seg) = (to - from) + flag(fills_fin(s) /\ last)

\* Segment i of a fill.
LEMMA WindowSegmentFacts ==
  ASSUME NEW s, Base(s), NEW i \in 1..segment_count(s)
  PROVE  LET from == (i - 1) * MAX_PAYLOAD_SIZE
             to   == Least(from + MAX_PAYLOAD_SIZE, payload_len(s))
         IN  /\ Cut(payload_len(s), segment_count(s), i, from, to)
             /\ WindowPiece(s, window_segment(s, i), from, to, i = segment_count(s))
<1> DEFINE M == MAX_PAYLOAD_SIZE
           n == payload_len(s)
           c == segment_count(s)
           from == (i - 1) * M
           to == Least(from + M, n)
           seg == window_segment(s, i)
           r == s.stream.read_count
           L == Len(s.stream.buf)
           pay == SubSeq(s.stream.buf, from + 1, to)
           fin == fills_fin(s) /\ i = c
<1>1. FillFacts(s, n, c, fills_fin(s))
  BY FillNumbers
<1>2. n \in Nat /\ c \in Nat /\ n <= L /\ fills_fin(s) \in BOOLEAN
      /\ (n = 0 => c = flag(fills_fin(s))) /\ (n > 0 => c = (n + M - 1) \div M)
  BY <1>1 DEF FillFacts
<1>3. n = 0 => c <= 1
  BY <1>2 DEF flag
<1>4. Cut(n, c, i, from, to)
  BY <1>2, <1>3, CutFacts
<1> DEFINE wc == s.stream.write_count
<1>5. /\ s.stream.buf = SubSeq(Stream, r + 1, wc)
      /\ s.isn = Isn /\ s.next_seqno \in Nat
  BY BaseFields
<1>6. from \in Nat /\ to \in Nat /\ from <= to /\ to <= n
  BY <1>4 DEF Cut
<1>7. r \in Nat /\ wc \in Nat /\ L = wc - r /\ wc <= Len(Stream) /\ r <= wc
  BY BaseFields
<1> HIDE DEF n, c, from, to, r, L, wc
<1>8. /\ SubSeq(Stream, r + 1, r + L) \in Seq(Byte)
      /\ SubSeq(SubSeq(Stream, r + 1, r + L), from + 1, to)
           = SubSeq(Stream, r + from + 1, r + to)
      /\ r + L = wc /\ L \in Nat /\ r + to <= Len(Stream)
  <2>1. L \in Nat /\ r + L = wc /\ r + L <= Len(Stream)
    BY <1>7, SenderNumbers
  <2>2. to \in 0..L /\ from \in 0..to /\ r + to <= Len(Stream)
    BY <1>2, <1>6, <1>7, <2>1, SenderNumbers
  <2>3. Stream \in Seq(Byte)
    BY SenderNumbers
  <2> QED  BY <1>7, <2>1, <2>2, <2>3, PieceOfPiece
<1>9. pay = SubSeq(Stream, r + from + 1, r + to)
  BY <1>5, <1>8
<1>10. pay \in Seq(Byte) /\ Len(pay) = to - from
  <2>1. /\ r + from + 1 \in Nat \ {0} /\ r + to \in Nat /\ r + from + 1 <= (r + to) + 1
        /\ r + to <= Len(Stream) /\ (r + to) - (r + from + 1) + 1 = to - from
    <3>1. r + to <= Len(Stream) /\ Len(Stream) \in Nat
      BY <1>8, SenderNumbers
    <3> QED  BY <1>6, <1>7, <3>1
  <2>2. Stream \in Seq(Byte)
    BY SenderNumbers
  <2>3. /\ SubSeq(Stream, r + from + 1, r + to) \in Seq(Byte)
        /\ Len(SubSeq(Stream, r + from + 1, r + to)) = (r + to) - (r + from + 1) + 1
    BY <2>1, <2>2, SubSeqFacts
  <2> QED  BY <1>9, <2>1, <2>3
<1>11. seg = [TCPSegmentNew EXCEPT !.seqno = wrap(s.next_seqno + from, s.isn),
                                   !.payload = pay, !.fin = fin]
  BY DEF window_segment, from, to, n, c
<1> HIDE DEF pay, seg
<1>12. fin \in BOOLEAN
  OBVIOUS
<1> HIDE DEF fin
<1>13. wrap(s.next_seqno + from, Isn) \in Nat
  <2>1. s.next_seqno + from \in Int
    BY <1>5, <1>6
  <2>2. wrap(s.next_seqno + from, Isn) \in Word
    BY <2>1, SenderNumbers, WrapFacts
  <2> QED  BY <2>2, SenderNumbers DEF Word
<1>14. /\ seg \in SegmentOf /\ seg.syn = FALSE /\ seg.fin = fin /\ seg.payload = pay
       /\ seg.seqno = wrap(s.next_seqno + from, Isn)
  BY <1>5, <1>10, <1>11, <1>12, <1>13 DEF SegmentOf, TCPSegmentNew
<1>15. length_in_sequence_space(seg) = (to - from) + flag(fin)
  <2>1. flag(seg.syn) = 0 /\ flag(fin) \in Nat
    BY <1>14 DEF flag
  <2>2. length_in_sequence_space(seg) = (to - from) + flag(seg.syn) + flag(fin)
    BY <1>10, <1>14 DEF length_in_sequence_space
  <2> QED  BY <1>6, <2>1, <2>2
<1>16. WindowPiece(s, seg, from, to, i = c)
  BY <1>8, <1>9, <1>10, <1>14, <1>15 DEF WindowPiece, fin, r
<1> QED  BY <1>4, <1>16 DEF seg, from, to, n, c

\* Where the segments of a fill start.
FillLayout(s) ==
  [i \in 1..(segment_count(s) + 1) |->
     IF i <= segment_count(s) THEN s.next_seqno + (i - 1) * MAX_PAYLOAD_SIZE
     ELSE s.next_seqno + payload_len(s) + flag(fills_fin(s))]

\* The segments of a fill follow each other, and each is where it belongs.
LEMMA WindowLaid ==
  ASSUME NEW s, Base(s), s.syn_flag = TRUE, s.fin_flag = FALSE
  PROVE  /\ WindowSegments(s) \in Seq(SegmentOf) /\ Len(WindowSegments(s)) = segment_count(s)
         /\ Laid(WindowSegments(s), FillLayout(s))
         /\ FillLayout(s)[1] = s.next_seqno
         /\ FillLayout(s)[segment_count(s) + 1]
              = s.next_seqno + payload_len(s) + flag(fills_fin(s))
         /\ \A i \in 1..segment_count(s) :
              Placed(WindowSegments(s)[i], FillLayout(s)[i], s.stream.is_eof)
<1> DEFINE M == MAX_PAYLOAD_SIZE
           n == payload_len(s)
           c == segment_count(s)
           fin == fills_fin(s)
           next == s.next_seqno
           r == s.stream.read_count
           at == FillLayout(s)
           q == WindowSegments(s)
<1>1. FillFacts(s, n, c, fin)
  BY FillNumbers
<1>2. /\ n \in Nat /\ c \in Nat /\ fin \in BOOLEAN /\ (n = 0 => c = flag(fin))
      /\ (n > 0 => c > 0)
  BY <1>1 DEF FillFacts
<1>3. flag(fin) \in 0..1 /\ (fin = TRUE <=> flag(fin) = 1)
  BY <1>2 DEF flag
<1>4. next \in Nat /\ r \in Nat /\ next = 1 + r
  <2>1. next \in Nat /\ r \in Nat
    BY BaseFields
  <2>2. next = flag(TRUE) + r + flag(FALSE)
    BY DEF Base, Counted
  <2> QED  BY <2>1, <2>2 DEF flag
<1>5. M \in Nat /\ M > 0
  BY SenderNumbers
<1> DEFINE From(i) == (i - 1) * M
           To(i) == Least(From(i) + M, n)
<1>6. ASSUME NEW i \in 1..c
      PROVE  /\ Cut(n, c, i, From(i), To(i))
             /\ WindowPiece(s, q[i], From(i), To(i), i = c)
  BY <1>6, WindowSegmentFacts DEF WindowSegments
<1>7. q \in Seq(SegmentOf) /\ Len(q) = c
  <2>1. q = [i \in 1..c |-> window_segment(s, i)]
    BY DEF WindowSegments
  <2>2. \A i \in 1..c : q[i] \in SegmentOf
    BY <1>6 DEF WindowPiece
  <2>3. q \in [1..c -> SegmentOf]
    BY <2>1, <2>2
  <2> QED  BY <1>2, <2>3, LenProperties
<1> HIDE DEF n, c, fin, next, r, q
<1>8. /\ at = [i \in 1..(c + 1) |-> IF i <= c THEN next + From(i) ELSE next + n + flag(fin)]
  BY DEF FillLayout, n, c, fin, next
<1> HIDE DEF at
<1>9. at[c + 1] = next + n + flag(fin) /\ at[c + 1] \in Nat
  BY <1>2, <1>3, <1>4, <1>8
<1>10. ASSUME NEW i \in 1..c PROVE at[i] = next + From(i) /\ From(i) \in Nat /\ at[i] \in Nat
  <2>1. From(i) \in Nat
    BY <1>6 DEF Cut
  <2> HIDE DEF From
  <2> QED  BY <1>2, <1>4, <1>8, <2>1
<1>11. at[1] = next
  <2>1. CASE c = 0
    <3>1. n = 0 /\ flag(fin) = 0
      BY <1>2, <2>1
    <3> QED  BY <1>4, <1>9, <2>1, <3>1
  <2>2. CASE c > 0
    <3>1. 1 \in 1..c /\ From(1) = 0
      BY <1>2, <1>5, <2>2
    <3>2. at[1] = next + From(1)
      BY <1>10, <3>1
    <3> QED  BY <1>4, <3>1, <3>2
  <2> QED  BY <1>2, <2>1, <2>2
<1>12. ASSUME NEW i \in 1..c
       PROVE  at[i + 1] = at[i] + length_in_sequence_space(q[i])
  <2>1. Cut(n, c, i, From(i), To(i)) /\ WindowPiece(s, q[i], From(i), To(i), i = c)
    BY <1>6
  <2>2. length_in_sequence_space(q[i]) = (To(i) - From(i)) + flag(fin /\ i = c)
    BY <2>1 DEF WindowPiece, fin
  <2>3. at[i] = next + From(i) /\ From(i) \in Nat /\ To(i) \in Nat
    BY <1>10, <2>1 DEF Cut
  <2>4. CASE i < c
    <3>1. flag(fin /\ i = c) = 0
      BY <2>4 DEF flag
    <3>2. i + 1 \in 1..c
      BY <1>2, <2>4
    <3>3. at[i + 1] = next + From(i + 1)
      BY <1>10, <3>2
    <3>4. From(i + 1) = i * M /\ To(i) = i * M
      <4>1. To(i) = i * M
        BY <2>1, <2>4 DEF Cut
      <4>2. (i + 1) - 1 = i
        OBVIOUS
      <4> QED  BY <4>1, <4>2
    <3>5. From(i + 1) = To(i)
      BY <3>4
    <3> HIDE DEF From, To
    <3> QED  BY <1>4, <2>2, <2>3, <3>1, <3>3, <3>5
  <2>5. CASE i = c
    <3>1. flag(fin /\ i = c) = flag(fin)
      BY <1>2, <2>5 DEF flag
    <3>2. To(i) = n
      BY <2>1, <2>5 DEF Cut
    <3> HIDE DEF From, To
    <3> QED  BY <1>2, <1>3, <1>4, <1>9, <2>2, <2>3, <2>5, <3>1, <3>2
  <2> QED  BY <1>2, <2>4, <2>5
<1>13. Laid(q, at)
  <2>1. \A i \in 1..(c + 1) : at[i] \in Nat
    <3>1. ASSUME NEW i \in 1..(c + 1) PROVE at[i] \in Nat
      <4>1. i \in 1..c \/ i = c + 1
        BY <1>2
      <4> QED  BY <1>9, <1>10, <4>1
    <3> QED  BY <3>1
  <2>2. at \in [1..(c + 1) -> Nat]
    BY <1>8, <2>1
  <2> QED  BY <1>7, <1>12, <2>2 DEF Laid
<1>14. ASSUME NEW i \in 1..c PROVE Placed(q[i], at[i], s.stream.is_eof)
  <2> DEFINE seg == q[i]
             p == at[i]
             f == From(i)
             t == To(i)
  <2>1. Cut(n, c, i, f, t) /\ WindowPiece(s, seg, f, t, i = c)
    BY <1>6
  <2>2. /\ f \in Nat /\ t \in Nat /\ f <= t /\ t <= n /\ t - f <= M
        /\ (n > 0 => t > f) /\ (i = c => t = n)
    BY <2>1 DEF Cut
  <2>3. /\ seg.syn = FALSE /\ seg.seqno = wrap(next + f, Isn) /\ Len(seg.payload) = t - f
        /\ seg.payload = SubSeq(Stream, r + f + 1, r + t)
        /\ r + t <= Len(Stream)
        /\ seg.fin = (fin /\ i = c)
        /\ length_in_sequence_space(seg) = (t - f) + flag(fin /\ i = c)
    BY <2>1 DEF WindowPiece, next, r, fin
  <2>4. p = next + f
    BY <1>10
  <2> HIDE DEF f, t, seg, p
  <2>5. length_in_sequence_space(seg) > 0
    <3>1. CASE n > 0
      <4>1. flag(fin /\ i = c) \in Nat
        BY DEF flag
      <4> QED  BY <2>2, <2>3, <3>1, <4>1
    <3>2. CASE n = 0
      <4>1. c = flag(fin) /\ c >= 1
        BY <1>2, <3>2
      <4>2. fin = TRUE /\ c = 1
        BY <1>3, <4>1
      <4>3. i = c
        BY <4>2
      <4>4. flag(fin /\ i = c) = 1
        BY <4>2, <4>3 DEF flag
      <4> QED  BY <2>2, <2>3, <4>4
    <3> QED  BY <1>2, <3>1, <3>2
  <2>6. /\ p = r + f + 1 /\ p + (t - f) - 1 = r + t /\ p # 0
        /\ p + (t - f) = r + t + 1
    BY <1>4, <2>2, <2>4
  <2>7. seg.fin = TRUE => r + t + 1 = Len(Stream) + 1 /\ s.stream.is_eof = TRUE
    <3> SUFFICES ASSUME seg.fin = TRUE PROVE r + t + 1 = Len(Stream) + 1 /\ s.stream.is_eof = TRUE
      OBVIOUS
    <3>1. fin = TRUE /\ i = c
      BY <1>2, <2>3
    <3>2. s.stream.is_eof = TRUE /\ n = Len(s.stream.buf)
      BY <1>1, <3>1 DEF FillFacts
    <3>3. s.stream.write_count = Len(Stream)
      BY <3>2 DEF Base, StreamRight
    <3>4. Len(s.stream.buf) = s.stream.write_count - r
      BY BaseFields DEF r
    <3>5. t = n
      BY <2>2, <3>1
    <3> QED  BY <1>4, <3>2, <3>3, <3>4, <3>5, SenderNumbers
  <2>8. Carries(seg, p, s.stream.is_eof)
    <3>1. seg.payload = SubSeq(Stream, p, p + Len(seg.payload) - 1)
      BY <2>3, <2>6
    <3>2. p + Len(seg.payload) - 1 <= Len(Stream) /\ Len(seg.payload) <= MAX_PAYLOAD_SIZE
      BY <2>2, <2>3, <2>6
    <3>3. seg.fin = TRUE => p + Len(seg.payload) = Len(Stream) + 1 /\ s.stream.is_eof = TRUE
      BY <2>3, <2>6, <2>7
    <3> QED  BY <2>3, <2>4, <2>6, <3>1, <3>2, <3>3 DEF Carries
  <2> QED  BY <2>5, <2>8 DEF Placed, seg, p
<1> QED  BY <1>7, <1>9, <1>11, <1>13, <1>14 DEF n, c, fin, next, q, at

-------------------------------------------------------------------------------
(* sendSegment *)

\* The numbers of a layout grow.
LEMMA LaidMonotone ==
  ASSUME NEW q \in Seq(SegmentOf), NEW at, Laid(q, at),
         NEW i \in 1..(Len(q) + 1), NEW j \in 1..(Len(q) + 1), i <= j
  PROVE  at[i] <= at[j]
<1> DEFINE n == Len(q)
           T == {k \in Nat : i + k <= n + 1 => at[i] <= at[i + k]}
<1>1. /\ n \in Nat /\ at \in [1..(n + 1) -> Nat]
      /\ \A k \in 1..n : at[k + 1] = at[k] + length_in_sequence_space(q[k])
  BY LenProperties DEF Laid
<1>2. 0 \in T
  <2>1. i + 0 = i /\ at[i] \in Nat
    BY <1>1
  <2> QED  BY <2>1
<1>3. ASSUME NEW k \in T PROVE k + 1 \in T
  <2> SUFFICES ASSUME i + (k + 1) <= n + 1 PROVE at[i] <= at[i + (k + 1)]
    BY <1>1
  <2>1. i + k \in 1..n /\ i + k \in 1..(n + 1) /\ i + (k + 1) = (i + k) + 1
        /\ i + k <= n + 1 /\ i + (k + 1) \in 1..(n + 1)
    BY <1>1
  <2>2. at[i] <= at[i + k]
    BY <1>3, <2>1
  <2>3. at[(i + k) + 1] = at[i + k] + length_in_sequence_space(q[i + k])
    BY <1>1, <2>1
  <2>4. length_in_sequence_space(q[i + k]) \in Nat
    BY <2>1, SegmentLength
  <2>5. at[i] \in Nat /\ at[i + k] \in Nat
    BY <1>1, <2>1
  <2>6. at[i] <= at[i + k] + length_in_sequence_space(q[i + k])
    BY <2>2, <2>4, <2>5
  <2> QED  BY <2>1, <2>3, <2>6
<1> HIDE DEF T
<1>4. T = Nat
  BY <1>2, <1>3, NatSetInduction DEF T
<1>5. j - i \in Nat /\ i + (j - i) = j /\ j <= n + 1
  BY <1>1
<1>6. j - i \in T
  BY <1>4, <1>5
<1> QED  BY <1>5, <1>6 DEF T

\* The fields after sendSegment for each of segs.
Sent(s, segs, end, t) ==
  /\ t \in SenderOf
  /\ t.outSegments = s.outSegments \o segs
  /\ t.next_seqno = end
  /\ t.bytes_in_flight = s.bytes_in_flight + (end - s.next_seqno)
  /\ t.stream = s.stream /\ t.ackGot = s.ackGot
  /\ t.true_window_size = s.true_window_size
  /\ t.consecutive_retransmission = s.consecutive_retransmission
  /\ t.fin_flag = s.fin_flag /\ t.syn_flag = s.syn_flag
  /\ t.timer = IF segs = <<>> \/ s.timer.isrunning THEN s.timer
               ELSE start(resetTime(s.timer))

\* sendSegments does that.
LEMMA SendFields ==
  ASSUME NEW s \in SenderOf, NEW segs \in Seq(SegmentOf),
         NEW bt, Laid(segs, bt), bt[1] = s.next_seqno
  PROVE  Sent(s, segs, bt[Len(segs) + 1], sendSegments(s, segs))
<1> DEFINE t == sendSegments(s, segs)
           end == bt[Len(segs) + 1]
           sp == SpaceOf(segs)
           tm == IF segs = <<>> \/ s.timer.isrunning THEN s.timer
                 ELSE start(resetTime(s.timer))
           a == s.segments_out \o segs
           b == s.outSegments \o segs
<1>1. sp = end - s.next_seqno /\ end \in Nat
  BY LaidSpace
<1>2. /\ s.segments_out \in Seq(SegmentOf) /\ s.outSegments \in Seq(SegmentOf)
      /\ s.next_seqno \in Nat /\ s.bytes_in_flight \in Int /\ s.timer \in TimerOf
  BY DEF SenderOf
<1>3. a \in Seq(SegmentOf) /\ b \in Seq(SegmentOf)
  BY <1>2, ConcatProperties
<1>4. tm \in TimerOf
  BY <1>2 DEF TimerOf, start, resetTime
<1>5. t = [s EXCEPT !.segments_out = a, !.outSegments = b,
                    !.next_seqno = s.next_seqno + sp,
                    !.bytes_in_flight = s.bytes_in_flight + sp, !.timer = tm]
  BY DEF sendSegments, SenderOf
<1> HIDE DEF end, sp, tm, a, b, t
<1>6. /\ s.next_seqno + sp = end
      /\ s.bytes_in_flight + sp = s.bytes_in_flight + (end - s.next_seqno)
      /\ s.bytes_in_flight + sp \in Int
  <2>1. s.next_seqno \in Nat /\ s.bytes_in_flight \in Int
    BY <1>2
  <2> QED  BY <1>1, <2>1
<1>7. t \in SenderOf
  BY <1>1, <1>3, <1>4, <1>5, <1>6 DEF SenderOf
<1>8. /\ t.outSegments = b /\ t.next_seqno = end
      /\ t.bytes_in_flight = s.bytes_in_flight + (end - s.next_seqno)
      /\ t.stream = s.stream /\ t.ackGot = s.ackGot
      /\ t.true_window_size = s.true_window_size
      /\ t.consecutive_retransmission = s.consecutive_retransmission
      /\ t.fin_flag = s.fin_flag /\ t.syn_flag = s.syn_flag
      /\ t.timer = tm
  BY <1>5, <1>6 DEF SenderOf
<1> QED  BY <1>7, <1>8 DEF Sent, t, end, tm, b

\* The queue of t is that of s with something behind it.
Grown(s, t, at, bt) ==
  /\ QueueAt(t, bt) /\ bt[1] = at[1]
  /\ Len(s.outSegments) <= Len(t.outSegments)
  /\ \A i \in 1..Len(s.outSegments) :
       t.outSegments[i] = s.outSegments[i] /\ bt[i] = at[i] /\ bt[i + 1] = at[i + 1]
  /\ \A i \in (Len(s.outSegments) + 1)..Len(t.outSegments) : bt[i] >= s.next_seqno

\* Nothing behind it is something.
LEMMA GrownSame ==
  ASSUME NEW s, Base(s), NEW at, QueueAt(s, at), NEW t, QueueAt(t, at),
         t.outSegments = s.outSegments
  PROVE  Grown(s, t, at, at)
<1>1. Len(s.outSegments) \in Nat
  BY BaseFields
<1> QED  BY <1>1 DEF Grown

\* The queue after sendSegment for each of segs.
LEMMA SendGrown ==
  ASSUME NEW s \in SenderOf, NEW at, QueueAt(s, at),
         NEW segs \in Seq(SegmentOf), NEW bt, Laid(segs, bt), bt[1] = s.next_seqno,
         \A i \in 1..Len(segs) : Placed(segs[i], bt[i], s.stream.is_eof),
         NEW t, t.outSegments = s.outSegments \o segs,
         t.next_seqno = bt[Len(segs) + 1],
         t.bytes_in_flight = s.bytes_in_flight + (bt[Len(segs) + 1] - s.next_seqno),
         t.stream.is_eof = s.stream.is_eof
  PROVE  Grown(s, t, at, Joined(at, Len(s.outSegments), bt, Len(segs)))
<1> DEFINE q == s.outSegments
           n == Len(q)
           m == Len(segs)
           u == Joined(at, n, bt, m)
           eof == s.stream.is_eof
<1>1. /\ q \in Seq(SegmentOf) /\ s.next_seqno \in Nat /\ s.bytes_in_flight \in Int
  BY DEF SenderOf
<1>2. /\ Laid(q, at) /\ at[n + 1] = s.next_seqno
      /\ s.bytes_in_flight = s.next_seqno - at[1]
      /\ \A i \in 1..n : Placed(q[i], at[i], eof)
  BY DEF QueueAt
<1>3. /\ q \o segs \in Seq(SegmentOf) /\ Len(q \o segs) = n + m
      /\ n \in Nat /\ m \in Nat
      /\ \A i \in 1..n : (q \o segs)[i] = q[i]
      /\ \A i \in 1..m : (q \o segs)[n + i] = segs[i]
      /\ Laid(q \o segs, u)
  BY <1>1, <1>2, LaidJoin
<1>4. n \in Nat /\ m \in Nat /\ at \in [1..(n + 1) -> Nat] /\ bt \in [1..(m + 1) -> Nat]
  BY <1>2, <1>3 DEF Laid
<1>0. n \in Nat /\ m \in Nat
  BY <1>3
<1> HIDE DEF n, m
<1>5. \A i \in 1..(n + 1) : u[i] = at[i]
  BY <1>0 DEF Joined
<1>6. ASSUME NEW i \in 1..(m + 1) PROVE u[n + i] = bt[i]
  <2>1. n + i \in 1..(n + m + 1) /\ (n + i) - n = i /\ (n + i <= n + 1 <=> i = 1)
    BY <1>0
  <2>2. CASE i = 1
    <3>1. n + i = n + 1 /\ n + 1 \in 1..(n + 1)
      BY <1>0, <2>2
    <3>2. u[n + 1] = at[n + 1]
      BY <1>5, <3>1
    <3>3. at[n + 1] = bt[1]
      BY <1>2
    <3> QED  BY <2>2, <3>1, <3>2, <3>3
  <2>3. CASE i # 1
    BY <2>1, <2>3 DEF Joined
  <2> QED  BY <2>2, <2>3
<1>7. u[1] = at[1] /\ u[(n + m) + 1] = bt[m + 1]
  <2>1. 1 \in 1..(n + 1) /\ m + 1 \in 1..(m + 1) /\ (n + m) + 1 = n + (m + 1)
    BY <1>0
  <2> QED  BY <1>5, <1>6, <2>1
<1>8. t.outSegments = q \o segs /\ Len(t.outSegments) = n + m
  BY <1>3 DEF n, m
<1> HIDE DEF u, q
<1>9. t.bytes_in_flight = t.next_seqno - u[1]
  <2>1. at[1] \in Nat /\ bt[m + 1] \in Nat
    BY <1>3, <1>4
  <2>2. t.bytes_in_flight = s.bytes_in_flight + (bt[m + 1] - s.next_seqno)
        /\ t.next_seqno = bt[m + 1]
    BY DEF m
  <2> QED  BY <1>1, <1>2, <1>7, <2>1, <2>2
<1>10. ASSUME NEW i \in 1..(n + m) PROVE Placed(t.outSegments[i], u[i], eof)
  <2>1. CASE i <= n
    <3>1. i \in 1..n /\ i \in 1..(n + 1)
      BY <1>0, <2>1
    <3>2. t.outSegments[i] = q[i] /\ u[i] = at[i]
      BY <1>3, <1>5, <1>8, <3>1
    <3> QED  BY <1>2, <3>1, <3>2
  <2>2. CASE ~(i <= n)
    <3>1. PICK j \in 1..m : i = n + j
      <4>1. i - n \in 1..m /\ i = n + (i - n)
        BY <1>0, <2>2
      <4> QED  BY <4>1
    <3>2. j \in 1..(m + 1)
      BY <1>0
    <3>3. t.outSegments[i] = segs[j] /\ u[i] = bt[j]
      BY <1>3, <1>6, <1>8, <3>1, <3>2
    <3> QED  BY <3>1, <3>3 DEF m
  <2> QED  BY <2>1, <2>2
<1>11. QueueAt(t, u)
  <2>1. u[Len(t.outSegments) + 1] = t.next_seqno
    BY <1>7, <1>8 DEF m
  <2> QED  BY <1>3, <1>8, <1>9, <1>10, <2>1 DEF QueueAt
<1>12. ASSUME NEW i \in 1..n
       PROVE  t.outSegments[i] = q[i] /\ u[i] = at[i] /\ u[i + 1] = at[i + 1]
  <2>1. i \in 1..(n + 1) /\ i + 1 \in 1..(n + 1)
    BY <1>0
  <2> QED  BY <1>3, <1>5, <1>8, <2>1
<1>13. ASSUME NEW i \in (n + 1)..(n + m) PROVE u[i] >= s.next_seqno
  <2>1. PICK j \in 1..m : i = n + j
    <3>1. i - n \in 1..m /\ i = n + (i - n)
      BY <1>0
    <3> QED  BY <3>1
  <2>2. j \in 1..(m + 1) /\ 1 \in 1..(m + 1) /\ 1 <= j
    BY <1>0
  <2>3. bt[1] <= bt[j]
    BY <2>2, LaidMonotone DEF m
  <2>4. bt[j] \in Nat
    BY <1>4, <2>2
  <2> QED  BY <1>1, <1>6, <2>1, <2>2, <2>3, <2>4
<1>14. n <= n + m
  BY <1>0
<1> QED  BY <1>7, <1>8, <1>11, <1>12, <1>13, <1>14 DEF Grown, u, q, n, m

-------------------------------------------------------------------------------
(* The timer *)

\* A set with one element more has twice as many subsets.
LEMMA PowerDoubles ==
  ASSUME NEW n \in Nat
  PROVE  /\ 2^n \in Nat /\ 2^(n + 1) = 2 * 2^n
         /\ 2^0 = 1
<1> DEFINE S == 1..n
           x == n + 1
           A == SUBSET S
           B == {T \cup {x} : T \in A}
           f == [T \in A |-> T \cup {x}]
<1>1. IsFiniteSet(S) /\ Cardinality(S) = n
  BY FS_Interval
<1>2. IsFiniteSet(1..(n + 1)) /\ Cardinality(1..(n + 1)) = n + 1
  BY FS_Interval
<1>3. IsFiniteSet(A) /\ Cardinality(A) = 2^n /\ Cardinality(A) \in Nat
  BY <1>1, FS_SUBSET, FS_CardinalityType
<1>4. x \notin S /\ 1..(n + 1) = S \cup {x}
  OBVIOUS
<1> HIDE DEF S, x
<1>5. Cardinality(SUBSET (S \cup {x})) = 2^(n + 1)
  BY <1>2, <1>4, FS_SUBSET
<1>6. SUBSET (S \cup {x}) = A \cup B
  <2>1. ASSUME NEW T \in SUBSET (S \cup {x}) PROVE T \in A \cup B
    <3>1. CASE x \in T
      <4>1. T \ {x} \in A /\ T = (T \ {x}) \cup {x}
        BY <3>1
      <4> QED  BY <4>1
    <3>2. CASE x \notin T
      BY <3>2
    <3> QED  BY <3>1, <3>2
  <2>2. ASSUME NEW T \in A \cup B PROVE T \in SUBSET (S \cup {x})
    OBVIOUS
  <2> QED  BY <2>1, <2>2
<1>7. A \cap B = {}
  BY <1>4
<1>8. f \in Bijection(A, B)
  <2>1. f \in [A -> B]
    OBVIOUS
  <2>2. \A T, U \in A : f[T] = f[U] => T = U
    <3>1. ASSUME NEW T \in A, NEW U \in A, f[T] = f[U] PROVE T = U
      <4>1. T \cup {x} = U \cup {x} /\ x \notin T /\ x \notin U
        BY <1>4, <3>1
      <4> QED  BY <4>1
    <3> QED  BY <3>1
  <2>3. \A b \in B : \E a \in A : f[a] = b
    OBVIOUS
  <2> QED  BY <2>1, <2>2, <2>3, Fun_IsBij
<1>9. IsFiniteSet(B) /\ Cardinality(B) = Cardinality(A)
  BY <1>3, <1>8, FS_Bijection DEF ExistsBijection
<1>10. Cardinality(A \cup B) = Cardinality(A) + Cardinality(B)
  BY <1>3, <1>7, <1>9, CardinalityJoined
<1>11. 2^(n + 1) = 2 * Cardinality(A)
  <2>1. 2^(n + 1) = Cardinality(A \cup B)
    BY <1>5, <1>6
  <2>2. Cardinality(A \cup B) = Cardinality(A) + Cardinality(A)
    BY <1>9, <1>10
  <2>3. ASSUME NEW c \in Nat PROVE c + c = 2 * c
    OBVIOUS
  <2>4. Cardinality(A) + Cardinality(A) = 2 * Cardinality(A)
    BY <1>3, <2>3
  <2> HIDE DEF A, B
  <2> QED  BY <2>1, <2>2, <2>4
<1>12. 2^0 = 1
  OBVIOUS
<1> QED  BY <1>3, <1>11, <1>12

\* No power is zero.
LEMMA PowerPositive ==
  ASSUME NEW n \in Nat
  PROVE  2^n > 0
<1> DEFINE T == {i \in Nat : 2^i > 0}
<1>1. 0 \in T
  BY PowerDoubles
<1>2. ASSUME NEW i \in T PROVE i + 1 \in T
  <2>1. 2^i \in Nat /\ 2^(i + 1) = 2 * 2^i /\ 2^i > 0
    BY PowerDoubles
  <2>2. ASSUME NEW a \in Nat, a > 0 PROVE 2 * a > 0
    BY <2>2
  <2>3. 2 * 2^i > 0
    BY <2>1, <2>2
  <2>4. 2^(i + 1) > 0
    BY <2>1, <2>3
  <2> QED  BY <2>4
<1> HIDE DEF T
<1>3. T = Nat
  BY <1>1, <1>2, NatSetInduction DEF T
<1> QED  BY <1>3 DEF T

\* Sending starts a timer that has stopped, from zero.
LEMMA SendTimed ==
  ASSUME NEW s \in SenderOf, Timed(s), NEW segs \in Seq(SegmentOf), NEW end, NEW t,
         Sent(s, segs, end, t)
  PROVE  Timed(t)
<1>1. s.timer \in TimerOf /\ s.outSegments \in Seq(SegmentOf)
  BY DEF SenderOf
<1>2. s.timer.rto \in Nat /\ s.timer.time \in Nat /\ s.timer.isrunning \in BOOLEAN
  BY <1>1 DEF TimerOf
<1>3. s.timer.time < s.timer.rto
      /\ s.timer.rto = RetxTimeout * 2^s.consecutive_retransmission
  BY DEF Timed
<1>4. /\ t.outSegments = s.outSegments \o segs
      /\ t.consecutive_retransmission = s.consecutive_retransmission
      /\ t.timer = IF segs = <<>> \/ s.timer.isrunning THEN s.timer
                   ELSE start(resetTime(s.timer))
  BY DEF Sent
<1>5. CASE segs = <<>> \/ s.timer.isrunning
  <2>1. t.timer = s.timer
    BY <1>4, <1>5
  <2>2. t.outSegments # <<>> => t.timer.isrunning = TRUE
    <3>1. CASE segs = <<>>
      <4>1. t.outSegments = s.outSegments
        BY <1>1, <1>4, <3>1
      <4> QED  BY <2>1, <4>1 DEF Timed
    <3>2. CASE s.timer.isrunning
      BY <1>2, <2>1, <3>2
    <3> QED  BY <1>5, <3>1, <3>2
  <2> QED  BY <1>3, <1>4, <2>1, <2>2 DEF Timed
<1>6. CASE ~(segs = <<>> \/ s.timer.isrunning)
  <2>1. t.timer = start(resetTime(s.timer))
    BY <1>4, <1>6
  <2>2. t.timer.time = 0 /\ t.timer.rto = s.timer.rto /\ t.timer.isrunning = TRUE
    BY <1>1, <2>1 DEF TimerOf, start, resetTime
  <2>3. 0 < s.timer.rto
    BY <1>2, <1>3
  <2> QED  BY <1>3, <1>4, <2>2, <2>3 DEF Timed
<1> QED  BY <1>5, <1>6

-------------------------------------------------------------------------------
(* fill_window *)

\* What a fill leaves, given the layout of the queue before.
Filled(s, t, at) ==
  /\ Base(t) /\ (Timed(s) => Timed(t))
  /\ \E bt : Grown(s, t, at, bt)
  /\ t.ackGot = s.ackGot
  /\ s.next_seqno <= t.next_seqno
  /\ s.syn_flag = TRUE => t.next_seqno <= s.next_seqno + remain(s)
  /\ s.syn_flag = FALSE => t.next_seqno = 1
  /\ t.true_window_size = s.true_window_size \/ t.true_window_size = usable_window(s)

\* The first fill sends the SYN.
LEMMA FillSyn ==
  ASSUME NEW s, Base(s), NEW at, QueueAt(s, at), s.syn_flag = FALSE
  PROVE  Filled(s, fill_window(s), at)
<1> DEFINE s1 == [s EXCEPT !.syn_flag = TRUE]
           seg == SynSegment(s)
           segs == <<seg>>
           bt == [i \in 1..2 |-> i - 1]
           t == fill_window(s)
<1>1. s \in SenderOf /\ StreamRight(s.stream) /\ Counted(s)
  BY DEF Base
<1>2. s.stream.read_count = 0 /\ s.fin_flag = FALSE /\ s.next_seqno = 0
  <2>1. s.stream.read_count = 0 /\ s.fin_flag = FALSE
    BY <1>1 DEF Counted
  <2>2. s.next_seqno = flag(FALSE) + 0 + flag(FALSE)
    BY <1>1, <2>1 DEF Counted
  <2> QED  BY <2>1, <2>2 DEF flag
<1>3. t = sendSegments(s1, segs)
  BY <1>2 DEF fill_window
<1>4. s1 \in SenderOf /\ s1.syn_flag = TRUE
      /\ s1.stream = s.stream /\ s1.next_seqno = s.next_seqno
      /\ s1.outSegments = s.outSegments /\ s1.bytes_in_flight = s.bytes_in_flight
      /\ s1.ackGot = s.ackGot /\ s1.true_window_size = s.true_window_size
      /\ s1.consecutive_retransmission = s.consecutive_retransmission
      /\ s1.timer = s.timer /\ s1.fin_flag = s.fin_flag
  BY <1>1 DEF SenderOf
<1>5. /\ seg.syn = TRUE /\ seg.fin = FALSE /\ seg.payload = <<>>
      /\ seg.seqno = wrap(0, Isn) /\ seg \in SegmentOf
  <2>1. s.isn = Isn
    BY BaseFields
  <2>2. wrap(0, Isn) \in Nat
    <3>1. wrap(0, Isn) \in Word
      BY SenderNumbers, WrapFacts
    <3> QED  BY <3>1, SenderNumbers DEF Word
  <2>3. seg = [TCPSegmentNew EXCEPT !.seqno = wrap(0, Isn), !.syn = TRUE]
    BY <1>2, <2>1 DEF SynSegment
  <2>4. <<>> \in Seq(Byte)
    OBVIOUS
  <2> DEFINE w == wrap(0, Isn)
  <2>5. w \in Nat
    BY <2>2
  <2> HIDE DEF w, seg
  <2>6. seg = [seqno |-> w, ackno |-> 0, ack |-> FALSE, rst |-> FALSE, syn |-> TRUE,
               fin |-> FALSE, win |-> 0, payload |-> <<>>]
    BY <2>3 DEF TCPSegmentNew, w
  <2>7. seg \in SegmentOf
    BY <2>4, <2>5, <2>6 DEF SegmentOf
  <2> QED  BY <2>6, <2>7 DEF w
<1>6. length_in_sequence_space(seg) = 1
  <2>1. Len(seg.payload) = 0 /\ flag(seg.syn) = 1 /\ flag(seg.fin) = 0
    BY <1>5 DEF flag
  <2> QED  BY <2>1 DEF length_in_sequence_space
<1> HIDE DEF s1, seg, t
<1>7. segs \in Seq(SegmentOf) /\ Len(segs) = 1 /\ segs[1] = seg
  BY <1>5
<1>8. Laid(segs, bt) /\ bt[1] = 0 /\ bt[Len(segs) + 1] = 1
  <2>1. bt \in [1..2 -> Nat] /\ bt[1] = 0 /\ bt[2] = 1
    OBVIOUS
  <2> HIDE DEF bt
  <2>2. Len(segs) + 1 = 2
    BY <1>7
  <2>3. \A i \in 1..Len(segs) : bt[i + 1] = bt[i] + length_in_sequence_space(segs[i])
    <3>1. ASSUME NEW i \in 1..Len(segs)
          PROVE  bt[i + 1] = bt[i] + length_in_sequence_space(segs[i])
      <4>1. i = 1
        BY <1>7
      <4> QED  BY <1>6, <1>7, <2>1, <4>1
    <3> QED  BY <3>1
  <2> QED  BY <2>1, <2>2, <2>3 DEF Laid
<1>9. \A i \in 1..Len(segs) : Placed(segs[i], bt[i], s1.stream.is_eof)
  <2>1. Placed(seg, 0, s1.stream.is_eof)
    <3>1. Len(seg.payload) = 0 /\ 0 <= MAX_PAYLOAD_SIZE
      BY <1>5, SenderNumbers
    <3>2. Carries(seg, 0, s1.stream.is_eof)
      BY <1>5, <3>1 DEF Carries
    <3> QED  BY <1>6, <3>2 DEF Placed
  <2>2. ASSUME NEW i \in 1..Len(segs) PROVE Placed(segs[i], bt[i], s1.stream.is_eof)
    <3>1. i = 1
      BY <1>7
    <3> QED  BY <1>7, <1>8, <2>1, <3>1
  <2> QED  BY <2>2
<1> HIDE DEF segs, bt
<1>10. Sent(s1, segs, bt[Len(segs) + 1], t)
  BY <1>2, <1>3, <1>4, <1>7, <1>8, SendFields
<1>11. QueueAt(s1, at)
  BY <1>4 DEF QueueAt
<1>12. /\ t \in SenderOf /\ t.outSegments = s1.outSegments \o segs
       /\ t.next_seqno = bt[Len(segs) + 1]
       /\ t.bytes_in_flight = s1.bytes_in_flight + (bt[Len(segs) + 1] - s1.next_seqno)
       /\ t.stream = s1.stream /\ t.ackGot = s1.ackGot
       /\ t.true_window_size = s1.true_window_size
       /\ t.fin_flag = s1.fin_flag /\ t.syn_flag = s1.syn_flag
  BY <1>10 DEF Sent
<1>13. Grown(s1, t, at, Joined(at, Len(s1.outSegments), bt, Len(segs)))
  <2>1. bt[1] = s1.next_seqno /\ t.stream.is_eof = s1.stream.is_eof
    BY <1>2, <1>4, <1>8, <1>12
  <2> QED  BY <1>4, <1>7, <1>8, <1>9, <1>11, <1>12, <2>1, SendGrown
<1>14. Grown(s, t, at, Joined(at, Len(s1.outSegments), bt, Len(segs)))
  BY <1>4, <1>13 DEF Grown
<1>15. Timed(s) => Timed(t)
  <2>1. Timed(s) => Timed(s1)
    BY <1>4 DEF Timed
  <2> QED  BY <1>4, <1>7, <1>10, <2>1, SendTimed
<1>16. t.next_seqno = 1 /\ t.stream = s.stream /\ t.syn_flag = TRUE /\ t.fin_flag = FALSE
  BY <1>2, <1>4, <1>8, <1>12
<1>17. Base(t)
  <2>1. 1 = flag(TRUE) + 0 + flag(FALSE)
    BY DEF flag
  <2>2. Counted(t)
    BY <1>2, <1>16, <2>1 DEF Counted
  <2> QED  BY <1>1, <1>12, <1>16, <2>2 DEF Base
<1> QED  BY <1>2, <1>4, <1>12, <1>14, <1>15, <1>16, <1>17 DEF Filled, t

\* A later one sends what the stream has and the window allows.
LEMMA FillData ==
  ASSUME NEW s, Base(s), NEW at, QueueAt(s, at), s.syn_flag = TRUE, s.fin_flag = FALSE
  PROVE  Filled(s, fill_window(s), at)
<1> DEFINE n == payload_len(s)
           fin == fills_fin(s)
           s1 == [s EXCEPT !.stream = read(s.stream, n)]
           segs == WindowSegments(s)
           bt == FillLayout(s)
           u == sendSegments(s1, segs)
           win == IF runs_dry(s) THEN usable_window(s) ELSE s.true_window_size
           t == fill_window(s)
           r == s.stream.read_count
<1>1. s \in SenderOf /\ StreamRight(s.stream) /\ Counted(s)
  BY DEF Base
<1>2. FillFacts(s, n, segment_count(s), fin)
  BY FillNumbers
<1>3. /\ n \in Nat /\ n <= remain(s) /\ n <= Len(s.stream.buf) /\ fin \in BOOLEAN
      /\ (fin = TRUE => n + 1 <= remain(s)) /\ remain(s) \in Int
  <2>1. /\ n \in Nat /\ n <= remain(s) /\ n <= Len(s.stream.buf) /\ fin \in BOOLEAN
        /\ (fin = TRUE => n + 1 <= remain(s)) /\ remain(s) \in 0..(Mod - 1)
    BY <1>2 DEF FillFacts
  <2> QED  BY <2>1, SenderNumbers
<1>4. /\ segs \in Seq(SegmentOf) /\ Len(segs) = segment_count(s)
      /\ Laid(segs, bt) /\ bt[1] = s.next_seqno
      /\ bt[Len(segs) + 1] = s.next_seqno + n + flag(fin)
      /\ \A i \in 1..Len(segs) : Placed(segs[i], bt[i], s.stream.is_eof)
  BY WindowLaid
<1>5. /\ OutRight(read(s.stream, n), r + n, s.stream.write_count)
      /\ read(s.stream, n).is_eof = s.stream.is_eof
  <2>1. /\ OutRight(s.stream, r, s.stream.write_count) /\ s.stream \in ByteStreamOf(Byte)
    BY <1>1 DEF StreamRight, OutRight
  <2>2. Len(s.stream.buf) \in Nat
    BY <2>1, StreamFields
  <2>3. n \in 0..buffer_size(s.stream)
    BY <1>3, <2>2 DEF buffer_size
  <2> QED  BY <2>1, <2>3, OutReads, EndKept
<1> DEFINE bs == read(s.stream, n)
<1>6. bs.read_count = r + n /\ bs.write_count = s.stream.write_count /\ bs \in ByteStreamOf(Byte)
  BY <1>5 DEF OutRight
<1>7. StreamRight(bs)
  BY <1>1, <1>5, <1>6 DEF StreamRight
<1>8. t = [u EXCEPT !.fin_flag = fin, !.true_window_size = win]
  <2>1. t = send_window(s)
    BY DEF fill_window
  <2>2. t = [u EXCEPT !.fin_flag = fin,
                      !.true_window_size = IF runs_dry(s) THEN usable_window(s) ELSE @]
    BY <1>1, <2>1 DEF send_window, SenderOf
  <2>3. u.true_window_size = s.true_window_size
    BY <1>1 DEF sendSegments, SenderOf
  <2> HIDE DEF u, t, fin
  <2> QED  BY <2>2, <2>3
<1> HIDE DEF t, bs, segs, bt, fin, n
<1>9. s1 \in SenderOf /\ s1.stream = bs
      /\ s1.next_seqno = s.next_seqno /\ s1.syn_flag = TRUE
      /\ s1.outSegments = s.outSegments /\ s1.bytes_in_flight = s.bytes_in_flight
      /\ s1.ackGot = s.ackGot /\ s1.true_window_size = s.true_window_size
      /\ s1.consecutive_retransmission = s.consecutive_retransmission
      /\ s1.timer = s.timer /\ s1.fin_flag = s.fin_flag
  BY <1>1, <1>6 DEF SenderOf, bs
<1> HIDE DEF s1
<1>10. Sent(s1, segs, bt[Len(segs) + 1], u)
  BY <1>4, <1>9, SendFields
<1> HIDE DEF u
<1>11. win \in Nat /\ (win = s.true_window_size \/ win = usable_window(s))
  <2>1. s.true_window_size \in Nat
    BY BaseFields
  <2> QED  BY <2>1 DEF usable_window
<1> HIDE DEF win
<1>12. u \in SenderOf
  BY <1>10 DEF Sent
<1>13. /\ t \in SenderOf /\ t.fin_flag = fin /\ t.true_window_size = win
       /\ t.outSegments = u.outSegments /\ t.next_seqno = u.next_seqno
       /\ t.bytes_in_flight = u.bytes_in_flight /\ t.stream = u.stream
       /\ t.ackGot = u.ackGot /\ t.syn_flag = u.syn_flag /\ t.timer = u.timer
       /\ t.consecutive_retransmission = u.consecutive_retransmission
  BY <1>3, <1>8, <1>11, <1>12 DEF SenderOf
<1>14. /\ u.outSegments = s1.outSegments \o segs
       /\ u.next_seqno = bt[Len(segs) + 1]
       /\ u.bytes_in_flight = s1.bytes_in_flight + (bt[Len(segs) + 1] - s1.next_seqno)
       /\ u.stream = s1.stream /\ u.ackGot = s1.ackGot /\ u.syn_flag = s1.syn_flag
  BY <1>10 DEF Sent
<1>15. QueueAt(s1, at)
  BY <1>5, <1>9 DEF QueueAt, bs
<1>16. Grown(s1, t, at, Joined(at, Len(s1.outSegments), bt, Len(segs)))
  <2>1. bt[1] = s1.next_seqno /\ t.stream.is_eof = s1.stream.is_eof
    BY <1>4, <1>9, <1>13, <1>14
  <2>2. /\ t.outSegments = s1.outSegments \o segs
        /\ t.next_seqno = bt[Len(segs) + 1]
        /\ t.bytes_in_flight = s1.bytes_in_flight + (bt[Len(segs) + 1] - s1.next_seqno)
    BY <1>13, <1>14
  <2>3. \A i \in 1..Len(segs) : Placed(segs[i], bt[i], s1.stream.is_eof)
    BY <1>4, <1>5, <1>9 DEF bs
  <2> QED  BY <1>4, <1>9, <1>15, <2>1, <2>2, <2>3, SendGrown
<1>17. Grown(s, t, at, Joined(at, Len(s1.outSegments), bt, Len(segs)))
  BY <1>9, <1>16 DEF Grown
<1>18. Timed(s) => Timed(t)
  <2>1. Timed(s) => Timed(s1)
    BY <1>9 DEF Timed
  <2>2. Timed(s1) => Timed(u)
    BY <1>4, <1>9, <1>10, SendTimed
  <2>3. Timed(u) => Timed(t)
    BY <1>13 DEF Timed
  <2> QED  BY <2>1, <2>2, <2>3
<1>19. /\ t.next_seqno = s.next_seqno + n + flag(fin)
       /\ t.stream = bs /\ t.syn_flag = TRUE /\ t.ackGot = s.ackGot
  BY <1>4, <1>9, <1>13, <1>14
<1>20. s.next_seqno \in Nat /\ r \in Nat /\ s.next_seqno = 1 + r
  <2>1. s.next_seqno \in Nat /\ r \in Nat
    BY BaseFields
  <2>2. s.next_seqno = flag(TRUE) + r + flag(FALSE)
    BY <1>1 DEF Counted
  <2> QED  BY <2>1, <2>2 DEF flag
<1>21. flag(fin) \in 0..1 /\ (flag(fin) = 1 => fin = TRUE) /\ flag(TRUE) = 1
  BY <1>3 DEF flag
<1>22. Base(t)
  <2>1. (s.next_seqno + n) + flag(fin) = (1 + (r + n)) + flag(fin)
    BY <1>3, <1>20, <1>21
  <2>2. Counted(t)
    BY <1>6, <1>13, <1>19, <1>21, <2>1 DEF Counted
  <2> QED  BY <1>7, <1>13, <1>19, <2>2 DEF Base
<1>23. s.next_seqno <= t.next_seqno /\ t.next_seqno <= s.next_seqno + remain(s)
  <2>1. flag(fin) = 0 \/ n + 1 <= remain(s)
    BY <1>3, <1>21
  <2> QED  BY <1>3, <1>19, <1>20, <1>21, <2>1
<1>24. t.true_window_size = s.true_window_size \/ t.true_window_size = usable_window(s)
  BY <1>11, <1>13
<1> QED  BY <1>17, <1>18, <1>19, <1>22, <1>23, <1>24 DEF Filled, t

\* Either, or nothing after the FIN.
LEMMA FillAll ==
  ASSUME NEW s, Base(s), NEW at, QueueAt(s, at)
  PROVE  Filled(s, fill_window(s), at)
<1>1. s.fin_flag \in BOOLEAN /\ s.syn_flag \in BOOLEAN
  BY BaseFields
<1>2. CASE s.fin_flag = TRUE
  <2>1. fill_window(s) = s
    BY <1>2 DEF fill_window
  <2>2. Grown(s, s, at, at)
    BY GrownSame
  <2>3. s.syn_flag = TRUE
    BY <1>1, <1>2 DEF Base, Counted
  <2>4. s.next_seqno \in Nat /\ remain(s) \in Nat
    <3>1. FillFacts(s, payload_len(s), segment_count(s), fills_fin(s))
      BY FillNumbers
    <3>2. remain(s) \in 0..(Mod - 1)
      BY <3>1 DEF FillFacts
    <3> QED  BY <3>2, SenderNumbers, BaseFields
  <2>5. s.next_seqno <= s.next_seqno /\ s.next_seqno <= s.next_seqno + remain(s)
    BY <2>4
  <2> QED  BY <2>1, <2>2, <2>3, <2>5 DEF Filled
<1>3. CASE s.syn_flag = FALSE
  BY <1>3, FillSyn
<1>4. CASE s.syn_flag = TRUE /\ s.fin_flag = FALSE
  BY <1>4, FillData
<1> QED  BY <1>1, <1>2, <1>3, <1>4

-------------------------------------------------------------------------------
(* ack_received *)

\* The segments at the front that are dropped.
LEMMA AckedCount ==
  ASSUME NEW s, Base(s), NEW ackno
  PROVE  /\ acked_count(s, ackno) \in 0..Len(s.outSegments)
         /\ \A i \in 1..acked_count(s, ackno) : fully_acked(s.outSegments[i], ackno)
         /\ \/ acked_count(s, ackno) = Len(s.outSegments)
            \/ ~fully_acked(s.outSegments[acked_count(s, ackno) + 1], ackno)
<1> DEFINE n == Len(s.outSegments)
           ok(i) == fully_acked(s.outSegments[i], ackno)
           P(k) == (\A i \in 1..k : ok(i)) /\ (k = n \/ ~ok(k + 1))
           T == {i \in Nat : i >= 1 /\ i <= n /\ ~ok(i)}
<1>1. n \in Nat
  BY BaseFields
<1>2. \E k \in 0..n : P(k)
  <2>1. CASE T = {}
    <3>1. \A i \in 1..n : ok(i)
      BY <1>1, <2>1
    <3> QED  BY <1>1, <3>1
  <2>2. CASE T # {}
    <3>1. PICK j \in T : \A i \in T : j <= i
      BY <2>2, LeastMember
    <3>2. j - 1 \in 0..n /\ (j - 1) + 1 = j
      BY <1>1, <3>1
    <3>3. ASSUME NEW i \in 1..(j - 1) PROVE ok(i)
      <4>1. i \in Nat /\ i >= 1 /\ i <= n /\ ~(j <= i)
        BY <1>1, <3>1
      <4> QED  BY <3>1, <4>1
    <3>4. ~ok(j)
      BY <3>1
    <3> QED  BY <3>2, <3>3, <3>4
  <2> QED  BY <2>1, <2>2
<1> DEFINE c == CHOOSE k \in 0..n : P(k)
<1>3. c \in 0..n /\ P(c)
  BY <1>2
<1>4. c = acked_count(s, ackno)
  BY DEF acked_count
<1> QED  BY <1>3, <1>4

\* Everything before fill_window: the segments are dropped, the acknowledgment
\* and the window are noted.
Noted(s, ackno, window) ==
  [note_new_ack(drop_acked(s, ackno), ackno) EXCEPT !.true_window_size = window]

\* What that leaves.
Taken(s, m, ackno, window, at) ==
  LET k == acked_count(s, ackno)
      n == Len(s.outSegments)
  IN  /\ Base(m) /\ (Timed(s) => Timed(m))
      /\ QueueAt(m, Later(at, k, n))
      /\ m.outSegments = SubSeq(s.outSegments, k + 1, n)
      /\ m.next_seqno = s.next_seqno /\ m.syn_flag = s.syn_flag
      /\ m.ackGot = IF ackno > s.ackGot THEN ackno ELSE s.ackGot
      /\ m.true_window_size = window

\* Dropping the segments.
LEMMA DropFields ==
  ASSUME NEW s, Base(s), NEW at, QueueAt(s, at), NEW ackno,
         NEW k, k = acked_count(s, ackno), NEW d, d = drop_acked(s, ackno)
  PROVE  /\ Base(d) /\ (Timed(s) => Timed(d))
         /\ QueueAt(d, Later(at, k, Len(s.outSegments)))
         /\ d.outSegments = SubSeq(s.outSegments, k + 1, Len(s.outSegments))
         /\ d.next_seqno = s.next_seqno /\ d.syn_flag = s.syn_flag
         /\ d.ackGot = s.ackGot
<1> DEFINE q == s.outSegments
           n == Len(q)
           p == SubSeq(q, k + 1, n)
           sp == SpaceOf(SubSeq(q, 1, k))
           bt == Later(at, k, n)
<1>1. s \in SenderOf /\ StreamRight(s.stream) /\ Counted(s)
  BY DEF Base
<1>2. q \in Seq(SegmentOf) /\ n \in Nat /\ s.next_seqno \in Nat /\ s.bytes_in_flight \in Int
  BY BaseFields
<1>3. k \in 0..n
  BY AckedCount
<1>4. /\ Laid(q, at) /\ at[n + 1] = s.next_seqno
      /\ s.bytes_in_flight = s.next_seqno - at[1]
      /\ \A i \in 1..n : Placed(q[i], at[i], s.stream.is_eof)
  BY DEF QueueAt
<1>5. /\ p \in Seq(SegmentOf) /\ Len(p) = n - k
      /\ \A i \in 1..(n - k) : p[i] = q[i + k]
      /\ Laid(p, bt)
      /\ sp = at[k + 1] - at[1] /\ at[k + 1] \in Nat
  BY <1>2, <1>3, <1>4, LaidCut
<1>6. at \in [1..(n + 1) -> Nat]
  BY <1>4 DEF Laid
<1>7. d = [s EXCEPT !.bytes_in_flight = s.bytes_in_flight - sp, !.outSegments = p]
  BY <1>1 DEF drop_acked, SenderOf
<1>8. at[1] \in Nat
  BY <1>2, <1>6
<1> HIDE DEF q, n, p, sp, bt
<1>9. sp \in Int /\ s.bytes_in_flight - sp = s.next_seqno - at[k + 1]
      /\ s.bytes_in_flight - sp \in Int
  <2>1. s.bytes_in_flight = s.next_seqno - at[1] /\ s.next_seqno \in Nat
    BY <1>2, <1>4
  <2>2. sp = at[k + 1] - at[1] /\ at[k + 1] \in Nat
    BY <1>5
  <2> QED  BY <1>8, <2>1, <2>2
<1>10. /\ d \in SenderOf /\ d.outSegments = p /\ d.bytes_in_flight = s.bytes_in_flight - sp
       /\ d.next_seqno = s.next_seqno /\ d.syn_flag = s.syn_flag
       /\ d.ackGot = s.ackGot /\ d.stream = s.stream /\ d.fin_flag = s.fin_flag
       /\ d.timer = s.timer
       /\ d.consecutive_retransmission = s.consecutive_retransmission
  BY <1>1, <1>5, <1>7, <1>9 DEF SenderOf
<1>11. Base(d)
  BY <1>1, <1>10 DEF Base, Counted
<1>12. Timed(s) => Timed(d)
  <2>1. d.outSegments # <<>> => s.outSegments # <<>>
    <3>1. ASSUME s.outSegments = <<>> PROVE d.outSegments = <<>>
      <4>1. n = 0
        BY <3>1 DEF n, q
      <4>2. Len(p) = 0
        BY <1>3, <1>5, <4>1
      <4>3. p = <<>>
        BY <1>5, <4>2, EmptySeq
      <4> QED  BY <1>10, <4>3
    <3> QED  BY <3>1
  <2> QED  BY <1>10, <2>1 DEF Timed
<1>13. QueueAt(d, bt)
  <2>1. (n - k) + 1 \in 1..(n - k + 1) /\ ((n - k) + 1) + k = n + 1
        /\ 1 \in 1..(n - k + 1) /\ 1 + k = k + 1
    BY <1>2, <1>3
  <2>2. bt[(n - k) + 1] = at[n + 1] /\ bt[1] = at[k + 1]
    BY <2>1 DEF Later, bt
  <2>3. d.bytes_in_flight = d.next_seqno - bt[1]
    BY <1>9, <1>10, <2>2
  <2>4. bt[Len(d.outSegments) + 1] = d.next_seqno
    BY <1>4, <1>5, <1>10, <2>2
  <2>5. ASSUME NEW i \in 1..(n - k) PROVE Placed(p[i], bt[i], s.stream.is_eof)
    <3>1. i + k \in 1..n /\ i \in 1..(n - k + 1)
      BY <1>2, <1>3
    <3>2. p[i] = q[i + k] /\ bt[i] = at[i + k]
      BY <1>5, <3>1 DEF Later, bt
    <3> QED  BY <1>4, <3>1, <3>2
  <2>6. \A i \in 1..Len(d.outSegments) : Placed(d.outSegments[i], bt[i], d.stream.is_eof)
    BY <1>5, <1>10, <2>5
  <2> QED  BY <1>5, <1>10, <2>3, <2>4, <2>6 DEF QueueAt
<1> QED  BY <1>10, <1>11, <1>12, <1>13 DEF bt, p, n, q

\* Noting the acknowledgment and the window.
NotedBy(d, ackno, window) ==
  [note_new_ack(d, ackno) EXCEPT !.true_window_size = window]
NotedTo(d, m, at, ackno, window) ==
  /\ Base(m) /\ (Timed(d) => Timed(m)) /\ QueueAt(m, at)
  /\ m.outSegments = d.outSegments
  /\ m.next_seqno = d.next_seqno /\ m.syn_flag = d.syn_flag
  /\ m.ackGot = IF ackno > d.ackGot THEN ackno ELSE d.ackGot
  /\ m.true_window_size = window

\* It leaves the queue and the stream alone.
LEMMA NoteFieldsOf ==
  ASSUME NEW d, Base(d), NEW at, QueueAt(d, at), NEW ackno \in Nat, NEW window \in Nat
  PROVE  NotedTo(d, NotedBy(d, ackno, window), at, ackno, window)
<1> DEFINE m == NotedBy(d, ackno, window)
           b == note_new_ack(d, ackno)
<1>1. d \in SenderOf /\ StreamRight(d.stream) /\ Counted(d)
  BY DEF Base
<1>2. d.timer \in TimerOf /\ d.initial_retransmission_timeout = RetxTimeout /\ d.ackGot \in Nat
  BY BaseFields
<1> DEFINE tt == resetRTO(resetTime(d.timer), RetxTimeout)
           tm == IF d.outSegments # <<>> THEN start(tt) ELSE tt
           Same(x) == /\ x.stream = d.stream /\ x.next_seqno = d.next_seqno
                      /\ x.syn_flag = d.syn_flag /\ x.fin_flag = d.fin_flag
                      /\ x.outSegments = d.outSegments
                      /\ x.bytes_in_flight = d.bytes_in_flight
<1>3. /\ tm \in TimerOf /\ tm.rto = RetxTimeout /\ tm.time = 0
      /\ (d.outSegments # <<>> => tm.isrunning = TRUE)
  BY <1>2, SenderNumbers DEF TimerOf, resetRTO, resetTime, start
<1>4. /\ b \in SenderOf /\ Same(b)
      /\ b.ackGot = IF ackno > d.ackGot THEN ackno ELSE d.ackGot
      /\ (Timed(d) => Timed(b))
  <2>1. CASE ackno > d.ackGot
    <3>1. b = [d EXCEPT !.ackGot = ackno, !.timer = tm, !.consecutive_retransmission = 0]
      BY <1>1, <1>2, <2>1 DEF note_new_ack, SenderOf
    <3> HIDE DEF tm, b
    <3>2. b \in SenderOf
      BY <1>1, <1>3, <3>1 DEF SenderOf
    <3>3. Same(b) /\ b.ackGot = ackno /\ b.timer = tm /\ b.consecutive_retransmission = 0
      BY <1>1, <3>1 DEF SenderOf
    <3>4. RetxTimeout = RetxTimeout * 2^0 /\ 0 < RetxTimeout
      BY PowerDoubles, SenderNumbers
    <3>5. Timed(b)
      BY <1>3, <3>3, <3>4 DEF Timed
    <3> QED  BY <2>1, <3>2, <3>3, <3>5
  <2>2. CASE ~(ackno > d.ackGot)
    <3>1. b = d
      BY <2>2 DEF note_new_ack
    <3> QED  BY <1>1, <2>2, <3>1
  <2> QED  BY <2>1, <2>2
<1>5. m = [b EXCEPT !.true_window_size = window]
  BY DEF NotedBy
<1> HIDE DEF m, b
<1>6. /\ m \in SenderOf /\ Same(m) /\ m.ackGot = b.ackGot /\ m.true_window_size = window
      /\ m.timer = b.timer /\ m.outSegments = b.outSegments
      /\ m.consecutive_retransmission = b.consecutive_retransmission
  BY <1>4, <1>5 DEF SenderOf
<1>7. Base(m)
  BY <1>1, <1>6 DEF Base, Counted
<1>8. QueueAt(m, at)
  BY <1>6 DEF QueueAt
<1>9. Timed(d) => Timed(m)
  BY <1>4, <1>6 DEF Timed
<1> QED  BY <1>4, <1>6, <1>7, <1>8, <1>9 DEF NotedTo, m

\* Both.
LEMMA TakeAck ==
  ASSUME NEW s, Base(s), NEW at, QueueAt(s, at), NEW ackno \in Nat, NEW window \in Nat
  PROVE  Taken(s, Noted(s, ackno, window), ackno, window, at)
<1> DEFINE d == drop_acked(s, ackno)
           k == acked_count(s, ackno)
           n == Len(s.outSegments)
<1>1. /\ Base(d) /\ (Timed(s) => Timed(d)) /\ QueueAt(d, Later(at, k, n))
      /\ d.outSegments = SubSeq(s.outSegments, k + 1, n)
      /\ d.next_seqno = s.next_seqno /\ d.syn_flag = s.syn_flag
      /\ d.ackGot = s.ackGot
  BY DropFields
<1> DEFINE m == NotedBy(d, ackno, window)
<1>2. m = Noted(s, ackno, window)
  BY DEF Noted, NotedBy
<1> HIDE DEF d, k
<1>3. NotedTo(d, m, Later(at, k, n), ackno, window)
  BY <1>1, NoteFieldsOf
<1> HIDE DEF m
<1> QED  BY <1>1, <1>2, <1>3 DEF Taken, NotedTo, k

-------------------------------------------------------------------------------
(* The other methods *)

\* What a step leaves that sends no number and takes no acknowledgment.
Moved(s, t, at) ==
  /\ Base(t) /\ (Timed(s) => Timed(t))
  /\ \E bt : Grown(s, t, at, bt)
  /\ t.ackGot = s.ackGot /\ t.next_seqno = s.next_seqno
  /\ t.true_window_size = s.true_window_size /\ t.syn_flag = s.syn_flag

\* The application writes and ends the stream: the stream changes, the queue
\* does not.
LEMMA StreamMoved ==
  ASSUME NEW s, Base(s), NEW at, QueueAt(s, at), NEW bs,
         bs \in ByteStreamOf(Byte), StreamRight(bs),
         bs.read_count = s.stream.read_count,
         bs.is_eof = s.stream.is_eof \/ bs.is_eof = TRUE
  PROVE  Moved(s, [s EXCEPT !.stream = bs], at)
<1> DEFINE t == [s EXCEPT !.stream = bs]
<1>1. s \in SenderOf /\ Counted(s)
  BY DEF Base
<1>2. /\ t \in SenderOf /\ t.stream = bs /\ t.next_seqno = s.next_seqno
      /\ t.syn_flag = s.syn_flag /\ t.fin_flag = s.fin_flag
      /\ t.outSegments = s.outSegments /\ t.bytes_in_flight = s.bytes_in_flight
      /\ t.ackGot = s.ackGot /\ t.true_window_size = s.true_window_size
      /\ t.timer = s.timer
      /\ t.consecutive_retransmission = s.consecutive_retransmission
  BY <1>1 DEF SenderOf
<1> HIDE DEF t
<1>3. Base(t)
  BY <1>1, <1>2 DEF Base, Counted
<1>4. Timed(s) => Timed(t)
  BY <1>2 DEF Timed
<1>5. ASSUME NEW seg, NEW p, Placed(seg, p, s.stream.is_eof)
      PROVE  Placed(seg, p, bs.is_eof)
  BY <1>5 DEF Placed, Carries
<1>6. QueueAt(t, at)
  BY <1>2, <1>5 DEF QueueAt
<1>7. Grown(s, t, at, at)
  BY <1>2, <1>6, GrownSame
<1> QED  BY <1>2, <1>3, <1>4, <1>7 DEF Moved, t

\* What a write takes is the next piece of the application's stream.
LEMMA WriteMoved ==
  ASSUME NEW s, Base(s), NEW at, QueueAt(s, at), NEW len \in Nat,
         s.stream.is_eof = FALSE, s.stream.write_count + len <= Len(Stream)
  PROVE  Moved(s, [s EXCEPT !.stream =
                     write(s.stream, SubSeq(Stream, s.stream.write_count + 1,
                                                    s.stream.write_count + len))], at)
<1> DEFINE bs == s.stream
           done == s.stream.write_count
           data == SubSeq(Stream, done + 1, done + len)
           n == accepted_len(bs, data)
           d == SubSeq(Stream, done + 1, done + n)
           w == write(bs, data)
<1>1. OutRight(bs, bs.read_count, done)
  BY DEF Base, StreamRight
<1>2. /\ bs \in ByteStreamOf(Byte) /\ Len(bs.buf) <= bs.capacity /\ done \in Nat
      /\ done <= Len(Stream)
  BY <1>1 DEF OutRight
<1>3. Stream \in Seq(Byte) /\ Len(Stream) \in Nat
  BY SenderNumbers
<1>4. data \in Seq(Byte) /\ Len(data) = len
  <2>1. Piece(data, done) /\ Len(data) = len
    BY <1>2, <1>3, SubSeqPiece
  <2> QED  BY <2>1 DEF Piece
<1>5. n \in 0..len /\ n <= bs.capacity - Len(bs.buf)
  BY <1>2, <1>4, AcceptedLen
<1>6. n \in Nat /\ done + n <= Len(Stream) /\ n <= remaining_capacity(bs)
  BY <1>2, <1>3, <1>5 DEF remaining_capacity
<1>7. d \in Seq(Byte) /\ Len(d) = n
  <2>1. Piece(d, done) /\ Len(d) = n
    BY <1>2, <1>3, <1>6, SubSeqPiece
  <2> QED  BY <2>1 DEF Piece
<1>8. SubSeq(data, 1, n) = d
  <2>1. 0 \in 0..n /\ n \in 0..len /\ (done + 0) + 1 = done + 1 /\ 0 + 1 = 1
    BY <1>2, <1>5, <1>6
  <2>2. done + len <= Len(Stream)
    OBVIOUS
  <2> HIDE DEF n, done
  <2>3. SubSeq(SubSeq(Stream, done + 1, done + len), 0 + 1, n)
          = SubSeq(Stream, done + 0 + 1, done + n)
    BY <1>2, <1>3, <2>1, <2>2, PieceOfPiece
  <2> QED  BY <2>1, <2>3
<1>9. accepted_len(bs, d) = n /\ SubSeq(d, 1, n) = d
  <2>1. accepted_len(bs, d) = n
    BY <1>2, <1>5, <1>7, AcceptedLen
  <2> QED  BY <1>7, <2>1, SubSeqFull
<1>10. w = write(bs, d)
  <2>1. w = [bs EXCEPT !.buf = bs.buf \o d, !.write_count = done + n]
    BY <1>2, <1>8 DEF write, ByteStreamOf
  <2>2. write(bs, d) = [bs EXCEPT !.buf = bs.buf \o d, !.write_count = done + n]
    BY <1>2, <1>9 DEF write, ByteStreamOf
  <2> QED  BY <2>1, <2>2
<1>11. OutRight(w, bs.read_count, done + n)
  BY <1>1, <1>6, <1>10, OutMoves
<1>12. w.is_eof = FALSE
  BY <1>2, <1>4, WriteFacts
<1> HIDE DEF w
<1>13. /\ w \in ByteStreamOf(Byte) /\ w.read_count = bs.read_count
       /\ w.write_count = done + n
  BY <1>11 DEF OutRight
<1>14. StreamRight(w)
  BY <1>11, <1>12, <1>13 DEF StreamRight
<1>15. Moved(s, [s EXCEPT !.stream = w], at)
  BY <1>12, <1>13, <1>14, StreamMoved
<1> QED  BY <1>15 DEF w

\* The end comes after the last byte.
LEMMA EndMoved ==
  ASSUME NEW s, Base(s), NEW at, QueueAt(s, at), s.stream.write_count = Len(Stream)
  PROVE  Moved(s, [s EXCEPT !.stream = end_input(s.stream)], at)
<1> DEFINE bs == s.stream
           w == end_input(bs)
<1>1. OutRight(bs, bs.read_count, bs.write_count) /\ bs \in ByteStreamOf(Byte)
  BY DEF Base, StreamRight, OutRight
<1>2. /\ w \in ByteStreamOf(Byte) /\ w.read_count = bs.read_count
      /\ w.write_count = bs.write_count /\ w.buf = bs.buf /\ w.capacity = bs.capacity
      /\ w.is_eof = TRUE
  BY <1>1 DEF end_input, ByteStreamOf
<1> HIDE DEF w
<1>3. StreamRight(w)
  BY <1>1, <1>2 DEF StreamRight, OutRight
<1>4. Moved(s, [s EXCEPT !.stream = w], at)
  BY <1>2, <1>3, StreamMoved
<1> QED  BY <1>4 DEF w

\* The owner takes what is queued to be sent.
LEMMA CollectMoved ==
  ASSUME NEW s, Base(s), NEW at, QueueAt(s, at)
  PROVE  Moved(s, [s EXCEPT !.segments_out = <<>>], at)
<1> DEFINE t == [s EXCEPT !.segments_out = <<>>]
<1>1. s \in SenderOf /\ StreamRight(s.stream) /\ Counted(s)
  BY DEF Base
<1>2. <<>> \in Seq(SegmentOf)
  OBVIOUS
<1>3. /\ t \in SenderOf /\ t.stream = s.stream /\ t.next_seqno = s.next_seqno
      /\ t.syn_flag = s.syn_flag /\ t.fin_flag = s.fin_flag
      /\ t.outSegments = s.outSegments /\ t.bytes_in_flight = s.bytes_in_flight
      /\ t.ackGot = s.ackGot /\ t.true_window_size = s.true_window_size
      /\ t.timer = s.timer
      /\ t.consecutive_retransmission = s.consecutive_retransmission
  BY <1>1, <1>2 DEF SenderOf
<1> HIDE DEF t
<1>4. Base(t)
  BY <1>1, <1>3 DEF Base, Counted
<1>5. Timed(s) => Timed(t)
  BY <1>3 DEF Timed
<1>6. QueueAt(t, at)
  BY <1>3 DEF QueueAt
<1>7. Grown(s, t, at, at)
  BY <1>3, <1>6, GrownSame
<1> QED  BY <1>3, <1>4, <1>5, <1>7 DEF Moved, t

\* The timer after tick: it runs on, or it has run out and starts again.
LEMMA TickTimer ==
  ASSUME NEW t \in TimerOf, t.time < t.rto, NEW ms \in Nat
  PROVE  /\ passTime(t, ms) \in TimerOf /\ passTime(t, ms).rto = t.rto
         /\ passTime(t, ms).time < t.rto
<1>1. t.rto \in Nat /\ t.time \in Nat /\ t.isrunning \in BOOLEAN
  BY DEF TimerOf
<1>2. CASE t.isrunning = FALSE
  <2>1. passTime(t, ms) = t
    BY <1>2 DEF passTime
  <2> QED  BY <2>1
<1>3. CASE t.isrunning = TRUE /\ t.time + ms >= t.rto
  <2>1. passTime(t, ms) = [rto |-> t.rto, time |-> 0, isrunning |-> FALSE]
    BY <1>3 DEF passTime, TimerOf
  <2>2. 0 < t.rto
    BY <1>1
  <2> QED  BY <2>1, <2>2 DEF TimerOf
<1>4. CASE t.isrunning = TRUE /\ ~(t.time + ms >= t.rto)
  <2>1. passTime(t, ms) = [t EXCEPT !.time = t.time + ms]
    BY <1>4 DEF passTime, TimerOf
  <2>2. t.time + ms \in Nat /\ t.time + ms < t.rto
    BY <1>1, <1>4
  <2> QED  BY <2>1, <2>2 DEF TimerOf
<1> QED  BY <1>1, <1>2, <1>3, <1>4

\* A timer that starts from zero.
LEMMA StartedTimer ==
  ASSUME NEW u \in TimerOf
  PROVE  /\ start(resetTime(u)) \in TimerOf /\ start(resetTime(u)).isrunning = TRUE
         /\ start(resetTime(u)).time = 0 /\ start(resetTime(u)).rto = u.rto
BY DEF start, resetTime, TimerOf

\* One that is backed off.
LEMMA DoubledTimer ==
  ASSUME NEW t \in TimerOf
  PROVE  doubleRTO(t) \in TimerOf /\ doubleRTO(t).rto = 2 * t.rto
<1>1. t.rto \in Nat /\ 2 * t.rto \in Nat
  BY DEF TimerOf
<1> QED  BY <1>1 DEF doubleRTO, TimerOf

\* Starting again, backed off and not.
LEMMA TickRestart ==
  ASSUME NEW t \in TimerOf, NEW k \in Nat, t.rto = RetxTimeout * 2^k
  PROVE  LET u == start(resetTime(doubleRTO(t)))
             v == start(resetTime(t))
         IN  /\ u \in TimerOf /\ u.isrunning = TRUE /\ u.time < u.rto
             /\ u.rto = RetxTimeout * 2^(k + 1)
             /\ v \in TimerOf /\ v.isrunning = TRUE /\ v.time < v.rto
             /\ v.rto = RetxTimeout * 2^k
<1>1. 2^k \in Nat /\ 2^k > 0 /\ 2^(k + 1) = 2 * 2^k
  BY PowerDoubles, PowerPositive
<1>2. RetxTimeout \in Nat /\ RetxTimeout > 0
  BY SenderNumbers
<1> DEFINE r == t.rto
           e == 2^k
           u == start(resetTime(doubleRTO(t)))
           v == start(resetTime(t))
<1>3. r \in Nat /\ r > 0 /\ 2 * r \in Nat /\ 2 * r > 0 /\ 2 * r = RetxTimeout * 2^(k + 1)
  <2>1. r = RetxTimeout * e /\ e \in Nat /\ e > 0
    BY <1>1
  <2>2. ASSUME NEW a \in Nat, NEW b \in Nat, a > 0, b > 0
        PROVE  a * b \in Nat /\ a * b > 0 /\ 2 * (a * b) = a * (2 * b)
    BY <2>2
  <2>3. RetxTimeout * e \in Nat /\ RetxTimeout * e > 0
        /\ 2 * (RetxTimeout * e) = RetxTimeout * (2 * e)
    BY <1>2, <2>1, <2>2
  <2>4. 2^(k + 1) = 2 * e
    BY <1>1
  <2> HIDE DEF r, e
  <2> QED  BY <2>1, <2>3, <2>4
<1>4. doubleRTO(t) \in TimerOf /\ doubleRTO(t).rto = 2 * r
  BY DoubledTimer
<1>5. u \in TimerOf /\ u.isrunning = TRUE /\ u.time = 0 /\ u.rto = 2 * r
  BY <1>4, StartedTimer
<1>6. v \in TimerOf /\ v.isrunning = TRUE /\ v.time = 0 /\ v.rto = r
  BY StartedTimer
<1>7. r = RetxTimeout * 2^k
  OBVIOUS
<1> HIDE DEF r, u, v
<1> QED  BY <1>3, <1>5, <1>6, <1>7 DEF u, v

\* tick: the timer and the count change, and a segment may go out again.
LEMMA TickMoved ==
  ASSUME NEW s, Base(s), Timed(s), NEW at, QueueAt(s, at), NEW ms \in Nat
  PROVE  Moved(s, tick(s, ms), at)
<1> DEFINE p == passTime(s.timer, ms)
           counts == s.true_window_size # 0 \/ s.next_seqno = 1
           u == start(resetTime(IF counts THEN doubleRTO(p) ELSE p))
           k == s.consecutive_retransmission
           more == Append(s.segments_out, Head(s.outSegments))
           t == tick(s, ms)
<1>1. s \in SenderOf /\ StreamRight(s.stream) /\ Counted(s)
  BY DEF Base
<1>2. /\ s.timer \in TimerOf /\ s.segments_out \in Seq(SegmentOf)
      /\ s.outSegments \in Seq(SegmentOf) /\ k \in Nat
  BY BaseFields
<1>3. /\ s.timer.time < s.timer.rto /\ s.timer.rto = RetxTimeout * 2^k
      /\ (s.outSegments # <<>> => s.timer.isrunning = TRUE)
  BY DEF Timed
<1>4. p \in TimerOf /\ p.rto = s.timer.rto /\ p.time < s.timer.rto
  BY <1>2, <1>3, TickTimer
<1>5. p.rto = RetxTimeout * 2^k
  BY <1>3, <1>4
<1>6. /\ u \in TimerOf /\ u.isrunning = TRUE /\ u.time < u.rto
      /\ k + flag(counts) \in Nat /\ u.rto = RetxTimeout * 2^(k + flag(counts))
  <2> DEFINE u1 == start(resetTime(doubleRTO(p)))
             u2 == start(resetTime(p))
  <2>1. /\ u1 \in TimerOf /\ u1.isrunning = TRUE /\ u1.time < u1.rto
        /\ u1.rto = RetxTimeout * 2^(k + 1)
        /\ u2 \in TimerOf /\ u2.isrunning = TRUE /\ u2.time < u2.rto
        /\ u2.rto = RetxTimeout * 2^k
    <3> HIDE DEF p, k
    <3> QED  BY <1>2, <1>4, <1>5, TickRestart
  <2>2. CASE counts
    <3>1. u = u1 /\ k + flag(counts) = k + 1 /\ k + 1 \in Nat
      BY <1>2, <2>2 DEF flag
    <3> HIDE DEF u, u1, counts, k
    <3> QED  BY <2>1, <3>1
  <2>3. CASE ~counts
    <3>1. u = u2 /\ k + flag(counts) = k /\ k \in Nat
      BY <1>2, <2>3 DEF flag
    <3> HIDE DEF u, u2, counts, k
    <3> QED  BY <2>1, <3>1
  <2> QED  BY <2>2, <2>3
<1> DEFINE Same(x) == /\ x \in SenderOf
                      /\ x.stream = s.stream /\ x.next_seqno = s.next_seqno
                      /\ x.syn_flag = s.syn_flag /\ x.fin_flag = s.fin_flag
                      /\ x.outSegments = s.outSegments
                      /\ x.bytes_in_flight = s.bytes_in_flight
                      /\ x.ackGot = s.ackGot
                      /\ x.true_window_size = s.true_window_size
<1>7. Same(t) /\ Timed(t)
  <2>1. CASE p.isrunning \/ s.outSegments = <<>>
    <3>1. t = [s EXCEPT !.timer = p]
      BY <2>1 DEF tick
    <3>2. p.isrunning \in BOOLEAN
      BY <1>4 DEF TimerOf
    <3> HIDE DEF p, t, u, counts
    <3>3. Same(t) /\ t.timer = p /\ t.consecutive_retransmission = k
      BY <1>1, <1>4, <3>1 DEF SenderOf
    <3>4. s.outSegments # <<>> => p.isrunning = TRUE
      BY <2>1, <3>2
    <3>5. p.rto = RetxTimeout * 2^k /\ p.time < p.rto
      BY <1>3, <1>4
    <3>6. Timed(t)
      BY <3>3, <3>4, <3>5 DEF Timed
    <3> QED  BY <3>3, <3>6
  <2>2. CASE ~(p.isrunning \/ s.outSegments = <<>>)
    <3>1. more \in Seq(SegmentOf)
      BY <1>2, <2>2
    <3>2. t = [s EXCEPT !.segments_out = more,
                        !.consecutive_retransmission = k + flag(counts), !.timer = u]
      BY <1>1, <2>2 DEF tick, SenderOf
    <3> HIDE DEF p, t, u, more, counts
    <3>3. k + flag(counts) \in Nat /\ u \in TimerOf
      BY <1>6
    <3>4. t \in SenderOf
      BY <1>1, <3>1, <3>2, <3>3 DEF SenderOf
    <3>5. /\ t.stream = s.stream /\ t.next_seqno = s.next_seqno
          /\ t.syn_flag = s.syn_flag /\ t.fin_flag = s.fin_flag
          /\ t.outSegments = s.outSegments /\ t.bytes_in_flight = s.bytes_in_flight
          /\ t.ackGot = s.ackGot /\ t.true_window_size = s.true_window_size
          /\ t.timer = u /\ t.consecutive_retransmission = k + flag(counts)
      BY <1>1, <3>2 DEF SenderOf
    <3>6. Timed(t)
      BY <1>6, <3>5 DEF Timed
    <3> QED  BY <3>4, <3>5, <3>6
  <2> QED  BY <2>1, <2>2
<1> HIDE DEF t
<1>8. Base(t)
  BY <1>1, <1>7 DEF Base, Counted
<1>9. QueueAt(t, at)
  BY <1>7 DEF QueueAt
<1>10. Grown(s, t, at, at)
  BY <1>7, <1>9, GrownSame
<1> QED  BY <1>7, <1>8, <1>10 DEF Moved, t

\* send_empty_segment: one that occupies no number is queued.
LEMMA EmptyMoved ==
  ASSUME NEW s, Base(s), NEW at, QueueAt(s, at)
  PROVE  Moved(s, send_empty_segment(s), at)
<1> DEFINE e == TCPSegmentNew
           segs == <<e>>
           a == s.next_seqno
           bt == [i \in 1..2 |-> a]
           t == sendSegments(s, segs)
<1>1. s \in SenderOf /\ StreamRight(s.stream) /\ Counted(s) /\ a \in Nat
  BY BaseFields DEF Base
<1>2. e \in SegmentOf /\ length_in_sequence_space(e) = 0 /\ e.seqno = 0
  <2>1. <<>> \in Seq(Byte) /\ Len(<<>>) = 0
    OBVIOUS
  <2>2. e \in SegmentOf
    BY <2>1 DEF TCPSegmentNew, SegmentOf
  <2> QED  BY <2>1, <2>2 DEF TCPSegmentNew, length_in_sequence_space, flag
<1> HIDE DEF e, a
<1>3. segs \in Seq(SegmentOf) /\ Len(segs) = 1 /\ segs[1] = e
  BY <1>2
<1> HIDE DEF segs
<1>4. bt[1] = a /\ bt[2] = a
  OBVIOUS
<1>5. Laid(segs, bt)
  <2>1. bt \in [1..(Len(segs) + 1) -> Nat]
    BY <1>1, <1>3
  <2>2. ASSUME NEW i \in 1..Len(segs)
        PROVE  bt[i + 1] = bt[i] + length_in_sequence_space(segs[i])
    <3>1. i = 1 /\ i + 1 = 2
      BY <1>3
    <3>2. a = a + 0
      BY <1>1
    <3> QED  BY <1>2, <1>3, <1>4, <3>1, <3>2
  <2> QED  BY <2>1, <2>2 DEF Laid
<1>6. \A i \in 1..Len(segs) : Placed(segs[i], bt[i], s.stream.is_eof)
  <2>1. ASSUME NEW i \in 1..Len(segs) PROVE Placed(segs[i], bt[i], s.stream.is_eof)
    <3>1. i = 1
      BY <1>3
    <3> QED  BY <1>2, <1>3, <3>1 DEF Placed
  <2> QED  BY <2>1
<1>7. bt[1] = s.next_seqno
  BY <1>4 DEF a
<1> HIDE DEF bt
<1>8. Sent(s, segs, bt[Len(segs) + 1], t)
  BY <1>1, <1>3, <1>5, <1>7, SendFields
<1>9. bt[Len(segs) + 1] = s.next_seqno
  BY <1>3, <1>4 DEF a
<1> HIDE DEF t
<1>10. /\ t \in SenderOf /\ t.outSegments = s.outSegments \o segs
       /\ t.next_seqno = s.next_seqno
       /\ t.bytes_in_flight = s.bytes_in_flight + (bt[Len(segs) + 1] - s.next_seqno)
       /\ t.stream = s.stream /\ t.ackGot = s.ackGot
       /\ t.true_window_size = s.true_window_size
       /\ t.fin_flag = s.fin_flag /\ t.syn_flag = s.syn_flag
  BY <1>8, <1>9 DEF Sent
<1>11. Base(t)
  BY <1>1, <1>10 DEF Base, Counted
<1>12. Timed(s) => Timed(t)
  BY <1>1, <1>3, <1>8, SendTimed
<1>13. Grown(s, t, at, Joined(at, Len(s.outSegments), bt, Len(segs)))
  BY <1>1, <1>3, <1>5, <1>6, <1>7, <1>9, <1>10, SendGrown
<1>14. t = send_empty_segment(s)
  BY DEF send_empty_segment, t, segs, e
<1> QED  BY <1>10, <1>11, <1>12, <1>13, <1>14 DEF Moved

\* ack_received: nothing, or the acknowledgment is taken and the window filled.
Answered(s, t, at, ackno, window) ==
  \/ t = s /\ ackno > wrap(s.next_seqno, Isn)
  \/ /\ ackno <= wrap(s.next_seqno, Isn)
     /\ \E m : /\ Taken(s, m, ackno, window, at)
               /\ Filled(m, t, Later(at, acked_count(s, ackno), Len(s.outSegments)))

\* It is one of the two.
LEMMA AckAnswered ==
  ASSUME NEW s, Base(s), NEW at, QueueAt(s, at), NEW ackno \in Nat, NEW window \in Nat
  PROVE  Answered(s, ack_received(s, ackno, window), at, ackno, window)
<1> DEFINE m == Noted(s, ackno, window)
           bt == Later(at, acked_count(s, ackno), Len(s.outSegments))
           w == wrap(s.next_seqno, Isn)
<1>1. s.isn = Isn /\ s.next_seqno \in Nat
  BY BaseFields
<1>2. w \in Nat
  <2>1. w \in Word
    <3>1. s.next_seqno \in Int /\ Isn \in Word
      BY <1>1, SenderNumbers
    <3> QED  BY <3>1, WrapFacts
  <2> QED  BY <2>1, SenderNumbers DEF Word
<1>3. CASE ackno > w
  <2>1. ack_received(s, ackno, window) = s
    BY <1>1, <1>3 DEF ack_received
  <2> QED  BY <1>3, <2>1 DEF Answered
<1>4. CASE ~(ackno > w)
  <2>1. ack_received(s, ackno, window) = fill_window(m)
    BY <1>1, <1>4 DEF ack_received, Noted
  <2>2. Taken(s, m, ackno, window, at)
    BY TakeAck
  <2> HIDE DEF m
  <2>3. Base(m) /\ QueueAt(m, bt)
    BY <2>2 DEF Taken
  <2>4. Filled(m, fill_window(m), bt)
    BY <2>3, FillAll
  <2>5. ackno <= w
    BY <1>2, <1>4
  <2> QED  BY <2>1, <2>2, <2>4, <2>5 DEF Answered
<1> QED  BY <1>3, <1>4

-------------------------------------------------------------------------------
(* The invariant *)

\* What the peer says.
Message == [ack : Nat, edge : Nat, win : Nat]

\* The sender is as the parts above say, for some layout of its queue.
SenderInv ==
  /\ Base(snd) /\ Timed(snd) /\ \E at : QueueAt(snd, at)
  /\ peer \in Message /\ old \subseteq Message

\* The layout of the empty queue.
NoneLaid == [i \in 1..1 |-> 0]

\* The constructor establishes it.
LEMMA InitSender ==
  ASSUME Init
  PROVE  SenderInv /\ QueueAt(snd, NoneLaid)
<1> DEFINE bs == ByteStreamNew(Capacity)
           tm == TimerNew(RetxTimeout)
<1>1. /\ snd = SenderNew(Capacity, RetxTimeout, Isn)
      /\ peer = [ack |-> 0, edge |-> 0, win |-> 0] /\ old = {}
  BY DEF Init
<1>2. <<>> \in Seq(Byte) /\ <<>> \in Seq(SegmentOf) /\ Len(<<>>) = 0
  OBVIOUS
<1>3. /\ bs \in ByteStreamOf(Byte) /\ bs.buf = <<>> /\ bs.capacity = Capacity
      /\ bs.write_count = 0 /\ bs.read_count = 0 /\ bs.is_eof = FALSE
  BY <1>2, SenderNumbers DEF ByteStreamNew, ByteStreamOf
<1>4. OutRight(bs, 0, 0)
  <2>1. SubSeq(Stream, 0 + 1, 0) = <<>>
    BY SenderNumbers, SubSeqEmpty
  <2>2. 0 <= Len(Stream) /\ Len(<<>>) <= Capacity
    BY <1>2, SenderNumbers
  <2> HIDE DEF bs
  <2> QED  BY <1>3, <2>1, <2>2 DEF OutRight
<1>5. tm \in TimerOf /\ tm.rto = RetxTimeout /\ tm.time = 0 /\ tm.isrunning = TRUE
  BY SenderNumbers DEF TimerNew, TimerOf
<1>6. /\ snd.isn = Isn /\ snd.segments_out = <<>> /\ snd.stream = bs
      /\ snd.next_seqno = 0 /\ snd.outSegments = <<>> /\ snd.bytes_in_flight = 0
      /\ snd.consecutive_retransmission = 0 /\ snd.fin_flag = FALSE
      /\ snd.syn_flag = FALSE /\ snd.timer = tm
  BY <1>1 DEF SenderNew
<1>7. snd \in SenderOf
  <2> HIDE DEF bs, tm
  <2> QED  BY <1>1, <1>2, <1>3, <1>5, SenderNumbers DEF SenderNew, SenderOf, bs, tm
<1> HIDE DEF bs, tm
<1>8. StreamRight(snd.stream)
  BY <1>3, <1>4, <1>6 DEF StreamRight
<1>9. Counted(snd)
  BY <1>3, <1>6 DEF Counted, flag
<1>10. Timed(snd)
  <2>1. RetxTimeout = RetxTimeout * 2^0 /\ 0 < RetxTimeout
    BY PowerDoubles, SenderNumbers
  <2> QED  BY <1>5, <1>6, <2>1 DEF Timed
<1>11. QueueAt(snd, NoneLaid)
  <2>1. NoneLaid \in [1..1 -> Nat] /\ NoneLaid[1] = 0 /\ 0 + 1 = 1 /\ 0 = 0 - 0
    BY DEF NoneLaid
  <2>2. Laid(<<>>, NoneLaid)
    BY <1>2, <2>1 DEF Laid
  <2> QED  BY <1>2, <1>6, <2>1, <2>2 DEF QueueAt
<1>12. peer \in Message /\ old \subseteq Message
  BY <1>1 DEF Message
<1> QED  BY <1>7, <1>8, <1>9, <1>10, <1>11, <1>12 DEF SenderInv, Base

\* An acknowledgment of number n, on the wire.
AnsweredTo(at, n, win) == Answered(snd, snd', at, wrap(n, Isn), win)

\* What a step does to the sender.
SenderSteps(at) ==
  \/ Moved(snd, snd', at) /\ UNCHANGED <<peer, old, late>>
  \/ Filled(snd, snd', at) /\ UNCHANGED <<peer, old, late>>
  \/ \E ack \in 1..snd.next_seqno, win \in 0..MaxWindow :
       NewAck(ack, win) /\ AnsweredTo(at, ack, win)
  \/ \E msg \in old : OldAck(msg) /\ AnsweredTo(at, msg.ack, msg.win)
  \/ \E win \in 0..MaxWindow :
       ImpossibleAck(win) /\ AnsweredTo(at, snd.next_seqno + 1, win)

\* Every step is one of these.
LEMMA StepCases ==
  ASSUME SenderInv, NEW at, QueueAt(snd, at), Next
  PROVE  SenderSteps(at)
<1>1. Base(snd) /\ Timed(snd) /\ old \subseteq Message
  BY DEF SenderInv
<1>2. /\ snd.next_seqno \in Nat /\ snd.stream.is_eof \in BOOLEAN
      /\ snd \in SenderOf
  BY <1>1, BaseFields DEF Base
<1>3. /\ Len(Stream) \in Nat /\ RetxTimeout \in Nat /\ MaxWindow \in Nat /\ Mod \in Nat
      /\ Isn \in Word
  BY SenderNumbers
<1>4. ASSUME NEW n \in Nat PROVE wrap(n, Isn) \in Nat
  <2>1. wrap(n, Isn) \in Word
    BY <1>3, WrapFacts
  <2> QED  BY <1>3, <2>1 DEF Word
<1>5. CASE SomeWrite
  <2>1. PICK len \in 1..Len(Stream) : AppWrite(len)
    BY <1>5 DEF SomeWrite
  <2> DEFINE done == snd.stream.write_count
             w == write(snd.stream, SubSeq(Stream, done + 1, done + len))
  <2>2. /\ snd.stream.is_eof = FALSE /\ done + len <= Len(Stream)
        /\ snd' = [snd EXCEPT !.stream = w] /\ UNCHANGED <<peer, old, late>>
    BY <1>2, <2>1 DEF AppWrite, SenderOf
  <2>3. len \in Nat
    BY <1>3
  <2>4. Moved(snd, [snd EXCEPT !.stream = w], at)
    BY <1>1, <2>2, <2>3, WriteMoved
  <2> HIDE DEF w, done
  <2> QED  BY <2>2, <2>4 DEF SenderSteps
<1>6. CASE AppEnd
  <2>1. /\ snd.stream.write_count = Len(Stream)
        /\ snd' = [snd EXCEPT !.stream = end_input(snd.stream)] /\ UNCHANGED <<peer, old, late>>
    BY <1>2, <1>6 DEF AppEnd, SenderOf
  <2>2. Moved(snd, [snd EXCEPT !.stream = end_input(snd.stream)], at)
    BY <1>1, <2>1, EndMoved
  <2> QED  BY <2>1, <2>2 DEF SenderSteps
<1>7. CASE FillWindow
  <2>1. snd' = fill_window(snd) /\ UNCHANGED <<peer, old, late>>
    BY <1>7 DEF FillWindow
  <2>2. Filled(snd, snd', at)
    BY <1>1, <2>1, FillAll
  <2> QED  BY <2>1, <2>2 DEF SenderSteps
<1>8. CASE Collect
  <2>1. snd' = [snd EXCEPT !.segments_out = <<>>] /\ UNCHANGED <<peer, old, late>>
    BY <1>8 DEF Collect
  <2>2. Moved(snd, snd', at)
    BY <1>1, <2>1, CollectMoved
  <2> QED  BY <2>1, <2>2 DEF SenderSteps
<1>9. CASE SomeTick
  <2>1. PICK ms \in 1..RetxTimeout : Tick(ms)
    BY <1>9 DEF SomeTick
  <2>2. snd' = tick(snd, ms) /\ UNCHANGED <<peer, old, late>> /\ ms \in Nat
    BY <1>3, <2>1 DEF Tick
  <2>3. Moved(snd, snd', at)
    BY <1>1, <2>2, TickMoved
  <2> QED  BY <2>2, <2>3 DEF SenderSteps
<1>10. CASE SendEmpty
  <2>1. snd' = send_empty_segment(snd) /\ UNCHANGED <<peer, old, late>>
    BY <1>10 DEF SendEmpty
  <2>2. Moved(snd, snd', at)
    BY <1>1, <2>1, EmptyMoved
  <2> QED  BY <2>1, <2>2 DEF SenderSteps
<1>11. ASSUME NEW ack \in 1..snd.next_seqno, NEW win \in 0..MaxWindow, NewAck(ack, win)
       PROVE  SenderSteps(at)
  <2>1. snd' = ack_received(snd, wrap(ack, Isn), win)
    BY <1>11 DEF NewAck
  <2>2. wrap(ack, Isn) \in Nat /\ win \in Nat
    BY <1>2, <1>3, <1>4
  <2>3. AnsweredTo(at, ack, win)
    BY <1>1, <2>1, <2>2, AckAnswered DEF AnsweredTo
  <2> QED  BY <1>11, <2>3 DEF SenderSteps
<1>12. ASSUME NEW msg \in old, OldAck(msg)
       PROVE  SenderSteps(at)
  <2>1. snd' = ack_received(snd, wrap(msg.ack, Isn), msg.win)
    BY <1>12 DEF OldAck
  <2>2. msg.ack \in Nat /\ msg.win \in Nat
    BY <1>1 DEF Message
  <2>3. AnsweredTo(at, msg.ack, msg.win)
    BY <1>1, <1>4, <2>1, <2>2, AckAnswered DEF AnsweredTo
  <2> QED  BY <1>12, <2>3 DEF SenderSteps
<1>13. ASSUME NEW win \in 0..MaxWindow, ImpossibleAck(win)
       PROVE  SenderSteps(at)
  <2>1. snd' = ack_received(snd, wrap(snd.next_seqno + 1, Isn), win)
    BY <1>13 DEF ImpossibleAck
  <2>2. snd.next_seqno + 1 \in Nat /\ win \in Nat
    BY <1>2, <1>3
  <2>3. AnsweredTo(at, snd.next_seqno + 1, win)
    BY <1>1, <1>4, <2>1, <2>2, AckAnswered DEF AnsweredTo
  <2> QED  BY <1>13, <2>3 DEF SenderSteps
<1> QED
  BY <1>5, <1>6, <1>7, <1>8, <1>9, <1>10, <1>11, <1>12, <1>13 DEF Next

\* Each of them keeps the invariant.
LEMMA SenderKept ==
  ASSUME SenderInv, [Next]_vars
  PROVE  SenderInv'
<1>1. CASE UNCHANGED vars
  BY <1>1 DEF vars, SenderInv, Base, Timed, QueueAt, Counted
<1>2. CASE Next
  <2>1. PICK at : QueueAt(snd, at)
    BY DEF SenderInv
  <2>2. SenderSteps(at)
    BY <1>2, <2>1, StepCases
  <2>3. Base(snd) /\ Timed(snd) /\ peer \in Message /\ old \subseteq Message
        /\ snd.next_seqno \in Nat /\ MaxWindow \in Nat
    BY BaseFields, SenderNumbers DEF SenderInv
  <2> DEFINE Good(t) == Base(t) /\ Timed(t) /\ \E bt : QueueAt(t, bt)
  <2>4. ASSUME NEW t, Moved(snd, t, at) PROVE Good(t)
    BY <2>3, <2>4 DEF Moved, Grown
  <2>5. ASSUME NEW s, NEW t, NEW bt, Timed(s), Filled(s, t, bt) PROVE Good(t)
    BY <2>5 DEF Filled, Grown
  <2>6. ASSUME NEW t, NEW n, NEW w, Answered(snd, t, at, n, w) PROVE Good(t)
    <3>1. CASE t = snd
      BY <2>1, <2>3, <3>1
    <3>2. CASE ~(t = snd)
      <4>1. PICK m : /\ Taken(snd, m, n, w, at)
                     /\ Filled(m, t, Later(at, acked_count(snd, n), Len(snd.outSegments)))
        BY <2>6, <3>2 DEF Answered
      <4>2. Timed(m)
        BY <2>3, <4>1 DEF Taken
      <4> QED  BY <2>5, <4>1, <4>2
    <3> QED  BY <3>1, <3>2
  <2> HIDE DEF Good
  <2>7. Good(snd')
    BY <2>2, <2>3, <2>4, <2>5, <2>6 DEF SenderSteps, AnsweredTo
  <2>8. peer' \in Message /\ old' \subseteq Message
    <3>1. ASSUME NEW ack \in 1..snd.next_seqno, NEW win \in 0..MaxWindow, NewAck(ack, win)
          PROVE  peer' \in Message /\ old' \subseteq Message
      <4>1. ack \in Nat /\ win \in Nat /\ ack + win \in Nat
        BY <2>3
      <4>2. /\ peer' = [ack |-> ack, edge |-> ack + win, win |-> win]
            /\ old' = old \/ old' = old \cup {peer'}
        BY <3>1 DEF NewAck
      <4>3. peer' \in Message
        BY <4>1, <4>2 DEF Message
      <4> QED  BY <2>3, <4>2, <4>3
    <3> QED  BY <2>2, <2>3, <3>1 DEF SenderSteps, OldAck, ImpossibleAck
  <2> QED  BY <2>7, <2>8 DEF SenderInv, Good
<1> QED  BY <1>1, <1>2

\* It holds in every state.
LEMMA SenderAlways == Spec => []SenderInv
<1>1. Init => SenderInv
  BY InitSender
<1>2. SenderInv /\ [Next]_vars => SenderInv'
  BY SenderKept
<1> QED  BY <1>1, <1>2, PTL DEF Spec

\* NumbersUsedOnce for every stream, payload size, window and schedule:
\* fill_window (tcp_sender.cc:33) sends no number twice and none after the FIN.
THEOREM SenderCounts == Spec => []NumbersUsedOnce
<1>1. SenderInv => NumbersUsedOnce
  BY DEF SenderInv, Base, Counted, NumbersUsedOnce
<1> QED  BY <1>1, SenderAlways, PTL

\* TimerArmed for every timeout and schedule: while something is outstanding
\* RETimer runs, below a timeout doubled once per retransmission counted.
THEOREM SenderTimer == Spec => []TimerArmed
<1>1. SenderInv => TimerArmed
  BY DEF SenderInv, Timed, TimerArmed
<1> QED  BY <1>1, SenderAlways, PTL

\* Where segment i starts is its place in the layout.
LEMMA StartIsPlace ==
  ASSUME SenderInv, NEW at, QueueAt(snd, at), NEW i \in DOMAIN snd.outSegments
  PROVE  /\ i \in 1..Len(snd.outSegments) /\ snd.outSegments[i] \in SegmentOf
         /\ StartOf(i) = at[i] /\ at[i] \in Nat
         /\ at[i + 1] = at[i] + length_in_sequence_space(snd.outSegments[i])
         /\ length_in_sequence_space(snd.outSegments[i]) \in Nat
         /\ Placed(snd.outSegments[i], at[i], snd.stream.is_eof)
<1> DEFINE q == snd.outSegments
           n == Len(q)
           k == i - 1
<1>1. q \in Seq(SegmentOf) /\ n \in Nat /\ snd.next_seqno \in Nat
  BY BaseFields DEF SenderInv
<1>2. i \in 1..n
  BY <1>1, LenProperties
<1>3. /\ Laid(q, at) /\ at[n + 1] = snd.next_seqno
      /\ Placed(q[i], at[i], snd.stream.is_eof)
  BY <1>2 DEF QueueAt
<1>4. k \in 0..n /\ k + 1 = i
  BY <1>1, <1>2
<1>5. SpaceOf(SubSeq(q, k + 1, n)) = at[n + 1] - at[k + 1] /\ at[k + 1] \in Nat
  BY <1>1, <1>3, <1>4, LaidCut
<1>6. StartOf(i) = snd.next_seqno - SpaceOf(SubSeq(q, k + 1, n))
  BY <1>4 DEF StartOf
<1>7. q[i] \in SegmentOf /\ at[i + 1] = at[i] + length_in_sequence_space(q[i])
  BY <1>1, <1>2, <1>3 DEF Laid
<1>8. length_in_sequence_space(q[i]) \in Nat
  BY <1>7, SegmentLength
<1> HIDE DEF q, n, k
<1>9. StartOf(i) = at[i] /\ at[i] \in Nat
  <2>1. ASSUME NEW a \in Nat, NEW b \in Nat PROVE a - (a - b) = b
    OBVIOUS
  <2>2. StartOf(i) = snd.next_seqno - (snd.next_seqno - at[i]) /\ at[i] \in Nat
    BY <1>3, <1>4, <1>5, <1>6
  <2> QED  BY <1>1, <2>1, <2>2
<1> QED  BY <1>2, <1>3, <1>7, <1>8, <1>9 DEF q, n

\* SegmentsRight for every stream and schedule: whatever is sent again
\* (tcp_sender.cc:111) carries at its number what the application wrote there.
THEOREM SenderSegments == Spec => []SegmentsRight
<1>1. ASSUME SenderInv PROVE SegmentsRight
  <2>1. PICK at : QueueAt(snd, at)
    BY <1>1 DEF SenderInv
  <2>2. snd.stream.is_eof \in BOOLEAN
    BY <1>1, BaseFields DEF SenderInv
  <2>3. ASSUME NEW i \in Outstanding
        PROVE  LET seg == snd.outSegments[i]
                   p   == StartOf(i)
                   len == Len(seg.payload)
               IN  /\ seg.syn <=> p = 0
                   /\ ~seg.syn => p + len - 1 <= Len(Stream)
                                  /\ seg.payload = SubSeq(Stream, p, p + len - 1)
                   /\ seg.fin => p + len = Len(Stream) + 1 /\ snd.stream.is_eof
                   /\ len <= MAX_PAYLOAD_SIZE
    <3> DEFINE seg == snd.outSegments[i]
    <3>1. i \in DOMAIN snd.outSegments /\ length_in_sequence_space(seg) > 0
      BY DEF Outstanding
    <3>2. /\ StartOf(i) = at[i] /\ seg \in SegmentOf
          /\ Placed(seg, at[i], snd.stream.is_eof)
      BY <1>1, <2>1, <3>1, StartIsPlace
    <3> HIDE DEF seg
    <3>3. Carries(seg, at[i], snd.stream.is_eof)
      BY <3>1, <3>2 DEF Placed
    <3>4. seg.syn \in BOOLEAN /\ seg.fin \in BOOLEAN
      BY <3>2 DEF SegmentOf
    <3> QED  BY <2>2, <3>2, <3>3, <3>4 DEF Carries, seg
  <2> QED  BY <2>3 DEF SegmentsRight
<1> QED  BY <1>1, SenderAlways, PTL

-------------------------------------------------------------------------------
(* What is acknowledged, as long as the numbers do not wrap *)

\* Raw numbers are compared as they are (tcp_sender.cc:85, 90): the SYN, the
\* stream, the FIN and one number more fit above Isn.  Where they do not,
\* InFlightExact fails: TCPSenderWrap.cfg.
NoWrap == Isn + Len(Stream) + 3 < Mod

\* Then a number on the wire is the number added to Isn.
LEMMA WrapFlat ==
  ASSUME NoWrap, NEW n \in Nat, n <= Len(Stream) + 3
  PROVE  wrap(n, Isn) = Isn + n
<1>1. Mod \in Nat /\ Mod > 0 /\ Isn \in Nat /\ Len(Stream) \in Nat
  BY SenderNumbers
<1>2. n \in 0..(Mod - 1) /\ n + Isn \in 0..(Mod - 1)
  BY <1>1 DEF NoWrap
<1>3. n % Mod = n /\ (n + Isn) % Mod = n + Isn
  BY <1>1, <1>2, ModSmall
<1>4. wrap(n, Isn) = ((n % Mod) + Isn) % Mod
  BY DEF wrap
<1>5. wrap(n, Isn) = n + Isn
  BY <1>3, <1>4
<1> QED  BY <1>1, <1>5

\* No more numbers are used than those.
LEMMA NumbersBound ==
  ASSUME NEW s, Base(s)
  PROVE  s.next_seqno \in Nat /\ s.next_seqno <= Len(Stream) + 2
<1>1. /\ s.next_seqno \in Nat /\ s.stream.read_count \in Nat
      /\ s.stream.write_count \in Nat /\ s.stream.read_count <= s.stream.write_count
      /\ s.stream.write_count <= Len(Stream) /\ Len(Stream) \in Nat
  BY BaseFields, SenderNumbers
<1>2. s.next_seqno = flag(s.syn_flag) + s.stream.read_count + flag(s.fin_flag)
  BY DEF Base, Counted
<1>3. flag(s.syn_flag) \in 0..1 /\ flag(s.fin_flag) \in 0..1
  BY DEF flag
<1> QED  BY <1>1, <1>2, <1>3

\* Of a queue laid out at at, everything before number a is acknowledged and
\* no segment that occupies a number is acknowledged to its end.
AckedTo(q, at, a) ==
  /\ at[1] <= a
  /\ \A i \in 1..Len(q) : length_in_sequence_space(q[i]) > 0 => at[i + 1] > a

\* What is sent later starts at next_seqno or after it.
LEMMA AckedGrown ==
  ASSUME NEW s, Base(s), NEW t, Base(t), NEW at, NEW bt, Grown(s, t, at, bt),
         NEW a \in Nat, a <= s.next_seqno, AckedTo(s.outSegments, at, a)
  PROVE  AckedTo(t.outSegments, bt, a)
<1> DEFINE n == Len(s.outSegments)
           m == Len(t.outSegments)
<1>1. n \in Nat /\ m \in Nat /\ t.outSegments \in Seq(SegmentOf) /\ s.next_seqno \in Nat
  BY BaseFields
<1>2. /\ Laid(t.outSegments, bt) /\ bt[1] = at[1]
      /\ \A i \in 1..n : t.outSegments[i] = s.outSegments[i] /\ bt[i + 1] = at[i + 1]
      /\ \A i \in (n + 1)..m : bt[i] >= s.next_seqno
  BY DEF Grown, QueueAt
<1>3. ASSUME NEW i \in 1..m, length_in_sequence_space(t.outSegments[i]) > 0
      PROVE  bt[i + 1] > a
  <2>1. CASE i <= n
    <3>1. i \in 1..n
      BY <1>1, <2>1
    <3>2. t.outSegments[i] = s.outSegments[i] /\ bt[i + 1] = at[i + 1]
      BY <1>2, <3>1
    <3> QED  BY <1>3, <3>1, <3>2 DEF AckedTo
  <2>2. CASE ~(i <= n)
    <3> DEFINE l == length_in_sequence_space(t.outSegments[i])
    <3>1. i \in (n + 1)..m /\ i \in 1..(m + 1)
      BY <1>1, <2>2
    <3>2. bt[i] >= s.next_seqno /\ bt[i + 1] = bt[i] + l /\ bt[i] \in Nat
      BY <1>2, <3>1 DEF Laid
    <3>3. l \in Nat /\ l > 0
      <4>1. t.outSegments[i] \in SegmentOf
        BY <1>1
      <4> QED  BY <1>3, <4>1, SegmentLength
    <3> HIDE DEF l
    <3> QED  BY <1>1, <3>2, <3>3
  <2> QED  BY <2>1, <2>2
<1> QED  BY <1>2, <1>3 DEF AckedTo

\* A segment is dropped if and only if it ends at or before the number
\* acknowledged, or occupies no number.
LEMMA AckedMeans ==
  ASSUME NoWrap, NEW seg \in SegmentOf, NEW p \in Nat, NEW ended, Placed(seg, p, ended),
         NEW a \in Nat, p <= Len(Stream) + 2
  PROVE  fully_acked(seg, Isn + a) <=>
           length_in_sequence_space(seg) = 0 \/ p + length_in_sequence_space(seg) <= a
<1> DEFINE l == length_in_sequence_space(seg)
<1>1. l \in Nat /\ Isn \in Nat /\ Len(Stream) \in Nat
  BY SegmentLength, SenderNumbers
<1>2. fully_acked(seg, Isn + a) <=> seg.seqno + l <= Isn + a
  BY DEF fully_acked
<1>3. CASE l = 0
  <2>1. seg.seqno = 0
    BY <1>3 DEF Placed
  <2> QED  BY <1>1, <1>2, <1>3, <2>1
<1>4. CASE l # 0
  <2>1. seg.seqno = wrap(p, Isn)
    BY <1>4 DEF Placed, Carries
  <2>2. wrap(p, Isn) = Isn + p
    BY <1>1, WrapFlat
  <2> HIDE DEF l
  <2>3. seg.seqno + l <= Isn + a <=> p + l <= a
    BY <1>1, <2>1, <2>2
  <2> QED  BY <1>2, <1>4, <2>3 DEF l
<1> QED  BY <1>3, <1>4

\* Dropping at number a what was acknowledged to number c leaves what is
\* acknowledged to the larger of the two: nothing is dropped too early, too
\* late or out of the middle.
LEMMA AckedDropped ==
  ASSUME NoWrap, NEW s, Base(s), NEW at, QueueAt(s, at),
         NEW c \in Nat, AckedTo(s.outSegments, at, c), NEW a \in Nat,
         NEW b \in Nat, c <= b, a <= b, b = c \/ b = a,
         NEW k, k = acked_count(s, Isn + a)
  PROVE  AckedTo(SubSeq(s.outSegments, k + 1, Len(s.outSegments)),
                 Later(at, k, Len(s.outSegments)), b)
<1> DEFINE q == s.outSegments
           n == Len(q)
           p == SubSeq(q, k + 1, n)
           bt == Later(at, k, n)
           len(i) == length_in_sequence_space(q[i])
<1>1. q \in Seq(SegmentOf) /\ n \in Nat
  BY BaseFields
<1>2. /\ Laid(q, at) /\ at[n + 1] = s.next_seqno
      /\ \A i \in 1..n : Placed(q[i], at[i], s.stream.is_eof)
  BY DEF QueueAt
<1>3. /\ k \in 0..n
      /\ \A i \in 1..k : fully_acked(q[i], Isn + a)
      /\ k = n \/ ~fully_acked(q[k + 1], Isn + a)
  BY AckedCount
<1>4. /\ at \in [1..(n + 1) -> Nat]
      /\ \A i \in 1..n : at[i + 1] = at[i] + len(i)
  BY <1>1, <1>2 DEF Laid
<1>5. /\ p \in Seq(SegmentOf) /\ Len(p) = n - k
      /\ \A i \in 1..(n - k) : p[i] = q[i + k]
  BY <1>1, <1>2, <1>3, LaidCut
<1>6. ASSUME NEW i \in 1..n
      PROVE  /\ len(i) \in Nat /\ at[i] \in Nat /\ at[i + 1] \in Nat
             /\ (fully_acked(q[i], Isn + a) <=> len(i) = 0 \/ at[i + 1] <= a)
  <2>1. q[i] \in SegmentOf /\ i \in 1..(n + 1) /\ i + 1 \in 1..(n + 1)
        /\ n + 1 \in 1..(n + 1) /\ i <= n + 1
    BY <1>1
  <2>2. len(i) \in Nat /\ at[i] \in Nat /\ at[i + 1] \in Nat
    BY <1>4, <2>1, SegmentLength
  <2>3. at[i] <= at[n + 1]
    BY <1>1, <1>2, <2>1, LaidMonotone
  <2>4. at[n + 1] <= Len(Stream) + 2 /\ at[n + 1] \in Nat
    BY <1>2, NumbersBound
  <2>5. at[i] <= Len(Stream) + 2
    BY <2>2, <2>3, <2>4, SenderNumbers
  <2>6. Placed(q[i], at[i], s.stream.is_eof)
    BY <1>2
  <2>7. fully_acked(q[i], Isn + a) <=> len(i) = 0 \/ at[i] + len(i) <= a
    BY <2>1, <2>2, <2>5, <2>6, AckedMeans
  <2> QED  BY <1>4, <2>2, <2>7
<1>7. /\ at[1] <= c
      /\ \A i \in 1..n : len(i) > 0 => at[i + 1] > c
  BY DEF AckedTo
<1> HIDE DEF q, n, p, bt, len
<1>8. at[k + 1] <= b
  <2> DEFINE T == {j \in Nat : j <= k => at[j + 1] <= b}
  <2>1. 0 \in T
    <3>1. at[1] \in Nat
      BY <1>1, <1>4
    <3>2. at[1] <= b /\ 0 + 1 = 1
      BY <1>7, <3>1
    <3> QED  BY <3>2
  <2>2. ASSUME NEW j \in T PROVE j + 1 \in T
    <3> SUFFICES ASSUME j + 1 <= k PROVE at[(j + 1) + 1] <= b
      OBVIOUS
    <3>1. j \in Nat /\ j + 1 \in 1..k /\ j + 1 \in 1..n /\ j <= k
      BY <1>1, <1>3, <2>2
    <3>2. at[j + 1] <= b
      BY <2>2, <3>1
    <3>3. /\ len(j + 1) \in Nat /\ at[j + 1] \in Nat /\ at[(j + 1) + 1] \in Nat
          /\ len(j + 1) = 0 \/ at[(j + 1) + 1] <= a
      BY <1>3, <1>6, <3>1
    <3>4. at[(j + 1) + 1] = at[j + 1] + len(j + 1)
      BY <1>4, <3>1
    <3> QED  BY <3>2, <3>3, <3>4
  <2> HIDE DEF T
  <2>3. T = Nat
    BY <2>1, <2>2, NatSetInduction DEF T
  <2>4. k \in Nat /\ k <= k
    BY <1>1, <1>3
  <2> QED  BY <2>3, <2>4 DEF T
<1>9. ASSUME NEW i \in 1..(n - k), length_in_sequence_space(p[i]) > 0
      PROVE  bt[i + 1] > b
  <2> DEFINE j == i + k
  <2>0. k \in 0..n /\ n \in Nat
    BY <1>1, <1>3
  <2>1. /\ j \in 1..n /\ i + 1 \in 1..(n - k + 1) /\ (i + 1) + k = j + 1
        /\ k + 1 \in 1..n /\ k # n /\ (k + 1) + 1 \in 1..(n + 1)
        /\ j + 1 \in 1..(n + 1) /\ (k + 1) + 1 <= j + 1
    BY <2>0
  <2> HIDE DEF j
  <2>2. bt[i + 1] = at[j + 1]
    BY <2>1 DEF bt, Later
  <2>3. len(j) > 0
    BY <1>5, <1>9 DEF len, j
  <2>4. at[j + 1] > c /\ at[j + 1] \in Nat
    BY <1>6, <1>7, <2>1, <2>3
  <2>5. ~(at[(k + 1) + 1] <= a) /\ at[(k + 1) + 1] \in Nat
    BY <1>3, <1>6, <2>1
  <2>6. at[(k + 1) + 1] <= at[j + 1]
    BY <1>1, <1>2, <2>1, LaidMonotone DEF n
  <2>7. at[j + 1] > a
    BY <2>4, <2>5, <2>6
  <2> QED  BY <2>2, <2>4, <2>7
<1>10. bt[1] = at[k + 1]
  <2>1. 1 \in 1..(n - k + 1) /\ 1 + k = k + 1
    BY <1>1, <1>3
  <2> QED  BY <2>1 DEF bt, Later
<1>11. AckedTo(p, bt, b)
  BY <1>5, <1>8, <1>9, <1>10 DEF AckedTo
<1> QED  BY <1>11 DEF p, bt, n, q

\* Room in the window, and what a fill may use: nothing is sent beyond it.
Usable(win) == IF win = 0 THEN 1 ELSE win

\* remain is taken modulo 2^32, which does not matter while what is sent is
\* within the window.
LEMMA RemainFits ==
  ASSUME NoWrap, NEW s, Base(s), NEW a \in Nat, s.ackGot = Isn + a,
         s.next_seqno <= a + usable_window(s)
  PROVE  s.next_seqno + remain(s) <= a + usable_window(s)
<1> DEFINE w == wrap(s.next_seqno, Isn)
           u == usable_window(s)
           x == u - (w - s.ackGot)
<1>1. s.next_seqno \in Nat /\ s.next_seqno <= Len(Stream) + 2
  BY NumbersBound
<1>2. Mod \in Nat /\ Mod > 0 /\ Isn \in Nat /\ Len(Stream) \in Nat
  BY SenderNumbers
<1>3. s.true_window_size \in Nat /\ s.isn = Isn
  BY BaseFields
<1>4. w = Isn + s.next_seqno
  BY <1>1, <1>2, WrapFlat
<1>5. u \in Nat /\ s.next_seqno <= a + u
  BY <1>3 DEF usable_window
<1>6. remain(s) = x % Mod
  BY <1>3 DEF remain
<1> HIDE DEF w, u
<1>7. x \in Nat /\ s.next_seqno + x = a + u
  BY <1>1, <1>2, <1>4, <1>5
<1> HIDE DEF x
<1>8. x % Mod \in Int /\ x % Mod <= x
  <2>1. x % Mod \in 0..(Mod - 1) /\ x \div Mod \in Int /\ x = Mod * (x \div Mod) + (x % Mod)
    BY <1>2, <1>7, ModFacts
  <2>2. ASSUME NEW m \in Nat, NEW d \in Int, NEW r \in 0..(m - 1), NEW y \in Nat, y = m * d + r
        PROVE  r <= y
    <3>1. CASE d >= 0
      <4>1. m * d >= 0 /\ m * d \in Int
        BY <3>1
      <4> QED  BY <2>2, <4>1
    <3>2. CASE d < 0
      <4>1. m * d <= -m
        <5>1. -d - 1 \in Nat
          BY <3>2
        <5>2. m * (-d - 1) >= 0 /\ m * (-d - 1) = -(m * d) - m
          BY <5>1
        <5> QED  BY <5>2
      <4>2. m * d \in Int
        OBVIOUS
      <4>3. y < 0
        BY <2>2, <4>1, <4>2
      <4> QED  BY <4>3
    <3> QED  BY <3>1, <3>2
  <2>3. x % Mod <= x
    BY <1>2, <1>7, <2>1, <2>2
  <2> QED  BY <1>2, <2>1, <2>3
<1> QED  BY <1>1, <1>5, <1>6, <1>7, <1>8 DEF u

\* The sender has the window win from number a on and has kept to it.
WindowRight(s, a, win) ==
  /\ s.true_window_size = win \/ (win = 0 /\ s.true_window_size = 1)
  /\ s.next_seqno <= a + Usable(win)

\* A fill keeps to it.
LEMMA WindowKept ==
  ASSUME NoWrap, NEW s, Base(s), NEW at, NEW t, Filled(s, t, at), NEW a \in Nat,
         s.ackGot = Isn + a, NEW win \in Nat, WindowRight(s, a, win)
  PROVE  WindowRight(t, a, win)
<1>1. s.next_seqno \in Nat /\ t.next_seqno \in Nat /\ s.syn_flag \in BOOLEAN
      /\ s.true_window_size \in Nat
  BY BaseFields DEF Filled
<1>2. usable_window(s) = Usable(win) /\ Usable(win) \in Nat /\ Usable(win) >= 1
  BY DEF WindowRight, Usable, usable_window
<1>3. t.true_window_size = win \/ (win = 0 /\ t.true_window_size = 1)
  BY <1>2 DEF Filled, WindowRight, Usable
<1>4. s.next_seqno + remain(s) <= a + Usable(win)
  BY <1>2, RemainFits DEF WindowRight
<1>5. t.next_seqno <= a + Usable(win)
  <2>1. CASE s.syn_flag = FALSE
    <3>1. t.next_seqno = 1
      BY <2>1 DEF Filled
    <3> QED  BY <1>2, <3>1
  <2>2. CASE s.syn_flag = TRUE
    <3>1. t.next_seqno <= s.next_seqno + remain(s)
      BY <2>2 DEF Filled
    <3>2. remain(s) \in Nat
      <4>1. FillFacts(s, payload_len(s), segment_count(s), fills_fin(s))
        BY FillNumbers
      <4>2. remain(s) \in 0..(Mod - 1)
        BY <4>1 DEF FillFacts
      <4> QED  BY <4>2, SenderNumbers
    <3> QED  BY <1>1, <1>2, <1>4, <3>1, <3>2
  <2> QED  BY <1>1, <2>1, <2>2
<1> QED  BY <1>3, <1>5 DEF WindowRight

\* The queue is acknowledged to number a, and the sender knows it.
Knows(s, a) ==
  /\ s.ackGot = Isn + a /\ a <= s.next_seqno
  /\ \E at : QueueAt(s, at) /\ AckedTo(s.outSegments, at, a)

\* It goes on knowing it when the queue grows.
LEMMA KnowsGrown ==
  ASSUME NEW s, Base(s), NEW t, Base(t), NEW a \in Nat, NEW at,
         AckedTo(s.outSegments, at, a), s.ackGot = Isn + a, a <= s.next_seqno,
         \E bt : Grown(s, t, at, bt), t.ackGot = s.ackGot, s.next_seqno <= t.next_seqno
  PROVE  Knows(t, a)
<1>1. PICK bt : Grown(s, t, at, bt)
  OBVIOUS
<1>2. AckedTo(t.outSegments, bt, a)
  BY <1>1, AckedGrown
<1>3. QueueAt(t, bt)
  BY <1>1 DEF Grown
<1>4. s.next_seqno \in Nat /\ t.next_seqno \in Nat
  BY BaseFields
<1>5. a <= t.next_seqno
  BY <1>4
<1> QED  BY <1>2, <1>3, <1>5 DEF Knows

\* An acknowledgment of number a that was sent, whatever was acknowledged before.
LEMMA KnowsAnswered ==
  ASSUME NoWrap, NEW s, Base(s), NEW at, QueueAt(s, at),
         NEW c \in Nat, AckedTo(s.outSegments, at, c), s.ackGot = Isn + c, c <= s.next_seqno,
         NEW a \in Nat, a <= s.next_seqno,
         NEW b \in Nat, c <= b, a <= b, b = c \/ b = a,
         NEW win \in Nat, NEW t, Answered(s, t, at, wrap(a, Isn), win)
  PROVE  /\ Knows(t, b)
         /\ s.next_seqno <= b + Usable(win) => WindowRight(t, b, win)
<1> DEFINE k == acked_count(s, Isn + a)
           n == Len(s.outSegments)
<1>1. s.next_seqno \in Nat /\ s.next_seqno <= Len(Stream) + 2
  BY NumbersBound
<1>2. Isn \in Nat /\ Len(Stream) \in Nat
  BY SenderNumbers
<1>3. wrap(a, Isn) = Isn + a /\ wrap(s.next_seqno, Isn) = Isn + s.next_seqno
  BY <1>1, <1>2, WrapFlat
<1>4. ~(Isn + a > Isn + s.next_seqno)
  BY <1>1, <1>2
<1>5. PICK m : /\ Taken(s, m, Isn + a, win, at)
               /\ Filled(m, t, Later(at, k, n))
  BY <1>3, <1>4 DEF Answered
<1>6. /\ Base(m) /\ QueueAt(m, Later(at, k, n))
      /\ m.outSegments = SubSeq(s.outSegments, k + 1, n)
      /\ m.next_seqno = s.next_seqno
      /\ m.ackGot = IF Isn + a > s.ackGot THEN Isn + a ELSE s.ackGot
      /\ m.true_window_size = win
  BY <1>5 DEF Taken
<1>7. AckedTo(m.outSegments, Later(at, k, n), b)
  BY <1>6, AckedDropped
<1> HIDE DEF k
<1>8. m.ackGot = Isn + b
  BY <1>2, <1>6
<1>9. b <= m.next_seqno
  BY <1>6
<1>10. /\ Base(t) /\ (\E bt : Grown(m, t, Later(at, k, n), bt))
       /\ t.ackGot = m.ackGot /\ m.next_seqno <= t.next_seqno
  BY <1>5 DEF Filled
<1>11. Knows(t, b)
  BY <1>6, <1>7, <1>8, <1>9, <1>10, KnowsGrown
<1>12. ASSUME s.next_seqno <= b + Usable(win) PROVE WindowRight(t, b, win)
  <2>1. WindowRight(m, b, win)
    BY <1>6, <1>12 DEF WindowRight
  <2> QED  BY <1>5, <1>6, <1>8, <2>1, WindowKept
<1> QED  BY <1>11, <1>12

\* What the peer has said, and what the sender makes of it.
AckInv ==
  /\ SenderInv /\ Knows(snd, peer.ack)
  /\ peer.edge = peer.ack + peer.win
  /\ \A msg \in old : msg.ack <= peer.ack
  /\ ~late => WindowRight(snd, peer.ack, peer.win)

\* The constructor establishes it.
LEMMA AckInit ==
  ASSUME Init
  PROVE  AckInv
<1>1. SenderInv /\ QueueAt(snd, NoneLaid)
  BY InitSender
<1>2. /\ snd = SenderNew(Capacity, RetxTimeout, Isn)
      /\ peer = [ack |-> 0, edge |-> 0, win |-> 0] /\ old = {}
  BY DEF Init
<1>3. /\ snd.ackGot = Isn /\ snd.next_seqno = 0 /\ snd.outSegments = <<>>
      /\ snd.true_window_size = 0
  BY <1>2 DEF SenderNew
<1>4. peer.ack = 0 /\ peer.edge = 0 /\ peer.win = 0
  BY <1>2
<1>5. AckedTo(snd.outSegments, NoneLaid, 0)
  BY <1>3 DEF AckedTo, NoneLaid
<1>6. Isn = Isn + 0
  BY SenderNumbers
<1>7. Knows(snd, peer.ack)
  BY <1>1, <1>3, <1>4, <1>5, <1>6 DEF Knows
<1>8. WindowRight(snd, peer.ack, peer.win)
  BY <1>3, <1>4 DEF WindowRight, Usable
<1> QED  BY <1>1, <1>2, <1>4, <1>7, <1>8 DEF AckInv

\* Every step keeps it.
LEMMA AckKept ==
  ASSUME NoWrap, AckInv, [Next]_vars
  PROVE  AckInv'
<1>1. SenderInv' /\ SenderInv
  BY SenderKept DEF AckInv
<1>2. CASE UNCHANGED vars
  BY <1>1, <1>2 DEF vars, AckInv, Knows, WindowRight, QueueAt, AckedTo
<1>3. CASE Next
  <2>1. PICK at : QueueAt(snd, at) /\ AckedTo(snd.outSegments, at, peer.ack)
    BY DEF AckInv, Knows
  <2>2. /\ Base(snd) /\ Base(snd') /\ snd.next_seqno \in Nat
        /\ snd.ackGot = Isn + peer.ack /\ peer.ack <= snd.next_seqno
    BY <1>1, BaseFields DEF AckInv, Knows, SenderInv
  <2>3. /\ peer.ack \in Nat /\ peer.edge \in Nat /\ peer.win \in Nat /\ MaxWindow \in Nat
        /\ peer.edge = peer.ack + peer.win
        /\ old \subseteq Message /\ peer \in Message
        /\ \A msg \in old : msg.ack <= peer.ack
        /\ (~late => WindowRight(snd, peer.ack, peer.win))
    BY <1>1, SenderNumbers DEF AckInv, SenderInv, Message
  <2>4. SenderSteps(at)
    BY <1>1, <1>3, <2>1, StepCases
  <2>5. CASE Moved(snd, snd', at) /\ UNCHANGED <<peer, old, late>>
    <3>1. /\ (\E bt : Grown(snd, snd', at, bt)) /\ snd'.ackGot = snd.ackGot
          /\ snd'.next_seqno = snd.next_seqno
          /\ snd'.true_window_size = snd.true_window_size
      BY <2>5 DEF Moved
    <3>2. snd.next_seqno <= snd'.next_seqno
      BY <2>2, <3>1
    <3>3. Knows(snd', peer.ack)
      BY <2>1, <2>2, <2>3, <3>1, <3>2, KnowsGrown
    <3>4. ~late => WindowRight(snd', peer.ack, peer.win)
      BY <2>3, <3>1 DEF WindowRight
    <3> QED  BY <1>1, <2>3, <2>5, <3>3, <3>4 DEF AckInv
  <2>6. CASE Filled(snd, snd', at) /\ UNCHANGED <<peer, old, late>>
    <3>1. /\ (\E bt : Grown(snd, snd', at, bt)) /\ snd'.ackGot = snd.ackGot
          /\ snd.next_seqno <= snd'.next_seqno
      BY <2>6 DEF Filled
    <3>2. Knows(snd', peer.ack)
      BY <2>1, <2>2, <2>3, <3>1, KnowsGrown
    <3>3. ~late => WindowRight(snd', peer.ack, peer.win)
      BY <2>2, <2>3, <2>6, WindowKept
    <3> QED  BY <1>1, <2>3, <2>6, <3>2, <3>3 DEF AckInv
  <2>7. ASSUME NEW ack \in 1..snd.next_seqno, NEW win \in 0..MaxWindow,
               NewAck(ack, win), AnsweredTo(at, ack, win)
        PROVE  AckInv'
    <3>1. /\ ack >= peer.ack /\ ack + win >= peer.edge
          /\ peer' = [ack |-> ack, edge |-> ack + win, win |-> win]
          /\ (old' = old \/ old' = old \cup {peer'})
          /\ late' = late
      BY <2>7 DEF NewAck
    <3>2. /\ ack \in Nat /\ ack <= snd.next_seqno /\ win \in Nat /\ peer.ack <= ack /\ ack <= ack
      BY <2>2, <2>3, <3>1
    <3>3. Answered(snd, snd', at, wrap(ack, Isn), win)
      BY <2>7 DEF AnsweredTo
    <3>4. /\ Knows(snd', ack)
          /\ snd.next_seqno <= ack + Usable(win) => WindowRight(snd', ack, win)
      BY <2>1, <2>2, <2>3, <3>2, <3>3, KnowsAnswered
    <3>5. peer'.ack = ack /\ peer'.edge = ack + win /\ peer'.win = win
      BY <3>1
    <3>6. ~late => snd.next_seqno <= ack + Usable(win)
      <4>1. ASSUME ~late PROVE snd.next_seqno <= ack + Usable(win)
        <5>1. snd.next_seqno <= peer.ack + Usable(peer.win)
          BY <2>3, <4>1 DEF WindowRight
        <5>2. CASE peer.win = 0
          BY <2>2, <2>3, <3>1, <3>2, <5>1, <5>2 DEF Usable
        <5>3. CASE peer.win # 0
          BY <2>2, <2>3, <3>1, <3>2, <5>1, <5>3 DEF Usable
        <5> QED  BY <5>2, <5>3
      <4> QED  BY <4>1
    <3>7. \A msg \in old' : msg.ack <= ack
      <4>1. ASSUME NEW msg \in old PROVE msg.ack <= ack
        <5>1. msg.ack \in Nat /\ msg.ack <= peer.ack
          BY <2>3 DEF Message
        <5> QED  BY <2>3, <3>2, <5>1
      <4> QED  BY <3>1, <3>2, <3>5, <4>1
    <3> QED  BY <1>1, <3>1, <3>4, <3>5, <3>6, <3>7 DEF AckInv
  <2>8. ASSUME NEW msg \in old, OldAck(msg), AnsweredTo(at, msg.ack, msg.win)
        PROVE  AckInv'
    <3>1. late' = (late \/ msg # peer) /\ peer' = peer /\ old' = old
      BY <2>8 DEF OldAck
    <3>2. /\ msg.ack \in Nat /\ msg.win \in Nat /\ msg.ack <= peer.ack
      BY <2>3 DEF Message
    <3>3. msg.ack <= snd.next_seqno /\ peer.ack <= peer.ack
      BY <2>2, <2>3, <3>2
    <3>4. Answered(snd, snd', at, wrap(msg.ack, Isn), msg.win)
      BY <2>8 DEF AnsweredTo
    <3>5. /\ Knows(snd', peer.ack)
          /\ snd.next_seqno <= peer.ack + Usable(msg.win)
               => WindowRight(snd', peer.ack, msg.win)
      BY <2>1, <2>2, <2>3, <3>2, <3>3, <3>4, KnowsAnswered
    <3>6. ~late' => WindowRight(snd', peer.ack, peer.win)
      BY <2>3, <3>1, <3>5 DEF WindowRight
    <3> QED  BY <1>1, <2>3, <3>1, <3>5, <3>6 DEF AckInv
  <2>9. ASSUME NEW win \in 0..MaxWindow,
               ImpossibleAck(win), AnsweredTo(at, snd.next_seqno + 1, win)
        PROVE  AckInv'
    <3>1. peer' = peer /\ old' = old /\ late' = late
      BY <2>9 DEF ImpossibleAck
    <3>2. snd.next_seqno <= Len(Stream) + 2 /\ Len(Stream) \in Nat /\ Isn \in Nat
      BY <2>2, NumbersBound, SenderNumbers
    <3>3. /\ snd.next_seqno + 1 \in Nat /\ snd.next_seqno + 1 <= Len(Stream) + 3
          /\ snd.next_seqno <= Len(Stream) + 3
      BY <2>2, <3>2
    <3>4. /\ wrap(snd.next_seqno + 1, Isn) = Isn + (snd.next_seqno + 1)
          /\ wrap(snd.next_seqno, Isn) = Isn + snd.next_seqno
      BY <2>2, <3>3, WrapFlat
    <3>5. ~(Isn + (snd.next_seqno + 1) <= Isn + snd.next_seqno)
      BY <2>2, <3>2
    <3>6. snd' = snd
      BY <2>9, <3>4, <3>5 DEF AnsweredTo, Answered
    <3> QED  BY <1>1, <2>3, <3>1, <3>6 DEF AckInv
  <2> QED  BY <2>4, <2>5, <2>6, <2>7, <2>8, <2>9 DEF SenderSteps
<1> QED  BY <1>2, <1>3

\* It holds in every state.
LEMMA AckAlways ==
  ASSUME NoWrap
  PROVE  Spec => []AckInv
<1>1. Init => AckInv
  BY AckInit
<1>2. AckInv /\ [Next]_vars => AckInv'
  BY AckKept
<1> QED  BY <1>1, <1>2, PTL DEF Spec

\* InFlightExact for every stream and schedule, late and repeated
\* acknowledgments included, while the numbers do not wrap: ack_received
\* (tcp_sender.cc:84) drops what is acknowledged to its end, and only that.
THEOREM SenderInFlight ==
  ASSUME NoWrap
  PROVE  Spec => []InFlightExact
<1>1. ASSUME AckInv PROVE InFlightExact
  <2>1. SenderInv /\ peer.ack \in Nat
    BY <1>1 DEF AckInv, SenderInv, Message
  <2>2. PICK at : QueueAt(snd, at) /\ AckedTo(snd.outSegments, at, peer.ack)
    BY <1>1 DEF AckInv, Knows
  <2> DEFINE q == snd.outSegments
             n == Len(q)
  <2>3. q \in Seq(SegmentOf) /\ n \in Nat /\ snd.next_seqno \in Nat
    BY <2>1, BaseFields DEF SenderInv
  <2>4. /\ Laid(q, at) /\ at[n + 1] = snd.next_seqno
        /\ snd.bytes_in_flight = snd.next_seqno - at[1]
    BY <2>2 DEF QueueAt
  <2>5. SpaceOf(q) = at[n + 1] - at[1] /\ at[1] \in Nat
    BY <2>3, <2>4, LaidSpace
  <2>6. snd.bytes_in_flight = SpaceOf(q)
    BY <2>4, <2>5
  <2>7. snd.next_seqno - snd.bytes_in_flight <= peer.ack
    <3>1. ASSUME NEW a \in Nat, NEW b \in Nat PROVE a - (a - b) = b
      OBVIOUS
    <3>2. snd.next_seqno - snd.bytes_in_flight = at[1]
      BY <2>3, <2>4, <2>5, <3>1
    <3> QED  BY <2>2, <3>2 DEF AckedTo
  <2>8. ASSUME NEW i \in Outstanding
        PROVE  /\ q[i].seqno = wrap(StartOf(i), Isn)
               /\ StartOf(i) + length_in_sequence_space(q[i]) > peer.ack
    <3>1. i \in DOMAIN q /\ length_in_sequence_space(q[i]) > 0
      BY DEF Outstanding
    <3>2. /\ i \in 1..n /\ StartOf(i) = at[i]
          /\ at[i + 1] = at[i] + length_in_sequence_space(q[i])
          /\ Placed(q[i], at[i], snd.stream.is_eof)
      BY <2>1, <2>2, <3>1, StartIsPlace
    <3>3. q[i].seqno = wrap(at[i], Isn)
      BY <3>1, <3>2 DEF Placed, Carries
    <3>4. at[i + 1] > peer.ack
      BY <2>2, <3>1, <3>2 DEF AckedTo
    <3> QED  BY <3>2, <3>3, <3>4
  <2> QED  BY <2>6, <2>7, <2>8 DEF InFlightExact
<1> QED  BY <1>1, AckAlways, PTL

\* WindowRespected for every window and schedule, under the same condition:
\* until an acknowledgment is overtaken, fill_window (tcp_sender.cc:33) sends
\* nothing beyond the window, except the number that probes a closed one.
THEOREM SenderWindow ==
  ASSUME NoWrap
  PROVE  Spec => []WindowRespected
<1>1. ASSUME AckInv PROVE WindowRespected
  <2>1. /\ peer.ack \in Nat /\ peer.win \in Nat /\ peer.edge = peer.ack + peer.win
        /\ snd.next_seqno \in Nat
    BY <1>1, BaseFields DEF AckInv, SenderInv, Message
  <2>2. ASSUME ~late PROVE WithinWindow
    <3>1. snd.next_seqno <= peer.ack + Usable(peer.win)
      BY <1>1, <2>2 DEF AckInv, WindowRight
    <3>2. CASE peer.win = 0
      BY <2>1, <3>1, <3>2 DEF Usable, WithinWindow
    <3>3. CASE peer.win # 0
      BY <2>1, <3>1, <3>3 DEF Usable, WithinWindow
    <3> QED  BY <3>2, <3>3
  <2> QED  BY <2>2 DEF WindowRespected
<1> QED  BY <1>1, AckAlways, PTL

================================================================================
