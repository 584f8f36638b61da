------------------------ MODULE TCPSpongeSocketProofs -------------------------
(***************************************************************************)
(* What TCPSpongeSocket hands from the connection to its owner, for every  *)
(* capacity, bound and interleaving of the two threads and the network.    *)
(* Lemmas on the connection's calls, on the event loop and on the four     *)
(* callbacks say what each keeps; the invariant Inv puts them together.    *)
(***************************************************************************)
EXTENDS TCPSpongeSocket, TLAPS

\* The rules by name.
AdapterIn  == <<"adapter", "In">>
DataIn     == <<"data", "In">>
DataOut    == <<"data", "Out">>
AdapterOut == <<"adapter", "Out">>

RuleSet == {AdapterIn, DataIn, DataOut, AdapterOut}
Event   == {"In", "Out", "HUP"}

-------------------------------------------------------------------------------
(* Types *)

\* The descriptors, the connection, the socket pair, the loop, and all of them.
FDType == [eof : BOOLEAN, closed : BOOLEAN, serviced : SUBSET {"In", "Out"}]

TCPType ==
  [active : BOOLEAN, handshake : {"LISTEN", "SYN_SENT", "done"}, room : 0..Capacity,
   out_ended : BOOLEAN, received : Nat, inbuf : 0..InCapacity, in_ended : BOOLEAN,
   in_error : BOOLEAN, queue : Nat, past_end : BOOLEAN]

PairType == [up : Nat, down : 0..PipeCapacity, up_shut : BOOLEAN, down_shut : BOOLEAN]

LoopType ==
  [rules : SUBSET RuleSet, asked : SUBSET RuleSet,
   seen : UNION {[S -> SUBSET Event] : S \in SUBSET RuleSet},
   todo : SUBSET RuleSet, thrown : {"no", "broken pipe", "busy wait", "poll error"}]

WorkType ==
  [loop : LoopType, fd : [adapter : FDType, data : FDType], tcp : TCPType, pair : PairType,
   datagram : BOOLEAN, inbound_shutdown : BOOLEAN, outbound_shutdown : BOOLEAN]

-------------------------------------------------------------------------------
(* The connection *)

\* It ends with an error, or after the end of the inbound stream.
TcpInv(t) ==
  /\ t \in TCPType
  /\ t.in_error => ~t.active
  /\ ~t.active => t.in_error \/ t.in_ended

\* What no call of the connection undoes.
Later(t, u) ==
  /\ u.received - u.inbuf = t.received - t.inbuf
  /\ t.in_ended => u.in_ended
  /\ t.in_error => u.in_error
  /\ t.past_end => u.past_end
  /\ (t.in_ended \/ ~t.active) /\ ~u.past_end => u.inbuf = t.inbuf
  /\ ~t.active => ~u.active

\* The constants, one by one.
LEMMA Numbers ==
  /\ Capacity \in Nat \ {0} /\ InCapacity \in Nat \ {0} /\ PipeCapacity \in Nat \ {0}
  /\ InCapacity <= PipeCapacity
  /\ MaxIn \in Nat /\ MaxOut \in Nat /\ MaxQueue \in Nat /\ MaxSignals \in Nat
  BY SocketAssumption

\* A segment is queued.
LEMMA QueuedFacts ==
  ASSUME NEW t, TcpInv(t)
  PROVE  TcpInv(queued(t)) /\ Later(t, queued(t))
  <1>1. Smaller(t.queue + 1, MaxQueue) \in Nat
    <2>1. t.queue + 1 \in Nat /\ MaxQueue \in Nat
      BY Numbers DEF TcpInv, TCPType
    <2> QED BY <2>1 DEF Smaller
  <1> QED BY <1>1 DEF queued, TcpInv, TCPType, Later

\* Later is transitive,
LEMMA LaterTrans ==
  ASSUME NEW t, NEW u, NEW v, TcpInv(t), TcpInv(u), TcpInv(v), Later(t, u), Later(u, v)
  PROVE  Later(t, v)
  BY DEF Later, TcpInv, TCPType

\* and reflexive.
LEMMA LaterRefl ==
  ASSUME NEW t, TcpInv(t)
  PROVE  Later(t, t)
  BY DEF Later, TcpInv, TCPType

\* What it shows of the inbound stream.
SameInbound(t, u) ==
  /\ u.active = t.active /\ u.received = t.received /\ u.inbuf = t.inbuf
  /\ u.in_ended = t.in_ended /\ u.in_error = t.in_error /\ u.past_end = t.past_end

\* The end of the outbound stream says nothing of the inbound one.
LEMMA EndInputFacts ==
  ASSUME NEW t, TcpInv(t)
  PROVE  /\ TcpInv(tcp_end_input_stream(t)) /\ Later(t, tcp_end_input_stream(t))
         /\ SameInbound(t, tcp_end_input_stream(t))
  <1> DEFINE u == [t EXCEPT !.out_ended = TRUE]
  <1>1. TcpInv(u) /\ Later(t, u)
    BY DEF TcpInv, TCPType, Later
  <1>2. TcpInv(queued(u)) /\ Later(u, queued(u))
    BY <1>1, QueuedFacts
  <1>3. SameInbound(t, queued(u))
    BY DEF SameInbound, queued, TcpInv, TCPType
  <1> QED BY <1>1, <1>2, <1>3, LaterTrans DEF tcp_end_input_stream

\* Nor does a write, which takes no more than there is room.
LEMMA WriteFacts ==
  ASSUME NEW t, TcpInv(t), NEW n \in 0..t.room, NEW u \in tcp_write(t, n)
  PROVE  TcpInv(u) /\ Later(t, u)
  <1>1. PICK r \in (t.room - n)..t.room : u = queued([t EXCEPT !.room = r])
    BY DEF tcp_write
  <1>2. t.room \in 0..Capacity /\ Capacity \in Nat
    BY Numbers DEF TcpInv, TCPType
  <1>3. r \in 0..Capacity
    BY <1>2
  <1> DEFINE x == [t EXCEPT !.room = r]
  <1>4. TcpInv(x) /\ Later(t, x)
    BY <1>3 DEF TcpInv, TCPType, Later
  <1> HIDE DEF x
  <1>5. TcpInv(queued(x)) /\ Later(x, queued(x))
    BY <1>4, QueuedFacts
  <1>6. u = queued(x)
    BY <1>1 DEF x
  <1> QED BY <1>4, <1>5, <1>6, LaterTrans

\* A reset ends the connection with an error.
LEMMA ResetFacts ==
  ASSUME NEW t, TcpInv(t)
  PROVE  TcpInv(tcp_reset(t)) /\ Later(t, tcp_reset(t))
  BY DEF tcp_reset, TcpInv, TCPType, Later

\* An acknowledgment leaves it as active as it was.
LEMMA AckedFacts ==
  ASSUME NEW t, TcpInv(t), NEW u \in tcp_acked(t)
  PROVE  TcpInv(u) /\ Later(t, u) /\ u.active = t.active
  <1> DEFINE S == IF t.handshake = "LISTEN" THEN {"LISTEN", "SYN_SENT"} ELSE {t.handshake, "done"}
  <1>2. S \subseteq {"LISTEN", "SYN_SENT", "done"}
    BY DEF TcpInv, TCPType
  <1> HIDE DEF S
  <1>6. PICK s \in S : u \in {[t EXCEPT !.room = n, !.handshake = s] : n \in t.room..Capacity}
    BY DEF tcp_acked, S
  <1>7. PICK n \in t.room..Capacity : u = [t EXCEPT !.room = n, !.handshake = s]
    BY <1>6
  <1>4. s \in {"LISTEN", "SYN_SENT", "done"}
    BY <1>2
  <1>5. t.room \in 0..Capacity /\ Capacity \in Nat
    BY Numbers DEF TcpInv, TCPType
  <1>1. n \in 0..Capacity
    BY <1>5
  <1> QED BY <1>1, <1>4, <1>7 DEF TcpInv, TCPType, Later

\* What arrives is added to the stream; behind the end it leaves a mark.
LEMMA ArrivedFacts ==
  ASSUME NEW t, TcpInv(t), t.active, NEW u \in tcp_arrived(t)
  PROVE  TcpInv(u) /\ Later(t, u)
  <1>1. CASE u = t
    BY <1>1, LaterRefl
  <1>2. CASE \E n \in 0..Smaller(InCapacity - t.inbuf, MaxIn - t.received), e \in {t.in_ended, TRUE} :
               u = [t EXCEPT !.inbuf = @ + n, !.received = @ + n, !.in_ended = e,
                             !.past_end = @ \/ (t.in_ended /\ n > 0)]
    <2>1. PICK n \in 0..Smaller(InCapacity - t.inbuf, MaxIn - t.received), e \in {t.in_ended, TRUE} :
                 u = [t EXCEPT !.inbuf = @ + n, !.received = @ + n, !.in_ended = e,
                               !.past_end = @ \/ (t.in_ended /\ n > 0)]
      BY <1>2
    <2>2. InCapacity \in Nat /\ MaxIn \in Nat /\ t.inbuf \in 0..InCapacity /\ t.received \in Nat
      BY Numbers DEF TcpInv, TCPType
    <2>4. /\ InCapacity - t.inbuf \in Int /\ MaxIn - t.received \in Int
          /\ Smaller(InCapacity - t.inbuf, MaxIn - t.received) \in Int
          /\ Smaller(InCapacity - t.inbuf, MaxIn - t.received) <= InCapacity - t.inbuf
      BY <2>2 DEF Smaller
    <2>3. n \in Nat /\ t.inbuf + n \in 0..InCapacity /\ t.received + n \in Nat
      BY <2>2, <2>4
    <2>6. e \in BOOLEAN /\ (t.in_ended => e) /\ (t.past_end \/ (t.in_ended /\ n > 0)) \in BOOLEAN
      BY DEF TcpInv, TCPType
    <2>5. /\ u \in TCPType
          /\ u.inbuf = t.inbuf + n /\ u.received = t.received + n
          /\ u.active = t.active /\ u.in_ended = e /\ u.in_error = t.in_error
          /\ u.past_end <=> t.past_end \/ (t.in_ended /\ n > 0)
      BY <2>1, <2>3, <2>6 DEF TcpInv, TCPType
    <2>7. TcpInv(u)
      BY <2>5, <2>6 DEF TcpInv
    <2>8. t.in_ended /\ ~u.past_end => u.inbuf = t.inbuf
      <3>1. t.in_ended /\ ~u.past_end => ~(n > 0)
        BY <2>5
      <3> QED BY ONLY <2>2, <2>3, <2>5, <3>1
    <2>9. u.received - u.inbuf = t.received - t.inbuf
      BY <2>2, <2>3, <2>5
    <2>10. (t.in_ended => u.in_ended) /\ (t.past_end => u.past_end) /\ (t.in_error => u.in_error)
      BY <2>5, <2>6
    <2>11. (t.in_ended \/ ~t.active) /\ ~u.past_end => u.inbuf = t.inbuf
      BY <2>8
    <2> QED BY <2>7, <2>9, <2>10, <2>11 DEF Later
  <1>3. CASE t.handshake # "done"
    BY <1>1, <1>3 DEF tcp_arrived
  <1>4. CASE t.handshake = "done"
    <2> DEFINE N == 0..Smaller(InCapacity - t.inbuf, MaxIn - t.received)
               x(n, e) == [t EXCEPT !.inbuf = @ + n, !.received = @ + n, !.in_ended = e,
                                    !.past_end = @ \/ (t.in_ended /\ n > 0)]
    <2>1. u \in UNION {{x(n, e) : e \in {t.in_ended, TRUE}} : n \in N}
      BY <1>4 DEF tcp_arrived
    <2> HIDE DEF x, N
    <2>2. \E n \in N, e \in {t.in_ended, TRUE} : u = x(n, e)
      BY <2>1
    <2> QED BY <1>2, <2>2 DEF x, N
  <1> QED BY <1>3, <1>4

\* Only a connection whose inbound stream has ended closes cleanly.
LEMMA ClosedFacts ==
  ASSUME NEW t, TcpInv(t), NEW u \in tcp_closed(t)
  PROVE  TcpInv(u) /\ Later(t, u)
  BY DEF tcp_closed, tcp_finished, TcpInv, TCPType, Later

\* segment_received, all of it.
LEMMA SegmentFacts ==
  ASSUME NEW t, TcpInv(t), NEW u \in {t} \cup tcp_segment_received(t)
  PROVE  TcpInv(u) /\ Later(t, u)
  <1>1. CASE u = t
    BY <1>1, LaterRefl
  <1>2. CASE t.active /\ u = tcp_reset(t)
    BY <1>2, ResetFacts
  <1>3. CASE /\ t.active
             /\ \E a \in tcp_acked(t) : \E b \in tcp_arrived(a) : \E c \in tcp_closed(b) :
                  u \in {c, queued(c)}
    <2> PICK a \in tcp_acked(t) : \E b \in tcp_arrived(a) : \E c \in tcp_closed(b) :
               u \in {c, queued(c)}
      BY <1>3
    <2> PICK b \in tcp_arrived(a) : \E c \in tcp_closed(b) : u \in {c, queued(c)}
      OBVIOUS
    <2>1. PICK c \in tcp_closed(b) : u \in {c, queued(c)}
      OBVIOUS
    <2>2. TcpInv(a) /\ Later(t, a) /\ a.active
      BY <1>3, AckedFacts
    <2>3. TcpInv(b) /\ Later(a, b)
      BY <2>2, ArrivedFacts
    <2>4. TcpInv(c) /\ Later(b, c)
      BY <2>3, ClosedFacts
    <2>5. TcpInv(u) /\ Later(c, u)
      BY <2>1, <2>4, QueuedFacts, LaterRefl
    <2>6. Later(t, b)
      BY <2>2, <2>3, LaterTrans
    <2>7. Later(t, c)
      BY <2>3, <2>4, <2>6, LaterTrans
    <2> QED BY <2>4, <2>5, <2>7, LaterTrans
  <1> QED BY <1>1, <1>2, <1>3 DEF tcp_segment_received

\* tick, all of it.
LEMMA TickFacts ==
  ASSUME NEW t, TcpInv(t), NEW u \in {t} \cup tcp_tick(t)
  PROVE  TcpInv(u) /\ Later(t, u)
  <1>1. CASE u = t
    BY <1>1, LaterRefl
  <1>2. CASE u \in tcp_closed(t)
    BY <1>2, ClosedFacts
  <1>3. CASE u = queued(t)
    BY <1>3, QueuedFacts
  <1>4. CASE u = queued(tcp_reset(t))
    <2>1. TcpInv(tcp_reset(t)) /\ Later(t, tcp_reset(t))
      BY ResetFacts
    <2> QED BY <1>4, <2>1, QueuedFacts, LaterTrans
  <1> QED BY <1>1, <1>2, <1>3, <1>4 DEF tcp_tick

-------------------------------------------------------------------------------
(* The event loop *)

\* Four rules were added.
LEMMA FourRules ==
  /\ Len(Rules) = 4
  /\ Rules[1] = AdapterIn /\ Rules[2] = DataIn /\ Rules[3] = DataOut /\ Rules[4] = AdapterOut
  /\ DOMAIN Rules = 1..4
  BY DEF Rules, AdapterIn, DataIn, DataOut, AdapterOut

\* The loop over the rules, turn by turn.
LEMMA PreparedIs ==
  ASSUME NEW v
  PROVE  L!prepared(v) =
           L!prepare(L!prepare(L!prepare(L!prepare([v EXCEPT !.loop.asked = {}],
             AdapterIn), DataIn), DataOut), AdapterOut)
  <1> DEFINE a0 == [v EXCEPT !.loop.asked = {}]
             a1 == L!prepare(a0, AdapterIn)
             a2 == L!prepare(a1, DataIn)
             a3 == L!prepare(a2, DataOut)
             a4 == L!prepare(a3, AdapterOut)
             Turns(f) == [i \in 0..Len(Rules) |->
                            IF i = 0 THEN a0 ELSE L!prepare(f[i - 1], Rules[i])]
             upto == CHOOSE f : f = Turns(f)
             h == [i \in 0..4 |-> IF i = 0 THEN a0 ELSE IF i = 1 THEN a1
                                  ELSE IF i = 2 THEN a2 ELSE IF i = 3 THEN a3 ELSE a4]
  <1>1. L!prepared(v) = upto[Len(Rules)]
    BY DEF L!prepared
  <1>2. h = Turns(h)
    <2> HIDE DEF a0
    <2>1. \A i \in 0..4 : h[i] = IF i = 0 THEN a0 ELSE L!prepare(h[i - 1], Rules[i])
      BY FourRules
    <2> HIDE DEF h
    <2> QED BY <2>1, FourRules DEF h
  <1>3. upto = Turns(upto)
    BY <1>2
  <1> HIDE DEF upto, a0
  <1>4. /\ upto[0] = a0
        /\ upto[1] = L!prepare(upto[0], AdapterIn)
        /\ upto[2] = L!prepare(upto[1], DataIn)
        /\ upto[3] = L!prepare(upto[2], DataOut)
        /\ upto[4] = L!prepare(upto[3], AdapterOut)
    BY <1>3, FourRules
  <1> QED BY <1>1, <1>4, FourRules DEF a0

\* The connection ended with an error that a partial write may have left bytes
\* behind of, or bytes came after the end.
Shaky(v) == (PartialWrites /\ v.tcp.in_error) \/ v.tcp.past_end

\* The rules that are never cancelled: their descriptors stay open.
RulesInv(v) ==
  /\ {AdapterIn, AdapterOut} \subseteq v.loop.rules
  /\ Shaky(v) \/ DataOut \in v.loop.rules
  /\ ~v.fd.adapter.eof /\ ~v.fd.adapter.closed /\ ~v.fd.data.closed

\* What every state of the TCP thread is like.
Base(v) == v \in WorkType /\ TcpInv(v.tcp) /\ RulesInv(v)

\* What preparing a rule leaves alone.
Prepares(v, u) ==
  /\ u.fd = v.fd /\ u.pair = v.pair /\ u.inbound_shutdown = v.inbound_shutdown
  /\ u.loop.thrown = v.loop.thrown
  /\ SameInbound(v.tcp, u.tcp)

\* Rule DataOut has work: bytes, or an end that was not told yet.
Wanted(v) == v.tcp.inbuf > 0 \/ ((in_eof(v.tcp) \/ v.tcp.in_error) /\ ~v.inbound_shutdown)

\* No two of them are the same.
LEMMA RulesDiffer ==
  /\ AdapterIn # DataIn /\ AdapterIn # DataOut /\ AdapterIn # AdapterOut
  /\ DataIn # DataOut /\ DataIn # AdapterOut /\ DataOut # AdapterOut
  BY DEF AdapterIn, DataIn, DataOut, AdapterOut

\* The interests of all rules but DataIn.
LEMMA InterestFacts ==
  ASSUME NEW v
  PROVE  /\ Interest(AdapterIn, v) = v.tcp.active
         /\ Interest(DataOut, v) = Wanted(v)
         /\ Interest(AdapterOut, v) = (v.tcp.queue > 0)
  BY RulesDiffer DEF Interest, AdapterIn, DataIn, DataOut, AdapterOut, Wanted

\* These rules are never cancelled by the first loop: their descriptors neither
\* end nor close.  They are asked for if they are interested.
LEMMA PrepareKept ==
  ASSUME NEW v, Base(v), NEW r \in {AdapterIn, DataOut, AdapterOut}
  PROVE  LET u == L!prepare(v, r)
         IN  /\ Base(u) /\ Prepares(v, u) /\ u.tcp = v.tcp
             /\ r \in v.loop.rules =>
                  u.loop.asked = v.loop.asked \cup (IF Interest(r, v) THEN {r} ELSE {})
             /\ u.loop.rules = v.loop.rules
             /\ r \notin v.loop.rules => u.loop.asked = v.loop.asked
  <1> DEFINE u == L!prepare(v, r)
             t == [v EXCEPT !.loop.asked = @ \cup {r}]
  <1>1. ~((r[2] = "In" /\ v.fd[r[1]].eof) \/ v.fd[r[1]].closed)
    BY DEF Base, RulesInv, AdapterIn, DataOut, AdapterOut
  <1>2. u = IF r \in v.loop.rules /\ Interest(r, v) THEN t ELSE v
    BY <1>1 DEF L!prepare
  <1>3. /\ Base(t) /\ Prepares(v, t) /\ t.tcp = v.tcp
        /\ t.loop.asked = v.loop.asked \cup {r} /\ t.loop.rules = v.loop.rules
    BY DEF Base, WorkType, LoopType, RuleSet, RulesInv, Shaky, Prepares, SameInbound
  <1>4. Prepares(v, v)
    BY DEF Prepares, SameInbound
  <1> QED BY <1>2, <1>3, <1>4

\* DataIn may be cancelled: the connection is then told of the end.
LEMMA PrepareDataIn ==
  ASSUME NEW v, Base(v)
  PROVE  LET u == L!prepare(v, DataIn)
         IN  /\ Base(u) /\ Prepares(v, u)
             /\ u.loop.asked \ {DataIn} = v.loop.asked \ {DataIn}
             /\ DataOut \in u.loop.rules <=> DataOut \in v.loop.rules
  <1> DEFINE u == L!prepare(v, DataIn)
             t == [v EXCEPT !.loop.asked = @ \cup {DataIn}]
             e == end_outbound(v)
             c == [e EXCEPT !.loop.rules = @ \ {DataIn}]
  <1>1. Base(t) /\ Prepares(v, t) /\ t.loop.asked = v.loop.asked \cup {DataIn}
           /\ t.loop.rules = v.loop.rules
    BY DEF Base, WorkType, LoopType, RuleSet, RulesInv, Shaky, Prepares, SameInbound
  <1>2. Prepares(v, v)
    BY DEF Prepares, SameInbound
  <1>3. L!cancelled(v, DataIn) = c
    BY DEF L!cancelled, Cancel, DataIn
  <1>4. /\ TcpInv(tcp_end_input_stream(v.tcp))
        /\ SameInbound(v.tcp, tcp_end_input_stream(v.tcp))
    BY EndInputFacts DEF Base
  <1>5. /\ c.tcp = tcp_end_input_stream(v.tcp) /\ c.fd = v.fd /\ c.pair = v.pair
        /\ c.inbound_shutdown = v.inbound_shutdown
        /\ c.loop.todo = v.loop.todo /\ c.loop.thrown = v.loop.thrown
        /\ c.loop.asked = v.loop.asked /\ c.loop.rules = v.loop.rules \ {DataIn}
    BY DEF Base, WorkType, LoopType, end_outbound
  <1>6. c \in WorkType
    BY <1>4 DEF Base, WorkType, LoopType, end_outbound, TcpInv
  <1>7. Prepares(v, c)
    BY <1>4, <1>5 DEF Prepares
  <1>8. Base(c)
    BY <1>4, <1>5, <1>6, RulesDiffer DEF Base, RulesInv, Shaky, SameInbound
  <1>9. u \in {v, t, c}
    BY <1>3 DEF L!prepare
  <1> QED BY <1>1, <1>2, <1>5, <1>7, <1>8, <1>9, RulesDiffer

\* Prepares is transitive.
LEMMA PreparesTrans ==
  ASSUME NEW a, NEW b, NEW c, Prepares(a, b), Prepares(b, c)
  PROVE  Prepares(a, c)
  BY DEF Prepares, SameInbound

\* All rules but DataIn stay, and each that stays has been asked for its
\* interest in the state that the loop leaves.
LEMMA PreparedFacts ==
  ASSUME NEW v, Base(v)
  PROVE  LET u == L!prepared(v)
         IN  /\ Base(u) /\ Prepares(v, u)
             /\ u.tcp.active => AdapterIn \in u.loop.asked
             /\ DataOut \in u.loop.rules => (DataOut \in u.loop.asked <=> Wanted(u))
             /\ u.tcp.queue > 0 => AdapterOut \in u.loop.asked
  <1> DEFINE a0 == [v EXCEPT !.loop.asked = {}]
             a1 == L!prepare(a0, AdapterIn)
             a2 == L!prepare(a1, DataIn)
             a3 == L!prepare(a2, DataOut)
             a4 == L!prepare(a3, AdapterOut)
  <1>0. /\ Base(a0) /\ Prepares(v, a0) /\ a0.loop.asked = {}
        /\ a0.loop.rules = v.loop.rules
    BY DEF Base, WorkType, LoopType, RulesInv, Shaky, Prepares, SameInbound
  <1> HIDE DEF a0
  <1>1. /\ Base(a1) /\ Prepares(a0, a1)
        /\ a1.loop.rules = a0.loop.rules
        /\ AdapterIn \in a1.loop.asked <=> a0.tcp.active
        /\ DataOut \notin a1.loop.asked
    BY <1>0, PrepareKept, InterestFacts, RulesDiffer DEF Base, RulesInv
  <1> HIDE DEF a1
  <1>2. /\ Base(a2) /\ Prepares(a1, a2)
        /\ a2.loop.asked \ {DataIn} = a1.loop.asked \ {DataIn}
        /\ DataOut \in a2.loop.rules <=> DataOut \in a1.loop.rules
    BY <1>1, PrepareDataIn
  <1> HIDE DEF a2
  <1>3. /\ Base(a3) /\ Prepares(a2, a3) /\ a3.loop.rules = a2.loop.rules
        /\ AdapterIn \in a3.loop.asked <=> AdapterIn \in a2.loop.asked
        /\ DataOut \in a2.loop.rules => (DataOut \in a3.loop.asked <=> Wanted(a2))
    <2>1. /\ Base(a3) /\ Prepares(a2, a3) /\ a3.loop.rules = a2.loop.rules
          /\ DataOut \in a2.loop.rules =>
               a3.loop.asked = a2.loop.asked \cup (IF Interest(DataOut, a2) THEN {DataOut} ELSE {})
          /\ DataOut \notin a2.loop.rules => a3.loop.asked = a2.loop.asked
      BY <1>2, PrepareKept
    <2>2. Interest(DataOut, a2) = Wanted(a2) /\ DataOut \notin a2.loop.asked
      BY <1>1, <1>2, InterestFacts, RulesDiffer
    <2> HIDE DEF a3
    <2> QED BY <2>1, <2>2, RulesDiffer
  <1> HIDE DEF a3
  <1>4. /\ Base(a4) /\ Prepares(a3, a4) /\ a4.loop.rules = a3.loop.rules
        /\ a4.tcp = a3.tcp
        /\ AdapterIn \in a4.loop.asked <=> AdapterIn \in a3.loop.asked
        /\ DataOut \in a4.loop.asked <=> DataOut \in a3.loop.asked
        /\ AdapterOut \in a4.loop.asked <=> a3.tcp.queue > 0 \/ AdapterOut \in a3.loop.asked
    <2>1. /\ Base(a4) /\ Prepares(a3, a4) /\ a4.tcp = a3.tcp /\ a4.loop.rules = a3.loop.rules
          /\ AdapterOut \in a3.loop.rules =>
               a4.loop.asked = a3.loop.asked \cup (IF Interest(AdapterOut, a3) THEN {AdapterOut} ELSE {})
      BY <1>3, PrepareKept
    <2>2. Interest(AdapterOut, a3) = (a3.tcp.queue > 0) /\ AdapterOut \in a3.loop.rules
      BY <1>3, InterestFacts DEF Base, RulesInv
    <2> HIDE DEF a4
    <2> QED BY <2>1, <2>2, RulesDiffer
  <1> HIDE DEF a4
  <1>5. L!prepared(v) = a4
    BY PreparedIs DEF a0, a1, a2, a3, a4
  <1>6. Prepares(a0, a2) /\ Prepares(a2, a4) /\ Prepares(a0, a4) /\ Prepares(v, a4)
    BY <1>0, <1>1, <1>2, <1>3, <1>4, PreparesTrans
  <1>7. a4.tcp.active => AdapterIn \in a4.loop.asked
    BY <1>1, <1>2, <1>3, <1>4, <1>6, RulesDiffer DEF Prepares, SameInbound
  <1>8. Wanted(a4) <=> Wanted(a2)
    BY <1>6 DEF Wanted, in_eof, Prepares, SameInbound
  <1> QED BY <1>3, <1>4, <1>5, <1>6, <1>7, <1>8

\* Types of the answers of poll.
LEMMA ReventsFacts ==
  ASSUME NEW v, NEW fd
  PROVE  /\ Revents(fd, v) \subseteq Event
         /\ "HUP" \in Revents(fd, v) => v.pair.up_shut /\ v.pair.down_shut
         /\ "HUP" \notin Revents("adapter", v)
         /\ "Out" \in Revents("data", v) /\ ~PartialWrites =>
              v.pair.down + InCapacity <= PipeCapacity
  BY DEF Revents, Event

\* wait_next_event up to the first callback.
Waited(v, u) ==
  /\ Base(u) /\ Prepares(v, u)
  /\ \/ /\ L!exits(u)
        /\ ~u.tcp.active /\ (DataOut \in u.loop.rules => ~Wanted(u)) /\ ~(u.tcp.queue > 0)
     \/ /\ ~L!exits(u) /\ u.loop.todo \subseteq u.loop.rules
        /\ \A r \in u.loop.todo :
             /\ "ERR" \notin u.loop.seen[r]
             /\ \/ r[2] \in u.loop.seen[r]
                \/ r = DataIn
                \/ r = DataOut /\ u.pair.down_shut /\ Wanted(u)
        /\ DataOut \in u.loop.todo /\ ~PartialWrites =>
             \/ u.pair.down + InCapacity <= PipeCapacity
             \/ "Out" \notin u.loop.seen[DataOut]

\* wait_next_event leaves the loop only when nothing is wanted, and else leaves
\* the rules that poll reported.
LEMMA WaitFacts ==
  ASSUME NEW v, Base(v)
  PROVE  Waited(v, L!wait(v))
  <1> DEFINE p == L!prepared(v)
             u == L!polled(p)
  <1>1. /\ Base(p) /\ Prepares(v, p)
        /\ p.tcp.active => AdapterIn \in p.loop.asked
        /\ DataOut \in p.loop.rules => (DataOut \in p.loop.asked <=> Wanted(p))
        /\ p.tcp.queue > 0 => AdapterOut \in p.loop.asked
    BY PreparedFacts
  <1>2. CASE L!exits(p)
    <2>1. L!wait(v) = p
      BY <1>2 DEF L!wait
    <2>2. p.loop.asked = {}
      BY <1>2 DEF L!exits
    <2> HIDE DEF p
    <2> QED BY <1>1, <1>2, <2>1, <2>2 DEF Waited
  <1>3. CASE ~L!exits(p)
    <2>1. L!wait(v) = u
      BY <1>3 DEF L!wait
    <2> DEFINE s == L!reported(p)
               d == {r \in p.loop.rules : L!matters(p, r)}
    <2> HIDE DEF p
    <2>2. u = [p EXCEPT !.loop.seen = s, !.loop.todo = d]
      BY DEF L!polled
    <2>3. /\ s \in [p.loop.rules -> SUBSET Event]
          /\ p.loop.rules \in SUBSET RuleSet
          /\ \A r \in p.loop.rules :
               s[r] = Revents(r[1], p) \cap ({"ERR", "HUP"} \cup (IF r \in p.loop.asked THEN {r[2]} ELSE {}))
      BY <1>1, ReventsFacts DEF L!reported, Base, WorkType, LoopType
    <2>4. \A r \in d : /\ "ERR" \notin s[r]
                       /\ r[2] \in s[r] \/ ("HUP" \in s[r] /\ r \in p.loop.asked)
      BY <2>3 DEF L!matters, Event
    <2>8. s \in UNION {[S -> SUBSET Event] : S \in SUBSET RuleSet} /\ d \subseteq RuleSet
      BY <2>3
    <2> HIDE DEF s, d, u
    <2>5. /\ u \in WorkType /\ u.loop.seen = s /\ u.loop.todo = d
          /\ u.loop.rules = p.loop.rules /\ u.loop.asked = p.loop.asked
          /\ u.fd = p.fd /\ u.pair = p.pair /\ u.tcp = p.tcp
          /\ u.inbound_shutdown = p.inbound_shutdown /\ u.loop.thrown = p.loop.thrown
      BY <1>1, <2>2, <2>8 DEF Base, WorkType, LoopType
    <2>6. Base(u) /\ ~L!exits(u)
      BY <1>1, <1>3, <2>5 DEF Base, RulesInv, Shaky, L!exits
    <2>7. Prepares(v, u)
      BY <1>1, <2>5 DEF Prepares, WorkType, LoopType
    <2>9. \A r \in d : r[2] \in s[r] \/ r = DataIn \/ (r = DataOut /\ u.pair.down_shut /\ Wanted(u))
      <3> SUFFICES ASSUME NEW r \in d, r[2] \notin s[r], r # DataIn
                   PROVE  r = DataOut /\ u.pair.down_shut /\ Wanted(u)
        OBVIOUS
      <3>1. r \in p.loop.rules /\ r \in RuleSet /\ "HUP" \in s[r] /\ r \in p.loop.asked
        BY <2>3, <2>4 DEF d
      <3>2. "HUP" \in Revents(r[1], p)
        BY <2>3, <3>1
      <3>3. r[1] # "adapter" /\ p.pair.down_shut
        BY <3>2, ReventsFacts
      <3>4. r = DataOut
        BY <3>1, <3>3 DEF RuleSet, AdapterIn, AdapterOut
      <3>5. Wanted(p)
        BY <1>1, <3>1, <3>4
      <3> QED BY <2>5, <3>3, <3>4, <3>5 DEF Wanted
    <2>10. DataOut \in d /\ ~PartialWrites =>
             p.pair.down + InCapacity <= PipeCapacity \/ "Out" \notin s[DataOut]
      BY <2>3, ReventsFacts DEF d, DataOut
    <2>11. d \subseteq p.loop.rules
      BY DEF d
    <2> QED BY <2>1, <2>4, <2>5, <2>6, <2>7, <2>9, <2>10, <2>11 DEF Waited
  <1> QED BY <1>2, <1>3

\* The rule served next is one of those to be served.
LEMMA FirstFacts ==
  ASSUME NEW todo \in SUBSET RuleSet, todo # {}
  PROVE  L!first(todo) \in todo
  <1> DEFINE P(i) == Rules[i] \in todo /\ \A j \in 1..(i - 1) : Rules[j] \notin todo
  <1>1. \E i \in 1..4 : P(i)
    <2>1. CASE AdapterIn \in todo
      <3>1. P(1) BY <2>1, FourRules
      <3> QED BY <3>1
    <2>2. CASE AdapterIn \notin todo /\ DataIn \in todo
      <3>1. P(2) BY <2>2, FourRules
      <3> QED BY <3>1
    <2>3. CASE AdapterIn \notin todo /\ DataIn \notin todo /\ DataOut \in todo
      <3>1. P(3) BY <2>3, FourRules
      <3> QED BY <3>1
    <2>4. CASE todo = {AdapterOut}
      <3>1. P(4) BY <2>4, FourRules DEF AdapterIn, DataIn, DataOut, AdapterOut
      <3> QED BY <3>1
    <2> QED BY <2>1, <2>2, <2>3, <2>4 DEF RuleSet
  <1>2. P(CHOOSE i \in 1..4 : P(i))
    BY <1>1
  <1> QED BY <1>2, FourRules DEF L!first

-------------------------------------------------------------------------------
(* The callbacks *)

\* The end of the inbound stream is told once all of it is in the socket pair.
ShutRight(v) ==
  /\ v.inbound_shutdown => v.pair.down_shut
  /\ v.pair.down_shut =>
       \/ Shaky(v)
       \/ v.tcp.inbuf = 0 /\ (v.tcp.in_ended \/ v.tcp.in_error) /\ v.inbound_shutdown

\* What poll said of rule DataOut still holds when it is served.
HasRoom(v) == ~PartialWrites => v.pair.down + InCapacity <= PipeCapacity

\* A step keeps every byte, and writes none behind the end.
Carries(v, u) ==
  /\ u.tcp.received - u.tcp.inbuf - u.pair.down = v.tcp.received - v.tcp.inbuf - v.pair.down
  /\ v.pair.down_shut => u.pair.down_shut /\ u.pair.down = v.pair.down
  /\ v.tcp.in_error => u.tcp.in_error
  /\ v.tcp.past_end => u.tcp.past_end

\* The callback does not touch the loop.
SameLoop(v, u) ==
  /\ u.loop.rules = v.loop.rules /\ u.loop.asked = v.loop.asked
  /\ u.loop.seen = v.loop.seen

\* What a callback of rule r may do.
Called(r, v, u) ==
  /\ Base(u) /\ ShutRight(u) /\ Carries(v, u) /\ SameLoop(v, u)
  /\ r # DataOut => u.pair.down = v.pair.down
  /\ \/ /\ u.loop.thrown = "no" /\ u.loop.todo = v.loop.todo
        /\ r[2] \in u.fd[r[1]].serviced \/ ~Interest(r, u)
     \/ /\ PartialWrites \/ u.tcp.past_end
        /\ u.loop.thrown = "broken pipe" /\ u.loop.todo = {}

\* No call of the connection makes the shutdown wrong.
LEMMA LaterShut ==
  ASSUME NEW v, NEW u, TcpInv(v.tcp), TcpInv(u.tcp), ShutRight(v), Later(v.tcp, u.tcp),
         u.pair.down_shut = v.pair.down_shut, u.inbound_shutdown = v.inbound_shutdown
  PROVE  ShutRight(u)
  BY DEF ShutRight, Shaky, Later, TcpInv, TCPType

\* Rule 1.
LEMMA CallAdapterIn ==
  ASSUME NEW v, Base(v), ShutRight(v), v.loop.thrown = "no", NEW u \in segment_in(v)
  PROVE  Called(AdapterIn, v, u)
  <1>1. PICK t \in {v.tcp} \cup tcp_segment_received(v.tcp) :
               u = [v EXCEPT !.fd.adapter = register_read(@), !.datagram = FALSE, !.tcp = t]
    BY DEF segment_in
  <1>2. TcpInv(v.tcp) /\ TcpInv(t) /\ Later(v.tcp, t)
    BY SegmentFacts DEF Base
  <1>3. /\ u \in WorkType /\ u.tcp = t /\ u.pair = v.pair /\ u.loop = v.loop
        /\ u.inbound_shutdown = v.inbound_shutdown /\ u.fd.data = v.fd.data
        /\ u.fd.adapter = register_read(v.fd.adapter)
    BY <1>1, <1>2 DEF Base, WorkType, TcpInv, FDType, register_read
  <1>4. /\ u.fd.adapter.eof = v.fd.adapter.eof /\ u.fd.adapter.closed = v.fd.adapter.closed
        /\ "In" \in u.fd.adapter.serviced
    BY <1>3 DEF Base, WorkType, FDType, register_read
  <1>5. Base(u)
    BY <1>2, <1>3, <1>4 DEF Base, RulesInv, Shaky, Later
  <1>6. ShutRight(u)
    BY <1>2, <1>3, LaterShut
  <1>7. Carries(v, u)
    BY <1>2, <1>3 DEF Carries, Later, TcpInv, TCPType, Base, WorkType, PairType
  <1> QED BY <1>3, <1>4, <1>5, <1>6, <1>7 DEF Called, SameLoop, AdapterIn

\* Rule 4 empties the queue: it has lost interest even if the adapter dropped all.
LEMMA CallAdapterOut ==
  ASSUME NEW v, Base(v), ShutRight(v), v.loop.thrown = "no", NEW u \in segments_out(v)
  PROVE  Called(AdapterOut, v, u)
  <1>1. PICK sent \in BOOLEAN :
               u = [v EXCEPT !.tcp.queue = 0, !.fd.adapter = IF sent THEN fd_write(@) ELSE @]
    BY SocketAssumption DEF segments_out
  <1>2. /\ u \in WorkType /\ u.pair = v.pair /\ u.loop = v.loop
        /\ u.inbound_shutdown = v.inbound_shutdown /\ u.fd.data = v.fd.data
        /\ u.fd.adapter.eof = v.fd.adapter.eof /\ u.fd.adapter.closed = v.fd.adapter.closed
        /\ u.tcp = [v.tcp EXCEPT !.queue = 0]
    BY <1>1 DEF Base, WorkType, FDType, TCPType, fd_write, register_write
  <1>3. TcpInv(u.tcp) /\ Later(v.tcp, u.tcp) /\ u.tcp.queue = 0 /\ TcpInv(v.tcp)
    BY <1>2 DEF Base, TcpInv, TCPType, Later
  <1>4. ~Interest(AdapterOut, u)
    <2>1. Interest(AdapterOut, u) = (u.tcp.queue > 0)
      BY InterestFacts
    <2>2. ~(u.tcp.queue > 0)
      BY <1>3
    <2> QED BY <2>1, <2>2
  <1>5. Base(u)
    BY <1>2, <1>3 DEF Base, RulesInv, Shaky, Later
  <1>6. ShutRight(u)
    BY <1>2, <1>3, LaterShut
  <1>7. Carries(v, u)
    BY <1>2, <1>3 DEF Carries, Later, TcpInv, TCPType, Base, WorkType, PairType
  <1> QED BY <1>2, <1>4, <1>5, <1>6, <1>7 DEF Called, SameLoop

\* The end of the owner's bytes is told to the connection.
LEMMA EndOutbound ==
  ASSUME NEW v, Base(v)
  PROVE  LET u == end_outbound(v)
         IN  /\ u \in WorkType /\ u.tcp = tcp_end_input_stream(v.tcp)
             /\ u.fd = v.fd /\ u.pair = v.pair /\ u.loop = v.loop
             /\ u.inbound_shutdown = v.inbound_shutdown
             /\ TcpInv(u.tcp) /\ Later(v.tcp, u.tcp)
  <1>1. TcpInv(tcp_end_input_stream(v.tcp)) /\ Later(v.tcp, tcp_end_input_stream(v.tcp))
    BY EndInputFacts DEF Base
  <1> QED BY <1>1 DEF end_outbound, Base, WorkType, TcpInv

\* Rule 2.
LEMMA CallDataIn ==
  ASSUME NEW v, Base(v), ShutRight(v), v.loop.thrown = "no", NEW u \in bytes_out(v)
  PROVE  Called(DataIn, v, u)
  <1> DEFINE n == Smaller(v.tcp.room, v.pair.up)
             d == fd_read(v.fd.data, v.tcp.room, n)
             out(t) == [v EXCEPT !.fd.data = d, !.pair.up = @ - n, !.tcp = t]
  <1>0. PICK t \in tcp_write(v.tcp, n) :
               u = IF out(t).fd.data.eof THEN end_outbound(out(t)) ELSE out(t)
    BY DEF bytes_out, Base, WorkType
  <1> DEFINE x == out(t)
  <1>1. u = IF x.fd.data.eof THEN end_outbound(x) ELSE x
    BY <1>0
  <1>2. n \in 0..v.tcp.room /\ v.pair.up - n \in Nat
    BY Numbers DEF Smaller, Base, WorkType, PairType, TcpInv, TCPType
  <1>3. TcpInv(v.tcp) /\ TcpInv(t) /\ Later(v.tcp, t)
    BY <1>2, WriteFacts DEF Base
  <1>4. d \in FDType /\ d.closed = v.fd.data.closed /\ "In" \in d.serviced
    BY DEF fd_read, register_read, FDType, Base, WorkType
  <1> HIDE DEF n, d
  <1>5. /\ x \in WorkType /\ x.tcp = t /\ x.loop = v.loop
        /\ x.pair.down = v.pair.down /\ x.pair.down_shut = v.pair.down_shut
        /\ x.inbound_shutdown = v.inbound_shutdown
        /\ x.fd.data = d /\ x.fd.adapter = v.fd.adapter
    BY <1>2, <1>3, <1>4 DEF Base, WorkType, PairType, TcpInv
  <1> HIDE DEF x
  <1>6. Base(x)
    BY <1>3, <1>4, <1>5 DEF Base, RulesInv, Shaky, Later
  <1>7. /\ u \in WorkType /\ TcpInv(u.tcp) /\ Later(x.tcp, u.tcp)
        /\ u.fd = x.fd /\ u.pair = x.pair /\ u.loop = x.loop
        /\ u.inbound_shutdown = x.inbound_shutdown
    BY <1>1, <1>6, EndOutbound, LaterRefl DEF Base
  <1>8. Later(v.tcp, u.tcp)
    BY <1>3, <1>5, <1>7, LaterTrans
  <1>9. Base(u)
    BY <1>4, <1>5, <1>7, <1>8 DEF Base, RulesInv, Shaky, Later
  <1>10. ShutRight(u)
    BY <1>3, <1>5, <1>7, <1>8, LaterShut
  <1>11. Carries(v, u)
    BY <1>3, <1>5, <1>7, <1>8 DEF Carries, Later, TcpInv, TCPType, Base, WorkType, PairType
  <1> QED BY <1>4, <1>5, <1>7, <1>9, <1>10, <1>11 DEF Called, SameLoop, DataIn

\* n bytes of the inbound stream go into the socket pair.
Handed(v, n) == [v EXCEPT !.fd.data = fd_write(@), !.pair.down = @ + n, !.tcp.inbuf = @ - n]
Ended(v)     == [v EXCEPT !.pair.down_shut = TRUE, !.inbound_shutdown = TRUE]
Broken(v)    == [v EXCEPT !.loop.thrown = "broken pipe", !.loop.todo = {}]

\* Rule 3, case by case: without partial writes all of the buffer is taken.
LEMMA BytesInCases ==
  ASSUME NEW v, Base(v), HasRoom(v), NEW u \in bytes_in(v)
  PROVE  \/ v.pair.down_shut /\ v.tcp.inbuf > 0 /\ u = Broken(v)
         \/ /\ ~(v.pair.down_shut /\ v.tcp.inbuf > 0)
            /\ \E n \in 0..v.tcp.inbuf :
                 /\ v.pair.down + n \in 0..PipeCapacity
                 /\ ~PartialWrites => n = v.tcp.inbuf
                 /\ u = IF in_eof(Handed(v, n).tcp) \/ Handed(v, n).tcp.in_error
                        THEN Ended(Handed(v, n)) ELSE Handed(v, n)
  <1> DEFINE most == Smaller(v.tcp.inbuf, PipeCapacity - v.pair.down)
             N == IF PartialWrites THEN Smaller(1, most)..most ELSE {most}
             out(n) == IF in_eof(Handed(v, n).tcp) \/ Handed(v, n).tcp.in_error
                       THEN Ended(Handed(v, n)) ELSE Handed(v, n)
  <1>1. CASE v.pair.down_shut /\ v.tcp.inbuf > 0
    BY <1>1 DEF bytes_in, Broken
  <1>2. CASE ~(v.pair.down_shut /\ v.tcp.inbuf > 0)
    <2>1. \E n \in N : u = out(n)
      BY <1>2 DEF bytes_in, Handed, Ended
    <2>2. /\ v.tcp.inbuf \in 0..InCapacity /\ v.pair.down \in 0..PipeCapacity
          /\ InCapacity \in Nat /\ PipeCapacity \in Nat
      BY Numbers DEF Base, WorkType, PairType, TcpInv, TCPType
    <2>3. /\ most \in 0..v.tcp.inbuf /\ v.pair.down + most <= PipeCapacity
          /\ ~PartialWrites => most = v.tcp.inbuf
      BY <2>2 DEF Smaller, HasRoom
    <2> HIDE DEF most
    <2>4. \A n \in N : n \in 0..most /\ (~PartialWrites => n = most)
      BY <2>2, <2>3 DEF Smaller
    <2> HIDE DEF N, out
    <2>5. PICK n \in N : u = out(n)
      BY <2>1
    <2>6. n \in 0..most /\ (~PartialWrites => n = most)
      BY <2>4
    <2>7. /\ n \in 0..v.tcp.inbuf /\ v.pair.down + n \in 0..PipeCapacity
          /\ ~PartialWrites => n = v.tcp.inbuf
      BY <2>2, <2>3, <2>6
    <2> QED BY <1>2, <2>5, <2>7 DEF out
  <1> QED BY <1>1, <1>2

\* Handing over n bytes moves them.
LEMMA HandedFacts ==
  ASSUME NEW v, Base(v), NEW n \in 0..v.tcp.inbuf, v.pair.down + n \in 0..PipeCapacity
  PROVE  LET u == Handed(v, n)
         IN  /\ Base(u) /\ u.loop = v.loop /\ u.inbound_shutdown = v.inbound_shutdown
             /\ "Out" \in u.fd.data.serviced
             /\ u.pair.down = v.pair.down + n /\ u.pair.down_shut = v.pair.down_shut
             /\ u.tcp.inbuf = v.tcp.inbuf - n /\ u.tcp.received = v.tcp.received
             /\ u.tcp.in_ended = v.tcp.in_ended /\ u.tcp.in_error = v.tcp.in_error
             /\ u.tcp.past_end = v.tcp.past_end
  <1> DEFINE u == Handed(v, n)
             t == [v.tcp EXCEPT !.inbuf = @ - n]
             q == [v.pair EXCEPT !.down = @ + n]
             d == fd_write(v.fd.data)
  <1>1. v.tcp.inbuf - n \in 0..InCapacity
    BY Numbers DEF Base, TcpInv, TCPType
  <1>2. TcpInv(t) /\ t.inbuf = v.tcp.inbuf - n /\ t.received = v.tcp.received
          /\ t.in_ended = v.tcp.in_ended /\ t.in_error = v.tcp.in_error
          /\ t.past_end = v.tcp.past_end
    BY <1>1 DEF Base, TcpInv, TCPType
  <1>3. q \in PairType /\ q.down = v.pair.down + n /\ q.down_shut = v.pair.down_shut
    BY DEF Base, WorkType, PairType
  <1>4. d \in FDType /\ d.closed = v.fd.data.closed /\ "Out" \in d.serviced
    BY DEF fd_write, register_write, FDType, Base, WorkType
  <1> HIDE DEF d, t, q
  <1>5. u = [v EXCEPT !.fd.data = d, !.pair = q, !.tcp = t]
    BY DEF Handed, d, t, q, Base, WorkType, PairType, TCPType
  <1> HIDE DEF u
  <1>6. /\ u \in WorkType /\ u.tcp = t /\ u.loop = v.loop /\ u.pair = q
        /\ u.inbound_shutdown = v.inbound_shutdown
        /\ u.fd.data = d /\ u.fd.adapter = v.fd.adapter
    BY <1>2, <1>3, <1>4, <1>5 DEF Base, WorkType, TcpInv
  <1>7. Base(u)
    BY <1>2, <1>4, <1>6 DEF Base, RulesInv, Shaky
  <1> QED BY <1>2, <1>3, <1>4, <1>6, <1>7 DEF u

\* Telling the end moves none.
LEMMA EndedFacts ==
  ASSUME NEW v, Base(v)
  PROVE  LET u == Ended(v)
         IN  /\ Base(u) /\ u.loop = v.loop /\ u.tcp = v.tcp /\ u.fd = v.fd
             /\ u.inbound_shutdown /\ u.pair.down_shut /\ u.pair.down = v.pair.down
  BY DEF Ended, Base, WorkType, PairType, RulesInv, Shaky

\* Nor does a broken pipe.
LEMMA BrokenFacts ==
  ASSUME NEW v, Base(v)
  PROVE  LET u == Broken(v)
         IN  /\ Base(u) /\ SameLoop(v, u) /\ u.tcp = v.tcp /\ u.fd = v.fd /\ u.pair = v.pair
             /\ u.inbound_shutdown = v.inbound_shutdown
             /\ u.loop.todo = {} /\ u.loop.thrown = "broken pipe"
  BY DEF Broken, Base, WorkType, LoopType, RulesInv, Shaky, SameLoop

\* Rule 3: only a shaky connection meets a pipe that is shut.
LEMMA CallDataOut ==
  ASSUME NEW v, Base(v), ShutRight(v), HasRoom(v), v.loop.thrown = "no", NEW u \in bytes_in(v)
  PROVE  Called(DataOut, v, u)
  <1>1. CASE v.pair.down_shut /\ v.tcp.inbuf > 0 /\ u = Broken(v)
    <2>1. /\ Base(u) /\ SameLoop(v, u) /\ u.tcp = v.tcp /\ u.pair = v.pair
          /\ u.inbound_shutdown = v.inbound_shutdown
          /\ u.loop.todo = {} /\ u.loop.thrown = "broken pipe"
      BY <1>1, BrokenFacts
    <2>2. PartialWrites \/ u.tcp.past_end
      <3>1. ~(v.tcp.inbuf = 0)
        BY <1>1 DEF Base, TcpInv, TCPType
      <3>2. Shaky(v)
        BY <1>1, <3>1 DEF ShutRight
      <3> QED BY <2>1, <3>2 DEF Shaky
    <2>3. ShutRight(u) /\ Carries(v, u)
      BY <2>1 DEF ShutRight, Shaky, Carries
    <2> QED BY <2>1, <2>2, <2>3 DEF Called
  <1>2. CASE /\ ~(v.pair.down_shut /\ v.tcp.inbuf > 0)
             /\ \E n \in 0..v.tcp.inbuf :
                 /\ v.pair.down + n \in 0..PipeCapacity
                 /\ ~PartialWrites => n = v.tcp.inbuf
                 /\ u = IF in_eof(Handed(v, n).tcp) \/ Handed(v, n).tcp.in_error
                        THEN Ended(Handed(v, n)) ELSE Handed(v, n)
    <2>1. PICK n \in 0..v.tcp.inbuf :
                 /\ v.pair.down + n \in 0..PipeCapacity
                 /\ ~PartialWrites => n = v.tcp.inbuf
                 /\ u = IF in_eof(Handed(v, n).tcp) \/ Handed(v, n).tcp.in_error
                        THEN Ended(Handed(v, n)) ELSE Handed(v, n)
      BY <1>2
    <2> DEFINE x == Handed(v, n)
    <2>2. /\ Base(x) /\ x.loop = v.loop /\ x.inbound_shutdown = v.inbound_shutdown
          /\ "Out" \in x.fd.data.serviced
          /\ x.pair.down = v.pair.down + n /\ x.pair.down_shut = v.pair.down_shut
          /\ x.tcp.inbuf = v.tcp.inbuf - n /\ x.tcp.received = v.tcp.received
          /\ x.tcp.in_ended = v.tcp.in_ended /\ x.tcp.in_error = v.tcp.in_error
          /\ x.tcp.past_end = v.tcp.past_end
      BY <2>1, HandedFacts
    <2>3. u = IF in_eof(x.tcp) \/ x.tcp.in_error THEN Ended(x) ELSE x
      BY <2>1
    <2> HIDE DEF x
    <2>4. /\ Base(u) /\ u.loop = v.loop /\ u.tcp = x.tcp /\ u.fd = x.fd
          /\ u.pair.down = x.pair.down
          /\ IF in_eof(x.tcp) \/ x.tcp.in_error
             THEN u.inbound_shutdown /\ u.pair.down_shut
             ELSE u.inbound_shutdown = v.inbound_shutdown /\ u.pair.down_shut = v.pair.down_shut
      BY <2>2, <2>3, EndedFacts
    <2>5. /\ v.tcp.inbuf \in Nat /\ v.tcp.received \in Nat /\ v.pair.down \in Nat
          /\ v.pair.down_shut => v.tcp.inbuf = 0
      BY <1>2 DEF Base, WorkType, PairType, TcpInv, TCPType
    <2>8. /\ n \in Nat /\ n <= v.tcp.inbuf /\ (v.pair.down_shut => n = 0)
          /\ ~PartialWrites => u.tcp.inbuf = 0
      BY ONLY n \in 0..v.tcp.inbuf, <2>1, <2>2, <2>4, <2>5
    <2>9. /\ u.tcp.received = v.tcp.received /\ u.tcp.inbuf = v.tcp.inbuf - n
          /\ u.pair.down = v.pair.down + n
          /\ u.tcp.in_ended = v.tcp.in_ended /\ u.tcp.in_error = v.tcp.in_error
          /\ u.tcp.past_end = v.tcp.past_end
      BY <2>2, <2>4
    <2>6. Carries(v, u)
      <3>1. v.pair.down_shut => u.pair.down_shut
        BY <2>2, <2>4
      <3>2. (v.tcp.in_error => u.tcp.in_error) /\ (v.tcp.past_end => u.tcp.past_end)
        BY <2>9
      <3> QED BY ONLY <3>1, <3>2, <2>5, <2>8, <2>9 DEF Carries
    <2>7. ShutRight(u)
      <3>1. CASE in_eof(x.tcp) \/ x.tcp.in_error
        BY <3>1, <2>4, <2>8 DEF ShutRight, Shaky, in_eof
      <3>2. CASE ~(in_eof(x.tcp) \/ x.tcp.in_error)
        <4>1. u.inbound_shutdown = v.inbound_shutdown /\ u.pair.down_shut = v.pair.down_shut
          BY <3>2, <2>4
        <4>2. v.pair.down_shut => u.tcp.inbuf = v.tcp.inbuf
          BY <2>5, <2>8, <2>9
        <4> QED BY <4>1, <4>2, <2>9 DEF ShutRight, Shaky
      <3> QED BY <3>1, <3>2
    <2> QED BY <2>2, <2>4, <2>6, <2>7 DEF Called, SameLoop, DataOut
  <1> QED BY <1>1, <1>2, BytesInCases

\* The rules still to be served.
ToServe(v) ==
  /\ v.loop.todo \subseteq v.loop.rules
  /\ \A r \in v.loop.todo :
       /\ "ERR" \notin v.loop.seen[r]
       /\ r[2] \in v.loop.seen[r] \/ r = DataIn \/ (r = DataOut /\ Shaky(v))
  /\ DataOut \in v.loop.todo /\ "Out" \in v.loop.seen[DataOut] => HasRoom(v)

\* What one turn of the loop over the results keeps.
Served(v, u) ==
  /\ Base(u) /\ ShutRight(u) /\ Carries(v, u) /\ ToServe(u)
  /\ PartialWrites \/ u.tcp.past_end \/ u.loop.thrown = "no"

\* The check after a callback finds that it has read, written or lost interest.
LEMMA CheckedFacts ==
  ASSUME NEW r \in RuleSet, NEW v, NEW u, Called(r, v, u)
  PROVE  LET x == L!checked(u, r)
         IN  /\ Base(x) /\ x.tcp = u.tcp /\ x.pair = u.pair /\ x.loop = u.loop
             /\ x.inbound_shutdown = u.inbound_shutdown
  <1> DEFINE y == [u EXCEPT !.fd[r[1]].serviced = {}]
  <1>1. L!checked(u, r) \in {u, y}
    BY DEF L!checked, Called
  <1>2. r[1] = "adapter" \/ r[1] = "data"
    BY DEF RuleSet, AdapterIn, DataIn, DataOut, AdapterOut
  <1>3. Base(u)
    BY DEF Called
  <1>4. /\ y \in WorkType /\ y.tcp = u.tcp /\ y.pair = u.pair /\ y.loop = u.loop
        /\ y.inbound_shutdown = u.inbound_shutdown
        /\ y.fd.adapter.eof = u.fd.adapter.eof /\ y.fd.adapter.closed = u.fd.adapter.closed
        /\ y.fd.data.closed = u.fd.data.closed
    <2>1. CASE r[1] = "adapter"
      BY <1>3, <2>1 DEF Base, WorkType, FDType
    <2>2. CASE r[1] = "data"
      BY <1>3, <2>2 DEF Base, WorkType, FDType
    <2> QED BY <1>2, <2>1, <2>2
  <1> HIDE DEF y
  <1>5. Base(y)
    BY <1>3, <1>4 DEF Base, RulesInv, Shaky
  <1> QED BY <1>1, <1>3, <1>4, <1>5

\* The callback of the rule that is served next, and the check after it.
LEMMA CallFacts ==
  ASSUME NEW v, Base(v), ShutRight(v), ToServe(v), v.loop.thrown = "no",
         NEW r \in v.loop.rules \ v.loop.todo, r = DataOut => HasRoom(v),
         NEW u \in Callback(r, v)
  PROVE  Served(v, L!checked(u, r))
  <1>0. r \in RuleSet
    BY DEF Base, WorkType, LoopType
  <1>1. Called(r, v, u)
    <2>1. CASE r = AdapterIn
      BY <2>1, CallAdapterIn, RulesDiffer DEF Callback, AdapterIn
    <2>2. CASE r = DataIn
      BY <2>2, CallDataIn, RulesDiffer DEF Callback, AdapterIn, DataIn
    <2>3. CASE r = DataOut
      BY <2>3, CallDataOut, RulesDiffer DEF Callback, AdapterIn, DataIn, DataOut
    <2>4. CASE r = AdapterOut
      BY <2>4, CallAdapterOut, RulesDiffer DEF Callback, AdapterIn, DataIn, DataOut, AdapterOut
    <2> QED BY <1>0, <2>1, <2>2, <2>3, <2>4 DEF RuleSet
  <1> DEFINE x == L!checked(u, r)
  <1>2. /\ Base(x) /\ x.tcp = u.tcp /\ x.pair = u.pair /\ x.loop = u.loop
        /\ x.inbound_shutdown = u.inbound_shutdown
    BY <1>0, <1>1, CheckedFacts
  <1> HIDE DEF x
  <1>3. ShutRight(x) /\ Carries(v, x)
    BY <1>1, <1>2 DEF Called, ShutRight, Shaky, Carries
  <1>4. Shaky(v) => Shaky(x)
    BY <1>1, <1>2 DEF Shaky, Called, Carries
  <1>5. CASE u.loop.thrown = "no" /\ u.loop.todo = v.loop.todo
    <2>1. /\ x.loop.todo = v.loop.todo /\ x.loop.rules = v.loop.rules
          /\ x.loop.seen = v.loop.seen /\ x.loop.thrown = "no"
      BY <1>1, <1>2, <1>5 DEF Called, SameLoop
    <2>2. DataOut \in x.loop.todo /\ "Out" \in x.loop.seen[DataOut] => HasRoom(x)
      <3>1. DataOut \in x.loop.todo /\ "Out" \in x.loop.seen[DataOut] => r # DataOut /\ HasRoom(v)
        BY <2>1 DEF ToServe
      <3>2. r # DataOut => x.pair.down = v.pair.down
        BY <1>1, <1>2 DEF Called
      <3> QED BY <3>1, <3>2 DEF HasRoom
    <2>3. ToServe(x)
      BY <1>4, <2>1, <2>2 DEF ToServe
    <2> QED BY <1>2, <1>3, <2>1, <2>3 DEF Served, x
  <1>6. CASE (PartialWrites \/ u.tcp.past_end) /\ u.loop.todo = {}
    BY <1>2, <1>3, <1>6 DEF Served, ToServe, x
  <1> QED BY <1>1, <1>5, <1>6 DEF Called

\* A rule whose descriptor only hangs up is cancelled.
LEMMA CancelFacts ==
  ASSUME NEW v, Base(v), ShutRight(v), ToServe(v), v.loop.thrown = "no",
         NEW r \in v.loop.rules \ v.loop.todo, r = DataIn \/ (r = DataOut /\ Shaky(v))
  PROVE  Served(v, L!cancelled(v, r))
  <1> DEFINE e == Cancel(r, v)
             u == [e EXCEPT !.loop.rules = @ \ {r}]
  <1>1. L!cancelled(v, r) = u
    BY DEF L!cancelled
  <1>2. /\ e \in WorkType /\ e.fd = v.fd /\ e.pair = v.pair /\ e.loop = v.loop
        /\ e.inbound_shutdown = v.inbound_shutdown
        /\ TcpInv(e.tcp) /\ Later(v.tcp, e.tcp) /\ TcpInv(v.tcp)
    <2>1. CASE r = DataIn
      BY <2>1, EndOutbound DEF Cancel, DataIn, Base
    <2>2. CASE r = DataOut
      BY <2>2, LaterRefl DEF Cancel, DataOut, Base
    <2> QED BY <2>1, <2>2
  <1> HIDE DEF e
  <1>3. /\ u \in WorkType /\ u.fd = v.fd /\ u.pair = v.pair /\ u.tcp = e.tcp
        /\ u.inbound_shutdown = v.inbound_shutdown
        /\ u.loop.todo = v.loop.todo /\ u.loop.seen = v.loop.seen
        /\ u.loop.thrown = v.loop.thrown /\ u.loop.rules = v.loop.rules \ {r}
    BY <1>2 DEF WorkType, LoopType
  <1> HIDE DEF u
  <1>4. Shaky(v) => Shaky(u)
    BY <1>2, <1>3 DEF Shaky, Later
  <1>5. Base(u)
    BY <1>2, <1>3, <1>4, RulesDiffer DEF Base, RulesInv
  <1>6. ShutRight(u)
    BY <1>2, <1>3, LaterShut
  <1>7. Carries(v, u)
    BY <1>2, <1>3 DEF Carries, Later, TcpInv, TCPType, Base, WorkType, PairType
  <1>8. ToServe(u)
    BY <1>3, <1>4 DEF ToServe, HasRoom
  <1> QED BY <1>1, <1>3, <1>5, <1>6, <1>7, <1>8 DEF Served

\* One turn of the loop over the results.
LEMMA ServeFacts ==
  ASSUME NEW v, Base(v), ShutRight(v), ToServe(v), v.loop.thrown = "no", v.loop.todo # {},
         NEW x \in L!serve(v)
  PROVE  Served(v, x)
  <1> DEFINE r == L!first(v.loop.todo)
             y == [v EXCEPT !.loop.todo = @ \ {r}]
  <1>1. r \in v.loop.todo /\ r \in v.loop.rules
    BY FirstFacts DEF Base, WorkType, LoopType, ToServe
  <1>2. "ERR" \notin v.loop.seen[r]
    BY <1>1 DEF ToServe
  <1>3. x \in IF r[2] \in v.loop.seen[r] THEN {L!checked(u, r) : u \in Callback(r, y)}
              ELSE {L!cancelled(y, r)}
    BY <1>2 DEF L!serve
  <1> HIDE DEF r
  <1>4. /\ y \in WorkType /\ y.fd = v.fd /\ y.pair = v.pair /\ y.tcp = v.tcp
        /\ y.inbound_shutdown = v.inbound_shutdown
        /\ y.loop.todo = v.loop.todo \ {r} /\ y.loop.seen = v.loop.seen
        /\ y.loop.thrown = v.loop.thrown /\ y.loop.rules = v.loop.rules
    BY DEF Base, WorkType, LoopType
  <1> HIDE DEF y
  <1>5. Base(y) /\ ShutRight(y) /\ (Shaky(y) <=> Shaky(v)) /\ (HasRoom(y) <=> HasRoom(v))
    BY <1>4 DEF Base, RulesInv, ShutRight, Shaky, HasRoom
  <1>6. ToServe(y) /\ y.loop.thrown = "no" /\ r \in y.loop.rules \ y.loop.todo
    BY <1>1, <1>4, <1>5 DEF ToServe
  <1>7. Served(y, x)
    <2>1. CASE r[2] \in v.loop.seen[r]
      <3>1. PICK u \in Callback(r, y) : x = L!checked(u, r)
        BY <1>3, <2>1
      <3>2. r = DataOut => HasRoom(y)
        BY <1>1, <1>5, <2>1 DEF ToServe, DataOut
      <3> QED BY <1>5, <1>6, <3>1, <3>2, CallFacts
    <2>2. CASE r[2] \notin v.loop.seen[r]
      <3>1. x = L!cancelled(y, r)
        BY <1>3, <2>2
      <3>2. r = DataIn \/ (r = DataOut /\ Shaky(y))
        BY <1>1, <1>5, <2>2 DEF ToServe
      <3> QED BY <1>5, <1>6, <3>1, <3>2, CancelFacts
    <2> QED BY <2>1, <2>2
  <1> QED BY <1>4, <1>7 DEF Served, Carries

-------------------------------------------------------------------------------
(* The invariant *)

\* What the owner keeps.
OwnerType ==
  [pc : {"opening", "running", "joining", "joined"}, wrote : Nat, got : Nat, eof : BOOLEAN]

\* Every byte that arrived is in the stream, in the socket pair or read.
Conserve == w.tcp.received = w.tcp.inbuf + w.pair.down + owner.got

\* The owner sees the end behind the last byte.
EofLast == owner.eof => w.pair.down_shut /\ w.pair.down = 0

\* A thread that leaves on its own has left nothing behind.
LeftRight ==
  thread \in {"leave", "done"} /\ ~abort /\ signals = 0 =>
    /\ ~w.tcp.active
    /\ Shaky(w) \/ (w.tcp.inbuf = 0 /\ w.tcp.queue = 0 /\ w.inbound_shutdown)

\* The thread dies of an exception only, and only with partial writes or of
\* bytes after the end.
ThrownRight ==
  /\ thread # "dead" => w.loop.thrown = "no"
  /\ thread = "dead" => PartialWrites \/ w.tcp.past_end

\* The invariant.  The properties are LeftRight at the end of the thread,
\* Conserve and ShutRight at the end of the stream, and ThrownRight; the rest is
\* what makes them inductive.
Inv ==
  /\ Base(w)
  /\ thread \in {"loop", "serve", "tick", "leave", "done", "dead"}
  /\ owner \in OwnerType /\ abort \in BOOLEAN /\ signals \in Nat
  /\ thread # "done" => ShutRight(w)
  /\ thread = "serve" => ToServe(w) /\ w.loop.todo # {}
  /\ Conserve /\ EofLast /\ LeftRight /\ ThrownRight

\* Nothing is seen before the first poll.
LEMMA EmptySeen == [r \in {} |-> {}] \in UNION {[S -> SUBSET Event] : S \in SUBSET RuleSet}
  <1>1. [r \in {} |-> {}] \in [{} -> SUBSET Event] /\ {} \in SUBSET RuleSet
    OBVIOUS
  <1> QED BY <1>1

\* A loop that has thrown nothing, field by field.
LEMMA LoopRecord ==
  ASSUME NEW rules \in SUBSET RuleSet, NEW asked \in SUBSET RuleSet, NEW todo \in SUBSET RuleSet,
         NEW seen \in UNION {[S -> SUBSET Event] : S \in SUBSET RuleSet}
  PROVE  LET v == [rules |-> rules, asked |-> asked, seen |-> seen, todo |-> todo,
                   thrown |-> "no"]
         IN  v \in LoopType /\ v.thrown = "no"
  BY DEF LoopType

\* The state that _initialize_TCP makes.
LEMMA ListeningFacts ==
  /\ listening \in WorkType /\ RulesInv(listening) /\ TcpInv(listening.tcp)
  /\ listening.tcp = TCPNew /\ listening.pair = PairNew
  /\ ~listening.inbound_shutdown /\ listening.loop.thrown = "no"
  <1>1. L!LoopNew.rules = RuleSet
    <2>1. {Rules[i] : i \in 1..4} = RuleSet
      BY FourRules DEF RuleSet
    <2> QED BY <2>1, FourRules DEF L!LoopNew
  <1>2. L!LoopNew \in LoopType /\ L!LoopNew.thrown = "no"
    <2>1. L!LoopNew.asked = {} /\ L!LoopNew.todo = {} /\ L!LoopNew.seen = [r \in {} |-> {}]
      BY DEF L!LoopNew
    <2>2. L!LoopNew = [rules |-> {Rules[i] : i \in DOMAIN Rules}, asked |-> {},
                       seen |-> [r \in {} |-> {}], todo |-> {}, thrown |-> "no"]
      BY DEF L!LoopNew
    <2>3. {Rules[i] : i \in DOMAIN Rules} = RuleSet
      BY <1>1 DEF L!LoopNew
    <2> QED BY <2>2, <2>3, EmptySeen, LoopRecord
  <1>3. FDNew \in FDType /\ ~FDNew.eof /\ ~FDNew.closed
    BY DEF FDNew, FDType
  <1>4. TcpInv(TCPNew)
    BY Numbers DEF TCPNew, TcpInv, TCPType
  <1>5. PairNew \in PairType
    BY Numbers DEF PairNew, PairType
  <1>6. listening = [loop |-> L!LoopNew, fd |-> [adapter |-> FDNew, data |-> FDNew],
                     tcp |-> TCPNew, pair |-> PairNew, datagram |-> FALSE,
                     inbound_shutdown |-> FALSE, outbound_shutdown |-> FALSE]
    BY DEF listening, initialize_TCP
  <1>7. listening \in WorkType
    BY <1>2, <1>3, <1>4, <1>5, <1>6 DEF WorkType, TcpInv
  <1>8. RulesInv(listening)
    BY <1>1, <1>3, <1>6 DEF RulesInv, RuleSet
  <1> QED BY <1>2, <1>4, <1>6, <1>7, <1>8

\* The socket starts right.
LEMMA InitInv ==
  ASSUME Init
  PROVE  Inv
  <1>1. TCPNew.received = 0 /\ TCPNew.inbuf = 0 /\ ~TCPNew.in_error /\ ~TCPNew.past_end
    BY DEF TCPNew
  <1>2. PairNew.down = 0 /\ ~PairNew.down_shut
    BY DEF PairNew
  <1>3. /\ owner \in OwnerType /\ ~owner.eof /\ owner.got = 0
        /\ thread = "loop" /\ abort = FALSE /\ signals = 0
    BY DEF Init, OwnerType
  <1>4. /\ w \in WorkType /\ RulesInv(w) /\ TcpInv(w.tcp) /\ w.pair = PairNew
        /\ ~w.inbound_shutdown /\ w.loop.thrown = "no"
        /\ w.tcp.received = 0 /\ w.tcp.inbuf = 0
    <2>1. CASE w = listening
      BY <1>1, <2>1, ListeningFacts
    <2>2. CASE w = connecting
      <3> DEFINE s == [TCPNew EXCEPT !.handshake = "SYN_SENT"]
      <3>1. TcpInv(s) /\ s.received = 0 /\ s.inbuf = 0 /\ ~s.in_error
        BY <1>1, ListeningFacts DEF TcpInv, TCPType
      <3>2. TcpInv(queued(s))
        BY <3>1, QueuedFacts
      <3>3. queued(s).received = 0 /\ queued(s).inbuf = 0 /\ ~queued(s).in_error
        BY <3>1 DEF queued, TcpInv, TCPType
      <3>4. w = [listening EXCEPT !.tcp = queued(s)]
        BY <2>2, ListeningFacts DEF connecting, listening, tcp_connect, WorkType
      <3> HIDE DEF s
      <3>5. /\ w \in WorkType /\ w.tcp = queued(s) /\ w.pair = PairNew /\ ~w.inbound_shutdown
            /\ w.loop = listening.loop /\ w.fd = listening.fd
        BY <3>2, <3>4, ListeningFacts DEF WorkType, TcpInv
      <3>6. RulesInv(w)
        BY <1>1, <3>5, ListeningFacts DEF RulesInv, Shaky
      <3> QED BY <3>2, <3>3, <3>5, <3>6, ListeningFacts
    <2> QED BY <2>1, <2>2 DEF Init
  <1>5. Conserve
    BY <1>2, <1>3, <1>4 DEF Conserve
  <1> QED BY <1>2, <1>3, <1>4, <1>5 DEF Inv, Base, ShutRight, EofLast, LeftRight, ThrownRight

-------------------------------------------------------------------------------
(* The steps of the TCP thread *)

\* Preparing disturbs no part of the invariant.
LEMMA PreparesKeep ==
  ASSUME NEW v, NEW u, Prepares(v, u)
  PROVE  /\ ShutRight(v) => ShutRight(u)
         /\ Shaky(u) <=> Shaky(v)
         /\ u.tcp.received = v.tcp.received /\ u.tcp.inbuf = v.tcp.inbuf
         /\ u.pair = v.pair /\ u.loop.thrown = v.loop.thrown
  BY DEF Prepares, SameInbound, ShutRight, Shaky

\* The thread starts.
LEMMA StepOpen ==
  ASSUME Inv, Open
  PROVE  Inv'
  <1>1. owner' \in OwnerType /\ owner'.eof = owner.eof /\ owner'.got = owner.got
    BY DEF Inv, Open, OwnerType
  <1> QED BY <1>1 DEF Inv, Open, Conserve, EofLast, LeftRight, ThrownRight

\* wait_next_event up to the first callback.
LEMMA StepWait ==
  ASSUME Inv, Wait
  PROVE  Inv'
  <1>1. /\ Base(w) /\ ShutRight(w) /\ w.loop.thrown = "no" /\ w' = L!wait(w) /\ thread = "loop"
        /\ UNCHANGED <<owner, abort, signals>>
    BY DEF Inv, ThrownRight, Wait
  <1>2. Waited(w, w')
    BY <1>1, WaitFacts
  <1>3. /\ Base(w') /\ ShutRight(w') /\ w'.loop.thrown = "no" /\ w'.pair = w.pair
        /\ w'.tcp.received = w.tcp.received /\ w'.tcp.inbuf = w.tcp.inbuf
    BY <1>1, <1>2, PreparesKeep DEF Waited
  <1>4. Conserve' /\ EofLast'
    BY <1>1, <1>3 DEF Inv, Conserve, EofLast
  <1>5. CASE L!exits(w')
    <2>1. /\ ~w'.tcp.active /\ (DataOut \in w'.loop.rules => ~Wanted(w'))
          /\ ~(w'.tcp.queue > 0)
      BY <1>2, <1>5 DEF Waited
    <2>2. w'.tcp \in TCPType /\ (w'.tcp.in_error \/ w'.tcp.in_ended)
      BY <1>3, <2>1 DEF Base, TcpInv
    <2>3. w'.tcp.queue = 0
      BY <2>1, <2>2 DEF TCPType
    <2>4. CASE Shaky(w')
      BY <1>1, <1>3, <1>4, <1>5, <2>1, <2>4 DEF Inv, Wait, LeftRight, ThrownRight
    <2>5. CASE ~Shaky(w')
      <3>1. ~Wanted(w')
        BY <1>3, <2>1, <2>5 DEF Base, RulesInv
      <3>2. w'.tcp.inbuf = 0 /\ w'.inbound_shutdown
        BY <2>2, <3>1 DEF Wanted, in_eof, TCPType
      <3> QED BY <1>1, <1>3, <1>4, <1>5, <2>1, <2>3, <3>2 DEF Inv, Wait, LeftRight, ThrownRight
    <2> QED BY <2>4, <2>5
  <1>6. CASE ~L!exits(w')
    <2>1. thread' = IF w'.loop.todo = {} THEN "tick" ELSE "serve"
      BY <1>6 DEF Wait
    <2>2. ToServe(w')
      <3>1. /\ w'.loop.todo \subseteq w'.loop.rules
            /\ \A r \in w'.loop.todo :
                 /\ "ERR" \notin w'.loop.seen[r]
                 /\ \/ r[2] \in w'.loop.seen[r]
                    \/ r = DataIn
                    \/ r = DataOut /\ w'.pair.down_shut /\ Wanted(w')
            /\ DataOut \in w'.loop.todo /\ ~PartialWrites =>
                 \/ w'.pair.down + InCapacity <= PipeCapacity
                 \/ "Out" \notin w'.loop.seen[DataOut]
        BY <1>2, <1>6 DEF Waited
      <3>2. w'.pair.down_shut /\ Wanted(w') => Shaky(w')
        BY <1>3 DEF ShutRight, Wanted, Base, TcpInv, TCPType
      <3>3. DataOut[2] = "Out" /\ DataOut # DataIn
        BY DEF DataOut, DataIn
      <3>4. DataOut \in w'.loop.todo /\ "Out" \in w'.loop.seen[DataOut] => HasRoom(w')
        BY <3>1 DEF HasRoom
      <3> QED BY <3>1, <3>2, <3>4 DEF ToServe
    <2> QED BY <1>1, <1>3, <1>4, <2>1, <2>2 DEF Inv, LeftRight, ThrownRight
  <1> QED BY <1>5, <1>6

\* A callback or a cancellation.
LEMMA StepServe ==
  ASSUME Inv, Serve
  PROVE  Inv'
  <1>1. /\ Base(w) /\ ShutRight(w) /\ w.loop.thrown = "no" /\ w' \in L!serve(w)
        /\ thread = "serve" /\ ToServe(w) /\ w.loop.todo # {}
        /\ UNCHANGED <<owner, abort, signals>>
    BY DEF Inv, ThrownRight, Serve
  <1>2. Served(w, w')
    BY <1>1, ServeFacts
  <1>3. thread' = IF w'.loop.thrown # "no" THEN "dead"
                  ELSE IF w'.loop.todo = {} THEN "tick" ELSE "serve"
    BY DEF Serve
  <1>4. Conserve'
    <2>1. /\ w.tcp.received \in Nat /\ w.tcp.inbuf \in Nat /\ w.pair.down \in Nat
          /\ w'.tcp.received \in Nat /\ w'.tcp.inbuf \in Nat /\ w'.pair.down \in Nat
          /\ owner.got \in Nat /\ owner' = owner
      BY <1>1, <1>2 DEF Served, Base, WorkType, TCPType, PairType, Inv, OwnerType
    <2>2. w.tcp.received = w.tcp.inbuf + w.pair.down + owner.got
      BY DEF Inv, Conserve
    <2>3. w'.tcp.received - w'.tcp.inbuf - w'.pair.down = w.tcp.received - w.tcp.inbuf - w.pair.down
      BY <1>2 DEF Served, Carries
    <2> QED BY <2>1, <2>2, <2>3 DEF Conserve
  <1>5. EofLast'
    BY <1>1, <1>2 DEF Inv, EofLast, Served, Carries
  <1> QED BY <1>1, <1>2, <1>3, <1>4, <1>5 DEF Inv, Served, LeftRight, ThrownRight

\* A signal during poll.
LEMMA StepSignal ==
  ASSUME Inv, Signal
  PROVE  Inv'
  <1>1. /\ Base(w) /\ ShutRight(w) /\ w.loop.thrown = "no" /\ w' = L!prepared(w)
        /\ thread = "loop" /\ signals' = signals + 1 /\ abort' = abort
    BY DEF Inv, ThrownRight, Signal
  <1>2. Base(w') /\ Prepares(w, w')
    BY <1>1, PreparedFacts
  <1>3. /\ ShutRight(w') /\ w'.loop.thrown = "no" /\ w'.pair = w.pair
        /\ w'.tcp.received = w.tcp.received /\ w'.tcp.inbuf = w.tcp.inbuf
    BY <1>1, <1>2, PreparesKeep
  <1>4. /\ owner' \in OwnerType /\ owner'.eof = owner.eof /\ owner'.got = owner.got
        /\ thread' \in {"loop", "leave"}
    BY <1>1 DEF Inv, Signal, OwnerType
  <1>5. signals' \in Nat /\ signals' # 0
    BY <1>1 DEF Inv
  <1> QED BY <1>1, <1>2, <1>3, <1>4, <1>5 DEF Inv, Conserve, EofLast, LeftRight, ThrownRight

\* The abort flag, or the time.
LEMMA StepTick ==
  ASSUME Inv, Tick
  PROVE  Inv'
  <1>1. Base(w) /\ ShutRight(w) /\ w.loop.thrown = "no" /\ thread = "tick"
    BY DEF Inv, ThrownRight, Tick
  <1>2. CASE abort
    BY <1>1, <1>2 DEF Inv, Tick, Conserve, EofLast, LeftRight, ThrownRight
  <1>3. CASE ~abort
    <2>1. PICK t \in IF w.tcp.active THEN tcp_tick(w.tcp) ELSE {w.tcp} :
                 w' = [L!returned(w) EXCEPT !.tcp = t]
      BY <1>3 DEF Tick
    <2>2. thread' = "loop" /\ UNCHANGED <<owner, abort, signals>>
      BY <1>3 DEF Tick
    <2>3. TcpInv(t) /\ Later(w.tcp, t) /\ TcpInv(w.tcp)
      BY <1>1, <2>1, TickFacts DEF Base
    <2> DEFINE x == L!returned(w)
    <2>4. /\ x \in WorkType /\ x.pair = w.pair /\ x.fd = w.fd /\ x.loop.rules = w.loop.rules
          /\ x.loop.thrown = "no" /\ x.inbound_shutdown = w.inbound_shutdown
      BY <1>1, EmptySeen DEF L!returned, Base, WorkType, LoopType
    <2> HIDE DEF x
    <2>5. /\ w' \in WorkType /\ w'.pair = w.pair /\ w'.fd = w.fd /\ w'.tcp = t
          /\ w'.loop.rules = w.loop.rules /\ w'.loop.thrown = "no"
          /\ w'.inbound_shutdown = w.inbound_shutdown
      BY <2>1, <2>3, <2>4 DEF WorkType, TcpInv, x
    <2>6. Base(w')
      BY <1>1, <2>3, <2>5 DEF Base, RulesInv, Shaky, Later
    <2>7. ShutRight(w')
      BY <1>1, <2>3, <2>5, LaterShut
    <2>8. Conserve'
      <3>1. /\ w.tcp.received \in Nat /\ w.tcp.inbuf \in Nat /\ w.pair.down \in Nat
            /\ t.received \in Nat /\ t.inbuf \in Nat /\ owner.got \in Nat
        BY <1>1, <2>3 DEF Base, WorkType, TcpInv, TCPType, PairType, Inv, OwnerType
      <3>2. w.tcp.received = w.tcp.inbuf + w.pair.down + owner.got
        BY DEF Inv, Conserve
      <3>3. t.received - t.inbuf = w.tcp.received - w.tcp.inbuf
        BY <2>3 DEF Later
      <3>4. t.received = t.inbuf + w.pair.down + owner.got
        BY <3>1, <3>2, <3>3
      <3> QED BY <2>2, <2>5, <3>4 DEF Conserve
    <2> QED BY <2>2, <2>5, <2>6, <2>7, <2>8 DEF Inv, EofLast, LeftRight, ThrownRight
  <1> QED BY <1>2, <1>3

\* The end of the thread.
LEMMA StepLeave ==
  ASSUME Inv, Leave
  PROVE  Inv'
  <1>1. /\ w' = [w EXCEPT !.pair = shutdown_both(@)] /\ thread = "leave" /\ thread' = "done"
        /\ Base(w) /\ UNCHANGED <<owner, abort, signals>>
    BY DEF Inv, Leave
  <1>2. /\ w' \in WorkType /\ w'.tcp = w.tcp /\ w'.loop = w.loop /\ w'.fd = w.fd
        /\ w'.inbound_shutdown = w.inbound_shutdown
        /\ w'.pair.down = w.pair.down /\ w'.pair.down_shut
    BY <1>1 DEF Base, WorkType, PairType, shutdown_both
  <1>3. Base(w')
    BY <1>1, <1>2 DEF Base, RulesInv, Shaky
  <1> QED BY <1>1, <1>2, <1>3 DEF Inv, Conserve, EofLast, LeftRight, ThrownRight, Shaky

-------------------------------------------------------------------------------
(* The network and the owner *)

\* A step that changes neither the connection nor the loop.
LEMMA OutsideStep ==
  ASSUME Inv, w' \in WorkType, w'.tcp = w.tcp, w'.loop = w.loop, w'.fd = w.fd,
         w'.inbound_shutdown = w.inbound_shutdown, w'.pair.down_shut = w.pair.down_shut,
         w'.pair.down <= w.pair.down,
         w.pair.down = w'.pair.down + (owner'.got - owner.got),
         owner' \in OwnerType, owner'.eof => w'.pair.down_shut /\ w'.pair.down = 0,
         thread' = thread, signals' = signals, abort' \in BOOLEAN, abort => abort'
  PROVE  Inv'
  <1>1. Base(w') /\ (Shaky(w') <=> Shaky(w))
    BY DEF Inv, Base, RulesInv, Shaky
  <1>2. (thread # "done" => ShutRight(w))' 
    BY DEF Inv, ShutRight, Shaky
  <1>3. w.pair.down \in Nat /\ w'.pair.down \in Nat /\ owner.got \in Nat /\ owner'.got \in Nat
    BY DEF Inv, Base, WorkType, PairType, OwnerType
  <1>4. HasRoom(w) => HasRoom(w')
    BY <1>3, Numbers DEF HasRoom
  <1>5. (thread = "serve" => ToServe(w) /\ w.loop.todo # {})'
    BY <1>1, <1>4 DEF Inv, ToServe
  <1>6. Conserve'
    <2>1. w.tcp.received = w.tcp.inbuf + w.pair.down + owner.got /\ w.tcp.inbuf \in Nat
      BY DEF Inv, Conserve, Base, TcpInv, TCPType
    <2> QED BY <1>3, <2>1 DEF Conserve
  <1> QED BY <1>1, <1>2, <1>5, <1>6 DEF Inv, EofLast, LeftRight, ThrownRight

\* The fields that the owner reads and writes.
LEMMA DownTypes ==
  ASSUME Inv
  PROVE  /\ w \in WorkType /\ w.pair \in PairType /\ owner \in OwnerType
         /\ w.pair.down \in 0..PipeCapacity /\ w.pair.up \in Nat
         /\ owner.got \in Nat /\ owner.wrote \in Nat /\ PipeCapacity \in Nat
  BY Numbers DEF Inv, Base, WorkType, PairType, OwnerType

\* A datagram arrives.
LEMMA StepArrive ==
  ASSUME Inv, Arrive
  PROVE  Inv'
  <1>1. /\ w' = [w EXCEPT !.datagram = TRUE] /\ UNCHANGED <<thread, owner, abort, signals>>
    BY DEF Arrive
  <1>2. /\ w' \in WorkType /\ w'.tcp = w.tcp /\ w'.loop = w.loop /\ w'.fd = w.fd
        /\ w'.inbound_shutdown = w.inbound_shutdown /\ w'.pair = w.pair
    BY <1>1, DownTypes DEF WorkType
  <1>3. w'.pair.down <= w.pair.down /\ w.pair.down = w'.pair.down + (owner'.got - owner.got)
    BY <1>1, <1>2, DownTypes
  <1> QED BY <1>1, <1>2, <1>3, OutsideStep DEF Inv, EofLast

\* The owner writes.
LEMMA StepWrite ==
  ASSUME Inv, NEW n \in 1..MaxOut, Write(n)
  PROVE  Inv'
  <1>1. /\ w' = [w EXCEPT !.pair.up = @ + n] /\ owner' = [owner EXCEPT !.wrote = @ + n]
        /\ UNCHANGED <<thread, abort, signals>>
    BY DEF Write
  <1>4. n \in Nat
    BY Numbers
  <1>2. /\ w' \in WorkType /\ w'.tcp = w.tcp /\ w'.loop = w.loop /\ w'.fd = w.fd
        /\ w'.inbound_shutdown = w.inbound_shutdown /\ w'.pair.down = w.pair.down
        /\ w'.pair.down_shut = w.pair.down_shut
    BY <1>1, <1>4, DownTypes DEF WorkType, PairType
  <1>5. owner' \in OwnerType /\ owner'.got = owner.got /\ owner'.eof = owner.eof
    BY <1>1, <1>4, DownTypes DEF OwnerType
  <1>3. w'.pair.down <= w.pair.down /\ w.pair.down = w'.pair.down + (owner'.got - owner.got)
    BY <1>2, <1>5, DownTypes
  <1> QED BY <1>1, <1>2, <1>3, <1>5, OutsideStep DEF Inv, EofLast

\* The owner reads: the end only when nothing is left and the direction is shut.
LEMMA StepRead ==
  ASSUME Inv, Read
  PROVE  Inv'
  <1>1. /\ w' = [w EXCEPT !.pair.down = 0]
        /\ owner' = [owner EXCEPT !.got = @ + w.pair.down, !.eof = (w.pair.down = 0)]
        /\ w.pair.down > 0 \/ w.pair.down_shut
        /\ UNCHANGED <<thread, abort, signals>>
    BY DEF Read
  <1>2. /\ w' \in WorkType /\ w'.tcp = w.tcp /\ w'.loop = w.loop /\ w'.fd = w.fd
        /\ w'.inbound_shutdown = w.inbound_shutdown /\ w'.pair.down = 0
        /\ w'.pair.down_shut = w.pair.down_shut
    BY <1>1, DownTypes DEF WorkType, PairType
  <1>4. owner.got + w.pair.down \in Nat
    BY DownTypes
  <1>5. /\ owner' \in OwnerType /\ owner'.got = owner.got + w.pair.down
        /\ owner'.eof = (w.pair.down = 0)
    BY <1>1, <1>4, DownTypes DEF OwnerType
  <1>6. w.pair.down \in Nat /\ owner.got \in Nat
    BY DownTypes
  <1>3. w'.pair.down <= w.pair.down /\ w.pair.down = w'.pair.down + (owner'.got - owner.got)
    BY ONLY <1>2, <1>5, <1>6
  <1>7. owner'.eof => w.pair.down = 0
    BY <1>5
  <1>8. owner'.eof => w.pair.down_shut
    BY ONLY <1>1, <1>6, <1>7
  <1> QED BY <1>1, <1>2, <1>3, <1>5, <1>8, OutsideStep DEF Inv

\* The owner shuts down its direction.
LEMMA StepShutdownWrite ==
  ASSUME Inv, ShutdownWrite
  PROVE  Inv'
  <1>1. /\ w' = [w EXCEPT !.pair.up_shut = TRUE] /\ UNCHANGED <<thread, owner, abort, signals>>
    BY DEF ShutdownWrite
  <1>2. /\ w' \in WorkType /\ w'.tcp = w.tcp /\ w'.loop = w.loop /\ w'.fd = w.fd
        /\ w'.inbound_shutdown = w.inbound_shutdown /\ w'.pair.down = w.pair.down
        /\ w'.pair.down_shut = w.pair.down_shut
    BY <1>1, DownTypes DEF WorkType, PairType
  <1>3. w'.pair.down <= w.pair.down /\ w.pair.down = w'.pair.down + (owner'.got - owner.got)
    BY <1>1, <1>2, DownTypes
  <1> QED BY <1>1, <1>2, <1>3, OutsideStep DEF Inv, EofLast

\* It is called at the end of the stream: the direction it shuts is shut.
LEMMA StepWaitUntilClosed ==
  ASSUME Inv, wait_until_closed
  PROVE  Inv'
  <1>1. /\ w' = [w EXCEPT !.pair = shutdown_both(@)] /\ owner.eof
        /\ owner' = [owner EXCEPT !.pc = "joining"]
        /\ UNCHANGED <<thread, abort, signals>>
    BY DEF wait_until_closed
  <1>6. w.pair.down_shut = TRUE /\ w.pair.down = 0
    BY <1>1, DownTypes DEF Inv, EofLast, PairType
  <1>2. /\ w' \in WorkType /\ w'.tcp = w.tcp /\ w'.loop = w.loop /\ w'.fd = w.fd
        /\ w'.inbound_shutdown = w.inbound_shutdown /\ w'.pair.down = w.pair.down
        /\ w'.pair.down_shut = TRUE
    BY <1>1, DownTypes DEF WorkType, PairType, shutdown_both
  <1>5. owner' \in OwnerType /\ owner'.got = owner.got
    BY <1>1, DownTypes DEF OwnerType
  <1>3. w'.pair.down <= w.pair.down /\ w.pair.down = w'.pair.down + (owner'.got - owner.got)
    BY <1>2, <1>5, DownTypes
  <1> QED BY <1>1, <1>2, <1>3, <1>5, <1>6, OutsideStep DEF Inv

\* The owner destroys the socket, or its join returns.
LEMMA StepDestroy ==
  ASSUME Inv, Destroy \/ Join
  PROVE  Inv'
  <1>1. /\ w' = w /\ UNCHANGED <<thread, signals>> /\ abort' \in BOOLEAN /\ (abort => abort')
        /\ \E pc \in {"joining", "joined"} : owner' = [owner EXCEPT !.pc = pc]
    BY DEF Destroy, Join, Inv
  <1>5. owner' \in OwnerType /\ owner'.got = owner.got /\ owner'.eof = owner.eof
    BY <1>1, DownTypes DEF OwnerType
  <1>3. w'.pair.down <= w.pair.down /\ w.pair.down = w'.pair.down + (owner'.got - owner.got)
    BY <1>1, <1>5, DownTypes
  <1> QED BY <1>1, <1>3, <1>5, DownTypes, OutsideStep DEF Inv, EofLast

\* Every step keeps the invariant.
LEMMA StepInv ==
  ASSUME Inv, [Next]_vars
  PROVE  Inv'
  <1>1. CASE UNCHANGED vars
    BY <1>1 DEF vars, Inv, Conserve, EofLast, LeftRight, ThrownRight
  <1> QED BY <1>1, StepOpen, StepWait, StepServe, StepSignal, StepTick, StepLeave, StepArrive,
             StepWrite, StepRead, StepShutdownWrite, StepWaitUntilClosed, StepDestroy
          DEF Next, ThreadStep

\* So it always holds.
LEMMA InvHolds == Spec => []Inv
  BY InitInv, StepInv, PTL DEF Spec

-------------------------------------------------------------------------------
(* The theorems *)

\* A kernel that takes all it is given: a TCP thread that ends on its own, of a
\* connection to which no byte came after the end, has handed every byte that
\* arrived and the end to the socket pair and has sent all its segments, whatever
\* the interleaving with the owner and the network (tcp_sponge_socket.cc:53-162,
\* eventloop.cc:66-92).
THEOREM SocketHandsOver ==
  ASSUME ~PartialWrites
  PROVE  Spec => []HandedOver
  <1>1. Inv => HandedOver
    BY DEF Inv, LeftRight, Shaky, HandedOver
  <1> QED BY <1>1, InvHolds, PTL

\* With partial writes too: an owner that reads the end of a stream that ended
\* without an error, and behind its last byte, has read every byte of it
\* (tcp_sponge_socket.cc:118-147, 254-262).
THEOREM SocketSeesAll == Spec => []OwnerSeesAll
  <1>1. ASSUME Inv, owner.eof, ~abort, signals = 0, ~w.tcp.in_error, ~w.tcp.past_end
        PROVE  w.tcp.in_ended /\ owner.got = w.tcp.received
    <2>1. ~Shaky(w) /\ w.pair.down_shut /\ w.pair.down = 0
      BY <1>1 DEF Inv, EofLast, Shaky
    <2>2. w.tcp.inbuf = 0 /\ w.tcp.in_ended
      <3>1. CASE thread = "done"
        BY <1>1, <2>1, <3>1 DEF Inv, LeftRight, Base, TcpInv
      <3>2. CASE thread # "done"
        BY <1>1, <2>1, <3>2 DEF Inv, ShutRight
      <3> QED BY <3>1, <3>2
    <2>3. w.tcp.received = w.tcp.inbuf + w.pair.down + owner.got /\ owner.got \in Nat
      BY <1>1, DownTypes DEF Inv, Conserve
    <2> QED BY <2>1, <2>2, <2>3
  <1>2. Inv => OwnerSeesAll
    BY <1>1 DEF OwnerSeesAll
  <1> QED BY <1>2, InvHolds, PTL

\* A kernel that takes all it is given: no callback busy-waits, no poll reports an
\* error, and no write meets a shut direction but that of bytes after the end of
\* their stream (eventloop.cc:109-139, tcp_sponge_socket.cc:132-148).
THEOREM SocketNeverThrows ==
  ASSUME ~PartialWrites
  PROVE  Spec => []NeverThrows
  <1>1. Inv => NeverThrows
    BY DEF Inv, ThrownRight, NeverThrows
  <1> QED BY <1>1, InvHolds, PTL

===============================================================================
