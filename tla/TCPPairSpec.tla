------------------------------ MODULE TCPPairSpec ------------------------------
(***************************************************************************)
(* Two TCPConnections, each with its application and owner, over a network *)
(* that loses, repeats and reorders segments.  The owner (the event loop   *)
(* of TCPSpongeSocket) hands each queued segment to the network right      *)
(* after the call that queued it: the delay of the network covers its own. *)
(***************************************************************************)
EXTENDS TCPState, FiniteSets, Functions

CONSTANTS
  RecvCapacity, SendCapacity, RtTimeout,   \* TCPConfig
  Isn,         \* Isn[e]: the initial number of e
  Stream,      \* Stream[e]: what e's application has to say
  Opener,      \* the ends that connect; the others listen
  MayAbort,    \* the ends whose owner may destroy the connection
  FinOvertakes,\* whether a FIN may arrive before the bytes it follows
  MaxNet,      \* bound: segments under way to one end
  MaxFaults    \* bound: losses, repetitions and premature timeouts

End     == {"A", "B"}
Peer(e) == IF e = "A" THEN "B" ELSE "A"

ASSUME PairAssumption ==
  /\ {RecvCapacity, SendCapacity, RtTimeout} \subseteq Nat \ {0}
  /\ {MaxNet, MaxFaults} \subseteq Nat
  /\ \A e \in End : Isn[e] \in 0..(Mod - 1) /\ Isn[e] + Len(Stream[e]) + 2 < Mod
  /\ Opener \subseteq End /\ Opener # {} /\ MayAbort \subseteq End
  /\ FinOvertakes \in BOOLEAN

VARIABLES
  conn,  \* the connections
  net,   \* net[e]: segments under way to e
  got,   \* got[e]: what e's application has read
  told,  \* told[e]: whether it was told of the end, or of an error
  faults \* how often the network lost, repeated or delayed a segment

vars == <<conn, net, got, told, faults>>

Config(e) ==
  [recv_capacity |-> RecvCapacity, send_capacity |-> SendCapacity,
   rt_timeout |-> RtTimeout, fixed_isn |-> Isn[e]]

Init ==
  /\ conn = [e \in End |-> ConnectionNew(Config(e))]
  /\ net = [e \in End |-> {}]
  /\ got = [e \in End |-> <<>>] /\ told = [e \in End |-> "no"]
  /\ faults = 0

\* The network after e has sent what c has queued and arrived has left it.
NetAfter(e, c, arrived) ==
  [net EXCEPT ![Peer(e)] = @ \cup Range(c.segments_out), ![e] = @ \ arrived]

\* e's connection becomes c, its queue goes into the network.
Becomes(e, c, arrived) ==
  /\ conn' = [conn EXCEPT ![e] = [c EXCEPT !.segments_out = <<>>]]
  /\ net' = NetAfter(e, c, arrived)
  /\ Cardinality(net'[Peer(e)]) <= MaxNet

Inbound(e) == inbound_stream(conn[e])

\* What arrives is any segment under way; a FIN, if it may not overtake, only
\* once its bytes are there or come with it.
Arriving(e) ==
  {seg \in net[e] :
     (seg.fin /\ ~FinOvertakes) =>
       seg.seqno <= R!wrap(1 + Inbound(e).write_count, Isn[Peer(e)])}

-------------------------------------------------------------------------------
(* The owners *)

\* connect() or listen_and_accept() has returned.
Ready(e) == state(conn[e]) \notin {State.LISTEN, State.SYN_SENT, State.SYN_RCVD}

Connect(e) ==
  /\ e \in Opener /\ In(conn[e], "LISTEN")
  /\ Becomes(e, connect(conn[e]), {})
  /\ UNCHANGED <<got, told, faults>>

\* Rule 2: what the application has written, up to the capacity.
MayWrite(e) ==
  Ready(e) /\ conn[e].active /\ ~conn[e].closedByApp
    /\ remaining_outbound_capacity(conn[e]) > 0

Written(e) == outbound_stream(conn[e]).write_count

Write(e) ==
  /\ MayWrite(e) /\ Written(e) < Len(Stream[e])
  /\ \E n \in 1..Least(Len(Stream[e]) - Written(e), remaining_outbound_capacity(conn[e])) :
       Becomes(e, write_out(conn[e], SubSeq(Stream[e], Written(e) + 1, Written(e) + n)), {})
  /\ UNCHANGED <<got, told, faults>>

\* Its end: an empty write and end_input_stream.
Finish(e) ==
  /\ MayWrite(e)
  /\ Becomes(e, end_input_stream(write_out(conn[e], <<>>)), {})
  /\ UNCHANGED <<got, told, faults>>

\* Rule 3: what has arrived goes to the application, and the end after it.
MayRead(e) == ~buffer_empty(Inbound(e))
                \/ ((stream_eof(Inbound(e)) \/ Inbound(e).error) /\ told[e] = "no")

Read(e) ==
  /\ MayRead(e)
  /\ LET n == buffer_size(Inbound(e))
         c == [conn[e] EXCEPT !.receiver.reassembler.output = pop_output(@, n)]
     IN  /\ conn' = [conn EXCEPT ![e] = c]
         /\ got' = [got EXCEPT ![e] = @ \o peek_output(Inbound(e), n)]
         /\ told' = [told EXCEPT ![e] =
                       IF inbound_stream(c).error THEN "error"
                       ELSE IF stream_eof(inbound_stream(c)) THEN "end" ELSE @]
  /\ UNCHANGED <<net, faults>>

\* Time passes for both once everything that was sent has arrived: a timeout is
\* longer than a round trip.  The owner of an end that connects reports no time
\* before it does.
Ticks(e) == conn[e].active /\ ~(e \in Opener /\ In(conn[e], "LISTEN"))

Tick ==
  /\ \A e \in End : Arriving(e) = {}
  /\ \E e \in End : Ticks(e)
  /\ LET after == [e \in End |-> IF Ticks(e) THEN tick(conn[e], 1) ELSE conn[e]]
     IN  /\ conn' = [e \in End |-> [after[e] EXCEPT !.segments_out = <<>>]]
         /\ net' = [e \in End |-> net[e] \cup Range(after[Peer(e)].segments_out)]
  /\ UNCHANGED <<got, told, faults>>

\* A fault: time passes for one of them while segments are under way.
EarlyTick(e) ==
  /\ faults < MaxFaults /\ faults' = faults + 1
  /\ \E d \in End : Arriving(d) # {}
  /\ Ticks(e)
  /\ Becomes(e, tick(conn[e], 1), {})
  /\ UNCHANGED <<got, told>>

\* The owner destroys the connection: what it queues is never sent.
Abort(e) ==
  /\ faults < MaxFaults /\ faults' = faults + 1
  /\ e \in MayAbort /\ conn[e].active
  /\ conn' = [conn EXCEPT ![e] = [destroy(@) EXCEPT !.segments_out = <<>>]]
  /\ UNCHANGED <<net, got, told>>

(* The network *)

Deliver(e) ==
  /\ \E seg \in Arriving(e) : Becomes(e, segment_received(conn[e], seg), {seg})
  /\ UNCHANGED <<got, told, faults>>

\* A copy arrives and the segment is still under way.
Duplicate(e) ==
  /\ faults < MaxFaults /\ faults' = faults + 1
  /\ \E seg \in Arriving(e) : Becomes(e, segment_received(conn[e], seg), {})
  /\ UNCHANGED <<got, told>>

Lose(e) ==
  /\ faults < MaxFaults /\ faults' = faults + 1
  /\ \E seg \in net[e] : net' = [net EXCEPT ![e] = @ \ {seg}]
  /\ UNCHANGED <<conn, got, told>>

Work(e) == Connect(e) \/ Write(e) \/ Finish(e) \/ Read(e) \/ Deliver(e)

Next == Tick \/ \E e \in End : Work(e) \/ EarlyTick(e) \/ Abort(e) \/ Duplicate(e) \/ Lose(e)

Spec == Init /\ [][Next]_vars

\* Weak fairness of Work and of Tick, ENABLED written out.  As long as there is
\* anything to do the applications, the owners and the network do something:
\* they connect, go on to the end of their streams, read what has arrived and
\* deliver what is not lost; and time goes on.
HasWork(e) ==
  (e \in Opener /\ In(conn[e], "LISTEN")) \/ MayWrite(e) \/ MayRead(e) \/ Arriving(e) # {}

CanTick ==
  /\ \A e \in End : Arriving(e) = {}
  /\ \E e \in End : Ticks(e) /\ tick(conn[e], 1) # conn[e]

Fairness ==
  /\ []<>(\A e \in End : ~HasWork(e)) \/ []<><<\E e \in End : Work(e)>>_vars
  /\ []<>~CanTick \/ []<><<Tick>>_vars

LiveSpec == Spec /\ Fairness

-------------------------------------------------------------------------------
(* Properties *)

\* The connection as an application sees it.
Status(c) == IF c.active THEN "open" ELSE IF c.rst_set THEN "reset" ELSE "closed"

Abstract ==
  INSTANCE ReliableStream WITH
    Byte <- Nat,
    written <- [e \in End |-> SubSeq(Stream[e], 1, Written(e))],
    ended <- [e \in End |-> outbound_stream(conn[e]).is_eof],
    eof <- [e \in End |-> told[e] = "end"],
    status <- [e \in End |-> Status(conn[e])]

\* Over a network that loses, repeats and reorders, but on which no FIN overtakes
\* the bytes before it (FinOvertakes = FALSE; EndIsLast fails otherwise), what the
\* two applications see is a pair of reliable streams: bytes in order, the end
\* only after the last byte, a close only when both have ended, an error instead
\* (the whole of tcp_connection.cc).
IsReliable == Abstract!Spec

\* A connection that has closed cleanly (tcp_connection.cc:160-164) leaves
\* nothing behind: its peer holds or has read all it wrote, with the end, and
\* it holds or has read all of the peer's.
Holds(e) == got[e] \o Inbound(e).buf
CloseIsComplete ==
  \A e \in End : Status(conn[e]) = "closed" =>
    \A d \in End : Inbound(d).is_eof /\ Holds(d) = SubSeq(Stream[Peer(d)], 1, Written(Peer(d)))

\* An application that is told of the end has read all that its peer wrote.
EndIsLast ==
  \A e \in End : told[e] = "end" => got[e] = SubSeq(Stream[Peer(e)], 1, Written(Peer(e)))

\* What a sender takes for acknowledged (tcp_sender.cc:88-96) its peer's
\* receiver has put in its place, the FIN included.
AckedIsHeld ==
  \A e \in End :
    conn[e].sender.next_seqno - bytes_in_flight(conn[e])
      <= flag(conn[Peer(e)].receiver.isn_set) + Inbound(Peer(e)).write_count
           + flag(Inbound(Peer(e)).is_eof)

\* The state diagram of TCP (tcp_state.hh:34-48) from the handshake on, with the
\* arrows that a segment with both an acknowledgment and a FIN takes at once.
Arrow ==
  {<<"ESTABLISHED", "FIN_WAIT_1">>, <<"ESTABLISHED", "CLOSE_WAIT">>,
   <<"ESTABLISHED", "CLOSING">>,
   <<"FIN_WAIT_1", "FIN_WAIT_2">>, <<"FIN_WAIT_1", "CLOSING">>,
   <<"FIN_WAIT_1", "TIME_WAIT">>, <<"FIN_WAIT_2", "TIME_WAIT">>,
   <<"CLOSING", "TIME_WAIT">>, <<"TIME_WAIT", "CLOSED">>,
   <<"CLOSE_WAIT", "LAST_ACK">>, <<"LAST_ACK", "CLOSED">>}

\* The SYNs of both directions are acknowledged or received.  (Before that the
\* code leaves the diagram: an acknowledgment of the SYN that comes ahead of
\* the peer's own SYN lets the application write.)
Handshaken(c) == c.receiver.isn_set /\ sender_summary(c.sender) \notin {"CLOSED", "SYN_SENT"}

\* The places of c in the diagram.  An application that ends its stream before
\* the peer's FIN comes closes actively, even while its own FIN waits for the
\* window: the code has no name for that, and goes on to CLOSING.
FinWaits(c) == state(c) = Summary("FIN_RECV", "SYN_ACKED", TRUE, TRUE) /\ c.closedByApp
Places(c)   == NamesOf(c) \cup {name \in {"CLOSING"} : FinWaits(c)}

\* Sender and receiver, which know nothing of each other, are from then on
\* together in such a place, and every step follows an arrow or resets.
FollowsDiagram ==
  [][\A e \in End : Handshaken(conn[e]) =>
       \E from \in Places(conn[e]), to \in Places(conn'[e]) :
         from = to \/ to = "RESET" \/ <<from, to>> \in Arrow]_vars

\* The network lets through all but a few segments: both connections close
\* cleanly and both applications are told so, whoever ends first
\* (tcp_connection.cc:55, 59, 148-168).
ClosesCleanly == <>[](\A e \in End : Status(conn[e]) = "closed" /\ told[e] = "end")

================================================================================
