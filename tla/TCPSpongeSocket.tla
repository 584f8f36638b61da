---------------------------- MODULE TCPSpongeSocket ----------------------------
(***************************************************************************)
(* Class TCPSpongeSocket (libsponge/tcp_helpers/tcp_sponge_socket.hh,      *)
(* .cc): the owner's thread and the TCP thread, with a socket pair and an  *)
(* abort flag between them.  The TCP thread runs the four rules of an      *)
(* EventLoop.  Bytes are counted: the streams keep their order.            *)
(***************************************************************************)
EXTENDS FileDescriptor, Sequences

CONSTANTS
  Capacity,      \* of the outbound stream
  InCapacity,    \* of the inbound stream
  PipeCapacity,  \* of the socket pair, each way (external)
  PartialWrites, \* whether the kernel may take less than it is given
  LossyAdapter,  \* whether the adapter may drop what it sends
  MaxIn, MaxOut, \* bounds: bytes of the peer, of the owner
  MaxQueue,      \* bound: segments queued
  MaxSignals     \* bound: signals during poll

ASSUME SocketAssumption ==
  /\ {Capacity, InCapacity, PipeCapacity} \subseteq Nat \ {0}
  /\ InCapacity <= PipeCapacity
  /\ {MaxIn, MaxOut, MaxQueue, MaxSignals} \subseteq Nat
  /\ PartialWrites \in BOOLEAN /\ LossyAdapter \in BOOLEAN

VARIABLES
  w,       \* what the TCP thread works on
  thread,  \* where it is in _tcp_loop and _tcp_main
  owner,   \* what the owner is doing, has written and has read
  abort,   \* the abort flag
  signals  \* signals so far

vars == <<w, thread, owner, abort, signals>>

Smaller(m, n) == IF m < n THEN m ELSE n

-------------------------------------------------------------------------------
(* The connection as its owner sees it: a set of outcomes for each call.     *)
(* TCPConnection has it in full.  past_end is a ghost: a byte has come after *)
(* the inbound stream was ended.                                             *)

TCPNew ==
  [active |-> TRUE, handshake |-> "LISTEN", room |-> Capacity, out_ended |-> FALSE,
   received |-> 0, inbuf |-> 0, in_ended |-> FALSE, in_error |-> FALSE, queue |-> 0,
   past_end |-> FALSE]

in_eof(t) == t.in_ended /\ t.inbuf = 0

queued(t) == [t EXCEPT !.queue = Smaller(@ + 1, MaxQueue)]

tcp_connect(t) == queued([t EXCEPT !.handshake = "SYN_SENT"])

\* They make it send, active or not.  fill_window takes what the window has
\* room for out of the stream at once.
tcp_write(t, n)         == {queued([t EXCEPT !.room = r]) : r \in (t.room - n)..t.room}
tcp_end_input_stream(t) == queued([t EXCEPT !.out_ended = TRUE])

tcp_reset(t) == [t EXCEPT !.active = FALSE, !.in_error = TRUE, !.handshake = "done"]

tcp_finished(t) == t.in_ended /\ t.out_ended /\ t.room = Capacity

\* An acknowledgment lets the sender take more out of the stream.
tcp_acked(t) ==
  UNION {{[t EXCEPT !.room = n, !.handshake = s] : n \in t.room..Capacity} :
           s \in IF t.handshake = "LISTEN" THEN {"LISTEN", "SYN_SENT"} ELSE {t.handshake, "done"}}

\* The next bytes of the peer, its end, or both.  A FIN that overtakes data ends
\* the stream early (TCPPairEnd.cfg), and bytes are still written behind it.
tcp_arrived(t) ==
  IF t.handshake # "done" THEN {t}
  ELSE UNION {{[t EXCEPT !.inbuf = @ + n, !.received = @ + n, !.in_ended = e,
                         !.past_end = @ \/ (t.in_ended /\ n > 0)] : e \in {t.in_ended, TRUE}} :
                n \in 0..Smaller(InCapacity - t.inbuf, MaxIn - t.received)}

tcp_closed(t) == IF tcp_finished(t) THEN {t, [t EXCEPT !.active = FALSE]} ELSE {t}

tcp_segment_received(t) ==
  IF ~t.active THEN {t}
  ELSE {tcp_reset(t)}
         \cup UNION {{c, queued(c)} :
                c \in UNION {tcp_closed(b) : b \in UNION {tcp_arrived(a) : a \in tcp_acked(t)}}}

\* Retransmission, giving up, the end of the lingering.
tcp_tick(t) ==
  tcp_closed(t)
    \cup (IF t.handshake # "LISTEN"
          THEN {queued(t), queued(tcp_reset(t))} ELSE {})

-------------------------------------------------------------------------------
(* The socket pair (external): bytes under way in each direction, and which *)
(* direction is shut down.                                                   *)

PairNew == [up |-> 0, down |-> 0, up_shut |-> FALSE, down_shut |-> FALSE]

shutdown_both(pair) == [pair EXCEPT !.up_shut = TRUE, !.down_shut = TRUE]

\* poll(2): a shut direction is readable; both shut is a hangup.  A local socket
\* is writable while little of its buffer is in use, which leaves room for all
\* that is written at once; with partial writes, while there is any room.  The
\* datagram socket is always writable.
Revents(fd, v) ==
  IF fd = "adapter" THEN {"Out"} \cup (IF v.datagram THEN {"In"} ELSE {})
  ELSE (IF v.pair.up > 0 \/ v.pair.up_shut THEN {"In"} ELSE {})
         \cup (IF v.pair.down + (IF PartialWrites THEN 1 ELSE InCapacity) <= PipeCapacity THEN {"Out"} ELSE {})
         \cup (IF v.pair.up_shut /\ v.pair.down_shut THEN {"HUP"} ELSE {})

-------------------------------------------------------------------------------
(* The rules of _initialize_TCP *)

\* Rule 1: the datagram may be none of ours, or be dropped.
segment_in(v) ==
  {[v EXCEPT !.fd.adapter = register_read(@), !.datagram = FALSE, !.tcp = t] :
     t \in {v.tcp} \cup tcp_segment_received(v.tcp)}

\* Mutant: does not tell the connection.
end_outbound_silent(v) == [v EXCEPT !.outbound_shutdown = TRUE]

\* Rule 2.
end_outbound(v) ==
  [v EXCEPT !.tcp = tcp_end_input_stream(@), !.outbound_shutdown = TRUE]

bytes_out(v) ==
  LET n == Smaller(v.tcp.room, v.pair.up)
      u(t) == [v EXCEPT !.fd.data = fd_read(@, v.tcp.room, n), !.pair.up = @ - n, !.tcp = t]
  IN  {IF u(t).fd.data.eof THEN end_outbound(u(t)) ELSE u(t) : t \in tcp_write(v.tcp, n)}

\* Mutant: looks for the end of the stream before it writes.
bytes_in_end_first(v) ==
  IF v.tcp.in_ended \/ v.tcp.in_error
  THEN {[v EXCEPT !.fd.data = fd_write(@), !.pair.down_shut = TRUE, !.inbound_shutdown = TRUE]}
  ELSE {[v EXCEPT !.fd.data = fd_write(@), !.pair.down = @ + v.tcp.inbuf, !.tcp.inbuf = 0]}

\* Rule 3: a write to a direction that is shut is a broken pipe.
bytes_in(v) ==
  LET most == Smaller(v.tcp.inbuf, PipeCapacity - v.pair.down)
      u(n) == [v EXCEPT !.fd.data = fd_write(@), !.pair.down = @ + n, !.tcp.inbuf = @ - n]
  IN  IF v.pair.down_shut /\ v.tcp.inbuf > 0
      THEN {[v EXCEPT !.loop.thrown = "broken pipe", !.loop.todo = {}]}
      ELSE {IF in_eof(u(n).tcp) \/ u(n).tcp.in_error
            THEN [u(n) EXCEPT !.pair.down_shut = TRUE, !.inbound_shutdown = TRUE]
            ELSE u(n) :
              n \in IF PartialWrites THEN Smaller(1, most)..most ELSE {most}}

\* Mutant: one segment at a time.
segments_out_one(v) ==
  {[v EXCEPT !.tcp.queue = @ - 1, !.fd.adapter = IF sent THEN fd_write(@) ELSE @] :
     sent \in IF LossyAdapter THEN BOOLEAN ELSE {TRUE}}

\* Rule 4: the adapter may drop a segment without writing.
segments_out(v) ==
  {[v EXCEPT !.tcp.queue = 0, !.fd.adapter = IF sent THEN fd_write(@) ELSE @] :
     sent \in IF LossyAdapter THEN BOOLEAN ELSE {TRUE}}

\* Mutant: no rule works for a connection that is over.
Interest_active(r, v) ==
  v.tcp.active /\
  CASE r = <<"adapter", "In">>  -> TRUE
    [] r = <<"data", "In">>     -> ~v.outbound_shutdown /\ v.tcp.room > 0
    [] r = <<"data", "Out">>    -> v.tcp.inbuf > 0 \/ (in_eof(v.tcp) /\ ~v.inbound_shutdown)
    [] r = <<"adapter", "Out">> -> v.tcp.queue > 0

Interest(r, v) ==
  CASE r = <<"adapter", "In">>  -> v.tcp.active
    [] r = <<"data", "In">>     -> v.tcp.active /\ ~v.outbound_shutdown /\ v.tcp.room > 0
    [] r = <<"data", "Out">>    -> \/ v.tcp.inbuf > 0
                                   \/ (in_eof(v.tcp) \/ v.tcp.in_error) /\ ~v.inbound_shutdown
    [] r = <<"adapter", "Out">> -> v.tcp.queue > 0

Callback(r, v) ==
  CASE r = <<"adapter", "In">>  -> segment_in(v)
    [] r = <<"data", "In">>     -> bytes_out(v)
    [] r = <<"data", "Out">>    -> bytes_in(v)
    [] r = <<"adapter", "Out">> -> segments_out(v)

Cancel(r, v) == IF r = <<"data", "In">> THEN end_outbound(v) ELSE v

Rules == <<<<"adapter", "In">>, <<"data", "In">>, <<"data", "Out">>, <<"adapter", "Out">>>>

L == INSTANCE EventLoop

initialize_TCP ==
  [loop |-> L!LoopNew,
   fd |-> [adapter |-> FDNew, data |-> FDNew],
   tcp |-> TCPNew, pair |-> PairNew, datagram |-> FALSE,
   inbound_shutdown |-> FALSE, outbound_shutdown |-> FALSE]

-------------------------------------------------------------------------------
(* The TCP thread *)

\* connect() queues the SYN; listen_and_accept() waits for one.  Both then run
\* the loop in the owner's thread until the handshake is over.
connecting == [initialize_TCP EXCEPT !.tcp = tcp_connect(@)]
listening  == initialize_TCP

Init ==
  /\ w \in {connecting, listening}
  /\ thread = "loop"
  /\ owner = [pc |-> "opening", wrote |-> 0, got |-> 0, eof |-> FALSE]
  /\ abort = FALSE /\ signals = 0

\* The condition of that loop is met, and the thread starts.
opened == owner.pc = "opening" /\ w.tcp.handshake = "done"

Open ==
  /\ thread = "loop" /\ opened
  /\ owner' = [owner EXCEPT !.pc = "running"]
  /\ UNCHANGED <<w, thread, abort, signals>>

\* wait_next_event up to its poll.
Wait ==
  /\ thread = "loop" /\ ~opened
  /\ w' = L!wait(w)
  /\ thread' = IF L!exits(w') THEN "leave" ELSE IF w'.loop.todo = {} THEN "tick" ELSE "serve"
  /\ UNCHANGED <<owner, abort, signals>>

Serve ==
  /\ thread = "serve"
  /\ w' \in L!serve(w)
  /\ thread' = IF w'.loop.thrown # "no" THEN "dead"
               ELSE IF w'.loop.todo = {} THEN "tick" ELSE "serve"
  /\ UNCHANGED <<owner, abort, signals>>

\* A signal during poll ends the loop; connect() then starts the thread.
Signal ==
  /\ signals < MaxSignals /\ signals' = signals + 1
  /\ thread = "loop" /\ ~opened
  /\ w' = L!prepared(w) /\ ~L!exits(w')
  /\ IF owner.pc = "opening"
     THEN owner' = [owner EXCEPT !.pc = "running"] /\ UNCHANGED thread
     ELSE thread' = "leave" /\ UNCHANGED owner
  /\ UNCHANGED abort

\* Mutant: does not look at the abort flag.
Tick_deaf ==
  /\ thread = "tick" /\ thread' = "loop"
  /\ \E t \in IF w.tcp.active THEN tcp_tick(w.tcp) ELSE {w.tcp} :
       w' = [L!returned(w) EXCEPT !.tcp = t]
  /\ UNCHANGED <<owner, abort, signals>>

\* The rest of the loop: the abort flag, then the time.
Tick ==
  /\ thread = "tick"
  /\ IF abort
     THEN thread' = "leave" /\ UNCHANGED w
     ELSE /\ thread' = "loop"
          /\ \E t \in IF w.tcp.active THEN tcp_tick(w.tcp) ELSE {w.tcp} :
               w' = [L!returned(w) EXCEPT !.tcp = t]
  /\ UNCHANGED <<owner, abort, signals>>

\* The end of _tcp_main; w.tcp stays what it was when it was destroyed.
Leave ==
  /\ thread = "leave" /\ thread' = "done"
  /\ w' = [w EXCEPT !.pair = shutdown_both(@)]
  /\ UNCHANGED <<owner, abort, signals>>

Arrive ==
  /\ ~w.datagram /\ w.tcp.active
  /\ w' = [w EXCEPT !.datagram = TRUE]
  /\ UNCHANGED <<thread, owner, abort, signals>>

-------------------------------------------------------------------------------
(* The owner *)

Write(n) ==
  /\ owner.pc = "running" /\ ~w.pair.up_shut
  /\ w.pair.up + n <= PipeCapacity /\ owner.wrote + n <= MaxOut
  /\ w' = [w EXCEPT !.pair.up = @ + n]
  /\ owner' = [owner EXCEPT !.wrote = @ + n]
  /\ UNCHANGED <<thread, abort, signals>>

\* What was queued before a shutdown can still be read.
Read ==
  /\ owner.pc = "running" /\ ~owner.eof
  /\ w.pair.down > 0 \/ w.pair.down_shut
  /\ owner' = [owner EXCEPT !.got = @ + w.pair.down, !.eof = w.pair.down = 0]
  /\ w' = [w EXCEPT !.pair.down = 0]
  /\ UNCHANGED <<thread, abort, signals>>

ShutdownWrite ==
  /\ owner.pc = "running" /\ ~w.pair.up_shut
  /\ w' = [w EXCEPT !.pair.up_shut = TRUE]
  /\ UNCHANGED <<thread, owner, abort, signals>>

\* Called, as its comment advises, when the socket has reached EOF.
wait_until_closed ==
  /\ owner.pc = "running" /\ owner.eof
  /\ w' = [w EXCEPT !.pair = shutdown_both(@)]
  /\ owner' = [owner EXCEPT !.pc = "joining"]
  /\ UNCHANGED <<thread, abort, signals>>

Destroy ==
  /\ owner.pc = "running"
  /\ abort' = TRUE
  /\ owner' = [owner EXCEPT !.pc = "joining"]
  /\ UNCHANGED <<w, thread, signals>>

Join ==
  /\ owner.pc = "joining" /\ thread = "done"
  /\ owner' = [owner EXCEPT !.pc = "joined"]
  /\ UNCHANGED <<w, thread, abort, signals>>

ThreadStep == Wait \/ Serve \/ Tick \/ Leave \/ Open

Next ==
  \/ ThreadStep \/ Signal \/ Arrive
  \/ Read \/ ShutdownWrite \/ wait_until_closed \/ Destroy \/ Join
  \/ \E n \in 1..MaxOut : Write(n)

Spec == Init /\ [][Next]_vars

\* Fairness, with ENABLED written out.  Both threads are scheduled: the TCP
\* thread goes on (at most four rules are served before it changes its place),
\* and a join of a thread that is done returns.
Scheduled ==
  /\ []<>(thread \in {"done", "dead"}) \/ []<><<thread' # thread>>_vars
  /\ []<>~(owner.pc = "joining" /\ thread = "done")

\* What TCPPairSpec shows of the connection: what is unacknowledged is
\* acknowledged in the end or given up, and a finished connection closes.
HasToMove(t) == t.active /\ (tcp_finished(t) \/ t.room < Capacity)

Moves ==
  HasToMove(w.tcp) /\ (w'.tcp.room > w.tcp.room \/ ~w'.tcp.active)

TcpMovesOn ==
  <>[]~(thread = "tick" /\ ~abort /\ HasToMove(w.tcp)) \/ []<><<Moves>>_vars

Fairness == Scheduled /\ TcpMovesOn

LiveSpec == Spec /\ Fairness

-------------------------------------------------------------------------------
(* Properties *)

\* The thread that was neither aborted nor interrupted ends only with the
\* connection, when all that arrived was handed to the owner, with the end, and
\* all segments were sent: the interests of the rules leave nothing behind
\* (tcp_sponge_socket.cc:53-162, eventloop.cc:66-92), unless bytes came after
\* the end of their stream.
HandedOver ==
  thread = "done" /\ ~abort /\ signals = 0 /\ ~w.tcp.past_end =>
    /\ ~w.tcp.active /\ w.tcp.inbuf = 0 /\ w.tcp.queue = 0 /\ w.inbound_shutdown

\* An owner that reads the end of a stream that ended without an error, and
\* behind its last byte, has read every byte of it, in whatever order the
\* shutdowns of the two threads came (tcp_sponge_socket.cc:118-147, 254-262).
OwnerSeesAll ==
  owner.eof /\ ~abort /\ signals = 0 /\ ~w.tcp.in_error /\ ~w.tcp.past_end =>
    w.tcp.in_ended /\ owner.got = w.tcp.received

\* wait_next_event throws, and the program dies of it, only when bytes came
\* after the end of their stream: no busy wait, no poll error, no write to a
\* direction that is shut (eventloop.cc:109-139, tcp_sponge_socket.cc:132).
NeverThrows == thread = "dead" => w.tcp.past_end

\* No write meets a pipe that is shut.  Bytes after the end do: rule 3 has shut
\* it down, and is interested again (tcp_sponge_socket.cc:132-137, 148).
NoBrokenPipe == w.loop.thrown # "broken pipe"

\* wait_until_closed and the destructor return, if the program lives
\* (tcp_sponge_socket.cc:179-200).
JoinReturns == owner.pc = "joining" ~> owner.pc = "joined" \/ thread = "dead"

\* The end of what the owner writes reaches the connection, unless that or the
\* thread is over first (tcp_sponge_socket.cc:94-117).
OutboundEnds ==
  w.pair.up_shut ~> w.tcp.out_ended \/ ~w.tcp.active \/ thread \in {"done", "dead"}

================================================================================
