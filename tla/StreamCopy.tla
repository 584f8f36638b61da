------------------------------ MODULE StreamCopy ------------------------------
(***************************************************************************)
(* bidirectional_stream_copy (apps/bidirectional_stream_copy.cc), the body *)
(* of tcp_native, tcp_udp and tcp_ipv4: four rules of an EventLoop copy    *)
(* stdin to a socket and the socket to stdout through two ByteStreams.     *)
(***************************************************************************)
EXTENDS ByteStream, FileDescriptor

CONSTANTS
  BufferSize,      \* buffer_size
  MaxCopyLength,   \* max_copy_length
  KernelRoom,      \* what the socket and the pipe at stdout hold (external)
  Input,           \* what comes at stdin
  Remote,          \* what the other end of the socket sends
  Faults           \* which may happen: "no reader", "no remote"

ASSUME CopyAssumption ==
  /\ {BufferSize, MaxCopyLength, KernelRoom} \subseteq Nat \ {0}
  /\ Input \in Seq(0..255) /\ Remote \in Seq(0..255)
  /\ Faults \subseteq {"no reader", "no remote"}

VARIABLES
  w,      \* what bidirectional_stream_copy works on
  pc      \* "loop", "poll", "serve", "returned" or "thrown"

vars == <<w, pc>>

-------------------------------------------------------------------------------
(* The other side of the descriptors (external): how much of Input and       *)
(* Remote has come, and what was written and is not taken, or is taken.      *)

KernelNew(tty) ==
  [tty |-> tty, typed |-> 0, typed_end |-> FALSE, sent |-> 0, sent_end |-> FALSE,
   to_remote |-> <<>>, at_remote |-> <<>>, shut |-> FALSE,
   to_reader |-> <<>>, at_reader |-> <<>>, failed |-> {}]

gone(v, fault) == fault \in v.kernel.failed

Readable(fd, v) ==
  IF fd = "input" THEN SubSeq(Input, v.outbound.write_count + 1, v.kernel.typed)
                  ELSE SubSeq(Remote, v.inbound.write_count + 1, v.kernel.sent)

\* A terminal or a file is readable at its end, a pipe hangs up.  A socket is
\* readable at its end and hangs up when both directions have ended.  A pipe
\* without a reader is an error.
When(cond, event) == IF cond THEN {event} ELSE {}

Revents(fd, v) ==
  LET k == v.kernel
  IN  CASE fd = "input" ->
             When(Readable(fd, v) # <<>> \/ (k.typed_end /\ k.tty), "In")
               \cup When(k.typed_end /\ ~k.tty, "HUP")
        [] fd = "socket" ->
             When(Readable(fd, v) # <<>> \/ k.sent_end \/ gone(v, "no remote"), "In")
               \cup When(Len(k.to_remote) < KernelRoom, "Out")
               \cup When(gone(v, "no remote") \/ (k.sent_end /\ k.shut), "HUP")
        [] fd = "output" ->
             When(Len(k.to_reader) < KernelRoom, "Out") \cup When(gone(v, "no reader"), "ERR")

-------------------------------------------------------------------------------
(* The rules *)

\* What a read for stream bs gets, and the descriptor after it.
got(fd, v, bs) ==
  SubSeq(Readable(fd, v), 1, Least(remaining_capacity(bs), Len(Readable(fd, v))))

filled(bs, data, eof) == IF eof THEN end_input(write(bs, data)) ELSE write(bs, data)

\* Rule 1: from stdin.
from_input(v) ==
  LET data == got("input", v, v.outbound)
      fd   == fd_read(v.fd.input, remaining_capacity(v.outbound), Len(data))
  IN  {[v EXCEPT !.fd.input = fd, !.outbound = filled(@, data, fd.eof)]}

\* How much a write of what bs holds may take.
Taken(bs, queue) ==
  LET n == Least(Least(MaxCopyLength, buffer_size(bs)), KernelRoom - Len(queue))
  IN  Least(n, 1)..n

\* Mutant: pops what it wanted to write, not what was taken.
to_socket_all(v) ==
  IF gone(v, "no remote") /\ ~buffer_empty(v.outbound)
  THEN {[v EXCEPT !.loop.thrown = "broken pipe", !.loop.todo = {}]}
  ELSE {LET out == pop_output(v.outbound, Least(MaxCopyLength, buffer_size(v.outbound)))
        IN  [v EXCEPT !.fd.socket = fd_write(@), !.outbound = out,
                      !.kernel.to_remote = @ \o peek_output(v.outbound, n),
                      !.kernel.shut = @ \/ stream_eof(out),
                      !.outbound_shutdown = @ \/ stream_eof(out)] :
          n \in Taken(v.outbound, v.kernel.to_remote)}

\* Rule 2: to the socket, and its end.
to_socket(v) ==
  IF gone(v, "no remote") /\ ~buffer_empty(v.outbound)
  THEN {[v EXCEPT !.loop.thrown = "broken pipe", !.loop.todo = {}]}
  ELSE {LET out == pop_output(v.outbound, n)
        IN  [v EXCEPT !.fd.socket = fd_write(@), !.outbound = out,
                      !.kernel.to_remote = @ \o peek_output(v.outbound, n),
                      !.kernel.shut = @ \/ stream_eof(out),
                      !.outbound_shutdown = @ \/ stream_eof(out)] :
          n \in Taken(v.outbound, v.kernel.to_remote)}

\* Rule 3: from the socket.
from_socket(v) ==
  LET data == got("socket", v, v.inbound)
      fd   == fd_read(v.fd.socket, remaining_capacity(v.inbound), Len(data))
  IN  {[v EXCEPT !.fd.socket = fd, !.inbound = filled(@, data, fd.eof)]}

\* Mutant: closes stdout when the input has ended, whatever is left of it.
to_output_early(v) ==
  {LET in == pop_output(v.inbound, n)
   IN  [v EXCEPT !.fd.output = IF in.is_eof THEN fd_close(fd_write(@)) ELSE fd_write(@),
                 !.inbound = in,
                 !.kernel.to_reader = @ \o peek_output(v.inbound, n),
                 !.inbound_shutdown = @ \/ in.is_eof] :
     n \in Taken(v.inbound, v.kernel.to_reader)}

\* Mutant: does not note the end.
to_output_endless(v) ==
  {[v EXCEPT !.fd.output = fd_write(@), !.inbound = pop_output(@, n),
             !.kernel.to_reader = @ \o peek_output(v.inbound, n)] :
     n \in Taken(v.inbound, v.kernel.to_reader)}

\* Rule 4: to stdout, which is closed at the end.
to_output(v) ==
  {LET in == pop_output(v.inbound, n)
   IN  [v EXCEPT !.fd.output = IF stream_eof(in) THEN fd_close(fd_write(@)) ELSE fd_write(@),
                 !.inbound = in,
                 !.kernel.to_reader = @ \o peek_output(v.inbound, n),
                 !.inbound_shutdown = @ \/ stream_eof(in)] :
     n \in Taken(v.inbound, v.kernel.to_reader)}

Interest(r, v) ==
  CASE r = <<"input", "In">>   -> ~v.outbound.error /\ remaining_capacity(v.outbound) > 0 /\ ~v.inbound.error
    [] r = <<"socket", "Out">> -> ~buffer_empty(v.outbound) \/ (stream_eof(v.outbound) /\ ~v.outbound_shutdown)
    [] r = <<"socket", "In">>  -> ~v.inbound.error /\ remaining_capacity(v.inbound) > 0 /\ ~v.outbound.error
    [] r = <<"output", "Out">> -> ~buffer_empty(v.inbound) \/ (stream_eof(v.inbound) /\ ~v.inbound_shutdown)

Callback(r, v) ==
  CASE r = <<"input", "In">>   -> from_input(v)
    [] r = <<"socket", "Out">> -> to_socket(v)
    [] r = <<"socket", "In">>  -> from_socket(v)
    [] r = <<"output", "Out">> -> to_output(v)

Cancel(r, v) ==
  CASE r = <<"input", "In">>   -> [v EXCEPT !.outbound = end_input(@)]
    [] r = <<"socket", "Out">> -> [v EXCEPT !.outbound = set_error(@)]
    [] r = <<"socket", "In">>  -> [v EXCEPT !.inbound = end_input(@)]
    [] r = <<"output", "Out">> -> [v EXCEPT !.inbound = set_error(@)]

Rules == <<<<"input", "In">>, <<"socket", "Out">>, <<"socket", "In">>, <<"output", "Out">>>>

L == INSTANCE EventLoop

CopyNew(tty) ==
  [loop |-> L!LoopNew,
   fd |-> [input |-> FDNew, socket |-> FDNew, output |-> FDNew],
   outbound |-> ByteStreamNew(BufferSize), inbound |-> ByteStreamNew(BufferSize),
   outbound_shutdown |-> FALSE, inbound_shutdown |-> FALSE, kernel |-> KernelNew(tty)]

-------------------------------------------------------------------------------
(* The loop *)

Init == pc = "loop" /\ \E tty \in BOOLEAN : w = CopyNew(tty)

\* wait_next_event(-1): its poll waits until something is reported.
Prepare ==
  /\ pc = "loop"
  /\ w' = L!prepared(w)
  /\ pc' = IF L!exits(w') THEN "returned" ELSE "poll"

\* A signal would make poll return early and the loop exit (eventloop.cc:101-104).
\* Left out: no program in the repository installs a handler.
Poll ==
  /\ pc = "poll" /\ ~L!silent(w)
  /\ LET v == L!polled(w)
     IN  IF v.loop.todo = {} THEN pc' = "loop" /\ w' = L!returned(v)
                               ELSE pc' = "serve" /\ w' = v

Serve ==
  /\ pc = "serve"
  /\ \E v \in L!serve(w) :
       /\ pc' = IF v.loop.thrown # "no" THEN "thrown" ELSE IF v.loop.todo = {} THEN "loop" ELSE "serve"
       /\ w' = IF v.loop.todo = {} THEN L!returned(v) ELSE v

-------------------------------------------------------------------------------
(* The other sides *)

Other(kernel) ==
  /\ pc \notin {"returned", "thrown"}
  /\ w' = [w EXCEPT !.kernel = kernel] /\ UNCHANGED pc

Type ==
  LET k == w.kernel
  IN  /\ ~k.typed_end
      /\ \/ \E n \in (k.typed + 1)..Len(Input) : Other([k EXCEPT !.typed = n])
         \/ Other([k EXCEPT !.typed_end = TRUE])

Send ==
  LET k == w.kernel
  IN  /\ ~k.sent_end /\ ~gone(w, "no remote")
      /\ \/ \E n \in (k.sent + 1)..Len(Remote) : Other([k EXCEPT !.sent = n])
         \/ Other([k EXCEPT !.sent_end = TRUE])

RemoteReads ==
  /\ w.kernel.to_remote # <<>> /\ ~gone(w, "no remote")
  /\ Other([w.kernel EXCEPT !.to_remote = <<>>, !.at_remote = @ \o w.kernel.to_remote])

ReaderReads ==
  /\ w.kernel.to_reader # <<>> /\ ~gone(w, "no reader")
  /\ Other([w.kernel EXCEPT !.to_reader = <<>>, !.at_reader = @ \o w.kernel.to_reader])

Fail == \E f \in Faults \ w.kernel.failed : Other([w.kernel EXCEPT !.failed = @ \cup {f}])

Next == Prepare \/ Poll \/ Serve \/ Type \/ Send \/ RemoteReads \/ ReaderReads \/ Fail

Spec == Init /\ [][Next]_vars

\* The process is scheduled (its place changes after at most four callbacks),
\* what it writes is read, and stdin comes to an end.
Fairness ==
  /\ []<>(pc \in {"returned", "thrown"} \/ (pc = "poll" /\ L!silent(w))) \/ []<><<pc' # pc>>_vars
  /\ []<>(w.kernel.to_remote = <<>> \/ gone(w, "no remote"))
  /\ []<>(w.kernel.to_reader = <<>> \/ gone(w, "no reader"))
  /\ <>w.kernel.typed_end

LiveSpec == Spec /\ Fairness

-------------------------------------------------------------------------------
(* Properties *)

\* Every byte that was read is still in the buffer or was written, once and in
\* order, however the reads and writes are cut
\* (bidirectional_stream_copy.cc:33, 45-47, 61, 73-75).
NothingLost ==
  /\ w.kernel.at_remote \o w.kernel.to_remote \o w.outbound.buf
       = SubSeq(Input, 1, w.outbound.write_count)
  /\ w.kernel.at_reader \o w.kernel.to_reader \o w.inbound.buf
       = SubSeq(Remote, 1, w.inbound.write_count)

\* When it returns, and the remote has not just vanished, all that the remote
\* sent is at stdout, stdout is closed, and what was read from stdin is in the
\* socket, with the end if it was seen (the interests and cancels of all rules).
NothingLeft ==
  pc = "returned" /\ ~gone(w, "no remote") =>
    /\ w.kernel.sent_end /\ w.fd.output.closed
    /\ w.kernel.at_reader \o w.kernel.to_reader = SubSeq(Remote, 1, w.kernel.sent)
    /\ buffer_empty(w.outbound) /\ (w.outbound.is_eof => w.kernel.shut)

\* apps/bidirectional_stream_copy.hh:6, "Copy socket input/output to
\* stdin/stdout until finished": when it returns, what has come at stdin is in
\* the socket.
UntilFinished ==
  pc = "returned" => w.kernel.at_remote \o w.kernel.to_remote = SubSeq(Input, 1, w.kernel.typed)

\* It comes to an end once both sides have (bidirectional_stream_copy.cc:86-90):
\* no interest stays behind that poll would wait for.
Returns == (w.kernel.sent_end \/ gone(w, "no remote")) ~> pc \in {"returned", "thrown"}

===============================================================================
