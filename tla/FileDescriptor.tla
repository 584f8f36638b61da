---------------------------- MODULE FileDescriptor ----------------------------
(***************************************************************************)
(* Class FileDescriptor (libsponge/util/file_descriptor.hh, .cc) as the    *)
(* event loop sees it: the flags of the wrapper that all duplicates share. *)
(* The read and write counts only ever serve to tell whether a callback    *)
(* has read or written, so they are the set of what it has done.           *)
(***************************************************************************)
EXTENDS Integers

FDNew == [eof |-> FALSE, closed |-> FALSE, serviced |-> {}]

register_read(fd)  == [fd EXCEPT !.serviced = @ \cup {"In"}]
register_write(fd) == [fd EXCEPT !.serviced = @ \cup {"Out"}]

\* A read of at most limit bytes that got some: none although it asked for
\* some is the end.
fd_read(fd, limit, got) ==
  register_read([fd EXCEPT !.eof = @ \/ (limit > 0 /\ got = 0)])

\* One write, not write_all: the caller looks at how much was taken.
fd_write(fd) == register_write(fd)

fd_close(fd) == [fd EXCEPT !.eof = TRUE, !.closed = TRUE]

===============================================================================
