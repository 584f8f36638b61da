---------------------------- MODULE ReliableStream ----------------------------
(***************************************************************************)
(* What TCP promises to two applications, without segments, numbers or     *)
(* time: in each direction the bytes written at one end come out at the    *)
(* other, in order, and the end is announced after the last of them.       *)
(* Instead of the end there may be an error.  An end that is closed was    *)
(* closed by agreement: nothing is missing in either direction.            *)
(***************************************************************************)
EXTENDS Integers, Sequences

CONSTANTS
  End,       \* the two ends
  Peer(_),   \* the other end
  Byte       \* byte values

VARIABLES
  written,   \* written[e]: the bytes e's application has written
  ended,     \* ended[e]: it has ended its stream
  got,       \* got[e]: the bytes e's application has read
  eof,       \* eof[e]: it was told that there are no more
  status     \* "open", "closed" or "reset"

vars == <<written, ended, got, eof, status>>

Init ==
  /\ written = [e \in End |-> <<>>] /\ ended = [e \in End |-> FALSE]
  /\ got = [e \in End |-> <<>>] /\ eof = [e \in End |-> FALSE]
  /\ status = [e \in End |-> "open"]

Extends(t, s) == Len(s) <= Len(t) /\ s = SubSeq(t, 1, Len(s))

Write(e) ==
  /\ ~ended[e] /\ status[e] = "open"
  /\ written'[e] \in Seq(Byte) /\ Extends(written'[e], written[e])
  /\ written' = [written EXCEPT ![e] = written'[e]]
  /\ UNCHANGED <<ended, got, eof, status>>

Finish(e) ==
  /\ status[e] = "open"
  /\ ended' = [ended EXCEPT ![e] = TRUE]
  /\ UNCHANGED <<written, got, eof, status>>

\* Bytes may still be read, and the end seen, after the connection closed.
Read(e) ==
  /\ ~eof[e]
  /\ \E n \in (Len(got[e]) + 1)..Len(written[Peer(e)]) :
       got' = [got EXCEPT ![e] = SubSeq(written[Peer(e)], 1, n)]
  /\ eof' \in {eof, [eof EXCEPT ![e] = ended[Peer(e)] /\ got'[e] = written[Peer(e)]]}
  /\ UNCHANGED <<written, ended, status>>

SeeEnd(e) ==
  /\ ended[Peer(e)] /\ got[e] = written[Peer(e)]
  /\ eof' = [eof EXCEPT ![e] = TRUE]
  /\ UNCHANGED <<written, ended, got, status>>

\* The connection is over for some ends: by agreement, which takes the end of
\* both streams, or with an error.
Over ==
  /\ status' \in [End -> {"open", "closed", "reset"}]
  /\ \A e \in End : status'[e] # status[e] =>
       status[e] = "open" /\ (status'[e] = "closed" => \A d \in End : ended[d])
  /\ UNCHANGED <<written, ended, got, eof>>

Next == Over \/ \E e \in End : Write(e) \/ Finish(e) \/ Read(e) \/ SeeEnd(e)

Spec == Init /\ [][Next]_vars

===============================================================================
