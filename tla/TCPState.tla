------------------------------- MODULE TCPState -------------------------------
(***************************************************************************)
(* Class TCPState (tcp_helpers/tcp_state.hh, .cc): a connection summed up  *)
(* by its sender, its receiver and two flags, and the official states of   *)
(* TCP as such summaries.                                                  *)
(***************************************************************************)
EXTENDS TCPConnection

\* state_summary of a receiver and of a sender.
receiver_summary(rcv) ==
  CASE R!stream_out(rcv).error -> "ERROR"
    [] ~R!stream_out(rcv).error /\ ~rcv.isn_set -> "LISTEN"
    [] OTHER -> IF R!stream_out(rcv).is_eof THEN "FIN_RECV" ELSE "SYN_RECV"

sender_summary(snd) ==
  IF snd.stream.error THEN "ERROR"
  ELSE IF snd.next_seqno = 0 THEN "CLOSED"
  ELSE IF snd.next_seqno = snd.bytes_in_flight THEN "SYN_SENT"
  ELSE IF ~stream_eof(snd.stream) \/ snd.next_seqno < snd.stream.write_count + 2
  THEN "SYN_ACKED"
  ELSE IF snd.bytes_in_flight > 0 THEN "FIN_SENT" ELSE "FIN_ACKED"

Summary(receiver, sender, linger, active) ==
  [receiver |-> receiver, sender |-> sender, linger |-> linger, active |-> active]

\* Linger is not told apart once the connection is inactive.
state(c) ==
  Summary(receiver_summary(c.receiver), sender_summary(c.sender),
          c.active /\ c.linger_after_streams_finish, c.active)

\* The official states.
State ==
  [LISTEN      |-> Summary("LISTEN",   "CLOSED",    TRUE,  TRUE),
   SYN_RCVD    |-> Summary("SYN_RECV", "SYN_SENT",  TRUE,  TRUE),
   SYN_SENT    |-> Summary("LISTEN",   "SYN_SENT",  TRUE,  TRUE),
   ESTABLISHED |-> Summary("SYN_RECV", "SYN_ACKED", TRUE,  TRUE),
   CLOSE_WAIT  |-> Summary("FIN_RECV", "SYN_ACKED", FALSE, TRUE),
   LAST_ACK    |-> Summary("FIN_RECV", "FIN_SENT",  FALSE, TRUE),
   CLOSING     |-> Summary("FIN_RECV", "FIN_SENT",  TRUE,  TRUE),
   FIN_WAIT_1  |-> Summary("SYN_RECV", "FIN_SENT",  TRUE,  TRUE),
   FIN_WAIT_2  |-> Summary("SYN_RECV", "FIN_ACKED", TRUE,  TRUE),
   TIME_WAIT   |-> Summary("FIN_RECV", "FIN_ACKED", TRUE,  TRUE),
   RESET       |-> Summary("ERROR",    "ERROR",     FALSE, FALSE),
   CLOSED      |-> Summary("FIN_RECV", "FIN_ACKED", FALSE, FALSE)]

\* Whether c is in the official state of that name (operator==).
In(c, name) == state(c) = State[name]

\* The official names for the state of c: one, or none.
NamesOf(c) == LET s == state(c) IN {name \in DOMAIN State : State[name] = s}

================================================================================
