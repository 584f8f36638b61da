----------------------------- MODULE TCPSenderSpec -----------------------------
(***************************************************************************)
(* A TCPSender between an application that writes Stream and ends it, an   *)
(* owner that collects the queued segments and reports the passing of      *)
(* time, and a receiver of which only the acknowledgments are seen.  Those *)
(* never shrink the window (TCPReceiverSpec!WindowNeverShrinks) and arrive *)
(* in order, except that some old ones may arrive again or late.           *)
(***************************************************************************)
EXTENDS TCPSender, CarriedStream, FiniteSets

CONSTANTS
  RetxTimeout, \* constructor arguments
  Isn,
  MaxWindow,   \* bound: the largest window the peer offers
  MaxRetx,     \* bound: the owner gives up above it (MAX_RETX_ATTEMPTS)
  MaxQueue,    \* bound: segments queued when time is reported
  MaxOld,      \* bound: old acknowledgments still in the network
  MaxEmpty     \* bound: calls of send_empty_segment

ASSUME SenderAssumption ==
  /\ RetxTimeout \in Nat \ {0}
  /\ Isn \in Word
  /\ {MaxWindow, MaxRetx, MaxQueue, MaxOld, MaxEmpty} \subseteq Nat

VARIABLES
  snd,     \* the TCPSender
  peer,    \* what the peer last said: ack, edge (absolute), win
  old,     \* earlier acknowledgments that may still arrive
  late,    \* ghost: one has arrived after a newer one
  empties  \* calls of send_empty_segment so far

vars == <<snd, peer, old, late, empties>>

Init ==
  /\ snd = SenderNew(Capacity, RetxTimeout, Isn)
  /\ peer = [ack |-> 0, edge |-> 0, win |-> 0]
  /\ old = {} /\ late = FALSE /\ empties = 0

-------------------------------------------------------------------------------
(* The application *)

AppWrite(len) ==
  /\ ~snd.stream.is_eof
  /\ LET done == snd.stream.write_count
     IN  /\ done + len <= Len(Stream)
         /\ snd' = [snd EXCEPT !.stream = write(@, SubSeq(Stream, done + 1, done + len))]
  /\ UNCHANGED <<peer, old, late, empties>>

AppEnd ==
  /\ snd.stream.write_count = Len(Stream) /\ ~snd.stream.is_eof
  /\ snd' = [snd EXCEPT !.stream = end_input(@)]
  /\ UNCHANGED <<peer, old, late, empties>>

(* The owner, TCPConnection *)

FillWindow == snd' = fill_window(snd) /\ UNCHANGED <<peer, old, late, empties>>

Collect ==
  /\ snd.segments_out # <<>>
  /\ snd' = [snd EXCEPT !.segments_out = <<>>]
  /\ UNCHANGED <<peer, old, late, empties>>

Tick(ms) ==
  /\ snd.consecutive_retransmission <= MaxRetx
  /\ Len(snd.segments_out) < MaxQueue
  /\ snd' = tick(snd, ms)
  /\ UNCHANGED <<peer, old, late, empties>>

SendEmpty ==
  /\ empties < MaxEmpty /\ snd.syn_flag
  /\ snd' = send_empty_segment(snd)
  /\ empties' = empties + 1
  /\ UNCHANGED <<peer, old, late>>

(* The network *)

\* The peer acknowledges anything that was sent, the middle of a segment
\* included, and offers a window whose right edge is no smaller than before.
NewAck(ack, win) ==
  /\ ack >= peer.ack /\ ack + win >= peer.edge
  /\ peer' = [ack |-> ack, edge |-> ack + win, win |-> win]
  /\ old' = IF Cardinality(old) < MaxOld THEN old \cup {peer'} ELSE old
  /\ snd' = ack_received(snd, wrap(ack, Isn), win)
  /\ UNCHANGED <<late, empties>>

\* One that was sent earlier arrives late, or a second time.
OldAck(msg) ==
  /\ snd' = ack_received(snd, wrap(msg.ack, Isn), msg.win)
  /\ late' = (late \/ msg # peer)
  /\ UNCHANGED <<peer, old, empties>>

\* One for a number that was never sent.
ImpossibleAck(win) ==
  /\ snd' = ack_received(snd, wrap(snd.next_seqno + 1, Isn), win)
  /\ UNCHANGED <<peer, old, late, empties>>

SomeWrite == \E len \in 1..Len(Stream) : AppWrite(len)
SomeTick  == \E ms \in 1..RetxTimeout : Tick(ms)
Progress  ==
  \E ack \in (peer.ack + 1)..snd.next_seqno, win \in 1..MaxWindow : NewAck(ack, win)

Next ==
  \/ SomeWrite
  \/ AppEnd
  \/ FillWindow
  \/ Collect
  \/ SomeTick
  \/ SendEmpty
  \/ \E ack \in 1..snd.next_seqno, win \in 0..MaxWindow : NewAck(ack, win)
  \/ \E msg \in old : OldAck(msg)
  \/ \E win \in 0..MaxWindow : ImpossibleAck(win)

Spec == Init /\ [][Next]_vars

\* Weak fairness, its ENABLED written out: where a step of the kind would change
\* something, one is taken or the chance passes.  The owner reports time and
\* collects what is queued, the application goes on until it ends the stream
\* and the owner fills the window.  AckFair is about the peer: it goes on
\* acknowledging, with an open window.
WriteFair == []<>(snd.stream.is_eof \/ snd.stream.write_count = Len(Stream)
                    \/ remaining_capacity(snd.stream) = 0)
               \/ []<><<SomeWrite>>_vars
EndFair   == []<>(snd.stream.is_eof \/ snd.stream.write_count < Len(Stream))
               \/ []<><<AppEnd>>_vars
FillFair  == []<>(fill_window(snd) = snd) \/ []<><<FillWindow>>_vars
TakeFair  == []<>(snd.segments_out = <<>>) \/ []<><<Collect>>_vars
TickFair  == []<>(\/ snd.consecutive_retransmission > MaxRetx
                  \/ Len(snd.segments_out) >= MaxQueue
                  \/ \A ms \in 1..RetxTimeout : tick(snd, ms) = snd)
               \/ []<><<SomeTick>>_vars
AckFair   == []<>(snd.next_seqno = peer.ack \/ snd.next_seqno + MaxWindow < peer.edge)
               \/ []<><<Progress>>_vars

LiveSpec == Spec /\ WriteFair /\ EndFair /\ FillFair /\ TakeFair /\ TickFair

-------------------------------------------------------------------------------
(* Properties *)

\* Absolute number of the first byte of outstanding segment i: what is before
\* next_seqno by the length of the segments from i on.
StartOf(i) == snd.next_seqno - SpaceOf(SubSeq(snd.outSegments, i, Len(snd.outSegments)))

Outstanding == {i \in DOMAIN snd.outSegments : length_in_sequence_space(snd.outSegments[i]) > 0}

\* bytes_in_flight (tcp_sender.hh:96) is what the outstanding segments occupy,
\* they follow each other up to next_seqno, and none of them is fully
\* acknowledged: no acknowledgment, late, partial or repeated, drops a segment
\* too early, too late or out of the middle.
InFlightExact ==
  /\ snd.bytes_in_flight = SpaceOf(snd.outSegments)
  /\ \A i \in Outstanding :
       /\ snd.outSegments[i].seqno = wrap(StartOf(i), Isn)
       /\ StartOf(i) + length_in_sequence_space(snd.outSegments[i]) > peer.ack
  /\ snd.next_seqno - snd.bytes_in_flight <= peer.ack

\* What an outstanding segment would carry if it were sent again: the SYN at
\* number 0, byte k of the application's stream at number k, the FIN right
\* after the last byte.
SegmentsRight ==
  \A i \in Outstanding :
    LET seg == snd.outSegments[i]
        p   == StartOf(i)
        len == Len(seg.payload)
    IN  /\ seg.syn <=> p = 0
        /\ ~seg.syn => p + len - 1 <= Len(Stream) /\ seg.payload = SubSeq(Stream, p, p + len - 1)
        /\ seg.fin => p + len = Len(Stream) + 1 /\ snd.stream.is_eof
        /\ len <= MAX_PAYLOAD_SIZE

\* While something is outstanding the timer runs and has not passed its
\* timeout, which has been doubled once for every retransmission counted.
TimerArmed ==
  /\ snd.outSegments # <<>> => snd.timer.isrunning
  /\ snd.timer.time < snd.timer.rto
  /\ snd.timer.rto = RetxTimeout * 2^snd.consecutive_retransmission

\* Nothing is sent twice by fill_window and nothing after the FIN: what was
\* taken from the stream, with SYN and FIN, is what next_seqno counts.
NumbersUsedOnce ==
  snd.next_seqno = flag(snd.syn_flag) + snd.stream.read_count + flag(snd.fin_flag)

\* What is sent lies within the window the peer has offered, or is the one
\* sequence number that probes a closed window.
WithinWindow ==
  snd.next_seqno <= IF peer.edge > peer.ack THEN peer.edge ELSE peer.ack + 1

\* That holds until an acknowledgment arrives after a newer one
\* (tcp_sender.cc:106 takes the window of both).
WindowRespected == ~late => WithinWindow

\* Whether the peer answers or not, and however small its window is, what is
\* outstanding is sent again until it is acknowledged or the owner gives up
\* (tcp_sender.cc:111-123).
Retransmits ==
  (snd.outSegments # <<>> /\ snd.segments_out = <<>>)
    ~> \/ snd.segments_out # <<>>
       \/ snd.outSegments = <<>>
       \/ snd.consecutive_retransmission > MaxRetx

\* With a peer that goes on acknowledging, the whole stream and the FIN are
\* sent and acknowledged.
AllAcknowledged == AckFair => <>(snd.fin_flag /\ snd.bytes_in_flight = 0)

-------------------------------------------------------------------------------
(* What the documentation says and the code does not do.  So are WithinWindow
   when old acknowledgments arrive, and InFlightExact when the numbers wrap. *)

\* tests/send_extra.cc:309: "treat a '0' window size as equal to '1' but don't
\* back off RTO": no retransmission counts while the peer's window is closed.
NoBackoffOnZero ==
  [][(peer.ack > 0 /\ peer.win = 0) =>
       snd'.consecutive_retransmission <= snd.consecutive_retransmission]_vars

\* reports/Lab3.md:22: when all outstanding data is acknowledged the timer is
\* stopped.
TimerStops ==
  [][(snd.outSegments # <<>> /\ snd'.outSegments = <<>>) => ~snd'.timer.isrunning]_vars

================================================================================
