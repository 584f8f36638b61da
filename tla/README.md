# Verification of sponge, a user-space TCP

`libsponge` is a TCP implementation in user space: a byte stream, a stream
reassembler, 32-bit wrapping sequence numbers, a receiver, a sender, a
connection made of the two, and the machinery that runs connections over UDP or
IP datagrams. This directory holds TLA+ modules translated from the source,
TLC configurations that check them on small instances, and TLAPS proofs.

Paths below are relative to the repository (`libsponge/...` is
`src/libsponge/...` in `PROJECT.json`).

## 1. Inventory

### The protocol

| Component | State | Operations | What makes it correct |
|---|---|---|---|
| `ByteStream` (`byte_stream.cc`) | buffer, capacity, two totals, eof and error flags | `write`, `peek_output`, `pop_output`, `read`, `end_input`, `set_error` | first in first out, within capacity, totals exact (the window is computed from them) |
| `StreamReassembler` (`stream_reassembler.cc`) | output stream, next index, map of held bytes and their count, eof flag | `push_substring` (seven ways out), accessors | a prefix of the stream comes out whatever order, overlap and repetition goes in; held bytes right and counted once; ends exactly at the end; memory bounded |
| `WrappingInt32` (`wrapping_integers.cc`) | none | `wrap`, `unwrap`, `+` | `unwrap` returns the closest absolute number, at every edge of the turn |
| `TCPReceiver` (`tcp_receiver.cc`) | reassembler, initial number | `segment_received`, `ackno`, `window_size` | every payload byte at its place although numbers wrap; what was offered is never taken back and is accepted |
| `TCPSender`, `RETimer` (`tcp_sender.cc`) | outgoing stream, next number, queue of segments to send, queue of outstanding segments, window, last acknowledgment, timer, counters | `fill_window`, `ack_received`, `tick`, `send_empty_segment` | every number sent once and carrying the right byte, nothing beyond the window, outstanding bytes exact, retransmission never forgotten |
| `TCPConnection` (`tcp_connection.cc`) | a sender, a receiver, outgoing queue, flags for SYN, RST, FIN seen, lingering, idle time | `connect`, `write`, `end_input_stream`, `segment_received`, `tick`, destructor | both streams delivered, clean shutdown on both sides or a reset, never stuck |
| `TCPState` (`tcp_state.cc`) | none (a summary of the above) | summaries of sender, receiver, connection | agrees with the TCP state diagram |

How they interact: a segment arrives at `TCPConnection::segment_received`,
which hands it to the receiver (sequence number, payload, SYN, FIN), and its
acknowledgment and window to the sender; the receiver unwraps the number and
pushes the payload into the reassembler, which writes the output `ByteStream`;
the application reads that stream, which opens the window. The application
writes the sender's `ByteStream`; `fill_window` cuts it into segments, keeps a
copy of each and queues it; the connection stamps the receiver's
acknowledgment and window on each and passes it on. Time comes in through
`tick`.

### Around it

| Component | State | Operations | What makes it correct |
|---|---|---|---|
| `TCPSpongeSocket` (`tcp_sponge_socket.cc`) | a connection, an event loop with four rules, a socket pair, an abort flag, two shutdown flags, a thread | `connect`, `listen_and_accept`, `wait_until_closed`, destructor, the rules | every byte and every end handed over in both directions; the owner never waits for good |
| `EventLoop` (`eventloop.cc`) | list of rules | `add_rule`, `wait_next_event` | rules are served, cancelled and asked in step with what callbacks change; no busy wait |
| `FileDescriptor` (`file_descriptor.cc`) | end, closed, counts of reads and writes | `read`, `write`, `close` | the flags the event loop decides by |
| adapters (`fd_adapter.cc`, `tcp_over_ip.cc`, `tuntap_adapter.hh`, `lossy_fd_adapter.hh`) | two addresses, listening flag | `read`, `write`, `set_listening` | hands up only what its peer wrote, and all of it |
| `TCPHeader`, `TCPSegment`, `IPv4Header`, `IPv4Datagram` | fields | `parse`, `serialize` | what is parsed is what was serialized, damage is refused |
| `NetParser`, `NetUnparser`, `Buffer`, `BufferList`, `InternetChecksum` | bytes, an error, a sum | numbers in and out, prefix, checksum | as used by the headers |
| `bidirectional_stream_copy` (`apps/`) | two streams, two shutdown flags, an event loop | four rules | copies all of both directions and returns |

`TCPSpongeSocket` runs a connection in a thread of its own, with the event loop
between a datagram adapter and a socket pair whose other end the application
holds. `Socket`, `Address` and `TunFD` wrap system calls. The other tools in
`apps/` parse arguments and call `bidirectional_stream_copy`, or print.

### What is hard here

- The network delivers segments and acknowledgments late, twice, out of order,
  and in any cut; every class is reached by sequences of calls no test writes.
- Several quantities are computed from counters that two parties move (window,
  room, acknowledgment), some in unsigned arithmetic that wraps.
- Early returns skip work that the last lines of a function do.
- Sequence numbers are compared by raw value in the sender and the connection.
- Progress depends on the timer, on retransmission, and on the reader.
- Shutdown depends on both ends and on which acknowledgment is lost.
- Two threads share a socket pair and a flag; each may shut down either
  direction, or stop, between any two steps of the other.
- Rules are asked, polled and served one after the other, and a callback may
  change what a later rule was asked for.

`PROJECT.json` lists these under `hazards`, each at its line, with the
properties that would catch it.

## 2. Modules

Class modules hold a class as operators on records and have no variables, so
that a class that owns another can call several of its methods inside one of
its own, as the code does. Specification modules put objects between their
users, with actions and properties.

| Module | Models |
|---|---|
| `ByteStream` | class `ByteStream` |
| `ByteStreamSpec` | one stream, a writer and a reader, with ghosts for what went in and out |
| `StreamReassembler` | class `StreamReassembler`; each of the byte loops is one step over a set of indices |
| `StreamReassemblerSpec`, `MCStreamReassembler` | one reassembler, a network that pushes any substring of a stream at any time, a reader |
| `WrappingIntegers` | `wrap`, `unwrap`, `operator+` with the widths as parameters (`Mod` for 2^32, `Wide` for 2^64) |
| `WrappingIntegersSpec` | every number, initial number and checkpoint |
| `TCPSegment` | the header fields that the protocol reads, and the length in sequence space |
| `TCPReceiver` | class `TCPReceiver`, on the modules above |
| `TCPReceiverSpec`, `MCTCPReceiver` | one receiver, a peer's segments in any order and repetition, a reader |
| `TCPSender` | classes `TCPSender` and `RETimer` |
| `TCPSenderSpec`, `MCTCPSender` | one sender, its application, its owner, a peer's acknowledgments |
| `TCPConnection` | class `TCPConnection`, on `TCPReceiver` and `TCPSender` |
| `TCPState` | class `TCPState`: the two summaries and the table of official states |
| `ReliableStream` | abstract specification: two applications and a pair of reliable streams |
| `TCPPairSpec`, `MCTCPPair` | two connections, their applications and owners, and a network; implements `ReliableStream` |
| `FileDescriptor` | the flags of a descriptor that the event loop looks at |
| `EventLoop` | class `EventLoop`, with what its user's rules do as parameters |
| `TCPSpongeSocket` | the owner's thread and the TCP thread, on `EventLoop` |
| `StreamCopy`, `MCStreamCopy` | `bidirectional_stream_copy`, on `EventLoop` and `ByteStream` |
| `Parser` | `Buffer`, `NetParser`, `NetUnparser`, `InternetChecksum` |
| `TCPHeader`, `IPv4Datagram` | headers and segments, datagrams, to bytes and back |
| `FdAdapter` | the adapters |
| `FdAdapterSpec`, `MCFdAdapter` | a listening server, two clients and a wire that damages |
| `Bytes` | the byte values and the capacity: constants that the specifications of the classes share |
| `CarriedStream` | the stream that the reassembler, the receiver and the sender carry |
| `ClassLemmas` | facts about numbers, sequences and remainders, and about the methods of `ByteStream`, `WrappingInt32` and `StreamReassembler` |
| `ByteStreamProofs`, `StreamReassemblerProofs`, `WrappingIntegersProofs`, `TCPReceiverProofs`, `TCPSenderProofs`, `TCPSpongeSocketProofs`, `StreamCopyProofs` | the proofs about the specification of the same name |

### Correspondence to the code

- Fields keep the source's names without the leading underscore. A `Buffer` or
  `std::string` is the sequence of its bytes; a `std::queue` a sequence;
  `myMap` a function with the held indices as its domain. Byte number `i` of a
  stream (0-indexed in the code) is element `i + 1`.
- `size_t` totals and indices are natural numbers: no stream gets to 2^64 bytes.
  The exceptions are where the code wraps in practice: `abs_seqno - 1` for the
  SYN's number 0 (`TCPReceiver!stream_index`), `unwrap`, the 32-bit difference
  in `fill_window` (`TCPSender!remain`), and the 16-bit window of a header
  (`WinMod` in `TCPConnection!stamped`).
- The byte loops of `push_substring` are stated by what they have done when
  they end. So is the segment loop of `fill_window`; since that closed form is
  not obvious, `MCTCPSender` also has the loop turn by turn, and TLC compares the
  two before a run (`FillAssumption`): all windows of 0 to 5, up to 5 numbers in
  flight, more than the window has included, buffers empty to full, ended or not.
  This validates the translation; it is not a property of the code.
- `ackno()` returns no value before the SYN; the operator is used only when
  `isn_set` holds.
- The data of a segment is not abstracted away: payloads are real pieces of the
  stream, with all bytes different, so that a byte at a wrong place is seen.
- In `TCPPairSpec` a call of an owner and the hand-over of what it queued to
  the network are one step: the event loop's delay is indistinguishable from
  the network's. The idle time of a connection is capped where it stops
  mattering.
- In `TCPSpongeSocket` the connection is the set of outcomes its owner can see
  (room, what has arrived, ended, active, segments queued), each operator of
  it named after the method it stands for; bytes are counted. What it assumes
  of the connection (`TcpMovesOn`) is what `TCPPairSpec` and `TCPSenderSpec`
  check.
- The rules of an event loop are a fixed sequence `Rules`, in the order in which
  they were added, and the set of those not yet cancelled: nothing is added once
  the loop runs. One call of `wait_next_event` is: fill the poll set, poll, one
  step for each rule that poll reported, in that order. Other threads and processes step in between. Poll
  itself, sockets and pipes are external: `Revents` says what they report.
- In `Parser` a 32-bit number is the pair of its halves, since TLC's integers
  are 32-bit and signed; checksums are computed on real bytes.

## 3. What is checked

### ByteStream (`byte_stream`)

Two byte values, capacity 2, strings up to 3 bytes, 5 bytes offered in all:
writes are clipped, the buffer fills and empties several times, reads ask for
more than there is. `TypeOK` includes the capacity bound, `InOrder` says that
what was read followed by what is buffered is what was accepted, `CountsExact`
that the totals are exact.

### StreamReassembler (`reassembler`)

Seven different bytes, capacity 3: the output fills, bytes are held at up to
twice the capacity ahead, every substring can be pushed at any time, with and
without the end mark if it ends the stream. `Delivered` and `HeldRight` are the
two halves of correctness; `HeldNear` bounds how far ahead memory is used;
`NothingLeftBehind`: a push that moves the stream on stops short of a held byte
only when the output is full. (Room that the reader makes later is not used by a
push ahead of the stream, `stream_reassembler.cc:39-47`; the next one at the next
index uses it.)
`AllDelivered` is checked under weak fairness of one retransmitting peer
(`Retransmit` sends the segment that holds the first missing byte, cut where it
was cut at first, as `TCPSender::tick` does) and of the reader.

Three things the header file promises hold only for a *polite* peer, one that
keeps within the window and puts its end mark on the last bytes
(`PoliteMemory`, `PoliteEnd`).

### WrappingInt32 (`wrapping_integers`)

`Mod` 8 and `Wide` 64: eight turns; all 8 x 8 x 64 calls. The last turn before
2^64 is excluded from `UnwrapClosest`: the sum wraps there and no stream gets
that far.

### TCPReceiver (`tcp_receiver`)

`Mod` 16, initial number 11, nine bytes: the numbers wrap after the fourth
byte. Capacity 3, so that 2 * (capacity + 1) < `Mod` as TCP requires of its
window. Segments half of the numbers away are assumed to have left the network
(`Alive`). The SYN may come again, with data; empty segments come with any
number. `BytesInPlace`, `WindowIsAccepted` and `WindowNeverShrinks` are what
the peer's sender relies on.

### TCPSender (`tcp_sender`)

Three bytes, payloads of at most 2, windows 0 to 4, `RetxTimeout` 2, so that
there are partial windows, partial acknowledgments, a fill of two segments, a
FIN that fits and one that does not, a timer part way. The owner gives up above
`MaxRetx` = 1 (the code's 8): after that nothing more is claimed. One late
acknowledgment is kept in the network; one call of `send_empty_segment`.
`Mod` 32 leaves room for the 32-bit difference to go below zero.

The liveness properties `Retransmits` and `AllAcknowledged` assume, and the
code's callers provide: the owner reports time and collects what is queued
(rules and ticks of the event loop), the application goes on until it ends its
stream, the owner fills the window after a write, the peer goes on
acknowledging with an open window. Fairness is written out as "infinitely often
impossible, or infinitely often done", which is weak fairness for these
actions.

`tcp_sender_wrap` (violated): with an initial number just below the wrap, raw
comparisons leave acknowledged bytes in flight.

### Two connections (`tcp_pair`, `tcp_pair_live`, `tcp_pair_end`)

`tcp_pair`: both ends may connect, so that they do so at once, or one finds the
other's SYN there and answers it; one writes two bytes, both
end; payloads of one byte, windows of two, up to three segments under way each
way, one fault (a loss, a copy, a timeout that comes too early, or the owner of
A destroying the connection). That is enough for every handshake, simultaneous
and ordered close, bytes that overtake each other, a FIN that waits for the
window, a lost SYN, data byte, FIN or last acknowledgment, a duplicate of each,
a retransmission that crosses its acknowledgment, and giving up on a peer that
is gone. With A alone connecting the same four properties hold with
`MaxFaults = 2` and `MaxNet = 2` (0.6 million states), and with a byte in each
direction (`MCStream`, 0.9 million).

- `IsReliable` is refinement: under the mapping in `TCPPairSpec`, every step of
  the pair is a step of `ReliableStream` or a stutter. `ReliableStream` lets an
  application write, finish, read a further piece of what the other wrote, see
  the end after the last byte, and lets a connection close when both have
  ended, or reset. It knows nothing of segments.
- `CloseIsComplete`: a connection that closed cleanly leaves nothing behind on
  either side. This is what lingering and the order of the ends are for.
- `AckedIsHeld` relates the sender of one end to the receiver of the other:
  what is freed is in its place there.
- `FollowsDiagram`: from the handshake on each end is at a place of the diagram
  and moves along an arrow. Sender and receiver are independent objects, so
  nothing in the code says so. One place has no name in `tcp_state.hh`: the
  application has ended, the FIN waits for the window, and the peer's FIN comes
  first. The connection then lingers and goes on to CLOSING (`FinWaits`).

`tcp_pair_live` checks `ClosesCleanly` with one fault, lingering longer than
the retransmissions take, and a receive capacity equal to `WinMod`, so that an
empty receiver advertises the window 0 (a capacity of 65536 in the code). The
fairness is weak fairness of the applications, owners and the network taken
together, and of time. Time passes (`Tick`) only when nothing is under way,
since a timeout is longer than a round trip; a premature one is a fault. That
the connections close in spite of a lost last acknowledgment depends on the
limit of retransmissions being larger than the number of faults. The receive
capacity also has to hold the whole stream: behind a closed window the sender
probes for as long as the peer's application does not read, and this fairness
lets one application wait while others work.

In both, a FIN does not overtake the bytes before it (`FinOvertakes`). With it
`tcp_pair_end` is violated: an application reads an orderly end with bytes
missing (`EndIsLast`). `TCPSender` sends a FIN without data whenever the input
is ended after the last byte was sent, so an ordinary reordering is enough.

### TCPSpongeSocket and EventLoop (`sponge_socket`)

Outbound stream of 1 byte, inbound of 2, socket pair of 2 each way, two bytes
in each direction, one signal, an adapter that may drop: the outbound stream
and the pair fill, the end comes with room and without, the owner reads late or
never, and waits or destroys at any time. `HandedOver`, `OwnerSeesAll` and
`OutboundEnds` are the two directions; `NeverThrows` that neither the busy-wait
check nor a poll error nor a broken pipe is ever met; `JoinReturns` that the owner
never waits for good.

The first three and `NeverThrows` are about a stream whose end comes behind its
last byte. The reassembler may end it early (`tcp_pair_end`), and the receiver
goes on pushing, the stream accepting, what arrives afterwards
(`tcp_receiver.cc:28-32`, `byte_stream.cc:24-32`). `tcp_arrived` does the same and
marks it in the ghost `past_end`, which is a hypothesis of `HandedOver` and
`OwnerSeesAll` and what `NeverThrows` allows. It is needed: without it TLC finds
an owner that has read the end before bytes came (`OwnerSeesAll`), a rule 3 that a
hangup cancels with bytes left (`HandedOver`), and rule 3 writing to the direction
it has shut (`TCPSpongeSocketPipe.cfg`). The program dies of that exception, so
`JoinReturns` and `OutboundEnds` say nothing beyond it.

Both threads are scheduled (`Scheduled`), and a connection that has
something unacknowledged moves on or gives up (`TcpMovesOn`).
`wait_until_closed` is called, as its comment advises, once the socket has
reached its end. The pair takes a whole write at once, as an `AF_UNIX` stream
socket that reports itself writable does for small ones; section 4 says what
fails where it does not (`PartialWrites`).

### bidirectional_stream_copy (`stream_copy`)

Buffers of 3, copies of at most 2, a pipe and a socket that hold 1: writes are
partial, stdout fills. Stdin is a terminal or file, or a pipe; the reader of
stdout and the remote end may go away. `NothingLost`: at every moment what has
come out is a prefix of what went in, both ways. `NothingLeft` and `Returns`:
it returns, and when it does with nothing failed, what the remote sent is all
written. A signal during poll, which would end the loop with bytes buffered
(`eventloop.cc:101-104`), is left out: no program here installs a handler. The
socket's model has it (`Signal`).

### Adapters and headers (`fd_adapter`)

A server bound to address 0 and two clients, each wrapped in the lossy adapter,
over UDP and over IPv4, segments that open, carry data of odd and even length,
or reset; a wire that carries one datagram, loses it, repeats it, flips any one
of its bits, or cuts it anywhere (IPv4). `OnlyGenuine`: what is handed up is
field for field what the peer wrote, unless it was the header length of the IPv4
datagram that was damaged (the mark `shifted`). That exclusion is needed: one of
the segments has numbers for which a header taken for 28 bytes long leaves a
right TCP checksum, and without the exclusion TLC shows it handed up. `GetsThrough`: what is intact is handed up
by the adapter it is for. `OneClient`: the server's TCP never hears a second
client.

### Experiments

These configurations are kept beside the runs. Each is expected to be violated
and shows where the code departs from what the repository says; run one with
`tlc -config <file> <module>`.

| Configuration | Module | Violated | What happens |
|---|---|---|---|
| `StreamReassemblerMemory.cfg` | `MCStreamReassembler` | `WithinCapacity` | held bytes are limited without counting what is buffered (`stream_reassembler.cc:29`); `stream_reassembler.hh:21-22` says the capacity limits both |
| `TCPSenderOldAck.cfg` | `MCTCPSender` | `WithinWindow` | a late acknowledgment's window replaces the newer one, the room wraps below zero and everything is sent (`tcp_sender.cc:106`, 56); `tests/send_extra.cc:364` "a full window of nonzero size should be respected" |
| `TCPSenderZeroWindow.cfg` | `MCTCPSender` | `NoBackoffOnZero` | an early return of `fill_window` leaves a zero window stored as one, and probes back off (`tcp_sender.cc:70`); `tests/send_extra.cc:309` says "don't back off RTO" |
| `TCPSenderTimer.cfg` | `MCTCPSender` | `TimerStops` | the timer runs on when nothing is outstanding (`tcp_sender.cc:102`); `reports/Lab3.md:22` says it stops |
| `TCPSpongeSocketPipe.cfg` | `TCPSpongeSocket` | `NoBrokenPipe` | a FIN, then a byte: rule 3 has shut the pipe down at the end and is interested again (`tcp_sponge_socket.cc:135-137`, 148), and its write is refused (132); `byte_stream.hh:9-10` says that after the end "no more bytes can be written" |
| `StreamCopyHalf.cfg` | `MCStreamCopy` | `UntilFinished` | once the remote has ended, the rest of stdin is not copied |

### Met while modelling

Not stated as properties:

- `ByteStream::write` accepts bytes after `end_input` (`byte_stream.hh:9-10`
  says it does not), and `send_empty_segment` keeps its segment as outstanding
  (`reports/Lab3.md:57` says it is not tracked). An end mark on bytes that are
  already written returns before the output is ended
  (`stream_reassembler.cc:31-36`).
- `tcp_connection.cc:55`: after the peer's FIN is acknowledged, data that the
  peer repeats because that acknowledgment was lost is not answered; only its
  repeated FIN is. If the loss goes on the peer gives up with a reset.
- `tcp_connection.cc:59`: what an acknowledgment without data lets the sender
  queue goes out at the next tick only.
- An acknowledgment of the SYN that comes ahead of the peer's own SYN (its
  answer lost, a later one not) takes the connection out of SYN_SENT into a
  state outside the diagram, in which the owner may write; `FollowsDiagram`
  starts after it.
- The reset that the destructor queues goes with the queue: it is never sent
  (`tcp_connection.hh:98` and `tcp_sponge_socket.hh:73`, `119-120` say it is).
- A FIN that does not fit into the window is taken for sent by
  `clean_shutdown`, which looks at `eof` and bytes in flight.
- A closed window and a dead peer: the probe is repeated without end.
- `IPv4Datagram::parse` and `TCPSegment::parse` ignore what the parsers of the
  headers return; version, header length and the header's checksum decide
  nothing. A flipped bit of `hlen` moves the start of the segment, which the TCP
  checksum sees except for particular numbers.
- A lossy listening adapter takes the sender of a SYN for its peer and may then
  drop that SYN.
- When both directions of the pair are shut while the connection lingers, the
  TCP thread spins without waiting and without the check noticing.
- A reader of stdout that goes away is an error to poll, so that the loop
  throws and rule 4's cancel is not reached.
- A signal during poll ends the TCP thread, or the wait in `connect()`.

### Mutants

Every property of a passing run has a mutant in `PROJECT.json`: an operator
that changes one definition the way a plausible bug would. Mutants are marked
as such in the modules and used nowhere else.

## 4. What is proved

The five classes that the protocol is made of, the two threads of a
`TCPSpongeSocket` and the stream copy are proved for every value of the
constants: every invariant of the runs `byte_stream`, `reassembler`,
`wrapping_integers`, `tcp_receiver`, `tcp_sender`, `sponge_socket` and
`stream_copy`, and the action properties of these runs. The lemmas follow the
code: what a method does to an object is proved about the operator alone, and
the proofs of the specifications, and of the classes that own such an object,
cite it.

| Theorem | Property | Assumes |
|---|---|---|
| `ByteStreamTypes`, `ByteStreamCorrect`, `ByteStreamCounts` | `TypeOK`, `InOrder`, `CountsExact` | the bounds are natural numbers |
| `ReassemblerTypes`, `ReassemblerCorrect`, `ReassemblerHolds`, `ReassemblerNear` | `TypeOK`, `Delivered`, `HeldRight`, `HeldNear` | `Stream` a sequence of bytes, `Capacity` and `Segment` positive |
| `ReassemblerMemory`, `ReassemblerEnd` | `PoliteMemory`, `PoliteEnd` | the same |
| `ReassemblerDrains` | `NothingLeftBehind` (action property) | the same |
| `UnwrapCorrect` | `UnwrapClosest` | `Mod` even, `Wide` a multiple of it and at least four times as large (2^32 and 2^64 in the code) |
| `ReceiverCorrect`, `ReceiverAccepts` | `BytesInPlace`, `WindowIsAccepted` | also `2 * (Capacity + 1) < Mod`, `Len(Stream) + Mod < Wide` |
| `ReceiverKeepsWindow` | `WindowNeverShrinks` (action property) | the same |
| `SenderCounts`, `SenderTimer`, `SenderSegments` | `NumbersUsedOnce`, `TimerArmed`, `SegmentsRight` | `RetxTimeout`, `MAX_PAYLOAD_SIZE`, `Capacity` positive |
| `SenderInFlight`, `SenderWindow` | `InFlightExact`, `WindowRespected` | also `NoWrap`: `Isn + Len(Stream) + 3 < Mod` |
| `SocketSeesAll` | `OwnerSeesAll` | the capacities positive, the inbound stream no larger than the socket pair |
| `SocketHandsOver`, `SocketNeverThrows` | `HandedOver`, `NeverThrows` | also `~PartialWrites` |
| `CopyLosesNothing`, `CopyLeavesNothing` | `NothingLost`, `NothingLeft` | the three sizes positive, `Input` and `Remote` sequences of bytes |

`NoWrap` is a hypothesis of the two theorems, not an assumption of the model.
`ack_received` compares raw 32-bit numbers, and `tcp_sender_wrap` shows
`InFlightExact` violated where the hypothesis fails, so it cannot be dropped;
`TCPSender.cfg` satisfies it. The other three theorems about the sender hold
whether the numbers wrap or not.

`~PartialWrites` is such a hypothesis too: a pair that is writable takes all
that rule 3 writes at once. With `PartialWrites = TRUE` in `TCPSpongeSocket.cfg`
`NeverThrows` fails: after a reset and a partial write rule 3 shuts the pipe down
and then writes the rest into it. `HandedOver` fails on the same configuration
with `MaxIn = 3`: a reset, a write that fills the
pair, and the shutdown of both directions make poll report a hangup only, rule 3
is cancelled with a byte left, and the loop ends. `OwnerSeesAll` is not about a
stream that was reset, and is proved with partial writes as well. All three
properties have `past_end` in their statements (section 3).

### The arguments

*ByteStream.* The conjunction of the three properties is inductive: the counts
follow from the sequences, and that a pop removes exactly what was handed out
needs the types.

*StreamReassembler.* `Inv` follows the object: `OutRight` says that the output
holds the stream from the read position to the next index (and, beyond the
properties, that the read position is not past it), `MapRight` that the map
holds bytes of the stream from the next index on and that the count is its
cardinality. There is one lemma for each piece of `push_substring`
(`StoreRight`, `WriteThroughRight`, `DrainRight`, `SignalRight`): each writes
the bytes from the next index on and drops the same indices from the map
(`OutMoves`, `MapMoves`). That `ready` exists is the least-number principle
(`ReadyFacts`). `PushCases` shows that the arms of `push_substring` cover every
call, the overlapping one by `PieceOfPiece`. `HeldNear` is inductive together
with `Inv`. For the polite peer `PoliteInv` adds that nothing beyond the edge of
the window was ever taken and that the end mark was taken only with the last
bytes; `PushHas` says exactly which indices a push leaves written or held, and
`PushFlag` when it leaves the mark, which is what makes the end come neither
early nor late.

*unwrap.* The two candidates that the code compares are the neighbours of the
checkpoint among the numbers that wrap to `n` (`UnwrapCases`), and the sum does
not leave 64 bits short of the last turn. `UnwrapExact` is the form the receiver
needs: a number within half a turn of the checkpoint is returned itself.

*TCPReceiver.* The invariant is `Right` of its reassembler, its initial number
once the SYN has come, and that nothing was received before. `Alive`, with the
bound on the capacity, puts the absolute number of every segment within half a
turn of the checkpoint, so that `UnwrapExact` applies and the payload is pushed
at its own index; the rest is `PushRight`. For `WindowNeverShrinks` the
acknowledgment and the edge are computed before and after a push and a read, on
the numbers before they are wrapped (`EdgeMoved`); for `WindowIsAccepted` a
segment within the window is kept by `PushHas`.

*TCPSender.* The invariant `SenderInv` gives the queue of outstanding segments a
layout: a function `at` with `at[i]` the absolute number at which segment `i`
starts and `next_seqno` as its last value. With it the sum that `SpaceOf`
computes is a difference of two numbers (`LaidSpace`), dropping the front or
sending more leaves the other places alone (`LaidCut`, `LaidJoin`), and what
each segment carries is a statement about its place (`Placed`). `Base` has the
types, the stream and what `next_seqno` counts, `Timed` the timer; that doubling
follows the power of two is `PowerDoubles`. The segments of one `fill_window`
are laid out by `WindowLaid`, which rests on how the payload is cut
(`CutFacts`). `AckInv` adds, for the two conditional theorems, that
`ackGot` is the number last acknowledged, that the front of the queue starts at
or before it and every segment that occupies a number ends after it
(`AckedTo`), and that the sender has kept to the window (`WindowRight`).
`AckedDropped` is the step that matters: the loop of `ack_received` stops at the
first segment that is not acknowledged to its end, the segments behind it end
later still (`LaidMonotone`), and an old acknowledgment can drop empty segments
only. That the difference in `fill_window` is taken modulo 2^32 does no harm
while what was sent is within the window (`RemainFits`).

*EventLoop.* Both users have four rules, so `prepared` is four calls of
`prepare`, one after the other (`PreparedIs`). The facts about one rule are proved once and chained; what matters in the end is
that a rule which is left and was not asked about has no interest, which is what
the loop's exit tells its owner.

*TCPSpongeSocket.* The properties speak of the end of a thread or of a stream,
so `Inv` says what is true on the way there. `Conserve` counts: what has arrived
is buffered in the connection, in the pair, or with the owner. `ShutRight` says
that the pair is shut for reading only when the connection's buffer is empty and
its stream has ended or failed, and that the flag `inbound_shutdown` agrees.
`EofLast` puts the end behind the last byte for the owner, and `LeftRight` is
what `prepared` has established when nothing was asked. `ToServe` carries what
poll said to the moment a rule is served: the owner may read and shut down in
between, but only the TCP thread fills the pair, so the room is still there
(`HasRoom`), no rule reports an error, and only rule 2 is cancelled by a hangup.
`Shaky` marks the states, after a reset with partial writes or once bytes have
come after the end, in which these facts are given up. No call leads out of them
(`Later`): the connection stays reset, and `past_end` stays set, which is what the
theorems need to exclude them at the end of a thread or a stream.

*StreamCopy.* `Carried`, once for each direction, is `NothingLost` with the types
and the bounds of the buffers. `FillCarried` and `DrainCarried` show that it
survives a read that is cut to the room left and a write that takes any part.
`Ends` relates the flags: a direction is shut only behind its last byte, a
stream whose end was seen gets no more, what came from the remote is complete
when it ends unless the remote was lost, and a rule is cancelled for one of
these reasons only. `Asked` and `ToServe` carry what the rules and poll said
over the steps of the remote, the terminal and the reader. `ExitFacts` turns the
absence of interest into `NothingLeft`: were stdout still open, rule 4 without
interest would mean that the inbound stream is empty and has not ended; then
there is room, and rule 3 would have interest unless the remote was lost.

### What stays with TLC

- Liveness under fairness: `AllDelivered`, `Retransmits`, `AllAcknowledged`,
  `ClosesCleanly`, `JoinReturns`, `OutboundEnds`, `Returns`.
- `FillAssumption`: the loop of `fill_window` turn by turn is a `RECURSIVE`
  operator. `WindowLaid` proves what the closed form sends; that it is what the
  loop does is evaluated over small senders.
- What the parsers and the checksum compute, so `OnlyGenuine` and
  `GetsThrough`: sums over the bytes of a datagram, which needs induction over
  data. `OneClient` rests on it as well: over IPv4 only the checksum keeps a
  datagram with a damaged source address from looking like the peer's.
- The properties of two connections, `CloseIsComplete`, `AckedIsHeld`,
  `FollowsDiagram` and the refinement `IsReliable`: their invariant relates the
  sender at one end, the receiver at the other and every segment under way, and
  is only model-checked.

Where a proof needs induction, over the places of a queue or the powers of two,
it is done on a set of natural numbers: `NatSetInduction`, from the
least-number principle `LeastMember`.

## 5. Plan

1. Done: all of the components of section 1, alone and composed; the proofs
   about the five classes, the socket's two threads and the stream copy.
2. Left: the refinement `IsReliable`. The theorems about the sender and the
   receiver give its two halves; what is missing is the invariant over the
   segments under way between them.

### Not modelled

- `Socket`, `Address`, `TunFD` beyond `shutdown`, `recv` and `sendto`: wrappers
  of one system call each, and name resolution.
- `set_blocking`, reference counts, sharing of a `Buffer`'s storage,
  `BufferViewList`: memory management without a state the properties tell
  apart.
- `to_string`, `summary`, `name`, `hexdump`, debugging output: text.
- `apps/` other than `bidirectional_stream_copy`: argument parsing, printing,
  one fixed schedule of two connections (`tcp_benchmark`), one exchange of
  strings (`webget`), a packet printer (`udp_tcpdump`). The addresses and the
  listening flag that `tcp_ipv4` and `tcp_udp` configure are the initial states
  of `FdAdapterSpec`.
- Tests and doctests: read as documentation.
