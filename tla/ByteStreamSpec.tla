---------------------------- MODULE ByteStreamSpec ----------------------------
(***************************************************************************)
(* A ByteStream between one writer and one reader.  The two ghosts record  *)
(* what went in and what came out: accepted is every byte a write took,    *)
(* popped every byte the reader was given and then removed.                *)
(***************************************************************************)
EXTENDS ByteStream, Bytes

CONSTANTS
  MaxChunk,   \* bound: longest string one write offers
  MaxTotal    \* bound: bytes offered to the stream in one behaviour

ASSUME ByteStreamAssumption ==
  Capacity \in Nat /\ MaxChunk \in Nat /\ MaxTotal \in Nat

VARIABLES bs, accepted, popped, offered

vars == <<bs, accepted, popped, offered>>

Init ==
  /\ bs = ByteStreamNew(Capacity)
  /\ accepted = <<>> /\ popped = <<>>
  /\ offered = 0

Chunk == UNION {[1..n -> Byte] : n \in 0..MaxChunk}

Write(data) ==
  /\ offered + Len(data) <= MaxTotal
  /\ offered' = offered + Len(data)
  /\ bs' = write(bs, data)
  /\ accepted' = accepted \o SubSeq(data, 1, accepted_len(bs, data))
  /\ UNCHANGED popped

\* Read(len): copy and pop, for any len the caller asks for.
Read(len) ==
  /\ bs' = read(bs, len)
  /\ popped' = popped \o read_data(bs, len)
  /\ UNCHANGED <<accepted, offered>>

\* peek_output, hand part of it on, then pop exactly that part: how the
\* event-loop rules empty a stream into a file descriptor.
PeekThenPop(len) ==
  /\ len <= buffer_size(bs)
  /\ bs' = pop_output(bs, len)
  /\ popped' = popped \o peek_output(bs, len)
  /\ UNCHANGED <<accepted, offered>>

EndInput == bs' = end_input(bs) /\ UNCHANGED <<accepted, popped, offered>>
SetError == bs' = set_error(bs) /\ UNCHANGED <<accepted, popped, offered>>

Next ==
  \/ \E data \in Chunk : Write(data)
  \/ \E len \in 0..(Capacity + 1) : Read(len)
  \/ \E len \in 0..Capacity : PeekThenPop(len)
  \/ EndInput
  \/ SetError

Spec == Init /\ [][Next]_vars

-------------------------------------------------------------------------------
(* Properties *)

\* Types, and the buffer never holds more than the capacity.
TypeOK ==
  /\ bs \in ByteStreamOf(Byte)
  /\ bs.capacity = Capacity
  /\ Len(bs.buf) <= Capacity
  /\ accepted \in Seq(Byte) /\ popped \in Seq(Byte)
  /\ offered \in Nat

\* First in, first out, nothing lost, doubled or altered by any mix of
\* clipped writes and clipped or partial reads: what the reader has been given
\* followed by what is still buffered is what the writer had accepted.
InOrder == accepted = popped \o bs.buf

\* bytes_written() and bytes_read() (byte_stream.cc:66-68) are exact, so that
\* their difference, from which TCPReceiver computes the window it advertises,
\* is the number of bytes buffered.
CountsExact ==
  /\ bs.write_count = Len(accepted)
  /\ bs.read_count = Len(popped)
  /\ bs.write_count - bs.read_count = buffer_size(bs)

===============================================================================
