--------------------------- MODULE StreamReassembler ---------------------------
(***************************************************************************)
(* Class StreamReassembler (libsponge/stream_reassembler.hh, .cc).  The    *)
(* object is a record; push_substring is the one method that changes it.   *)
(* The code moves bytes one at a time; here each loop is one step, stated  *)
(* by the set of indices it goes over.  Byte number i of the stream        *)
(* (0-indexed, as in the code) is element i + 1 of the TLA+ sequence.      *)
(***************************************************************************)
EXTENDS ByteStream, FiniteSets

\* The objects of the class over byte values Byte that hold the bytes numbered
\* by the set Held back for later (myMap is a std::map<size_t, string>).
ReassemblerOf(Byte, Held) ==
  [output : ByteStreamOf(Byte), capacity : Nat, nextIndex : Nat,
   bytesUnAssembled : Nat, eof_flag : BOOLEAN, myMap : [Held -> Byte]]

\* Constructor.
ReassemblerNew(capacity) ==
  [output |-> ByteStreamNew(capacity), capacity |-> capacity, nextIndex |-> 0,
   bytesUnAssembled |-> 0, eof_flag |-> FALSE, myMap |-> [k \in {} |-> k]]

unassembled_bytes(sr) == sr.bytesUnAssembled
reassembler_empty(sr) == sr.bytesUnAssembled = 0

\* The indices [from, from + len).
Span(from, len) == from .. (from + len - 1)

-------------------------------------------------------------------------------
(* The pieces of push_substring *)

\* Mutant: the limit is off by one.
TooFarAhead_late(sr, index) ==
  index > sr.nextIndex /\ index - sr.nextIndex > sr.capacity

\* Mutant: off by one the other way, drops the last byte of the window.
TooFarAhead_early(sr, index) ==
  index > sr.nextIndex /\ index - sr.nextIndex >= sr.capacity - 1

\* A substring that starts a capacity or more ahead is dropped.
TooFarAhead(sr, index) ==
  index > sr.nextIndex /\ index - sr.nextIndex >= sr.capacity

\* Mutant: drops whatever starts before the next index, new bytes included.
WhollyWritten_overlap(sr, data, index) == index < sr.nextIndex

\* A substring that ends before the next index is dropped.
WhollyWritten(sr, data, index) == index + Len(data) < sr.nextIndex

\* Mutant: a substring of exactly the capacity does not fit.
note_eof_tight(sr, data, index, eof) ==
  [sr EXCEPT !.eof_flag =
     @ \/ (eof /\ Len(data) - sr.nextIndex + index < sr.capacity)]

\* The eof mark is taken if the part of data past the next index would fit the
\* capacity (not the room that is left in the output).
note_eof(sr, data, index, eof) ==
  [sr EXCEPT !.eof_flag =
     @ \/ (eof /\ Len(data) - sr.nextIndex + index <= sr.capacity)]

maxLen(sr, data) == Least(Len(data), remaining_capacity(sr.output))

\* The indices of an out-of-order substring that are kept: its first maxLen
\* bytes, without those already held.
fresh(sr, data, index) == Span(index, maxLen(sr, data)) \ DOMAIN sr.myMap

\* Mutant: shifts the bytes of an out-of-order substring by one index.
held_with_shifted(sr, data, index) ==
  [k \in DOMAIN sr.myMap \cup fresh(sr, data, index) |->
     IF k \in DOMAIN sr.myMap THEN sr.myMap[k]
     ELSE data[Least(k - index + 2, Len(data))]]

\* The map with them.
held_with(sr, data, index) ==
  [k \in DOMAIN sr.myMap \cup fresh(sr, data, index) |->
     IF k \in DOMAIN sr.myMap THEN sr.myMap[k] ELSE data[k - index + 1]]

\* Mutant: does not count what it holds.
store_uncounted(sr, data, index) ==
  [sr EXCEPT !.myMap = held_with(sr, data, index)]

\* Mutant: counts a byte again when it is pushed again.
store_recounted(sr, data, index) ==
  [sr EXCEPT !.myMap = held_with(sr, data, index),
             !.bytesUnAssembled = @ + maxLen(sr, data)]

\* The whole index > nextIndex path.
store(sr, data, index) ==
  [sr EXCEPT !.myMap = held_with(sr, data, index),
             !.bytesUnAssembled = @ + Cardinality(fresh(sr, data, index))]

\* index = nextIndex: write the first maxLen bytes and forget held copies.
write_through(sr, data) ==
  LET n       == maxLen(sr, data)
      written == Span(sr.nextIndex, n)
  IN  [sr EXCEPT
         !.output = write(@, SubSeq(data, 1, n)),
         !.nextIndex = @ + n,
         !.myMap = [k \in DOMAIN sr.myMap \ written |-> sr.myMap[k]],
         !.bytesUnAssembled = @ - Cardinality(written \cap DOMAIN sr.myMap)]

\* How many held bytes continue the stream and fit the output.
ready(sr) ==
  CHOOSE n \in 0 .. remaining_capacity(sr.output) :
    /\ Span(sr.nextIndex, n) \subseteq DOMAIN sr.myMap
    /\ n = remaining_capacity(sr.output) \/ sr.nextIndex + n \notin DOMAIN sr.myMap

\* Mutant: nothing moves out of the map.
drain_never(sr) == sr

\* Then move held bytes to the output while they are next and there is room.
drain(sr) ==
  LET n == ready(sr)
  IN  [sr EXCEPT
         !.output = write(@, [i \in 1..n |-> sr.myMap[sr.nextIndex + i - 1]]),
         !.nextIndex = @ + n,
         !.myMap = [k \in DOMAIN sr.myMap \ Span(sr.nextIndex, n) |-> sr.myMap[k]],
         !.bytesUnAssembled = @ - n]

\* Last, end the output if the eof mark was taken and nothing is held.
signal_eof(sr) ==
  IF sr.eof_flag /\ reassembler_empty(sr)
  THEN [sr EXCEPT !.output = end_input(@)]
  ELSE sr

\* The whole index = nextIndex path.
assemble(sr, data) == signal_eof(drain(write_through(sr, data)))

push_substring(sr, data, index, eof) ==
  LET s == note_eof(sr, data, index, eof)
  IN  CASE TooFarAhead(sr, index) \/ WhollyWritten(sr, data, index) -> sr
        [] index = sr.nextIndex -> assemble(s, data)
        [] index > sr.nextIndex /\ ~TooFarAhead(sr, index) -> store(s, data, index)
        [] index < sr.nextIndex /\ index + Len(data) = sr.nextIndex -> s
        \* the recursive call with the already written prefix cut off
        [] index < sr.nextIndex /\ index + Len(data) > sr.nextIndex ->
             assemble(s, SubSeq(data, sr.nextIndex - index + 1, Len(data)))

================================================================================
