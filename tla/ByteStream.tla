------------------------------ MODULE ByteStream ------------------------------
(***************************************************************************)
(* Class ByteStream (libsponge/byte_stream.hh, byte_stream.cc): a bounded  *)
(* in-memory queue of bytes with running totals and two flags.  The object *)
(* is a record, each method that changes it an operator from the object to *)
(* the changed object, each accessor an operator of the object, so that    *)
(* the classes that own a stream (StreamReassembler, TCPSender) can call   *)
(* several methods inside one of their own.  Totals are size_t in the      *)
(* code: 2^64 bytes never go through a stream, so they are not wrapped.    *)
(***************************************************************************)
EXTENDS Integers, Sequences

Least(a, b) == IF a <= b THEN a ELSE b

\* The objects of class ByteStream over a set Byte of byte values.
ByteStreamOf(Byte) ==
  [buf : Seq(Byte), capacity : Nat, write_count : Nat, read_count : Nat,
   is_eof : BOOLEAN, error : BOOLEAN]

\* Constructor.
ByteStreamNew(capacity) ==
  [buf |-> <<>>, capacity |-> capacity, write_count |-> 0, read_count |-> 0,
   is_eof |-> FALSE, error |-> FALSE]

-------------------------------------------------------------------------------
(* Accessors *)

buffer_size(bs)        == Len(bs.buf)
buffer_empty(bs)       == buffer_size(bs) = 0
remaining_capacity(bs) == bs.capacity - Len(bs.buf)
stream_eof(bs)         == bs.is_eof /\ buffer_empty(bs)

\* The first len bytes of the buffer, or all of them (string::substr clips).
peek_output(bs, len) == SubSeq(bs.buf, 1, Least(len, Len(bs.buf)))

-------------------------------------------------------------------------------
(* Methods *)

\* Mutant: takes all of the data, whatever room there is.
accepted_len_all(bs, data) == Len(data)

\* How many bytes of data a write accepts: what is over capacity is refused.
accepted_len(bs, data) == Least(Len(data), remaining_capacity(bs))

\* Mutant: a write that forgets to count what it accepted.
write_uncounted(bs, data) ==
  [bs EXCEPT !.buf = @ \o SubSeq(data, 1, accepted_len(bs, data))]

write(bs, data) ==
  [bs EXCEPT !.buf         = @ \o SubSeq(data, 1, accepted_len(bs, data)),
             !.write_count = @ + accepted_len(bs, data)]

\* Mutant: pops one byte too many.
pop_output_long(bs, len) ==
  [bs EXCEPT !.read_count = @ + len,
             !.buf        = SubSeq(@, len + 2, Len(@))]

\* The count grows by len even if fewer bytes were there to erase.
pop_output(bs, len) ==
  [bs EXCEPT !.read_count = @ + len,
             !.buf        = SubSeq(@, len + 1, Len(@))]

\* What read(len) hands to the caller, and the stream it leaves.
read_len(bs, len)  == Least(len, Len(bs.buf))
read_data(bs, len) == peek_output(bs, read_len(bs, len))
read(bs, len)      == pop_output(bs, read_len(bs, len))

end_input(bs) == [bs EXCEPT !.is_eof = TRUE]
set_error(bs) == [bs EXCEPT !.error = TRUE]

===============================================================================
