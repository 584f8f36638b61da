-------------------------------- MODULE Parser --------------------------------
(***************************************************************************)
(* Buffer and BufferList (libsponge/util/buffer.hh, .cc), NetParser and    *)
(* NetUnparser (libsponge/util/parser.hh, .cc) and InternetChecksum        *)
(* (libsponge/util/util.cc).  A Buffer is the sequence of bytes that it    *)
(* shows, a BufferList a sequence of Buffers.  A 32-bit number is the pair *)
(* of its halves, most significant first.                                  *)
(***************************************************************************)
EXTENDS Integers, Sequences

remove_prefix(buf, n) == SubSeq(buf, n + 1, Len(buf))

concatenate(list) ==
  LET upto[i \in 0..Len(list)] == IF i = 0 THEN <<>> ELSE upto[i - 1] \o list[i]
  IN  upto[Len(list)]

-------------------------------------------------------------------------------
(* NetParser.  The numbers are read one after the other, so each has its    *)
(* place in the buffer; from the first that is not all there on, every one *)
(* is 0.                                                                   *)

u8(buf, at)  == IF at + 1 > Len(buf) THEN 0 ELSE buf[at + 1]
u16(buf, at) == IF at + 2 > Len(buf) THEN 0 ELSE 256 * buf[at + 1] + buf[at + 2]
u32(buf, at) == IF at + 4 > Len(buf) THEN <<0, 0>> ELSE <<u16(buf, at), u16(buf, at + 2)>>

ParserNew(buffer) == [buffer |-> buffer, error |-> "NoError"]

check_size(p, n) == IF n > Len(p.buffer) THEN [p EXCEPT !.error = "PacketTooShort"] ELSE p

\* Numbers of n bytes in all are read, or n bytes are skipped.
parser_remove_prefix(p, n) ==
  LET q == check_size(p, n)
  IN  IF q.error # "NoError" THEN q ELSE [q EXCEPT !.buffer = remove_prefix(@, n)]

-------------------------------------------------------------------------------
(* NetUnparser *)

put8(val)  == <<val>>
put16(val) == <<val \div 256, val % 256>>
put32(val) == put16(val[1]) \o put16(val[2])

\* A string resized to n: cut, or filled up with zeros.
resized(s, n) == [i \in 1..n |-> IF i <= Len(s) THEN s[i] ELSE 0]

\* The bit of weight w: as a term of a sum, and tested.
bit(on, w)  == IF on THEN w ELSE 0
has(val, w) == (val \div w) % 2 = 1

-------------------------------------------------------------------------------
(* InternetChecksum: the sum, and whether the next byte is a low one *)

ChecksumNew(initial_sum) == [sum |-> initial_sum, parity |-> FALSE]

add(check, data) ==
  LET weight(i) == IF (i % 2 = 1) = check.parity THEN 1 ELSE 256
      upto[i \in 0..Len(data)] ==
        IF i = 0 THEN check.sum ELSE upto[i - 1] + data[i] * weight(i)
  IN  [sum |-> upto[Len(data)], parity |-> check.parity # (Len(data) % 2 = 1)]

\* The carry is added in until there is none; then the complement.
value(check) ==
  LET fold[n \in Nat] == IF n > 65535 THEN fold[(n \div 65536) + (n % 65536)] ELSE n
  IN  65535 - fold[check.sum]

===============================================================================
