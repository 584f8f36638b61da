----------------------------- MODULE IPv4Datagram -----------------------------
(***************************************************************************)
(* IPv4Header and IPv4Datagram (tcp_helpers/ipv4_header.hh, .cc,           *)
(* ipv4_datagram.cc).                                                      *)
(***************************************************************************)
EXTENDS Parser

PROTO_TCP == 6

IPv4HeaderNew ==
  [ver |-> 4, hlen |-> 5, tos |-> 0, len |-> 0, id |-> 0, df |-> TRUE, mf |-> FALSE,
   offset |-> 0, ttl |-> 128, proto |-> PROTO_TCP, cksum |-> 0,
   src |-> <<0, 0>>, dst |-> <<0, 0>>]

\* The fields of a buffer of 20 bytes or more.
ip_fields(b) ==
  [ver |-> u8(b, 0) \div 16, hlen |-> u8(b, 0) % 16, tos |-> u8(b, 1), len |-> u16(b, 2),
   id |-> u16(b, 4), df |-> has(u16(b, 6), 16384), mf |-> has(u16(b, 6), 8192),
   offset |-> u16(b, 6) % 8192, ttl |-> u8(b, 8), proto |-> u8(b, 9),
   cksum |-> u16(b, 10), src |-> u32(b, 12), dst |-> u32(b, 16)]

\* What is wrong with a header, found before the options are skipped.
ip_header_error(h, size) ==
  IF size < 4 * h.hlen THEN "PacketTooShort"
  ELSE IF h.ver # 4 THEN "WrongIPVersion"
  ELSE IF h.hlen < 5 THEN "HeaderTooShort"
  ELSE IF size # h.len THEN "TruncatedPacket" ELSE "NoError"

\* The header, the parser behind it, and the result.  On an error the options
\* are not skipped, and the parser does not know of it.
ip_header_parse(p) ==
  LET size == Len(p.buffer)
      h    == ip_fields(p.buffer)
      read == parser_remove_prefix(p, 20)
      past == parser_remove_prefix(read, 4 * h.hlen - 20)
      sum  == value(add(ChecksumNew(0), SubSeq(p.buffer, 1, 4 * h.hlen)))
  IN  IF size < 20 THEN [header |-> IPv4HeaderNew, p |-> p, result |-> "PacketTooShort"]
      ELSE IF ip_header_error(h, size) # "NoError"
           THEN [header |-> h, p |-> read, result |-> ip_header_error(h, size)]
           ELSE [header |-> h, p |-> past,
                 result |-> IF sum # 0 THEN "BadChecksum" ELSE past.error]

\* Called only with version 4 and a length of 5 or more; it throws otherwise.
ip_header_serialize(h) ==
  resized(put8(16 * h.ver + h.hlen) \o put8(h.tos) \o put16(h.len) \o put16(h.id)
          \o put16(bit(h.df, 16384) + bit(h.mf, 8192) + (h.offset % 8192))
          \o put8(h.ttl) \o put8(h.proto) \o put16(h.cksum)
          \o put32(h.src) \o put32(h.dst), 4 * h.hlen)

payload_length(h) == (h.len - 4 * h.hlen) % 65536

\* A plausible slip: the source address left out.
pseudo_cksum_no_src(h) == h.dst[1] + h.dst[2] + h.proto + payload_length(h)

pseudo_cksum(h) == h.src[1] + h.src[2] + h.dst[1] + h.dst[2] + h.proto + payload_length(h)

-------------------------------------------------------------------------------
(* IPv4Datagram *)

\* The header's result is dropped, its bad checksum with it.
datagram_parse(buffer) ==
  LET parsed == ip_header_parse(ParserNew(buffer))
  IN  [result |-> IF Len(parsed.p.buffer) # payload_length(parsed.header)
                  THEN "PacketTooShort" ELSE parsed.p.error,
       header |-> parsed.header, payload |-> parsed.p.buffer]

\* The payload is a BufferList; its size agrees with the header's, or it throws.
datagram_serialize(header, payload) ==
  LET zero == ip_header_serialize([header EXCEPT !.cksum = 0])
      sum  == value(add(ChecksumNew(0), zero))
  IN  <<ip_header_serialize([header EXCEPT !.cksum = sum])>> \o payload

===============================================================================
