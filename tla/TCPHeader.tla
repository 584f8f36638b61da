------------------------------ MODULE TCPHeader -------------------------------
(***************************************************************************)
(* TCPHeader and TCPSegment as bytes (tcp_helpers/tcp_header.hh, .cc,      *)
(* tcp_segment.cc).  A segment here has every field of its header; the     *)
(* module TCPSegment keeps those that the protocol reads.                  *)
(***************************************************************************)
EXTENDS Parser

TCPHeaderNew ==
  [sport |-> 0, dport |-> 0, seqno |-> <<0, 0>>, ackno |-> <<0, 0>>, doff |-> 5,
   urg |-> FALSE, ack |-> FALSE, psh |-> FALSE, rst |-> FALSE, syn |-> FALSE,
   fin |-> FALSE, win |-> 0, cksum |-> 0, uptr |-> 0]

\* The header, and the parser behind it.  With an offset below 5 nothing is
\* skipped, and the parser does not know of the error that is returned.
tcp_header_parse(p) ==
  LET b    == p.buffer
      doff == u8(b, 12) \div 16
      fl   == u8(b, 13)
      read == parser_remove_prefix(p, 20)
  IN  [header |->
         [sport |-> u16(b, 0), dport |-> u16(b, 2), seqno |-> u32(b, 4), ackno |-> u32(b, 8),
          doff |-> doff, urg |-> has(fl, 32), ack |-> has(fl, 16), psh |-> has(fl, 8),
          rst |-> has(fl, 4), syn |-> has(fl, 2), fin |-> has(fl, 1),
          win |-> u16(b, 14), cksum |-> u16(b, 16), uptr |-> u16(b, 18)],
       p |-> IF doff < 5 THEN read ELSE parser_remove_prefix(read, 4 * doff - 20)]

\* Called only with an offset of 5 or more; it throws otherwise.
tcp_header_serialize(h) ==
  resized(put16(h.sport) \o put16(h.dport) \o put32(h.seqno) \o put32(h.ackno)
          \o put8((16 * h.doff) % 256)
          \o put8(bit(h.urg, 32) + bit(h.ack, 16) + bit(h.psh, 8)
                  + bit(h.rst, 4) + bit(h.syn, 2) + bit(h.fin, 1))
          \o put16(h.win) \o put16(h.cksum) \o put16(h.uptr), 4 * h.doff)

-------------------------------------------------------------------------------
(* TCPSegment *)

SegmentOf(header, payload) == [header |-> header, payload |-> payload]

\* What the header's parse returns is dropped: only the parser's own error counts.
segment_parse(buffer, datagram_layer_checksum) ==
  LET header == tcp_header_parse(ParserNew(buffer))
  IN  IF value(add(ChecksumNew(datagram_layer_checksum), buffer)) # 0
      THEN [result |-> "BadChecksum", seg |-> SegmentOf(TCPHeaderNew, <<>>)]
      ELSE [result |-> header.p.error, seg |-> SegmentOf(header.header, header.p.buffer)]

\* The segment as it is sent, its checksum filled in.
segment_sealed(seg, datagram_layer_checksum) ==
  LET zero  == tcp_header_serialize([seg.header EXCEPT !.cksum = 0])
      check == add(add(ChecksumNew(datagram_layer_checksum), zero), seg.payload)
  IN  [seg EXCEPT !.header.cksum = value(check)]

segment_serialize(seg, datagram_layer_checksum) ==
  <<tcp_header_serialize(segment_sealed(seg, datagram_layer_checksum).header), seg.payload>>

===============================================================================
