------------------------------ MODULE FdAdapter -------------------------------
(***************************************************************************)
(* The adapters between TCP segments and a file descriptor: FdAdapterBase  *)
(* and TCPOverUDPSocketAdapter (tcp_helpers/fd_adapter.hh, .cc),           *)
(* TCPOverIPv4Adapter (tcp_over_ip.cc) and TCPOverIPv4OverTunFdAdapter     *)
(* (tuntap_adapter.hh).  An Address is its IPv4 number and port.           *)
(***************************************************************************)
EXTENDS TCPHeader, IPv4Datagram

AddressOf(ip, port) == [ip |-> ip, port |-> port]

AdapterOf(source, destination, listen) ==
  [source |-> source, destination |-> destination, listen |-> listen]

\* What a read returns: the segment, or nothing, and the adapter after it.
handed_up(seg, a) == [seg |-> <<seg>>, adapter |-> a]
ignored(a)        == [seg |-> <<>>, adapter |-> a]

\* The first SYN that is not also a RST tells a listening adapter its peer.
opens(seg) == seg.header.syn /\ ~seg.header.rst

\* A plausible slip: the flag stays.
set_listening_never(a, l) == a

set_listening(a, l) == [a EXCEPT !.listen = l]

addressed(a, seg) ==
  [seg EXCEPT !.header.sport = a.source.port, !.header.dport = a.destination.port]

-------------------------------------------------------------------------------
(* TCPOverUDPSocketAdapter: from is the address that recvfrom reports *)

udp_read(a, from, bytes) ==
  LET parsed == segment_parse(bytes, 0)
      latch  == set_listening([a EXCEPT !.destination = from], FALSE)
  IN  CASE \/ ~a.listen /\ from # a.destination
           \/ parsed.result # "NoError"
           \/ a.listen /\ ~opens(parsed.seg) -> ignored(a)
        [] OTHER -> handed_up(parsed.seg, IF a.listen THEN latch ELSE a)

udp_write(a, seg) == segment_serialize(addressed(a, seg), 0)

-------------------------------------------------------------------------------
(* TCPOverIPv4Adapter and the adapter of the TUN device *)

\* A plausible slip: the answers come from the address listened on.
latched_any(a, header, seg) ==
  set_listening([a EXCEPT !.destination = AddressOf(header.src, seg.header.sport)], FALSE)

\* The address that was contacted becomes ours, the SYN's sender the peer.
latched(a, header, seg) ==
  set_listening([a EXCEPT !.source.ip = header.dst,
                          !.destination = AddressOf(header.src, seg.header.sport)], FALSE)

unwrap_tcp_in_ip(a, dgram) ==
  LET parsed == segment_parse(dgram.payload, pseudo_cksum(dgram.header))
      b      == IF a.listen THEN latched(a, dgram.header, parsed.seg) ELSE a
  IN  CASE \/ ~a.listen /\ dgram.header.dst # a.source.ip
           \/ ~a.listen /\ dgram.header.src # a.destination.ip
           \/ dgram.header.proto # PROTO_TCP
           \/ parsed.result # "NoError"
           \/ parsed.seg.header.dport # a.source.port
           \/ a.listen /\ ~opens(parsed.seg)
           \/ parsed.seg.header.sport # b.destination.port -> ignored(a)
        [] OTHER -> handed_up(parsed.seg, b)

\* The IPv4 header of a segment.
wrap_header(a, seg) ==
  [IPv4HeaderNew EXCEPT !.src = a.source.ip, !.dst = a.destination.ip,
                        !.len = 20 + 4 * seg.header.doff + Len(seg.payload)]

tun_read(a, bytes) ==
  LET dgram == datagram_parse(bytes)
  IN  IF dgram.result # "NoError" THEN ignored(a) ELSE unwrap_tcp_in_ip(a, dgram)

tun_write(a, seg) ==
  LET header == wrap_header(a, seg)
  IN  datagram_serialize(header, segment_serialize(addressed(a, seg), pseudo_cksum(header)))

===============================================================================
