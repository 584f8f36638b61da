---------------------------- MODULE FdAdapterSpec -----------------------------
(***************************************************************************)
(* A server that listens and two clients that write to it, over a wire     *)
(* that carries one datagram at a time and may lose it, repeat it, flip    *)
(* one of its bits or (below IPv4) cut it.  Every adapter is wrapped in a  *)
(* LossyFdAdapter (tcp_helpers/lossy_fd_adapter.hh).  Over a TUN device    *)
(* any of them may read a datagram, whoever it is for: telling which are   *)
(* its own is the adapter's part.  Over UDP the kernel delivers by         *)
(* address.                                                                *)
(***************************************************************************)
EXTENDS FdAdapter, FiniteSets

CONSTANTS Clients,     \* the programs that connect
          Own,         \* [Clients \cup {"server"} -> address]
          Segments     \* what may be written

ASSUME OwnAssumption == "server" \notin Clients /\ \A c \in Clients : Own[c] # Own["server"]

VARIABLES over,     \* "IPv4" or "UDP"
          adapter,  \* [host -> adapter]
          wire,     \* the datagram under way: a sequence of none or one
          up,       \* the segment handed up since the last write: a sequence of none or one
          heard     \* whose segments the server handed up

vars == <<over, adapter, wire, up, heard>>

Host == Clients \cup {"server"}

\* A server is bound to address 0; a client over IPv4 to its own, over UDP to
\* none (apps/tcp_ipv4.cc, tcp_udp.cc).
Unset == AddressOf(<<0, 0>>, 0)

AdapterInit(h) ==
  IF h = "server" THEN AdapterOf([Unset EXCEPT !.port = Own[h].port], Unset, TRUE)
  ELSE AdapterOf(IF over = "UDP" THEN Unset ELSE Own[h], Own["server"], FALSE)

Init ==
  /\ over \in {"IPv4", "UDP"}
  /\ adapter = [h \in Host |-> AdapterInit(h)]
  /\ wire = <<>> /\ up = <<>> /\ heard = {}

-------------------------------------------------------------------------------
(* LossyFdAdapter: the segment is read, and the adapter changed, before it  *)
(* may be dropped; a write that is dropped does nothing at all.            *)

lossy_read(result) == {result, ignored(result.adapter)}

\* What reading datagram d does to host h's adapter.
adapter_read(h, d) ==
  IF over = "UDP" THEN udp_read(adapter[h], d.from, d.bytes) ELSE tun_read(adapter[h], d.bytes)

\* What host h puts on the wire for seg; by, to, seg and the marks intact and
\* shifted (the length of the IPv4 header was damaged) are not on it.
Datagram(h, seg) ==
  LET a == adapter[h]
  IN  [from |-> Own[h], to |-> a.destination, intact |-> TRUE, shifted |-> FALSE, by |-> h,
       seg |-> addressed(a, seg),
       bytes |-> concatenate(IF over = "UDP" THEN udp_write(a, seg) ELSE tun_write(a, seg))]

Write(h, seg) ==
  /\ wire = <<>> /\ ~adapter[h].listen
  /\ wire' = <<Datagram(h, seg)>>
  /\ up' = <<>>
  /\ UNCHANGED <<over, adapter, heard>>

Read(h) ==
  /\ wire # <<>>
  /\ over = "UDP" => wire[1].to = Own[h]
  /\ \E r \in lossy_read(adapter_read(h, wire[1])) :
       /\ adapter' = [adapter EXCEPT ![h] = r.adapter]
       /\ IF r.seg = <<>> THEN UNCHANGED <<up, heard>>
          ELSE /\ up' = <<[host |-> h, seg |-> r.seg[1], by |-> wire[1].by,
                         to |-> wire[1].to, written |-> wire[1].seg,
                         shifted |-> wire[1].shifted]>>
               /\ heard' = heard \cup (IF h = "server" THEN {wire[1].by} ELSE {})
  /\ wire' \in {wire, <<>>}
  /\ UNCHANGED over

-------------------------------------------------------------------------------
(* The network *)

Lose == wire # <<>> /\ wire' = <<>> /\ UNCHANGED <<over, adapter, up, heard>>

Flip(b, w) == IF has(b, w) THEN b - w ELSE b + w

\* The low half of the first byte of an IPv4 header is its length.
Damage ==
  /\ wire # <<>> /\ wire[1].intact
  /\ \E i \in 1..Len(wire[1].bytes), w \in {1, 2, 4, 8, 16, 32, 64, 128} :
       wire' = <<[wire[1] EXCEPT !.intact = FALSE, !.bytes[i] = Flip(@, w),
                                 !.shifted = over = "IPv4" /\ i = 1 /\ w < 16]>>
  /\ UNCHANGED <<over, adapter, up, heard>>

Cut ==
  /\ over = "IPv4" /\ wire # <<>> /\ wire[1].intact
  /\ \E n \in 0..Len(wire[1].bytes) - 1 :
       wire' = <<[wire[1] EXCEPT !.intact = FALSE, !.bytes = SubSeq(@, 1, n)]>>
  /\ UNCHANGED <<over, adapter, up, heard>>

Next ==
  \/ \E h \in Host, seg \in Segments : Write(h, seg)
  \/ \E h \in Host : Read(h)
  \/ Lose \/ Damage \/ Cut

Spec == Init /\ [][Next]_vars

-------------------------------------------------------------------------------
(* Properties *)

\* A segment equals the one that was written but for its checksum field.
SameSegment(seg, written) ==
  seg = [written EXCEPT !.header.cksum = seg.header.cksum]

\* Whatever an adapter hands to TCP is, field for field and byte for byte, a
\* segment that its peer wrote to it, whichever bit of the datagram was flipped
\* and wherever it was cut, but for the length of the IPv4 header: the result of
\* parsing that header is dropped (ipv4_datagram.cc:13), so only the TCP checksum
\* with its pseudo-header and the adapter's filters stand in between.  A header
\* taken for longer moves the start of the segment, and there are numbers (one of
\* MCSegments has them) for which the TCP checksum of what remains is right.
OnlyGenuine ==
  \A i \in 1..Len(up) : ~up[i].shifted =>
    /\ SameSegment(up[i].seg, up[i].written)
    /\ up[i].to = Own[up[i].host]
    /\ adapter[up[i].host].destination = Own[up[i].by]

\* A datagram that arrives as it was written is handed up by the adapter it is
\* meant for, unless that has another peer or waits for a SYN
\* (tcp_over_ip.cc:26-71, fd_adapter.cc:21-46).  The answers of a server that
\* was bound to address 0 are among them.
GetsThrough ==
  \A i \in 1..Len(wire), h \in Host :
    LET d == wire[i]
        a == adapter[h]
        r == adapter_read(h, d)
    IN  /\ d.intact /\ d.to = Own[h]
        /\ IF a.listen THEN opens(d.seg) ELSE a.destination = Own[d.by]
        => r.seg # <<>> /\ SameSegment(r.seg[1], d.seg)

\* The server's TCP hears one client only, the first whose SYN it read, even
\* when that SYN itself was dropped (tcp_over_ip.cc:56-60,
\* lossy_fd_adapter.hh:43-46).
OneClient == Cardinality(heard) <= 1

===============================================================================
