------------------------------- MODULE Packet -------------------------------
(***************************************************************************)
(* One frame under one configuration: where the receiver sends it, how the *)
(* worker parses and classifies it, and how FULLNAT rewrites it            *)
(* (src/dataplane/receiver.cpp, src/protocol/parser.cpp, process_packet of *)
(* src/core/processor.cpp, src/forward/nat_forwarder.cpp).                 *)
(*                                                                         *)
(* A frame has its lengths in bytes as they stand in its headers.  Owners  *)
(* are the four ways a worker is picked: "zero", by the hash of the two    *)
(* addresses, and by Steering's fwd_owner or ret_owner of the connection;  *)
(* two different ones are taken to be two different workers.               *)
(***************************************************************************)
EXTENDS Config, Checksum

CONSTANTS
  Cases,      \* Cases[file]: the frames received under a configuration file
  NewAddr,    \* what nat_rewrite writes: records with src, dst, sp, dp
  Mtu         \* g_dp.mtu

EthLen == 14
IpLen == 20
TcpLen == 20
UdpLen == 8
IcmpLen == 8
TOALen == 8
Owners == {"zero", "addr", "fwd", "ret"}
EOL == 0
NOP == 1
TS == 8
NoFrame == [eth |-> "none"]

VARIABLES file, conf, frame, pc, at, redirected, handler, out
vars == <<file, conf, frame, pc, at, redirected, handler, out>>

Init ==
  /\ file \in DOMAIN Cases /\ frame = NoFrame
  /\ conf = Failed /\ pc = "load"
  /\ at = "zero" /\ redirected = FALSE /\ handler = "none" /\ out = NoFrame

Load ==
  /\ pc = "load"
  /\ conf' = load(file)
  /\ pc' = IF conf'.ok THEN "rx" ELSE "stop"
  /\ UNCHANGED <<file, frame, at, redirected, handler, out>>

-----------------------------------------------------------------------------
(* The tables of the snapshot.                                             *)

is_lip(c, ip) == ip \in ToSet(c.local_ips)
is_vip(c, ip) == \E i \in DOMAIN c.services : c.services[i].vip = ip
is_local(c, ip) == is_lip(c, ip) \/ is_vip(c, ip) \/ (ip = c.hc_src /\ ip # NoIp)
find_service(c, ip, port, proto) ==
  \E i \in DOMAIN c.services :
    c.services[i].vip = ip /\ c.services[i].port = port /\ c.services[i].proto = proto

in_nat_range(port) == port \in kNatPortMin .. kNatPortMax
in_hc_range(port) == port \in kHcPortMin .. kHcPortMax

-----------------------------------------------------------------------------
(* The receiver.                                                           *)

\* Mutant: the last port of the range is left out.
targetShort(c, f) ==
  IF c.mode = "NAT" /\ f.dport \in kNatPortMin .. kNatPortMax - 1 /\ is_lip(c, f.dst)
  THEN "ret" ELSE "fwd"

\* Dispatcher::target once the frame is known to have ports
targetL4(c, f) ==
  IF c.mode = "NAT" /\ in_nat_range(f.dport) /\ is_lip(c, f.dst) THEN "ret" ELSE "fwd"

target(c, f) ==
  LET l4 == /\ f.proto \in {"tcp", "udp"} /\ ~f.frag /\ f.ihl >= IpLen
            /\ f.len >= EthLen + f.ihl + 4
  IN  IF f.len < EthLen + IpLen \/ f.eth # "ip" THEN "zero"
      ELSE IF ~l4 THEN "addr" ELSE targetL4(c, f)

\* In mode "pipeline" the receiver picks the worker, in mode "rtc" the NIC does.
Receive ==
  /\ pc = "rx"
  /\ frame' \in Cases[file]
  /\ at' \in IF conf.dataplane = "pipeline" THEN {target(conf, frame')} ELSE Owners
  /\ pc' = "worker"
  /\ UNCHANGED <<file, conf, redirected, handler, out>>

-----------------------------------------------------------------------------
(* Parsing.                                                                *)

\* The L4 header is inside the IP packet, and the IP packet inside the frame.
parse_l4(f) ==
  LET l4 == EthLen + f.ihl
      end == EthLen + f.tot
  IN  CASE f.proto = "tcp" -> l4 + TcpLen <= end /\ f.l4len >= TcpLen /\ l4 + f.l4len <= end
        [] f.proto = "udp" -> l4 + UdpLen <= end /\ f.l4len >= UdpLen /\ l4 + f.l4len <= end
        [] f.proto = "icmp" -> l4 + IcmpLen <= end
        [] OTHER -> TRUE

parse_ip(f) ==
  /\ f.len >= EthLen + IpLen
  /\ f.version = 4 /\ f.ihl >= IpLen /\ f.tot >= f.ihl /\ EthLen + f.tot <= f.len

parse(f) ==
  IF ~parse_ip(f) THEN "MALFORMED"
  ELSE IF f.frag THEN "FRAGMENT"
  ELSE IF parse_l4(f) THEN "OK" ELSE "MALFORMED"

\* The packet an ICMP error quotes has its ports.
parse_icmp_error(f) ==
  LET l3 == EthLen + f.ihl + IcmpLen
      end == EthLen + f.tot
  IN  /\ l3 + IpLen <= end /\ f.inner.version = 4 /\ f.inner.ihl >= IpLen
      /\ f.inner.proto \in {"tcp", "udp"} /\ ~f.inner.later
      /\ l3 + f.inner.ihl + 8 <= end

-----------------------------------------------------------------------------
(* process_packet: the handler, and whose packet it is.                    *)

To(name, owner) == [name |-> name, owner |-> owner]
Drop(reason) == To(reason, "any")

handle_icmp(c, f) ==
  CASE f.icmp = "echo" -> To("echo", "any")
    [] f.icmp = "other" -> Drop("OTHER")
    [] f.icmp = "error" /\ ~parse_icmp_error(f) -> Drop("MALFORMED")
    [] f.icmp = "error" /\ parse_icmp_error(f) ->
         IF c.mode = "NAT" /\ is_lip(c, f.dst) /\ is_lip(c, f.inner.src)
              /\ in_nat_range(f.inner.sport)
         THEN To("icmp_return", "ret")
         ELSE IF is_vip(c, f.dst) /\ is_vip(c, f.inner.src) THEN To("icmp_inbound", "fwd")
         ELSE Drop("NO_SESSION")

handle_l4(c, f) ==
  IF c.mode = "NAT" /\ is_lip(c, f.dst) /\ in_nat_range(f.dport) THEN To("return", "ret")
  ELSE IF f.dst = c.hc_src /\ in_hc_range(f.dport)
       THEN IF f.proto = "tcp" THEN To("hc_response", "any") ELSE Drop("OTHER")
  ELSE IF find_service(c, f.dst, f.dport, f.proto) THEN To("inbound", "fwd")
  ELSE Drop(IF is_local(c, f.dst) THEN "NO_SERVICE" ELSE "NOT_LOCAL")

process_packet(c, f) ==
  IF f.len < EthLen THEN Drop("MALFORMED")
  ELSE IF f.eth = "arp" THEN To("arp", "any")
  ELSE IF f.eth = "other" THEN Drop("OTHER")
  ELSE IF parse(f) # "OK" THEN Drop(parse(f))
  ELSE IF f.cksum_bad THEN Drop("CKSUM")
  ELSE IF f.own THEN To("consumed", "any")
  ELSE IF f.proto = "icmp"
       THEN IF is_local(c, f.dst) THEN handle_icmp(c, f) ELSE Drop("NOT_LOCAL")
  ELSE IF f.proto \in {"tcp", "udp"} THEN handle_l4(c, f)
  ELSE Drop(IF is_local(c, f.dst) THEN "NO_SERVICE" ELSE "NOT_LOCAL")

Translated == {"inbound", "return", "icmp_inbound", "icmp_return"}

\* A worker that is not the owner hands the packet on, once.
Process ==
  LET h == process_packet(conf, frame)
      elsewhere == h.owner \notin {"any", at}
  IN  /\ pc = "worker"
      /\ IF elsewhere /\ ~redirected
         THEN /\ at' = h.owner /\ redirected' = TRUE
              /\ UNCHANGED <<pc, handler>>
         ELSE /\ handler' = IF elsewhere THEN "OTHER" ELSE h.name
              /\ pc' = IF h.name \in Translated /\ conf.mode = "NAT" /\ ~elsewhere
                       THEN "rewrite" ELSE "done"
              /\ UNCHANGED <<at, redirected>>
      /\ UNCHANGED <<file, conf, frame, out>>

-----------------------------------------------------------------------------
(* nat_rewrite.                                                            *)

\* strip_timestamp from option i on: timestamps become NOPs; the walk ends at EOL
\* and at an option whose length is not inside the header.
Strip[opts \in Seq(Nat), i \in Nat] ==
  IF i > Len(opts) \/ opts[i] = EOL THEN opts
  ELSE IF opts[i] = NOP THEN Strip[opts, i + 1]
  ELSE IF i = Len(opts) \/ opts[i + 1] < 2 \/ i + opts[i + 1] - 1 > Len(opts) THEN opts
  ELSE LET next == i + opts[i + 1]
       IN  IF opts[i] # TS THEN Strip[opts, next]
           ELSE Strip[[j \in DOMAIN opts |-> IF j \in i .. next - 1 THEN NOP ELSE opts[j]], next]

strip_timestamp(opts) == Strip[opts, 1]

\* insert_toa: 8 bytes of options after the basic header.  The header and the MTU
\* allow them; the mbuf must also be one segment, and have room.
ToaFits(f) == f.l4len + TOALen <= 60 /\ f.tot + TOALen <= Mtu

ToaOption(new) == <<254, TOALen, new.sp, 0, 0, 0, 0, 0>>

\* The NIC is to finish the checksum, or it is computed in full.
l4_checksum_full(f, seg, hw) ==
  LET after == IF f.proto = "tcp" THEN 0 ELSE f.tot - f.ihl - f.l4len
  IN  IF hw THEN rte_ipv4_phdr_cksum(seg, after) ELSE recalculate(f.proto, seg)

\* The checksum field of segment seg with the addresses and ports of new: left to the
\* NIC if it can, whether there was one or not; otherwise computed in full if the TCP
\* options changed, and updated if not.  A UDP checksum of 0 is updated to 0.
L4Checksum(f, seg, new, changed, hw) ==
  LET full == l4_checksum_full(f, [seg EXCEPT !.src = new.src, !.dst = new.dst,
                                              !.sp = new.sp, !.dp = new.dp], hw)
  IN  IF f.proto = "tcp"
      THEN IF changed \/ hw THEN full ELSE update_tcp(seg.ck, seg, new)
      ELSE IF hw THEN full ELSE update_udp(seg.ck, seg, new)

\* toa: the session still owes its TOA option.  mbuf: it has room for it, has none,
\* or is a chain.  hw: built with L4LB_HW_CKSUM, for a port with the offload of this
\* protocol; ol is what nat_rewrite leaves in ol_flags.
nat_rewrite(f, new, toa, mbuf, hw) ==
  LET tcp == f.proto = "tcp"
      opts1 == IF tcp /\ f.syn /\ conf.strip /\ handler = "inbound"
               THEN strip_timestamp(f.seg.opts) ELSE f.seg.opts
      fits == /\ toa /\ conf.toa /\ tcp /\ ~f.syn /\ handler = "inbound"
              /\ ToaFits(f) /\ mbuf # "chain"
      add == fits /\ mbuf = "room"
      opts2 == IF add THEN ToaOption(new) \o opts1 ELSE opts1
      grown == IF add THEN TOALen ELSE 0
      seg == [f.seg EXCEPT !.opts = opts2, !.plen = @ + grown, !.rest = @ + grown]
  IN  [f EXCEPT !.tot = @ + grown,
                !.l4len = @ + grown,
                !.len = IF fits THEN EthLen + f.tot + grown ELSE @,
                !.ttl = @ - 1,
                !.ol = IF hw THEN "cksum" ELSE "none",
                !.seg = [seg EXCEPT !.ck = L4Checksum(f, seg, new, opts2 # f.seg.opts, hw),
                                    !.src = new.src, !.dst = new.dst,
                                    !.sp = new.sp, !.dp = new.dp]]

Rewrite ==
  /\ pc = "rewrite" /\ pc' = "done"
  /\ IF frame.ttl <= 1 THEN handler' = "TTL" /\ UNCHANGED out
     ELSE /\ IF frame.proto = "icmp" THEN UNCHANGED out
             ELSE \E new \in NewAddr, toa, hw \in BOOLEAN, mbuf \in {"room", "full", "chain"} :
                    out' = nat_rewrite(frame, new, toa, mbuf, hw)
          /\ UNCHANGED handler
  /\ UNCHANGED <<file, conf, frame, at, redirected>>

Next == Load \/ Receive \/ Process \/ Rewrite

Spec == Init /\ [][Next]_vars

-----------------------------------------------------------------------------
(* Properties.                                                             *)

WellFormed(f) == f.eth = "ip" /\ parse(f) = "OK" /\ ~f.cksum_bad /\ ~f.own

\* In every configuration that load accepts, a packet for a service reaches that
\* service, a reply to a translated connection its session, and a reply to a probe
\* the health checker: the three never take one another's packets, even when one
\* address is VIP, local address and hc_src.  ICMP errors about packets a service
\* or a translated connection sent find their way the same way.
NothingShadowed ==
  pc \in {"rewrite", "done"} /\ WellFormed(frame) /\ handler # "TTL" =>
    /\ frame.proto \in {"tcp", "udp"} =>
         /\ find_service(conf, frame.dst, frame.dport, frame.proto) => handler = "inbound"
         /\ conf.mode = "NAT" /\ is_lip(conf, frame.dst) /\ in_nat_range(frame.dport)
              => handler = "return"
         /\ frame.proto = "tcp" /\ frame.dst = conf.hc_src /\ in_hc_range(frame.dport)
              => handler = "hc_response"
    /\ frame.proto = "icmp" /\ frame.icmp = "error" /\ parse_icmp_error(frame) =>
         /\ /\ find_service(conf, frame.inner.src, frame.inner.sport, frame.inner.proto)
            /\ frame.dst = frame.inner.src
            => handler = "icmp_inbound"
         /\ conf.mode = "NAT" /\ is_lip(conf, frame.dst) /\ frame.dst = frame.inner.src
              /\ in_nat_range(frame.inner.sport)
              => handler = "icmp_return"

\* The receiver and the worker agree: no TCP or UDP packet of a connection is
\* redirected in mode "pipeline".
DispatchAgrees ==
  redirected /\ conf.dataplane = "pipeline" => frame.proto = "icmp"

\* Where the options of a TCP header start
Starts(opts) ==
  LET After(i) == IF opts[i] = NOP THEN i + 1 ELSE i + opts[i + 1]
      Option(i) == /\ opts[i] # EOL
                   /\ opts[i] # NOP => i < Len(opts) /\ opts[i + 1] >= 2 /\ After(i) <= Len(opts) + 1
      closed == {S \in SUBSET DOMAIN opts :
                   /\ opts # <<>> => 1 \in S
                   /\ \A i \in S : Option(i) /\ After(i) <= Len(opts) => After(i) \in S}
  IN  {i \in DOMAIN opts : Option(i) /\ \A S \in closed : i \in S}

\* The segment on the wire
Sent(f) == IF f.ol = "cksum" THEN [f.seg EXCEPT !.ck = TxChecksum(f.proto, f.seg)] ELSE f.seg

\* The length a receiver takes for the pseudo header is that of the IP packet.
Fills(f) == f.proto = "udp" => f.tot - f.ihl = f.l4len

\* A rewritten packet is well formed, with lengths that agree, at most 60 bytes of
\* TCP header, and no larger than the MTU unless it was.  Computed by nat_rewrite, its
\* checksum is valid if it was, a damaged one is not mended by an incremental update,
\* and a UDP packet without one stays without.  Left to the NIC, it is valid on the
\* wire, if the segment fills its IP packet.  Both ways a UDP packet that had a
\* checksum has one.  A SYN has lost its timestamps, byte for byte, and nothing else.
RewriteSound ==
  pc = "done" /\ handler \in {"inbound", "return"} /\ out # NoFrame =>
    /\ parse(out) = "OK" /\ out.ttl >= 1
    /\ out.proto = "tcp" => out.l4len <= 60
    /\ out.tot <= Mtu \/ out.tot = frame.tot
    /\ out.ol = "none" =>
         /\ Valid(frame.proto, frame.seg) => Valid(out.proto, Sent(out))
         /\ Valid(out.proto, Sent(out)) /\ out.seg.opts = frame.seg.opts
              => Valid(frame.proto, frame.seg)
         /\ frame.proto = "udp" /\ frame.seg.ck = 0 => Sent(out).ck = 0
    /\ out.ol = "cksum" /\ Fills(out) => Valid(out.proto, Sent(out))
    /\ frame.proto = "udp" /\ frame.seg.ck # 0 => Sent(out).ck # 0
    /\ frame.proto = "tcp" /\ frame.syn /\ conf.strip /\ handler = "inbound" =>
         LET opts == frame.seg.opts
             stamps == UNION {i .. i + opts[i + 1] - 1 : i \in {j \in Starts(opts) : opts[j] = TS}}
         IN  out.seg.opts = [i \in DOMAIN opts |-> IF i \in stamps THEN NOP ELSE opts[i]]

=============================================================================
