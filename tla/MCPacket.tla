------------------------------ MODULE MCPacket ------------------------------
(***************************************************************************)
(* Files and frames for TLC.  Addresses: 1 and 2 are VIPs, 3 is a local    *)
(* address, 4 a source for health checks, 9 a stranger.                    *)
(***************************************************************************)
EXTENDS Packet

Empty == [is |-> "empty"]
Num(n) == [is |-> "num", v |-> n]
Ip(a) == [is |-> "ip", v |-> a]
W_(w) == [is |-> "word", v |-> w]
ListOf(vs) == [is |-> "list", v |-> vs]
Rs(ip, port, parts) ==
  [is |-> "rs", parts |-> parts, ip |-> ip, port |-> port, weight |-> Num(0), mac_ok |-> TRUE]
Section(name) == [is |-> "section", name |-> name]
Item(key, value) == [is |-> "item", key |-> key, value |-> value]
Skip == [is |-> "skip"]
BadLine == [is |-> "bad"]

Ports == {80, 10000, 60000, 60001, 61000, 61999, 62000}

Global(mode, dataplane) ==
  <<Section("global"), Item("mode", W_(mode)), Item("dataplane", W_(dataplane))>>
Network(lips, hc) ==
  <<Section("network"), Item("local_ips", lips), Item("hc_src", hc)>>
ServiceLines(name, vip, port, proto) ==
  <<Section(name), Item("vip", Ip(vip)), Item("port", Num(port)), Item("proto", W_(proto)),
    Item("server1", Rs(Ip(5), Num(80), 2))>>
Legacy(vip, port) ==
  <<Section("vip"), Item("ip", Ip(vip)), Item("ports", ListOf(<<Num(port)>>)),
    Section("realserver"), Item("count", Num(2)), Item("server1", Rs(Ip(5), Num(80), 3))>>

\* Addresses that play several parts, and services on every kind of port
AddressFiles ==
  {Global(mode, "pipeline") \o Network(lips, hc) \o svcs :
     mode \in {"nat", "dr"},
     lips \in {Empty, ListOf(<<Ip(3)>>), ListOf(<<Ip(3), Ip(1)>>)},
     hc \in {Empty, Ip(4), Ip(1)},
     svcs \in {ServiceLines("service.a", 1, p, "tcp") \o ServiceLines("service.b", 2, p, "udp") :
                 p \in Ports}
              \cup {Legacy(1, 80), Legacy(1, 61000)}}

\* One thing wrong, or unusual, in each
Good == ServiceLines("service.a", 1, 80, "tcp")
With(section, key, value) == <<Section(section), Item(key, value)>> \o Good
OddFiles == {
  Good, <<>>, <<Skip>> \o Good, <<BadLine>> \o Good, <<Item("mode", W_("nat"))>> \o Good,
  With("global", "mode", W_("tunnel")), With("global", "mode", Empty),
  With("global", "max_sessions", Num(1023)), With("global", "session_timeout", Num(5)),
  With("global", "toa", W_("perhaps")), With("network", "hc_src", W_("nowhere")),
  With("network", "local_ips", ListOf(<<W_("nowhere")>>)),
  With("network", "vip_mac", [is |-> "mac", v |-> FALSE]),
  With("vip", "mac", [is |-> "mac", v |-> TRUE]),
  With("healthcheck", "interval", Num(3601)), With("healthcheck", "interval", Num(2)),
  <<Section("global"), Item("mode", W_("dr")), Section("healthcheck"), Item("enabled", W_("true"))>>
    \o Good,
  Good \o ServiceLines("service.b", 1, 80, "tcp"),
  Good \o <<Item("scheduler", W_("rr"))>>, Good \o <<Item("scheduler", W_("first"))>>,
  Good \o <<Item("rs1", Rs(Ip(6), Num(81), 9)), Item("rs2", Rs(Ip(6), Num(81), 3))>>,
  Good \o <<Item("server1", Empty)>>, Good \o <<Item("server2", Rs(Ip(6), Num(0), 2))>>,
  Good \o <<Item("server2", Rs(Ip(6), Num(80), 4))>>,
  <<Section("service.a"), Item("vip", Ip(1)), Item("port", Num(80))>>,
  <<Section("service.a"), Item("vip", Ip(1)), Item("server1", Rs(Ip(5), Num(80), 2))>>,
  Legacy(1, 0), Legacy(1, 80) \o <<Item("server2", Empty)>>,
  <<Section("vip"), Item("ip", Ip(1)), Section("realserver"), Item("count", Num(1)),
    Item("server1", Rs(Ip(5), Num(80), 3))>>}

\* Rewriting is tried under one configuration, with TOA.
RewriteFile ==
  <<Section("global"), Item("toa", W_("true")), Item("dataplane", W_("pipeline"))>> \o Network(ListOf(<<Ip(3)>>), Empty) \o Good
    \o ServiceLines("service.b", 1, 80, "udp")

Seg == [src |-> <<0, 1>>, dst |-> <<0, 2>>, sp |-> 1, dp |-> 2, opts |-> <<>>, plen |-> 1, rest |-> 1, ck |-> 0]

Frame ==
  [eth |-> "ip", len |-> 54, version |-> 4, ihl |-> 20, tot |-> 40, frag |-> FALSE, proto |-> "tcp",
   dst |-> 1, dport |-> 80, l4len |-> 20, syn |-> FALSE, ttl |-> 64, own |-> FALSE,
   cksum_bad |-> FALSE, icmp |-> "error", ol |-> "rx",
   inner |-> [version |-> 4, ihl |-> 20, proto |-> "tcp", later |-> FALSE, src |-> 1, sport |-> 80], seg |-> Seg]

IcmpError == [Frame EXCEPT !.proto = "icmp", !.icmp = "error", !.tot = 56, !.len = 70]

AddressFrames ==
  {[Frame EXCEPT !.proto = proto, !.dst = dst, !.dport = port] :
     proto \in {"tcp", "udp"}, dst \in {1, 3, 4}, port \in Ports}
  \cup {[IcmpError EXCEPT !.dst = dst, !.inner.src = dst, !.inner.sport = port] :
          dst \in {1, 3}, port \in {80, 10000, 60000, 61000}}

OtherFrames ==
  {[Frame EXCEPT !.eth = "arp"], [Frame EXCEPT !.eth = "other"], [Frame EXCEPT !.own = TRUE],
   [Frame EXCEPT !.cksum_bad = TRUE], [Frame EXCEPT !.proto = "gre"], [Frame EXCEPT !.ttl = 1],
   [Frame EXCEPT !.dst = 9], [Frame EXCEPT !.proto = "gre", !.dst = 9],
   [IcmpError EXCEPT !.icmp = "echo"], [IcmpError EXCEPT !.icmp = "other"],
   [IcmpError EXCEPT !.dst = 9], [IcmpError EXCEPT !.inner.src = 9],
   [IcmpError EXCEPT !.inner.later = TRUE], [IcmpError EXCEPT !.inner.proto = "gre"],
   [IcmpError EXCEPT !.inner.ihl = 16], [IcmpError EXCEPT !.inner.ihl = 24],
   [IcmpError EXCEPT !.tot = 47, !.len = 61],
   [Frame EXCEPT !.version = 6], [IcmpError EXCEPT !.inner.version = 6]}

Nops(n) == [i \in 1 .. n |-> NOP]

\* Lengths on both sides of every limit
LengthFrames ==
  {[Frame EXCEPT !.proto = proto, !.len = len, !.ihl = ihl, !.tot = tot, !.l4len = l4,
                 !.frag = frag, !.seg.opts = IF proto = "tcp" /\ l4 > 20 THEN Nops(l4 - 20) ELSE <<>>] :
     proto \in {"tcp", "udp", "icmp"}, len \in {13, 33, 34, 41, 42, 54, 60, 66, 94},
     ihl \in {16, 20, 24}, tot \in {19, 20, 28, 40, 44, 72, 80}, l4 \in {7, 8, 19, 20, 24, 52, 56},
     frag \in {FALSE}}
  \cup {[Frame EXCEPT !.frag = TRUE]}

\* Every checksum on words of two bits
ChecksumFrames ==
  {[Frame EXCEPT !.proto = proto, !.l4len = 20, !.seg =
      [src |-> src, dst |-> dst, sp |-> sp, dp |-> dp, opts |-> <<>>, plen |-> 1, rest |-> rest, ck |-> ck]] :
     proto \in {"tcp", "udp"}, src \in {<<0, 0>>, <<3, 1>>}, dst \in {<<0, 2>>, <<3, 3>>},
     sp \in 0 .. 3, dp \in {0, 2, 3}, rest \in 1 .. 3, ck \in 0 .. 3}

\* Option fields of five bytes: end, no-op, timestamp, and an option of kind 3
OptionFrames ==
  {[Frame EXCEPT !.syn = TRUE, !.l4len = 25, !.tot = 45, !.len = 59, !.seg.opts = opts] :
     opts \in [1 .. 5 -> {0, 1, 2, 3, 8}]}

MCNewAddr == [src : {<<0, 0>>, <<1, 3>>}, dst : {<<0, 0>>, <<2, 3>>}, sp : 0 .. 3, dp : {0, 3}]

MCCases ==
  [f \in AddressFiles |-> AddressFrames]
    @@ [f \in OddFiles |-> {Frame, [Frame EXCEPT !.dport = 10000]}]
    @@ (RewriteFile :> (OtherFrames \cup LengthFrames \cup ChecksumFrames \cup OptionFrames))

MCServiceSections == <<"service.a", "service.b">>

=============================================================================
