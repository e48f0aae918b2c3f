------------------------------- MODULE Config -------------------------------
(***************************************************************************)
(* The configuration file and what Config::load makes of it                *)
(* (src/common/config.cpp, include/common/config.h).                       *)
(*                                                                         *)
(* A file is a sequence of lines.  A line has a kind: "skip" (blank or     *)
(* comment), "section", "item" (key = value) or "bad".  A value is a       *)
(* record [is, v]: "num" a number, "ip" an address, "mac" (v says whether  *)
(* it parses), "word" a lower-case word, "list" a comma-separated list of  *)
(* values, "rs" a real server, "empty".  What is not of the kind a key     *)
(* asks for does not parse.  Wording, case and white space are left out.   *)
(***************************************************************************)
EXTENDS Integers, Sequences, FiniteSets, SequencesExt, TLC

CONSTANTS
  ServiceSections,  \* the names of [service.*] sections, in alphabetical order
  MaxKey            \* bound: serverN and rsN are read for N up to it

kNatPortMin == 10000
kNatPortMax == 60000
kHcPortMin == 61000
kHcPortMax == 61999
kMaxServices == 64
kMaxRsPerService == 256
kMaxLocalIps == 64

NoIp == 0     \* addresses are numbers; 0 stands for an address that is not set
Failed == [ok |-> FALSE]

\* The numbers of [global] and [healthcheck]: section, key, bounds and default;
\* a default of 0 for session_timeout says that it was not given.
Numbers == {
  <<"global", "max_sessions", 1024, 67108864, 1048576>>,
  <<"global", "log_max_size_mb", 1, 10240, 100>>,
  <<"global", "log_max_files", 1, 100, 5>>,
  <<"global", "stats_interval", 1, 3600, 10>>,
  <<"global", "session_timeout", 1, 86400, 0>>,
  <<"global", "tcp_syn_timeout", 1, 86400, 10>>,
  <<"global", "tcp_established_timeout", 1, 86400, 900>>,
  <<"global", "tcp_fin_timeout", 1, 86400, 10>>,
  <<"global", "tcp_timewait_timeout", 1, 86400, 10>>,
  <<"global", "tcp_close_timeout", 1, 86400, 5>>,
  <<"global", "udp_timeout", 1, 86400, 60>>,
  <<"healthcheck", "interval", 1, 3600, 5000>>,
  <<"healthcheck", "timeout", 10, 60000, 3000>>,
  <<"healthcheck", "failure_threshold", 1, 100, 3>>,
  <<"healthcheck", "success_threshold", 1, 100, 2>>}

Flags == {<<"global", "toa", FALSE>>, <<"global", "strip_tcp_timestamp", TRUE>>,
          <<"global", "log_stderr", TRUE>>, <<"healthcheck", "enabled", FALSE>>}

-----------------------------------------------------------------------------
(* Reading the file.                                                       *)

\* One line: the section it opens, or the value it gives a key of the current
\* section; a later value replaces an earlier one.
ReadLine(r, line) ==
  CASE ~r.ok \/ line.is = "skip" -> r
    [] r.ok /\ line.is = "section" ->
         [r EXCEPT !.cur = line.name, !.sections = @ \cup {line.name}]
    [] r.ok /\ line.is = "item" /\ r.cur # "" ->
         [r EXCEPT !.items = [k \in DOMAIN @ \cup {<<r.cur, line.key>>} |->
                                IF k = <<r.cur, line.key>> THEN line.value ELSE @[k]]]
    [] r.ok /\ (line.is = "bad" \/ (line.is = "item" /\ r.cur = "")) ->
         [r EXCEPT !.ok = FALSE]

parse_file(file) ==
  FoldLeft(ReadLine, [ok |-> TRUE, cur |-> "", sections |-> {}, items |-> [k \in {} |-> <<>>]],
           file)

get(r, section, key) ==
  IF <<section, key>> \in DOMAIN r.items THEN r.items[<<section, key>>] ELSE [is |-> "empty"]

\* get_u32, get_bool and get_ip succeed on a value of their kind and on none.
get_u32(r, section, key, lo, hi) ==
  LET v == get(r, section, key)
  IN  v.is = "empty" \/ (v.is = "num" /\ lo <= v.v /\ v.v <= hi)

get_bool(r, section, key) ==
  LET v == get(r, section, key)
  IN  v.is = "empty" \/ (v.is = "word" /\ v.v \in {"true", "false"})

get_ip(r, section, key) == get(r, section, key).is \in {"empty", "ip"}

\* The value of a key, or its default
Value(r, section, key, default) ==
  LET v == get(r, section, key) IN IF v.is = "empty" THEN default ELSE v.v

\* A key that is missing, or has one of the words allowed; an empty one has not.
Word(r, section, key, allowed) ==
  LET v == get(r, section, key)
  IN  <<section, key>> \notin DOMAIN r.items \/ (v.is = "word" /\ v.v \in allowed)

\* split at commas
List(v) == IF v.is = "empty" THEN <<>> ELSE v.v

-----------------------------------------------------------------------------
(* Services.                                                               *)

\* ip:port[:weight[:mac]]: a port of 0 is refused, a weight of 0 is not
parse_rs(value) ==
  /\ value.is = "rs" /\ value.parts \in {2, 3, 9}
  /\ value.ip.is = "ip"
  /\ value.port.is = "num" /\ value.port.v \in 1 .. 65535
  /\ value.parts >= 3 => value.weight.is = "num" /\ value.weight.v <= 65535
  /\ value.parts = 9 => value.mac_ok

RsConf(value) ==
  [ip |-> value.ip.v, port |-> value.port.v,
   weight |-> IF value.parts >= 3 THEN value.weight.v ELSE 1]

\* The keys serverN and rsN of a section in the order of N; the map has room for
\* one of them, and the key that comes later in the alphabet is kept.
Servers(r, name) ==
  LET Key(p, n) == p \o ToString(n)
      Has(key) == <<name, key>> \in DOMAIN r.items
      keys == SelectSeq([n \in 1 .. MaxKey |->
                           IF Has(Key("server", n)) THEN Key("server", n) ELSE Key("rs", n)], Has)
  IN  [i \in DOMAIN keys |-> get(r, name, keys[i])]

\* A [service.*] section
ServiceOk(r, name) ==
  /\ get(r, name, "vip").is = "ip"
  /\ get_u32(r, name, "port", 1, 65535) /\ get(r, name, "port").is # "empty"
  /\ Word(r, name, "proto", {"tcp", "udp"})
  /\ Word(r, name, "scheduler", {"wrr", "rr", "maglev", "consistent_hash"})
  /\ \A i \in DOMAIN Servers(r, name) : parse_rs(Servers(r, name)[i])

Service(vip, port, proto, sched, values) ==
  [vip |-> vip, port |-> port, proto |-> proto, sched |-> sched,
   rs |-> [i \in DOMAIN values |-> RsConf(values[i])]]

parse_service(r, name) ==
  Service(get(r, name, "vip").v, get(r, name, "port").v, Value(r, name, "proto", "tcp"),
          IF Value(r, name, "scheduler", "wrr") \in {"wrr", "rr"} THEN "WRR" ELSE "MAGLEV",
          Servers(r, name))

\* [vip] and [realserver]: a TCP and a UDP service for every port; servers above
\* count, and empty ones, are passed over.
LegacyServers(r) ==
  SelectSeq([i \in 1 .. Value(r, "realserver", "count", 0) |->
               get(r, "realserver", "server" \o ToString(i))],
            LAMBDA v : v.is # "empty")

LegacyPorts(r) ==
  IF <<"vip", "ports">> \in DOMAIN r.items THEN List(get(r, "vip", "ports"))
  ELSE <<[is |-> "num", v |-> 80]>>

LegacyOk(r) ==
  /\ get(r, "vip", "ip").is = "ip"
  /\ get_u32(r, "realserver", "count", 0, kMaxRsPerService)
  /\ \A i \in DOMAIN LegacyServers(r) : parse_rs(LegacyServers(r)[i])
  /\ \A i \in DOMAIN LegacyPorts(r) :
       LegacyPorts(r)[i].is = "num" /\ LegacyPorts(r)[i].v \in 1 .. 65535

parse_legacy_services(r) ==
  FlattenSeq([i \in DOMAIN LegacyPorts(r) |->
    LET Of(proto) == Service(get(r, "vip", "ip").v, LegacyPorts(r)[i].v, proto, "WRR",
                             LegacyServers(r))
    IN  <<Of("tcp"), Of("udp")>>])

NewSections(r) == SelectSeq(ServiceSections, LAMBDA s : s \in r.sections)

ServicesOk(r) ==
  IF NewSections(r) = <<>> THEN LegacyOk(r)
  ELSE \A i \in DOMAIN NewSections(r) : ServiceOk(r, NewSections(r)[i])

Services(r) ==
  IF NewSections(r) = <<>> THEN parse_legacy_services(r)
  ELSE [i \in DOMAIN NewSections(r) |-> parse_service(r, NewSections(r)[i])]

-----------------------------------------------------------------------------
(* build and validate.                                                     *)

Capped(t, limit) == IF t < limit THEN t ELSE limit

\* session_timeout stands in for two of the timeouts, and the short ones are
\* never longer than that of an established connection.
Timeouts(r) ==
  LET Num(key, default) == Value(r, "global", key, default)
      legacy == Num("session_timeout", 0)
      est == Num("tcp_established_timeout", IF legacy # 0 THEN legacy ELSE 900)
  IN  [tcp_established |-> est,
       udp |-> Num("udp_timeout", IF legacy # 0 THEN legacy ELSE 60),
       tcp_syn |-> Capped(Num("tcp_syn_timeout", 10), est),
       tcp_fin |-> Capped(Num("tcp_fin_timeout", 10), est),
       tcp_timewait |-> Capped(Num("tcp_timewait_timeout", 10), est),
       tcp_close |-> Capped(Num("tcp_close_timeout", 5), est)]

LocalIps(r) == List(get(r, "network", "local_ips"))

\* [network] vip_mac, or the older [vip] mac
VipMac(r) ==
  IF <<"network", "vip_mac">> \in DOMAIN r.items THEN get(r, "network", "vip_mac")
  ELSE get(r, "vip", "mac")

BuildOk(r) ==
  /\ Word(r, "global", "mode", {"nat", "fullnat", "dr"})
  /\ Word(r, "global", "steering", {"auto", "sw"})
  /\ Word(r, "global", "dataplane", {"rtc", "pipeline"})
  /\ \A n \in Numbers : get_u32(r, n[1], n[2], n[3], n[4])
  /\ \A f \in Flags : get_bool(r, f[1], f[2])
  /\ VipMac(r).is = "empty" \/ (VipMac(r).is = "mac" /\ VipMac(r).v)
  /\ \A key \in {"netmask", "gateway", "hc_src"} : get_ip(r, "network", key)
  /\ \A i \in DOMAIN LocalIps(r) : LocalIps(r)[i].is = "ip"
  /\ ServicesOk(r)

build(r) ==
  IF ~BuildOk(r) THEN Failed
  ELSE [ok |-> TRUE,
        mode |-> IF Value(r, "global", "mode", "nat") = "dr" THEN "DR" ELSE "NAT",
        dataplane |-> Value(r, "global", "dataplane", "rtc"),
        timeouts |-> Timeouts(r),
        toa |-> Value(r, "global", "toa", "false") = "true",
        strip |-> Value(r, "global", "strip_tcp_timestamp", "true") = "true",
        health |-> Value(r, "healthcheck", "enabled", "false") = "true",
        interval_ms |-> IF get(r, "healthcheck", "interval").is = "empty" THEN 5000
                        ELSE 1000 * get(r, "healthcheck", "interval").v,
        timeout_ms |-> Value(r, "healthcheck", "timeout", 3000),
        hc_src |-> Value(r, "network", "hc_src", NoIp),
        local_ips |-> [i \in DOMAIN LocalIps(r) |-> LocalIps(r)[i].v],
        services |-> Services(r)]

\* Mutant: only the ports of SNAT are kept free.
ReservedSnat(port) == port \in kNatPortMin .. kNatPortMax

\* Ports a service must not use on an address of the load balancer itself
Reserved(port) == port \in kNatPortMin .. kHcPortMax

\* What validate fills in: a local address, and the source of health checks
WithDefaults(c) ==
  LET lips == IF c.mode = "NAT" /\ c.local_ips = <<>> THEN <<c.services[1].vip>> ELSE c.local_ips
  IN  [c EXCEPT !.local_ips = lips,
                !.hc_src = IF @ = NoIp /\ lips # <<>> THEN lips[1] ELSE @]

ServicesValid(services) ==
  /\ Len(services) \in 1 .. kMaxServices
  /\ \A i \in DOMAIN services : Len(services[i].rs) \in 1 .. kMaxRsPerService
  /\ \A i, j \in DOMAIN services :
       i # j => <<services[i].vip, services[i].port, services[i].proto>>
                  # <<services[j].vip, services[j].port, services[j].proto>>

AddressesValid(c) ==
  /\ Len(c.local_ips) <= kMaxLocalIps
  /\ c.health => c.hc_src # NoIp
  /\ c.mode = "DR" => \A i \in DOMAIN c.services : c.services[i].vip # c.hc_src
  /\ \A i \in DOMAIN c.services :
       c.services[i].vip \in ToSet(c.local_ips) \cup ({c.hc_src} \ {NoIp})
         => ~Reserved(c.services[i].port)

validate(c) ==
  IF c.ok /\ ServicesValid(c.services) /\ AddressesValid(WithDefaults(c))
  THEN WithDefaults(c) ELSE Failed

load(file) ==
  LET r == parse_file(file) IN IF r.ok THEN validate(build(r)) ELSE Failed

=============================================================================
