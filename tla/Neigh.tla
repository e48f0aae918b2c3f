------------------------------- MODULE Neigh -------------------------------
(***************************************************************************)
(* The neighbor table (src/net/neigh.cpp), the master thread that keeps it *)
(* (src/dataplane/master.cpp), and the MAC caches that workers keep in     *)
(* their sessions (resolve_mac in src/core/processor.cpp).  Only the       *)
(* master writes the table; a worker reads it without a lock and trusts    *)
(* its cached MAC as long as the table's generation is the one it cached.  *)
(*                                                                         *)
(* Generations are only compared for equality.  gen_ itself is left out: a *)
(* cache is current or not, a worker's loaded generation is the present    *)
(* one or an older one, and every advance of gen_ makes all of them old.   *)
(* That is exact while fewer than 2^32 changes are made.  Times are        *)
(* seconds since an event, capped where the code stops telling them apart. *)
(***************************************************************************)
EXTENDS Integers, Sequences, FiniteSets

CONSTANTS
  Ips,            \* addresses that may have a neighbor entry
  Macs, NoMac,    \* MAC addresses, and that of a missing entry
  MacsOf,         \* the MACs an address is seen with, one at a time
  NoIp,           \* next hop 0: unreachable
  OnLink,         \* addresses of the local network: Route::on_link
  Gateway,        \* Route::gateway, NoIp when there is none
  Static,         \* RSs with a configured MAC: main's add_static
  StaticMac,
  Caches,         \* the MAC caches: one towards the RS, one to the client
  ClientCaches,   \* those towards clients
  Dest, Client,   \* the address a cache is about, the client of its session
  Unasked,        \* addresses that may send ARP replies nobody asked for
  Good,           \* neighbors whose answers arrive, all of them in the second
  Lossy,          \* neighbors some of whose answers arrive
  Capacity,       \* kCapacity
  Reachable, Refresh,      \* kReachableSec, kRefreshSec
  RequestGap, RefreshGap,  \* kRequestGapSec, and five times that
  MaxStep,        \* bound: seconds between two rounds of the master's loop
  RingSize,       \* free entries of an empty master_ring
  Burst           \* events drain_master_events takes at once: 64

ASSUME NeighConstants ==
  /\ NoMac \notin Macs /\ NoIp \notin Ips
  /\ IsFiniteSet(Ips)
  /\ Dest \in [Caches -> Ips] /\ Client \in [Caches -> Ips]
  /\ StaticMac \in [Static -> Macs]
  /\ MacsOf \in [Ips -> SUBSET Macs]
  /\ OnLink \subseteq Ips /\ Static \subseteq Ips /\ Good \cup Lossy \subseteq Ips \ Static
  /\ Gateway \in OnLink \cup {NoIp}
  /\ ClientCaches \subseteq Caches
  /\ Capacity \in Nat /\ RingSize \in Nat \ {0} /\ Burst \in 1 .. RingSize /\ MaxStep \in Nat \ {0}
  /\ Reachable \in Nat \ {0} /\ Refresh \in 0 .. Reachable
  /\ RequestGap \in 1 .. Reachable /\ RefreshGap \in 1 .. Reachable

next_hop(dst) == IF dst \in OnLink THEN dst ELSE Gateway
Hop(k) == next_hop(Dest[k])

\* What preresolve() asks for: the gateway and the next hops of the RSs.
Needed == ({Gateway} \cup {Hop(k) : k \in Caches \ ClientCaches}) \ {NoIp}

NoMeta == [valid |-> FALSE, idle |-> Reachable, req |-> Reachable + 1]
Metas == [valid : BOOLEAN, idle : 0 .. Reachable, req : 0 .. Reachable + 1]
Events == [type : {"ARP_FOR_US", "ARP_REPLY", "NEIGH_HINT"}, ip : Ips, mac : Macs]
            \cup [type : {"NEIGH_MISS"}, ip : Ips]

VARIABLES
  table,     \* hash_: address -> MAC
  meta,      \* meta_: valid, now - confirmed, now - requested
  count,     \* count_
  mpc,       \* where the master is: "bump_*" is just before gen_.fetch_add
  dead,      \* age()'s local dead
  due,       \* a second has passed since the last age()
  ring,      \* master_ring
  evs,       \* drain_master_events' local evs, from the next event on
  more,      \* its n == 64: there may be more to take
  cache,     \* Session::rs_mac or cli_mac
  current,   \* caches whose Session::*_mac_gen equals gen_
  loaded,    \* resolve_mac's local gen: "none", the "present" one, or an "old"
  asked      \* addresses that got an ARP request they have not answered

tabvars == <<table, meta, count>>
wrkvars == <<cache, current, loaded>>
vars == <<tabvars, mpc, dead, due, ring, evs, more, wrkvars, asked>>

drnvars == <<evs, more>>

AtMost(x, max) == IF x > max THEN max ELSE x

Init ==
  /\ table = [ip \in Ips |-> IF ip \in Static THEN StaticMac[ip] ELSE NoMac]
  /\ meta = [ip \in Ips |-> NoMeta]
  /\ count = Cardinality(Static)
  /\ mpc = "top" /\ dead = {} /\ due = FALSE
  /\ ring = <<>> /\ evs = <<>> /\ more = FALSE
  /\ cache = [k \in Caches |-> NoMac]
  /\ current = {}
  /\ loaded = [k \in Caches |-> "none"]
  /\ asked = {}

\* post_master_event: a full ring loses the event.
Post(ev) == ring' = IF Len(ring) < RingSize THEN Append(ring, ev) ELSE ring

-----------------------------------------------------------------------------
(* Workers.                                                                *)

\* resolve_mac with a cache that is not current; a current one is used as it is.
ReadGen(k) ==
  /\ loaded[k] = "none" /\ k \notin current
  /\ loaded' = [loaded EXCEPT ![k] = "present"]
  /\ UNCHANGED <<tabvars, mpc, dead, due, drnvars, ring, cache, current, asked>>

\* lookup() and its caching, with the generation loaded before; a miss asks the master and leaves the cache alone.
Lookup(k) ==
  /\ loaded[k] # "none"
  /\ loaded' = [loaded EXCEPT ![k] = "none"]
  /\ IF Hop(k) # NoIp /\ table[Hop(k)] # NoMac
     THEN /\ cache' = [cache EXCEPT ![k] = table[Hop(k)]]
          /\ current' = IF loaded[k] = "present" THEN current \cup {k} ELSE current
          /\ UNCHANGED ring
     ELSE /\ IF Hop(k) # NoIp THEN Post([type |-> "NEIGH_MISS", ip |-> Hop(k)])
             ELSE UNCHANGED ring
          /\ UNCHANGED <<cache, current>>
  /\ UNCHANGED <<tabvars, mpc, dead, due, drnvars, asked>>

\* A new session takes the cache's place, with generation 0; a client of the
\* local network is hinted to the master.
NewSession(k) ==
  /\ loaded[k] = "none"
  /\ cache' = [cache EXCEPT ![k] = NoMac]
  /\ current' = current \ {k}
  /\ IF Client[k] \in OnLink
     THEN \E mac \in MacsOf[Client[k]] :
            Post([type |-> "NEIGH_HINT", ip |-> Client[k], mac |-> mac])
     ELSE UNCHANGED ring
  /\ UNCHANGED <<tabvars, mpc, dead, due, drnvars, loaded, asked>>

\* handle_arp: a reply to us, asked for or not, or a request for one of our
\* addresses, with whatever MAC its sender has now.  The answer of a neighbor in
\* Good is not lost.
ArpReply(ip) ==
  /\ ip \in asked \cup Unasked
  /\ ip \in Good => Len(ring) < RingSize
  /\ asked' = asked \ {ip}
  /\ \E mac \in MacsOf[ip] : Post([type |-> "ARP_REPLY", ip |-> ip, mac |-> mac])
  /\ UNCHANGED <<tabvars, mpc, dead, due, drnvars, wrkvars>>

ArpForUs(ip) ==
  /\ ip \in OnLink
  /\ \E mac \in MacsOf[ip] : Post([type |-> "ARP_FOR_US", ip |-> ip, mac |-> mac])
  /\ UNCHANGED <<tabvars, mpc, dead, due, drnvars, wrkvars, asked>>

Worker ==
  \/ \E k \in Caches : ReadGen(k) \/ Lookup(k) \/ NewSession(k)
  \/ \E ip \in Ips : ArpReply(ip) \/ ArpForUs(ip)

-----------------------------------------------------------------------------
(* The master.                                                             *)

\* The top of a round, d seconds after the last.
LoopTop(d) ==
  /\ mpc = "top"
  /\ d > 0 => Good \cap asked = {}
  /\ meta' = [ip \in Ips |->
                [meta[ip] EXCEPT !.idle = AtMost(@ + d, Reachable),
                                 !.req = AtMost(@ + d, Reachable + 1)]]
  /\ due' = (due \/ d > 0)
  /\ mpc' = "drain"
  /\ UNCHANGED <<table, count, dead, ring, drnvars, wrkvars, asked>>

Full == Cardinality({ip \in Ips : table[ip] # NoMac}) >= Capacity

\* store() followed by "confirmed = now": the entry, then its metadata and the
\* count; the generation follows in Bump.  A full hash refuses a new key.
Store(ip, mac) ==
  IF table[ip] = NoMac /\ Full
  THEN UNCHANGED <<tabvars, mpc>>
  ELSE /\ table' = [table EXCEPT ![ip] = mac]
       /\ count' = IF meta[ip].valid THEN count ELSE count + 1
       /\ meta' = [meta EXCEPT ![ip] = [valid |-> TRUE, idle |-> 0, req |-> @.req]]
       /\ mpc' = "bump_handle"

learn(ip, mac, solicited) ==
  IF \/ ip \in Static
     \/ ~solicited /\ ~meta[ip].valid /\ count >= Capacity \div 2
  THEN UNCHANGED <<tabvars, mpc>>
  ELSE IF meta[ip].valid /\ table[ip] = mac
  THEN /\ meta' = [meta EXCEPT ![ip].idle = 0]
       /\ UNCHANGED <<table, count, mpc>>
  ELSE Store(ip, mac)

hint(ip, mac) ==
  IF ip \in Static \/ meta[ip].valid \/ count >= Capacity \div 2
  THEN UNCHANGED <<tabvars, mpc>>
  ELSE Store(ip, mac)

\* Mutant: an address without metadata is not asked for.
want_requestKnown(ip) ==
  ip \notin Static /\ meta[ip] # NoMeta /\ meta[ip].req >= RequestGap

want_request(ip) == ip \notin Static /\ meta[ip].req >= RequestGap

request_neigh(ip) ==
  /\ IF want_request(ip)
     THEN meta' = [meta EXCEPT ![ip].req = 0] /\ asked' = asked \cup {ip}
     ELSE UNCHANGED <<meta, asked>>
  /\ UNCHANGED <<table, count, mpc>>

\* One burst of drain_master_events.
DrainBurst ==
  LET n == AtMost(Len(ring), Burst)
  IN  /\ mpc = "drain" /\ mpc' = "handle"
      /\ evs' = SubSeq(ring, 1, n)
      /\ ring' = SubSeq(ring, n + 1, Len(ring))
      /\ more' = (n = Burst)
      /\ UNCHANGED <<tabvars, dead, due, wrkvars, asked>>

\* One event of the burst.
Handle ==
  LET ev == Head(evs)
  IN  /\ mpc = "handle" /\ evs # <<>>
      /\ evs' = Tail(evs)
      /\ IF ev.type = "NEIGH_MISS" THEN request_neigh(ev.ip)
         ELSE /\ CASE ev.type = "ARP_FOR_US" -> learn(ev.ip, ev.mac, FALSE)
                   [] ev.type = "ARP_REPLY"  -> learn(ev.ip, ev.mac, TRUE)
                   [] ev.type = "NEIGH_HINT" -> hint(ev.ip, ev.mac)
              /\ UNCHANGED asked
      /\ UNCHANGED <<dead, due, ring, more, wrkvars>>

\* gen_.fetch_add: every cache and every loaded generation is now old.
Bump ==
  /\ mpc \in {"bump_handle", "bump_age"}
  /\ mpc' = IF mpc = "bump_age" THEN "age" ELSE "handle"
  /\ current' = {}
  /\ loaded' = [k \in Caches |-> IF loaded[k] = "none" THEN "none" ELSE "old"]
  /\ UNCHANGED <<tabvars, dead, due, ring, drnvars, cache, asked>>

\* The burst is handled: another one, or master_periodic, where age() may be due.
BurstDone ==
  /\ mpc = "handle" /\ evs = <<>>
  /\ mpc' = IF more THEN "drain" ELSE IF due THEN "age" ELSE "top"
  /\ dead' = IF ~more /\ due
             THEN {ip \in Ips : meta[ip].valid /\ meta[ip].idle >= Reachable}
             ELSE {}
  /\ UNCHANGED <<tabvars, due, ring, drnvars, wrkvars, asked>>

\* Mutant: an erased entry is still counted.
CountAfterEraseKept(ip) == count

CountAfterErase(ip) == count - 1

\* Mutant: erase() does not advance the generation.
AfterEraseSilent == "age"

AfterErase == "bump_age"

\* erase() of one dead entry, up to its gen_.fetch_add.
Erase(ip) ==
  /\ mpc = "age" /\ ip \in dead
  /\ dead' = dead \ {ip}
  /\ table' = [table EXCEPT ![ip] = NoMac]
  /\ meta' = [meta EXCEPT ![ip] = NoMeta]
  /\ count' = CountAfterErase(ip)
  /\ mpc' = AfterErase
  /\ UNCHANGED <<due, ring, drnvars, wrkvars, asked>>

\* Mutant: entries are refreshed when it is time to erase them.
RefreshableLate(ip) == meta[ip].valid /\ meta[ip].idle >= Reachable

Refreshable(ip) ==
  meta[ip].valid /\ meta[ip].idle >= Refresh /\ meta[ip].req >= RefreshGap

\* The rest of age(), and preresolve(): requests that refresh entries, metadata
\* of addresses that were asked for in vain is dropped, missing ones are asked for.
AgeEnd ==
  LET refresh == {ip \in Ips : Refreshable(ip)}
      Old(ip) == ~meta[ip].valid /\ meta[ip].req > Reachable
      miss == {ip \in Needed : table[ip] = NoMac /\ want_request(ip)}
  IN  /\ mpc = "age" /\ dead = {}
      /\ meta' = [ip \in Ips |->
                    IF ip \in refresh \cup miss THEN [meta[ip] EXCEPT !.req = 0]
                    ELSE IF Old(ip) THEN NoMeta ELSE meta[ip]]
      /\ asked' = asked \cup refresh \cup miss
      /\ due' = FALSE
      /\ mpc' = "top"
      /\ UNCHANGED <<table, count, dead, ring, drnvars, wrkvars>>

Master ==
  \/ \E d \in 0 .. MaxStep : LoopTop(d)
  \/ DrainBurst \/ Handle \/ BurstDone \/ Bump \/ AgeEnd
  \/ \E ip \in dead : Erase(ip)

Next == Worker \/ Master

Spec == Init /\ [][Next]_vars

\* The master's loop and its clock go on, it takes events out faster than the
\* workers put them in for ever (again and again a burst is short), neighbors in
\* Good answer, and those in Lossy get answers through if asked without end.
FairSpec ==
  /\ Spec
  /\ WF_vars(Master)
  /\ SF_vars(\E d \in 1 .. MaxStep : LoopTop(d))
  /\ []<>(~more)
  /\ \A ip \in Good : SF_vars(ArpReply(ip))
  /\ \A ip \in Lossy :
       \/ <>[](ip \notin asked)
       \/ []<><<Len(ring) < RingSize /\ ArpReply(ip)>>_vars

-----------------------------------------------------------------------------
(* Properties.                                                             *)

\* Every variable has its type.
TypeOK ==
  /\ table \in [Ips -> Macs \cup {NoMac}]
  /\ meta \in [Ips -> Metas]
  /\ count \in Int
  /\ mpc \in {"top", "drain", "handle", "bump_handle", "age", "bump_age"}
  /\ dead \subseteq Ips /\ due \in BOOLEAN
  /\ ring \in Seq(Events) /\ Len(ring) <= RingSize
  /\ evs \in Seq(Events) /\ more \in BOOLEAN
  /\ cache \in [Caches -> Macs \cup {NoMac}]
  /\ current \subseteq Caches
  /\ loaded \in [Caches -> {"none", "present", "old"}]
  /\ asked \subseteq Ips

\* A session that skips the lookup because the generation has not changed uses
\* the MAC the lookup would return, however its lookup and the master's store
\* and erase interleaved; the only exception is the moment between a change of
\* the table and the advance of the generation.
CacheFresh ==
  mpc \notin {"bump_handle", "bump_age"} =>
    \A k \in current : cache[k] # NoMac /\ cache[k] = table[Hop(k)]

\* The hash, the metadata that ages its entries and the count that limits them
\* agree: no entry escapes ageing, none is counted twice or forgotten.
TableExact ==
  /\ \A ip \in Ips : table[ip] # NoMac <=> ip \in Static \/ meta[ip].valid
  /\ count = Cardinality({ip \in Ips : table[ip] # NoMac})
  /\ \A ip \in dead : meta[ip].valid

\* The times leave room for it: an entry that is just not due for a request in
\* one second has its answer, or its request, before it is old.
RefreshInTime == Refresh + MaxStep <= Reachable /\ RefreshGap + MaxStep <= Reachable

\* The entry of a neighbor that answers is never aged out: the refresh request
\* and its answer come before the entry's time is over.
InUseStays ==
  [][\A ip \in Good : table[ip] # NoMac => table'[ip] # NoMac]_vars

\* The gateway and the next hop of every RS come to be known if they answer,
\* although events are lost when the ring is full and requests are rationed.
NextHopFound ==
  \A ip \in (Good \cup Lossy) \cap Needed : table[ip] = NoMac ~> table[ip] # NoMac

=============================================================================
