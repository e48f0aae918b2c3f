----------------------------- MODULE NeighProofs -----------------------------
(***************************************************************************)
(* Proofs about Neigh, for any addresses, caches, capacity, times and ring *)
(* size.                                                                   *)
(***************************************************************************)
EXTENDS Neigh, FiniteSetTheorems, TLAPS

Changing == {"bump_handle", "bump_age"}

\* The part of the state the argument is about.  Configured entries have no
\* metadata, so that age() never erases them.
NeighType ==
  /\ table \in [Ips -> Macs \cup {NoMac}]
  /\ meta \in [Ips -> Metas]
  /\ count \in Int
  /\ dead \subseteq Ips
  /\ cache \in [Caches -> Macs \cup {NoMac}]
  /\ current \subseteq Caches

EventsOK ==
  /\ ring \in Seq(Events)
  /\ evs \in Seq(Events)

\* A burst is handled before age() starts and age() before the next burst.
DeadOK ==
  /\ dead # {} => mpc \in {"age", "bump_age"}
  /\ mpc \in {"top", "drain", "handle", "bump_handle", "age", "bump_age"}

StaticOK == \A ip \in Static : ~meta[ip].valid

IInv == NeighType /\ EventsOK /\ DeadOK /\ StaticOK /\ TableExact /\ CacheFresh

Known(t) == {ip \in Ips : t[ip] # NoMac}

-----------------------------------------------------------------------------
(* Counting the entries.                                                   *)

LEMMA KnownFinite ==
  ASSUME NEW t PROVE IsFiniteSet(Known(t))
BY FS_Subset, NeighConstants, Zenon DEF Known

LEMMA CountSet ==
  ASSUME NEW t \in [Ips -> Macs \cup {NoMac}], NEW ip \in Ips, NEW mac \in Macs
  PROVE  Cardinality(Known([t EXCEPT ![ip] = mac])) =
           IF t[ip] = NoMac THEN Cardinality(Known(t)) + 1 ELSE Cardinality(Known(t))
<1> DEFINE u == [t EXCEPT ![ip] = mac]
<1>1. Known(u) = Known(t) \cup {ip}
  BY NeighConstants DEF Known
<1>2. t[ip] = NoMac <=> ip \notin Known(t)
  BY DEF Known
<1>. QED BY <1>1, <1>2, KnownFinite, FS_AddElement, Zenon

LEMMA CountClear ==
  ASSUME NEW t \in [Ips -> Macs \cup {NoMac}], NEW ip \in Ips, t[ip] # NoMac
  PROVE  Cardinality(Known([t EXCEPT ![ip] = NoMac])) = Cardinality(Known(t)) - 1
<1> DEFINE u == [t EXCEPT ![ip] = NoMac]
<1>1. Known(u) = Known(t) \ {ip} /\ ip \in Known(t)
  BY DEF Known
<1>. QED BY <1>1, KnownFinite, FS_RemoveElement, Zenon

-----------------------------------------------------------------------------
(* The master's changes of the table.                                      *)

\* What a step that may change the table owes: the table and its metadata still
\* agree, and a changed table is followed by the advance of the generation.
Agrees ==
  /\ NeighType' /\ StaticOK' /\ TableExact'
  /\ table' # table => mpc' \in Changing

LEMMA StoreAgrees ==
  ASSUME IInv, mpc = "handle", NEW ip \in Ips \ Static, NEW mac \in Macs, Store(ip, mac),
         UNCHANGED <<dead, cache, current>>
  PROVE  Agrees /\ mpc' \in {mpc, "bump_handle"}
<1> USE DEF Agrees, Changing
<1>1. CASE table[ip] = NoMac /\ Full
  BY <1>1, Zenon DEF Store, tabvars, IInv, NeighType, StaticOK, TableExact
<1>2. CASE ~(table[ip] = NoMac /\ Full)
  <2>1. /\ table' = [table EXCEPT ![ip] = mac]
        /\ count' = IF meta[ip].valid THEN count ELSE count + 1
        /\ meta' = [meta EXCEPT ![ip] = [valid |-> TRUE, idle |-> 0, req |-> meta[ip].req]]
        /\ mpc' = "bump_handle"
    BY <1>2, Zenon DEF Store
  <2>2. meta' \in [Ips -> Metas] /\ meta'[ip].valid
        /\ \A x \in Ips : x # ip => meta'[x] = meta[x]
    BY <2>1, NeighConstants DEF IInv, NeighType, Metas
  <2>3. NeighType' /\ StaticOK'
    BY <2>1, <2>2 DEF IInv, NeighType, StaticOK
  <2>4. meta[ip].valid <=> table[ip] # NoMac
    BY Zenon DEF IInv, TableExact
  <2>5. count = Cardinality(Known(table))
    BY Zenon DEF IInv, TableExact, Known
  <2>6. count' = Cardinality(Known(table'))
    BY <2>1, <2>4, <2>5, CountSet, KnownFinite, FS_CardinalityType, ZenonT(40) DEF IInv, NeighType
  <2>7. \A x \in Ips : table'[x] # NoMac <=> x \in Static \/ meta'[x].valid
    BY <2>1, <2>2, NeighConstants, Zenon DEF IInv, NeighType, TableExact
  <2>8. dead' = {}
    BY DEF IInv, DeadOK
  <2>. QED BY <2>1, <2>3, <2>6, <2>7, <2>8, Zenon DEF TableExact, Known
<1>. QED BY <1>1, <1>2

LEMMA HandleAgrees ==
  ASSUME IInv, Handle
  PROVE  Agrees /\ mpc' \in {mpc, "bump_handle"} /\ mpc = "handle" /\ EventsOK'
<1> DEFINE ev == Head(evs)
<1>1. /\ mpc = "handle" /\ ev \in Events /\ evs' = Tail(evs)
      /\ UNCHANGED <<dead, ring, cache, current>>
  BY DEF Handle, IInv, EventsOK, wrkvars
<1>2. EventsOK'
  BY <1>1 DEF Handle, IInv, EventsOK
<1>3. CASE ev.type = "NEIGH_MISS"
  <2>1. request_neigh(ev.ip) /\ ev.ip \in Ips
    BY <1>1, <1>3, Zenon DEF Handle, Events
  <2>2. \A x \in Ips : meta'[x].valid = meta[x].valid
    BY <2>1 DEF request_neigh, IInv, NeighType, Metas
  <2>3. meta' \in [Ips -> Metas]
    <3> DEFINE m == [meta[ev.ip] EXCEPT !.req = 0]
    <3>1. m \in Metas
      <4>1. meta[ev.ip] \in Metas
        BY <2>1, Zenon DEF IInv, NeighType
      <4>2. 0 \in 0 .. Reachable + 1
        BY NeighConstants
      <4>. QED BY <4>1, <4>2, Zenon DEF Metas
    <3>2. meta' \in {meta, [meta EXCEPT ![ev.ip] = m]}
      BY <2>1, Zenon DEF request_neigh
    <3> HIDE DEF m
    <3>. QED BY <2>1, <3>1, <3>2 DEF IInv, NeighType
  <2>4. UNCHANGED <<table, count, mpc>>
    BY <2>1, Zenon DEF request_neigh
  <2>. QED BY <1>1, <1>2, <2>2, <2>3, <2>4, NeighConstants, Zenon
         DEF IInv, NeighType, StaticOK, TableExact, Agrees
<1>4. CASE ev.type # "NEIGH_MISS"
  <2>1. /\ ev.ip \in Ips /\ ev.mac \in Macs
        /\ \/ \E sol \in BOOLEAN : learn(ev.ip, ev.mac, sol)
           \/ hint(ev.ip, ev.mac)
    BY <1>1, <1>4, Zenon DEF Handle, Events
  <2>2. CASE UNCHANGED <<tabvars, mpc>>
    BY <1>1, <1>2, <2>2, Zenon DEF tabvars, IInv, NeighType, StaticOK, TableExact, Agrees
  <2>3. CASE /\ UNCHANGED <<table, count, mpc>>
             /\ meta' = [meta EXCEPT ![ev.ip].idle = 0]
    <3>1. meta' \in [Ips -> Metas] /\ \A x \in Ips : meta'[x].valid = meta[x].valid
      BY <2>1, <2>3, NeighConstants DEF IInv, NeighType, Metas
    <3>. QED BY <1>1, <1>2, <2>3, <3>1, NeighConstants
           DEF IInv, NeighType, StaticOK, TableExact, Agrees
  <2>4. CASE ev.ip \notin Static /\ Store(ev.ip, ev.mac)
    BY <1>1, <1>2, <2>1, <2>4, StoreAgrees, Zenon
  <2>. QED BY <2>1, <2>2, <2>3, <2>4, Zenon DEF learn, hint
<1>. QED BY <1>3, <1>4

LEMMA EraseAgrees ==
  ASSUME IInv, NEW ip \in dead, Erase(ip)
  PROVE  Agrees /\ mpc' = "bump_age" /\ mpc = "age"
<1>1. /\ mpc = "age" /\ mpc' = "bump_age" /\ dead' = dead \ {ip}
      /\ table' = [table EXCEPT ![ip] = NoMac]
      /\ meta' = [meta EXCEPT ![ip] = NoMeta]
      /\ count' = count - 1
      /\ UNCHANGED <<cache, current>>
  BY DEF Erase, AfterErase, CountAfterErase, wrkvars
<1>2. ip \in Ips /\ meta[ip].valid /\ ip \notin Static /\ table[ip] # NoMac
  BY DEF IInv, NeighType, TableExact, StaticOK
<1>3. NoMeta \in Metas /\ ~NoMeta.valid
  BY NeighConstants DEF NoMeta, Metas
<1>4. NeighType' /\ StaticOK'
  BY <1>1, <1>2, <1>3, NeighConstants DEF IInv, NeighType, StaticOK
<1>5. count = Cardinality(Known(table))
  BY DEF IInv, TableExact, Known
<1>6. count' = Cardinality(Known(table'))
  BY <1>1, <1>2, <1>5, CountClear, Zenon DEF IInv, NeighType
<1>7. \A x \in Ips : table'[x] # NoMac <=> x \in Static \/ meta'[x].valid
  BY <1>1, <1>2, <1>3, Zenon DEF IInv, NeighType, TableExact
<1>8. \A x \in dead' : meta'[x].valid
  BY <1>1, Zenon DEF IInv, NeighType, TableExact
<1>. QED BY <1>1, <1>4, <1>6, <1>7, <1>8, Zenon DEF Agrees, Changing, TableExact, Known

LEMMA AgeEndAgrees ==
  ASSUME IInv, AgeEnd
  PROVE  Agrees /\ UNCHANGED table
<1>1. UNCHANGED <<table, count, dead, cache, current>>
  BY DEF AgeEnd, wrkvars
<1>2. NoMeta \in Metas /\ NoMeta.valid = FALSE
  BY NeighConstants DEF NoMeta, Metas
<1>3. ASSUME NEW ip \in Ips PROVE meta'[ip] \in Metas /\ meta'[ip].valid = meta[ip].valid
  <2> DEFINE m == [meta[ip] EXCEPT !.req = 0]
  <2>1. m \in Metas /\ m.valid = meta[ip].valid
    BY NeighConstants DEF IInv, NeighType, Metas
  <2>2. \/ meta'[ip] = m
        \/ meta'[ip] = NoMeta /\ ~meta[ip].valid
        \/ meta'[ip] = meta[ip]
    BY Zenon DEF AgeEnd
  <2>3. meta[ip] \in Metas /\ meta[ip].valid \in BOOLEAN
    BY DEF IInv, NeighType, Metas
  <2> HIDE DEF m
  <2>. QED BY <1>2, <2>1, <2>2, <2>3, Zenon
<1>4. meta' \in [Ips -> Metas]
  <2>1. meta' = [ip \in Ips |-> meta'[ip]]
    BY DEF AgeEnd
  <2>. QED BY <1>3, <2>1
<1>. QED BY <1>1, <1>3, <1>4, NeighConstants, Zenon
       DEF IInv, NeighType, StaticOK, TableExact, Agrees

LEMMA LoopTopAgrees ==
  ASSUME IInv, NEW d \in 0 .. MaxStep, LoopTop(d)
  PROVE  Agrees /\ UNCHANGED table
<1>1. UNCHANGED <<table, count, dead, cache, current>>
  BY Zenon DEF LoopTop, wrkvars
<1>2. ASSUME NEW ip \in Ips PROVE meta'[ip] \in Metas /\ meta'[ip].valid = meta[ip].valid
  <2>1. /\ meta[ip] \in Metas
        /\ meta[ip].idle \in 0 .. Reachable /\ meta[ip].req \in 0 .. Reachable + 1
    BY DEF IInv, NeighType, Metas
  <2>2. /\ AtMost(meta[ip].idle + d, Reachable) \in 0 .. Reachable
        /\ AtMost(meta[ip].req + d, Reachable + 1) \in 0 .. Reachable + 1
    BY <2>1, NeighConstants DEF AtMost
  <2>3. meta'[ip] = [meta[ip] EXCEPT !.idle = AtMost(meta[ip].idle + d, Reachable),
                                    !.req = AtMost(meta[ip].req + d, Reachable + 1)]
    BY Zenon DEF LoopTop
  <2>. QED BY <2>1, <2>2, <2>3, Zenon DEF Metas
<1>3. meta' \in [Ips -> Metas]
  <2>1. meta' = [ip \in Ips |-> meta'[ip]]
    BY Zenon DEF LoopTop
  <2>. QED BY <1>2, <2>1, SMTT(20)
<1>. QED BY <1>1, <1>2, <1>3, NeighConstants, Zenon
       DEF IInv, NeighType, StaticOK, TableExact, Agrees

-----------------------------------------------------------------------------
(* The invariant.                                                          *)

LEMMA NeighInit == Init => IInv
<1> SUFFICES ASSUME Init PROVE IInv
  OBVIOUS
<1>1. table \in [Ips -> Macs \cup {NoMac}]
  BY NeighConstants, Zenon DEF Init
<1>2. NoMeta \in Metas /\ ~NoMeta.valid
  BY NeighConstants DEF NoMeta, Metas
<1>3. {ip \in Ips : table[ip] # NoMac} = Static
  BY NeighConstants, Zenon DEF Init
<1>4. count \in Int
  BY NeighConstants, FS_Subset, FS_CardinalityType DEF Init
<1>5. NeighType /\ EventsOK /\ DeadOK
  BY <1>1, <1>2, <1>4 DEF Init, NeighType, EventsOK, DeadOK
<1>6. StaticOK /\ TableExact
  BY <1>2, <1>3, NeighConstants, Zenon DEF Init, StaticOK, TableExact
<1>. QED BY <1>5, <1>6 DEF Init, IInv, CacheFresh

LEMMA PostOK ==
  ASSUME EventsOK, NEW ev \in Events, Post(ev)
  PROVE  ring' \in Seq(Events)
BY DEF EventsOK, Post

LEMMA HopIsIp ==
  ASSUME NEW k \in Caches, Hop(k) # NoIp
  PROVE  Hop(k) \in Ips
BY NeighConstants, Zenon DEF Hop, next_hop

\* A step of a worker: the table stays, and a cache that becomes current has the
\* entry the table has now.
LEMMA WorkerStep ==
  ASSUME IInv, Worker
  PROVE  IInv'
<1>1. UNCHANGED <<table, meta, count, mpc, dead, evs>>
  BY Zenon DEF Worker, ReadGen, Lookup, NewSession, ArpReply, ArpForUs, tabvars, drnvars
<1>2. DeadOK' /\ StaticOK' /\ TableExact'
  BY <1>1, Zenon DEF IInv, DeadOK, StaticOK, TableExact
<1> SUFFICES /\ ring' \in Seq(Events) /\ cache' \in [Caches -> Macs \cup {NoMac}]
             /\ current' \subseteq Caches /\ CacheFresh'
  BY <1>1, <1>2 DEF IInv, NeighType, EventsOK
<1>3. ASSUME NEW k \in Caches, ReadGen(k)
      PROVE  UNCHANGED <<ring, cache, current>>
  BY <1>3 DEF ReadGen
<1>4. ASSUME NEW k \in Caches, Lookup(k)
      PROVE  /\ ring' \in Seq(Events) /\ cache' \in [Caches -> Macs \cup {NoMac}]
             /\ current' \subseteq Caches /\ CacheFresh'
  <2>1. CASE Hop(k) # NoIp /\ table[Hop(k)] # NoMac
    <3>1. /\ cache' = [cache EXCEPT ![k] = table[Hop(k)]]
          /\ current' \in {current, current \cup {k}} /\ ring' = ring
      BY <1>4, <2>1, Zenon DEF Lookup
    <3>2. table[Hop(k)] \in Macs \cup {NoMac}
      BY <2>1, HopIsIp DEF IInv, NeighType
    <3>3. CacheFresh'
      BY <1>1, <2>1, <3>1, Zenon DEF IInv, NeighType, CacheFresh
    <3>. QED BY <3>1, <3>2, <3>3 DEF IInv, NeighType, EventsOK
  <2>2. CASE ~(Hop(k) # NoIp /\ table[Hop(k)] # NoMac)
    <3>1. UNCHANGED <<cache, current>>
      BY <1>4, <2>2, Zenon DEF Lookup
    <3>2. CASE Hop(k) # NoIp
      <4>1. [type |-> "NEIGH_MISS", ip |-> Hop(k)] \in Events
        BY <3>2, HopIsIp DEF Events
      <4>2. Post([type |-> "NEIGH_MISS", ip |-> Hop(k)])
        BY <1>4, <2>2, <3>2, Zenon DEF Lookup
      <4>3. ring' \in Seq(Events)
        BY <4>1, <4>2, PostOK DEF IInv
      <4>. QED BY <1>1, <3>1, <4>3, Zenon DEF IInv, NeighType, CacheFresh
    <3>3. CASE Hop(k) = NoIp
      <4>1. ring' = ring
        BY <1>4, <2>2, <3>3, Zenon DEF Lookup
      <4>. QED BY <1>1, <3>1, <4>1, Zenon DEF IInv, NeighType, EventsOK, CacheFresh
    <3>. QED BY <3>2, <3>3
  <2>. QED BY <2>1, <2>2
<1>5. ASSUME NEW k \in Caches, NewSession(k)
      PROVE  /\ ring' \in Seq(Events) /\ cache' \in [Caches -> Macs \cup {NoMac}]
             /\ current' \subseteq Caches /\ CacheFresh'
  <2>1. /\ cache' = [cache EXCEPT ![k] = NoMac]
        /\ current' = current \ {k}
    BY <1>5, Zenon DEF NewSession
  <2>2. ring' \in Seq(Events)
    <3>1. CASE Client[k] \in OnLink
      <4>1. PICK mac \in MacsOf[Client[k]] :
              Post([type |-> "NEIGH_HINT", ip |-> Client[k], mac |-> mac])
        BY <1>5, <3>1, Zenon DEF NewSession
      <4>2. [type |-> "NEIGH_HINT", ip |-> Client[k], mac |-> mac] \in Events
        BY NeighConstants, Zenon DEF Events
      <4>. QED BY <4>1, <4>2, PostOK, Zenon DEF IInv
    <3>2. CASE Client[k] \notin OnLink
      BY <1>5, <3>2, Zenon DEF NewSession, IInv, EventsOK
    <3>. QED BY <3>1, <3>2
  <2>3. CacheFresh'
    BY <1>1, <2>1, Zenon DEF IInv, NeighType, CacheFresh
  <2>. QED BY <2>1, <2>2, <2>3, Zenon DEF IInv, NeighType
<1>6. ASSUME NEW ip \in Ips, ArpReply(ip) \/ ArpForUs(ip)
      PROVE  ring' \in Seq(Events) /\ UNCHANGED <<cache, current>>
  <2>1. PICK mac \in MacsOf[ip], t \in {"ARP_REPLY", "ARP_FOR_US"} :
          Post([type |-> t, ip |-> ip, mac |-> mac])
    BY <1>6, Zenon DEF ArpReply, ArpForUs
  <2>2. [type |-> t, ip |-> ip, mac |-> mac] \in Events
    BY NeighConstants, Zenon DEF Events
  <2>3. ring' \in Seq(Events)
    BY <2>1, <2>2, PostOK, Zenon DEF IInv
  <2>. QED BY <1>6, <2>3, Zenon DEF ArpReply, ArpForUs, wrkvars
<1>7. (UNCHANGED <<cache, current>>) => CacheFresh'
  BY <1>1, Zenon DEF IInv, CacheFresh
<1>. QED BY <1>3, <1>4, <1>5, <1>6, <1>7, Zenon DEF Worker, IInv, NeighType, EventsOK

\* A step of the master: whatever changes the table goes on to advance the
\* generation, after which no cache is current.
LEMMA MasterStep ==
  ASSUME IInv, Master
  PROVE  IInv'
<1>1. ASSUME Agrees, EventsOK', UNCHANGED <<cache, current>>, DeadOK',
             mpc \in Changing => mpc' \in Changing
      PROVE  IInv'
  <2>1. CacheFresh'
    BY <1>1 DEF Agrees, Changing, CacheFresh, IInv
  <2>. QED BY <1>1, <2>1 DEF Agrees, IInv
<1> USE DEF Changing
<1>2. ASSUME NEW d \in 0 .. MaxStep, LoopTop(d) PROVE IInv'
  <2>1. mpc = "top" /\ mpc' = "drain"
        /\ UNCHANGED <<ring, evs, cache, current, dead>>
    BY <1>2, Zenon DEF LoopTop, drnvars, wrkvars
  <2>. QED BY <1>1, <1>2, <2>1, LoopTopAgrees, Zenon DEF IInv, EventsOK, DeadOK
<1>3. CASE DrainBurst
  <2> DEFINE n == AtMost(Len(ring), Burst)
  <2>1. mpc = "drain" /\ mpc' = "handle"
        /\ evs' = SubSeq(ring, 1, n) /\ ring' = SubSeq(ring, n + 1, Len(ring))
        /\ UNCHANGED <<table, meta, count, dead, cache, current>>
    BY <1>3, Zenon DEF DrainBurst, tabvars, wrkvars
  <2>2. n \in 0 .. Len(ring)
    BY NeighConstants DEF AtMost, IInv, EventsOK
  <2> HIDE DEF n
  <2>3. EventsOK'
    BY <2>1, <2>2 DEF EventsOK, IInv
  <2>4. Agrees
    BY <2>1, Zenon DEF Agrees, IInv, NeighType, StaticOK, TableExact
  <2>. QED BY <1>1, <2>1, <2>3, <2>4, Zenon DEF IInv, DeadOK
<1>4. CASE Handle
  <2>1. UNCHANGED <<dead, cache, current>>
    BY <1>4, Zenon DEF Handle, wrkvars
  <2>. QED BY <1>1, <1>4, <2>1, HandleAgrees, Zenon DEF IInv, DeadOK
<1>5. CASE BurstDone
  <2>1. /\ mpc = "handle" /\ mpc' \in {"drain", "age", "top"}
        /\ dead' \in {{}, {ip \in Ips : meta[ip].valid /\ meta[ip].idle >= Reachable}}
        /\ dead' # {} => mpc' = "age"
        /\ UNCHANGED <<table, meta, count, ring, evs, cache, current>>
    BY <1>5, Zenon DEF BurstDone, tabvars, wrkvars, drnvars
  <2>2. Agrees
    BY <2>1, Zenon DEF Agrees, IInv, NeighType, StaticOK, TableExact
  <2>. QED BY <1>1, <2>1, <2>2, Zenon DEF IInv, EventsOK, DeadOK
<1>6. CASE Bump
  <2>1. /\ mpc' = (IF mpc = "bump_age" THEN "age" ELSE "handle") /\ current' = {}
        /\ mpc \in {"bump_handle", "bump_age"}
        /\ UNCHANGED <<table, meta, count, dead, ring, evs, cache>>
    BY <1>6, Zenon DEF Bump, tabvars, drnvars
  <2>. QED BY <2>1, Zenon
         DEF IInv, NeighType, EventsOK, DeadOK, StaticOK, TableExact, CacheFresh
<1>7. CASE AgeEnd
  <2>1. mpc = "age" /\ mpc' = "top" /\ dead = {}
        /\ UNCHANGED <<ring, evs, cache, current, dead>>
    BY <1>7 DEF AgeEnd, drnvars, wrkvars
  <2>. QED BY <1>1, <1>7, <2>1, AgeEndAgrees, Zenon DEF IInv, EventsOK, DeadOK
<1>8. ASSUME NEW ip \in dead, Erase(ip) PROVE IInv'
  <2>1. UNCHANGED <<ring, evs, cache, current>>
    BY <1>8 DEF Erase, drnvars, wrkvars
  <2>. QED BY <1>1, <1>8, <2>1, EraseAgrees, Zenon DEF IInv, EventsOK, DeadOK
<1>. QED BY <1>2, <1>3, <1>4, <1>5, <1>6, <1>7, <1>8 DEF Master

LEMMA NeighStep == IInv /\ [Next]_vars => IInv'
<1> SUFFICES ASSUME IInv, [Next]_vars PROVE IInv'
  OBVIOUS
<1>1. CASE UNCHANGED vars
  BY <1>1, Zenon DEF vars, tabvars, wrkvars, drnvars, IInv, NeighType, EventsOK, DeadOK,
              StaticOK, TableExact, CacheFresh
<1>. QED BY <1>1, WorkerStep, MasterStep DEF Next

LEMMA NeighInvariant == Spec => []IInv
BY NeighInit, NeighStep, PTL DEF Spec

\* A session whose cached generation is the table's uses the MAC that a lookup
\* would give it (resolve_mac), however store(), erase() and lookups interleave.
THEOREM CachesAreFresh == Spec => []CacheFresh
<1>1. IInv => CacheFresh
  BY DEF IInv
<1>. QED BY <1>1, NeighInvariant, PTL

\* hash_, meta_ and count_ agree: every entry that was learned is aged, configured
\* ones never are, and count_ is the number of entries.
THEOREM TableIsExact == Spec => []TableExact
<1>1. IInv => TableExact
  BY DEF IInv
<1>. QED BY <1>1, NeighInvariant, PTL

-----------------------------------------------------------------------------
(* Neighbors that answer.                                                  *)

\* An answer of ip waits in q.
Reply(ip, q) == \E i \in 1 .. Len(q) : q[i].type = "ARP_REPLY" /\ q[i].ip = ip

Awaited(ip) == ip \in asked \/ Reply(ip, evs) \/ Reply(ip, ring)

\* An entry was confirmed after the last request, or the answer is on its way; it
\* is not due for a request, or was asked for; and when a second has passed, it
\* is young enough or the burst that confirms it comes before age().
Kept(ip) ==
  meta[ip].valid =>
    /\ meta[ip].idle <= meta[ip].req \/ Awaited(ip)
    /\ ~due => meta[ip].idle < Refresh \/ meta[ip].idle < RefreshGap \/ Awaited(ip)
    /\ due /\ mpc \in {"drain", "handle", "bump_handle"} =>
         \/ meta[ip].idle < Reachable
         \/ Reply(ip, evs)
         \/ (mpc = "drain" \/ more) /\ Reply(ip, ring)

\* A round is over with its events handled, and age() done when it was due.
RoundOK ==
  /\ mpc = "top" => ~due
  /\ mpc \notin {"handle", "bump_handle"} => evs = <<>>
  /\ due \in BOOLEAN /\ more \in BOOLEAN

KInv == RoundOK /\ dead \cap Good = {} /\ \A ip \in Good : Kept(ip)

LEMMA ReplyAppend ==
  ASSUME NEW q \in Seq(Events), NEW ev \in Events, NEW ip
  PROVE  /\ Reply(ip, q) => Reply(ip, Append(q, ev))
         /\ ev.type = "ARP_REPLY" /\ ev.ip = ip => Reply(ip, Append(q, ev))
<1>1. Len(Append(q, ev)) = Len(q) + 1 /\ Len(q) \in Nat
  OBVIOUS
<1>2. Append(q, ev)[Len(q) + 1] = ev /\ \A i \in 1 .. Len(q) : Append(q, ev)[i] = q[i]
  OBVIOUS
<1>3. 1 .. Len(q) \subseteq 1 .. (Len(q) + 1) /\ Len(q) + 1 \in 1 .. (Len(q) + 1)
  BY <1>1
<1>. QED BY <1>1, <1>2, <1>3, Zenon DEF Reply

LEMMA ReplyTail ==
  ASSUME NEW q \in Seq(Events), q # <<>>, NEW ip, Reply(ip, q)
  PROVE  Reply(ip, Tail(q)) \/ (Head(q).type = "ARP_REPLY" /\ Head(q).ip = ip)
<1>1. PICK i \in 1 .. Len(q) : q[i].type = "ARP_REPLY" /\ q[i].ip = ip
  BY DEF Reply
<1>2. Head(q) = q[1] /\ Len(Tail(q)) = Len(q) - 1 /\ Len(q) \in Nat
  OBVIOUS
<1>3. CASE i = 1
  BY <1>1, <1>2, <1>3
<1>4. CASE i # 1
  <2>1. i - 1 \in 1 .. Len(Tail(q)) /\ Tail(q)[i - 1] = q[i]
    BY <1>2, <1>4
  <2>. QED BY <1>1, <2>1, Zenon DEF Reply
<1>. QED BY <1>3, <1>4

LEMMA ReplySplit ==
  ASSUME NEW q \in Seq(Events), NEW n \in 0 .. Len(q), NEW ip, Reply(ip, q)
  PROVE  \/ Reply(ip, SubSeq(q, 1, n))
         \/ n # Len(q) /\ Reply(ip, SubSeq(q, n + 1, Len(q)))
<1>1. PICK i \in 1 .. Len(q) : q[i].type = "ARP_REPLY" /\ q[i].ip = ip
  BY DEF Reply
<1>2. CASE i <= n
  <2>1. i \in 1 .. Len(SubSeq(q, 1, n)) /\ SubSeq(q, 1, n)[i] = q[i]
    BY <1>2
  <2>. QED BY <1>1, <2>1, Zenon DEF Reply
<1>3. CASE i > n
  <2> DEFINE r == SubSeq(q, n + 1, Len(q))
  <2>1. Len(r) = Len(q) - n /\ i - n \in 1 .. Len(q) - n
    BY <1>3
  <2>2. r[i - n] = q[i]
    BY <1>3, <2>1
  <2>3. n # Len(q)
    BY <1>3
  <2> HIDE DEF r
  <2>4. Reply(ip, r)
    BY <1>1, <2>1, <2>2, Zenon DEF Reply
  <2>. QED BY <2>3, <2>4 DEF r
<1>. QED BY <1>2, <1>3

LEMMA KeptInit == Init => KInv
<1> SUFFICES ASSUME Init PROVE KInv
  OBVIOUS
<1>1. \A ip \in Good : ip \in Ips /\ ~meta[ip].valid
  BY NeighConstants, Zenon DEF Init, NoMeta
<1>. QED BY <1>1, Zenon DEF Init, KInv, Kept, RoundOK

LEMMA PostReply ==
  ASSUME IInv, NEW ev \in Events, Post(ev), NEW ip
  PROVE  /\ Reply(ip, ring) => Reply(ip, ring')
         /\ Len(ring) < RingSize /\ ev.type = "ARP_REPLY" /\ ev.ip = ip => Reply(ip, ring')
BY ReplyAppend, Zenon DEF Post, IInv, EventsOK

\* A worker's step loses no answer: it is in the ring before it is no more asked for.
LEMMA WorkerKept ==
  ASSUME IInv, KInv, Worker
  PROVE  KInv'
<1>1. UNCHANGED <<meta, mpc, dead, due, evs, more>>
  BY Zenon DEF Worker, ReadGen, Lookup, NewSession, ArpReply, ArpForUs, tabvars, drnvars
<1>2. ASSUME NEW ip \in Good
      PROVE  /\ Reply(ip, ring) => Reply(ip, ring')
             /\ ip \in asked => ip \in asked' \/ Reply(ip, ring')
  <2>1. ASSUME NEW k \in Caches, ReadGen(k) \/ Lookup(k) \/ NewSession(k)
        PROVE  asked' = asked /\ (ring' = ring \/ \E ev \in Events : Post(ev))
    <3>1. CASE ReadGen(k)
      BY <3>1 DEF ReadGen
    <3>2. CASE Lookup(k)
      <4>1. Hop(k) # NoIp => [type |-> "NEIGH_MISS", ip |-> Hop(k)] \in Events
        BY HopIsIp DEF Events
      <4>. QED BY <3>2, <4>1, Zenon DEF Lookup
    <3>3. CASE NewSession(k)
      <4>1. \A mac \in MacsOf[Client[k]] :
              [type |-> "NEIGH_HINT", ip |-> Client[k], mac |-> mac] \in Events
        BY NeighConstants, Zenon DEF Events
      <4>. QED BY <3>3, <4>1, Zenon DEF NewSession
    <3>. QED BY <2>1, <3>1, <3>2, <3>3
  <2>2. ASSUME NEW a \in Ips, ArpForUs(a)
        PROVE  asked' = asked /\ \E ev \in Events : Post(ev)
    <3>1. \A mac \in MacsOf[a] : [type |-> "ARP_FOR_US", ip |-> a, mac |-> mac] \in Events
      BY NeighConstants, Zenon DEF Events
    <3>. QED BY <2>2, <3>1, Zenon DEF ArpForUs
  <2>3. ASSUME NEW a \in Ips, ArpReply(a)
        PROVE  /\ Reply(ip, ring) => Reply(ip, ring')
               /\ ip \in asked => ip \in asked' \/ Reply(ip, ring')
    <3>1. PICK mac \in MacsOf[a] : Post([type |-> "ARP_REPLY", ip |-> a, mac |-> mac])
      BY <2>3, Zenon DEF ArpReply
    <3> DEFINE ev == [type |-> "ARP_REPLY", ip |-> a, mac |-> mac]
    <3>2. ev \in Events /\ ev.type = "ARP_REPLY" /\ ev.ip = a /\ Post(ev)
      BY <3>1, NeighConstants, Zenon DEF Events
    <3>3. asked' = asked \ {a} /\ (a \in Good => Len(ring) < RingSize)
      BY <2>3, Zenon DEF ArpReply
    <3> HIDE DEF ev
    <3>. QED BY <3>2, <3>3, PostReply, Zenon
  <2>. QED BY <2>1, <2>2, <2>3, PostReply, Zenon DEF Worker
<1>3. ASSUME NEW ip \in Good PROVE Kept(ip)'
  <2>1. Kept(ip)
    BY DEF KInv
  <2>2. Reply(ip, evs') = Reply(ip, evs)
    BY <1>1
  <2>. QED BY <1>1, <1>2, <2>1, <2>2, Zenon DEF Kept, Awaited
<1>. QED BY <1>1, <1>3 DEF KInv, RoundOK

\* Time passes: nobody who answers has a request to answer.
LEMMA LoopTopKept ==
  ASSUME RefreshInTime, IInv, KInv, NEW d \in 0 .. MaxStep, LoopTop(d)
  PROVE  KInv'
<1>1. /\ mpc = "top" /\ mpc' = "drain" /\ due' = (due \/ d > 0)
      /\ d > 0 => Good \cap asked = {}
      /\ UNCHANGED <<dead, ring, evs, more, asked>>
  BY Zenon DEF LoopTop, drnvars
<1>2. ~due /\ evs = <<>>
  BY <1>1 DEF KInv, RoundOK
<1>3. ASSUME NEW ip \in Good PROVE Kept(ip)'
  <2>1. /\ ip \in Ips /\ Kept(ip)
        /\ meta[ip] \in Metas
    BY NeighConstants, Zenon DEF KInv, IInv, NeighType
  <2>2. meta'[ip] = [meta[ip] EXCEPT !.idle = AtMost(meta[ip].idle + d, Reachable),
                                    !.req = AtMost(meta[ip].req + d, Reachable + 1)]
    BY <2>1, Zenon DEF LoopTop
  <2>3. /\ meta'[ip].valid = meta[ip].valid
        /\ meta'[ip].idle = AtMost(meta[ip].idle + d, Reachable)
        /\ meta'[ip].req = AtMost(meta[ip].req + d, Reachable + 1)
    BY <2>1, <2>2 DEF Metas
  <2>4. meta[ip].idle \in 0 .. Reachable /\ meta[ip].req \in 0 .. Reachable + 1
    BY <2>1, Zenon DEF Metas
  <2>5. meta[ip].idle <= meta[ip].req => meta'[ip].idle <= meta'[ip].req
    BY <2>3, <2>4, NeighConstants DEF AtMost
  <2>6. meta[ip].idle < Refresh \/ meta[ip].idle < RefreshGap => meta'[ip].idle < Reachable
    BY <2>3, <2>4, NeighConstants DEF AtMost, RefreshInTime
  <2>7. d = 0 => meta'[ip].idle = meta[ip].idle
    BY <2>3, <2>4, NeighConstants DEF AtMost
  <2>8. Awaited(ip)' = Awaited(ip)
    BY <1>1 DEF Awaited
  <2>9. d > 0 /\ Awaited(ip) => Reply(ip, ring')
    BY <1>1, <1>2 DEF Awaited, Reply
  <2>10. d > 0 <=> d # 0
    OBVIOUS
  <2>. QED BY <1>1, <1>2, <2>1, <2>3, <2>5, <2>6, <2>7, <2>8, <2>9, <2>10, Zenon DEF Kept
<1>. QED BY <1>1, <1>2, <1>3, SMTT(20) DEF KInv, RoundOK

LEMMA DrainKept ==
  ASSUME IInv, KInv, DrainBurst
  PROVE  KInv'
<1> DEFINE n == AtMost(Len(ring), Burst)
<1>1. /\ mpc = "drain" /\ mpc' = "handle"
      /\ evs' = SubSeq(ring, 1, n) /\ ring' = SubSeq(ring, n + 1, Len(ring))
      /\ more' = (n = Burst)
      /\ UNCHANGED <<meta, dead, due, asked>>
  BY DEF DrainBurst, tabvars
<1>2. n \in 0 .. Len(ring) /\ (n # Len(ring) => n = Burst) /\ ring \in Seq(Events)
  BY NeighConstants DEF AtMost, IInv, EventsOK
<1>3. evs = <<>>
  BY <1>1 DEF KInv, RoundOK
<1> HIDE DEF n
<1>4. ASSUME NEW ip, Reply(ip, ring)
      PROVE  Reply(ip, evs') \/ (more' /\ Reply(ip, ring'))
  BY <1>1, <1>2, <1>4, ReplySplit, Zenon
<1>5. ASSUME NEW ip \in Good PROVE Kept(ip)'
  <2>1. Kept(ip) /\ ~Reply(ip, evs)
    BY <1>3 DEF KInv, Reply
  <2>. QED BY <1>1, <1>4, <2>1, Zenon DEF Kept, Awaited
<1>. QED BY <1>1, <1>5, Zenon DEF KInv, RoundOK

\* An answer that is handled confirms the entry.
LEMMA HandleKept ==
  ASSUME IInv, KInv, Handle
  PROVE  KInv'
<1> DEFINE ev == Head(evs)
<1>1. /\ mpc = "handle" /\ ev \in Events /\ evs # <<>> /\ evs' = Tail(evs)
      /\ UNCHANGED <<dead, due, ring, more>>
      /\ evs \in Seq(Events)
  BY DEF Handle, IInv, EventsOK
<1>2. ASSUME NEW ip, Reply(ip, evs)
      PROVE  Reply(ip, evs') \/ (ev.type = "ARP_REPLY" /\ ev.ip = ip)
  BY <1>1, <1>2, ReplyTail, Zenon
<1>3. ev.ip \in Ips
  BY <1>1 DEF Events
<1> HIDE DEF ev
<1>4. mpc' \in {"handle", "bump_handle"}
  BY HandleAgrees
<1>5. asked \subseteq asked'
  BY <1>1, ZenonT(40) DEF Handle, request_neigh, ev
<1>6. ASSUME NEW ip \in Good PROVE Kept(ip)'
  <2>1. /\ ip \in Ips /\ ip \notin Static /\ Kept(ip) /\ meta[ip] \in Metas
        /\ meta[ip].valid <=> table[ip] # NoMac
    BY NeighConstants, Zenon DEF KInv, IInv, NeighType, TableExact
  <2>2. meta'[ip].idle \in Nat /\ meta'[ip].req \in Nat
    BY <2>1, HandleAgrees, NeighConstants DEF Agrees, NeighType, Metas
  <2>3. CASE meta'[ip].idle = 0
    BY <1>4, <2>2, <2>3, NeighConstants DEF Kept
  <2>4. CASE meta'[ip] = meta[ip] /\ (Reply(ip, evs) => Reply(ip, evs'))
    <3>1. Awaited(ip) => Awaited(ip)'
      BY <1>1, <1>5, <2>4, Zenon DEF Awaited
    <3>. QED BY <1>1, <1>4, <2>1, <2>4, <3>1, Zenon DEF Kept
  <2>5. CASE ev.type = "NEIGH_MISS"
    <3>1. request_neigh(ev.ip)
      BY <1>1, <2>5, Zenon DEF Handle, ev
    <3>2. CASE ev.ip = ip /\ want_request(ip)
      <4>1. meta'[ip] = [meta[ip] EXCEPT !.req = 0] /\ ip \in asked'
        BY <2>1, <3>1, <3>2, Zenon DEF request_neigh, IInv, NeighType
      <4>2. meta'[ip].valid = meta[ip].valid /\ meta'[ip].idle = meta[ip].idle
        BY <2>1, <4>1, Zenon DEF Metas
      <4>3. Reply(ip, evs) => Reply(ip, evs')
        BY <1>2, <2>5
      <4>. QED BY <1>1, <1>4, <2>1, <4>1, <4>2, <4>3, Zenon DEF Kept, Awaited
    <3>3. CASE ~(ev.ip = ip /\ want_request(ip))
      BY <1>2, <2>1, <2>4, <2>5, <3>1, <3>3, Zenon DEF request_neigh, IInv, NeighType
    <3>. QED BY <3>2, <3>3
  <2>6. CASE ev.type # "NEIGH_MISS" /\ ev.ip # ip
    <3>1. learn(ev.ip, ev.mac, TRUE) \/ learn(ev.ip, ev.mac, FALSE) \/ hint(ev.ip, ev.mac)
      BY <1>1, <2>6, Zenon DEF Handle, Events, ev
    <3>2. meta'[ip] = meta[ip]
      BY <2>1, <2>6, <3>1, Zenon DEF learn, hint, Store, tabvars, IInv, NeighType
    <3>. QED BY <1>2, <2>4, <2>6, <3>2, Zenon
  <2>7. CASE ev.type \in {"ARP_FOR_US", "NEIGH_HINT"} /\ ev.ip = ip
    <3>1. learn(ev.ip, ev.mac, FALSE) \/ hint(ev.ip, ev.mac)
      BY <1>1, <2>7, Zenon DEF Handle, Events, ev
    <3>2. meta'[ip] = meta[ip] \/ meta'[ip].idle = 0
      BY <2>1, <2>7, <3>1 DEF learn, hint, Store, tabvars, IInv, NeighType, Metas
    <3>. QED BY <1>2, <2>3, <2>4, <2>7, <3>2, Zenon
  <2>8. CASE ev.type = "ARP_REPLY" /\ ev.ip = ip
    <3>1. learn(ev.ip, ev.mac, TRUE)
      BY <1>1, <2>8, Zenon DEF Handle, ev
    <3>2. meta'[ip].idle = 0 \/ (~meta[ip].valid /\ meta'[ip] = meta[ip])
      BY <2>1, <2>8, <3>1 DEF learn, Store, tabvars, IInv, NeighType, Metas
    <3>. QED BY <2>3, <3>2, Zenon DEF Kept
  <2>. QED BY <1>1, <2>5, <2>6, <2>7, <2>8 DEF Events
<1>. QED BY <1>1, <1>4, <1>6 DEF KInv, RoundOK

\* What age() is about to erase is no entry of a neighbor that answers.
LEMMA BurstDoneKept ==
  ASSUME IInv, KInv, BurstDone
  PROVE  KInv'
<1>1. /\ mpc = "handle" /\ evs = <<>>
      /\ mpc' = IF more THEN "drain" ELSE IF due THEN "age" ELSE "top"
      /\ dead' = IF ~more /\ due
                 THEN {ip \in Ips : meta[ip].valid /\ meta[ip].idle >= Reachable} ELSE {}
      /\ UNCHANGED <<meta, due, ring, evs, more, asked>>
  BY DEF BurstDone, tabvars, drnvars
<1>2. ASSUME NEW ip \in Good PROVE Kept(ip)' /\ ip \notin dead'
  <2>1. Kept(ip) /\ ~Reply(ip, evs) /\ meta[ip].idle \in Nat
    <3>1. Kept(ip) /\ meta[ip] \in Metas
      BY NeighConstants, Zenon DEF KInv, IInv, NeighType
    <3>2. ~Reply(ip, evs)
      BY <1>1 DEF Reply
    <3>3. meta[ip].idle \in Nat
      BY <3>1 DEF Metas
    <3>. QED BY <3>1, <3>2, <3>3, Zenon
  <2>2. Awaited(ip)' = Awaited(ip)
    BY <1>1, Zenon DEF Awaited
  <2>3. Kept(ip)'
    BY <1>1, <2>1, <2>2, Zenon DEF Kept, KInv, RoundOK
  <2>4. ~more /\ due /\ meta[ip].valid => meta[ip].idle < Reachable
    BY <1>1, <2>1, Zenon DEF Kept
  <2>5. ~more /\ due /\ meta[ip].valid => ~(meta[ip].idle >= Reachable)
    BY <2>1, <2>4, NeighConstants
  <2>. QED BY <1>1, <2>3, <2>5, Zenon
<1>. QED BY <1>1, <1>2, Zenon DEF KInv, RoundOK

\* An entry that gets no request was confirmed after the last one, or is waiting
\* for an answer.
LEMMA AgeEndKept ==
  ASSUME IInv, KInv, AgeEnd
  PROVE  KInv'
<1>1. /\ mpc = "age" /\ mpc' = "top" /\ due' = FALSE
      /\ UNCHANGED <<dead, ring, evs, more>> /\ asked \subseteq asked'
  BY Zenon DEF AgeEnd, drnvars
<1>2. ASSUME NEW ip \in Good, meta'[ip].valid PROVE Kept(ip)'
  <2>1. ip \in Ips /\ Kept(ip) /\ meta[ip] \in Metas
    BY NeighConstants, Zenon DEF KInv, IInv, NeighType
  <2>2. Awaited(ip) => Awaited(ip)'
    BY <1>1 DEF Awaited
  <2>3. CASE ip \in asked'
    BY <1>1, <2>3, Zenon DEF Kept, Awaited
  <2>4. CASE ip \notin asked'
    <3>1. ~Refreshable(ip) /\ (meta'[ip] = NoMeta \/ meta'[ip] = meta[ip])
      BY <2>1, <2>4, Zenon DEF AgeEnd
    <3>2. meta'[ip] = meta[ip]
      <4>1. ~NoMeta.valid
        BY DEF NoMeta
      <4>. QED BY <1>2, <3>1, <4>1, Zenon
    <3>3. meta[ip].idle \in Nat /\ meta[ip].req \in Nat
      BY <2>1, SMTT(20) DEF Metas
    <3>4. \/ Awaited(ip)
          \/ meta[ip].idle <= meta[ip].req
             /\ (meta[ip].idle < Refresh \/ meta[ip].idle < RefreshGap)
      BY <1>2, <2>1, <3>1, <3>2, <3>3, NeighConstants DEF Kept, Refreshable
    <3>. QED BY <1>1, <2>2, <3>2, <3>4, Zenon DEF Kept
  <2>. QED BY <2>3, <2>4
<1>3. ASSUME NEW ip \in Good PROVE Kept(ip)'
  <2>1. CASE meta'[ip].valid
    BY <1>2, <2>1
  <2>2. CASE ~meta'[ip].valid
    BY <2>2, Zenon DEF Kept
  <2>. QED BY <2>1, <2>2
<1>. QED BY <1>1, <1>3, Zenon DEF KInv, RoundOK

LEMMA EraseKept ==
  ASSUME IInv, KInv, NEW ip \in dead, Erase(ip)
  PROVE  KInv'
<1>1. /\ mpc = "age" /\ mpc' = "bump_age" /\ dead' = dead \ {ip}
      /\ meta' = [meta EXCEPT ![ip] = NoMeta]
      /\ UNCHANGED <<due, ring, evs, more, asked>>
  BY DEF Erase, AfterErase, drnvars
<1>2. ASSUME NEW x \in Good PROVE Kept(x)'
  <2>1. meta'[x] = meta[x] /\ Kept(x)
    BY <1>1, NeighConstants, Zenon DEF KInv, IInv, NeighType
  <2>2. Awaited(x)' = Awaited(x)
    BY <1>1 DEF Awaited
  <2>. QED BY <1>1, <2>1, <2>2, Zenon DEF Kept
<1>. QED BY <1>1, <1>2 DEF KInv, RoundOK

LEMMA BumpKept ==
  ASSUME IInv, KInv, Bump
  PROVE  KInv'
<1>1. /\ mpc \in Changing /\ mpc' = IF mpc = "bump_age" THEN "age" ELSE "handle"
      /\ UNCHANGED <<meta, dead, due, ring, evs, more, asked>>
  BY DEF Bump, tabvars, drnvars, Changing
<1>2. ASSUME NEW ip \in Good PROVE Kept(ip)'
  <2>1. Awaited(ip)' = Awaited(ip) /\ Kept(ip)
    BY <1>1 DEF Awaited, KInv
  <2>. QED BY <1>1, <2>1, Zenon DEF Kept, Changing
<1>. QED BY <1>1, <1>2 DEF KInv, RoundOK, Changing

LEMMA KeptStep ==
  ASSUME RefreshInTime
  PROVE  IInv /\ KInv /\ [Next]_vars => KInv'
<1> SUFFICES ASSUME IInv, KInv, [Next]_vars PROVE KInv'
  OBVIOUS
<1>1. CASE UNCHANGED vars
  BY <1>1, Zenon DEF vars, tabvars, drnvars, KInv, RoundOK, Kept, Awaited
<1>2. Master => KInv'
  BY LoopTopKept, DrainKept, HandleKept, BurstDoneKept, AgeEndKept, EraseKept, BumpKept
     DEF Master
<1>. QED BY <1>1, <1>2, WorkerKept DEF Next

\* Only age() takes entries out of the table, and it takes none of a neighbor
\* that answers: the request age() sends from kRefreshSec on and the answer to it
\* come before kReachableSec, whatever the other events of the ring.
THEOREM AnsweringStay ==
  ASSUME RefreshInTime
  PROVE  Spec => InUseStays
<1> DEFINE Stays == \A ip \in Good : table[ip] # NoMac => table'[ip] # NoMac
<1>1. ASSUME IInv, KInv, [Next]_vars PROVE [Stays]_vars
  <2>1. ASSUME NEW ip \in Good, table[ip] # NoMac, Next PROVE table'[ip] # NoMac
    <3>1. ip \in Ips /\ table \in [Ips -> Macs \cup {NoMac}] /\ NoMac \notin Macs
      BY <1>1, NeighConstants, Zenon DEF IInv, NeighType
    <3>2. CASE Handle
      <4>1. table' = table \/ \E a \in Ips, mac \in Macs : table' = [table EXCEPT ![a] = mac]
        <5>1. Head(evs) \in Events
          BY <1>1, <3>2 DEF Handle, IInv, EventsOK
        <5>. QED BY <3>2, <5>1, Zenon DEF Handle, request_neigh, learn, hint, Store, tabvars, Events
      <4>. QED BY <2>1, <3>1, <4>1
    <3>3. ASSUME NEW a \in dead, Erase(a) PROVE table'[ip] # NoMac
      <4>1. a # ip /\ table' = [table EXCEPT ![a] = NoMac]
        BY <1>1, <3>3 DEF KInv, Erase
      <4>. QED BY <2>1, <3>1, <4>1
    <3>4. CASE Worker
      BY <2>1, <3>4, Zenon DEF Worker, ReadGen, Lookup, NewSession, ArpReply, ArpForUs, tabvars
    <3>5. ASSUME NEW d \in 0 .. MaxStep, LoopTop(d) PROVE table'[ip] # NoMac
      BY <2>1, <3>5, Zenon DEF LoopTop
    <3>6. CASE DrainBurst \/ BurstDone \/ Bump \/ AgeEnd
      BY <2>1, <3>6, Zenon DEF DrainBurst, BurstDone, Bump, AgeEnd, tabvars
    <3>. QED BY <2>1, <3>2, <3>3, <3>4, <3>5, <3>6 DEF Next, Master
  <2>. QED BY <1>1, <2>1
<1>2. Init /\ [][Next]_vars => [][Stays]_vars
  BY <1>1, NeighInit, NeighStep, KeptInit, KeptStep, PTL
<1>. QED BY <1>2 DEF Spec, InUseStays

=============================================================================
