----------------------------- MODULE Forwarding -----------------------------
(***************************************************************************)
(* The forwarding path of the load balancer (src/core/processor.cpp) over  *)
(* several workers, each with its own session table, together with the     *)
(* control thread that publishes snapshots of the real servers (RSs) and   *)
(* waits until every worker has left the old one (src/ctrl/snapshot.cpp).  *)
(*                                                                         *)
(* A session table is here what module SessionStore promises: a map from   *)
(* client tuples to sessions that is also searched by server tuple.  A     *)
(* packet is an input: its client or server tuple, its TCP flags, and      *)
(* whether its rewrite succeeds (next hop resolved, TTL left).  Every      *)
(* worker recomputes the owner of a packet; a packet another worker owns   *)
(* is handed over through a ring and changes nothing here, so a handler is *)
(* modelled at the owner.                                                  *)
(***************************************************************************)
EXTENDS Integers, Sequences, FiniteSets, TcpState

CONSTANTS
  N,              \* number of workers
  Clients,        \* client tuples (client:port -> VIP:port)
  TcpClients,     \* those of a TCP service; the others are UDP
  FlagSets,       \* the TCP flag combinations of the packets considered
  FwdOwner,       \* Steering::fwd_owner, a hash of the tuple
  Addrs,          \* addresses (ip:port) real servers may have
  InitAddrs,      \* the configured real servers: ids 0 .. n-1
  MaxRsId,        \* kMaxRsId
  MaxRsPerService,\* kMaxRsPerService
  Mode,           \* ForwardMode: "NAT" (FULLNAT) or "DR"
  NLips,          \* number of local addresses (LIPs)
  NatPortMin, NatPortMax, \* kNatPortMin, kNatPortMax
  Probes,         \* candidate ports tried on one LIP
  RetByRss,       \* Steering::ret_by_rss: the NIC hashes ports
  RssOwner,       \* the worker RSS gives a return tuple, when RetByRss
  Capacity,       \* session capacity of one worker
  Timeout,        \* TimeoutConf: ticks per state
  Toa             \* cfg.toa

Workers == 0 .. N - 1
Ids == 0 .. MaxRsId - 1
Lips == 0 .. NLips - 1
Ports == NatPortMin .. NatPortMax

\* An RsState's weight, enabled and healthy are abstracted to what they decide:
\* "up" takes new sessions, "drain" (weight 0) keeps its old ones, and "down"
\* (disabled or unhealthy) has none.
NoRs == [status |-> "none"]
Statuses == {"up", "drain", "down"}
RsStates == [addr : Addrs, status : Statuses]
Snapshots == [Ids -> RsStates \cup {NoRs}]

NoServer == [port |-> 0]
ServerTuples == [addr : Addrs, lip : Lips, port : Ports,
                 protocol : {6, 17}]

NoSession == [state |-> "none"]
Sessions ==
  [rs : Ids, server : ServerTuples \cup {NoServer}, state : TcpStates,
   fin : SUBSET Dirs, flags : SUBSET {"SF_TOA_PENDING"},
   left : Nat,    \* expire_tick less now_tick
   idle : Nat]    \* ticks since its last packet: what the properties measure left by

\* At least one candidate port per worker, a timeout for every state, and the
\* configured real servers have ids.
ASSUME ForwardingConstants ==
  /\ N \in Nat \ {0}
  /\ IsFiniteSet(Clients)
  /\ \A c \in Clients : FwdOwner[c] \in Workers
  /\ FlagSets \subseteq SUBSET TcpFlags
  /\ MaxRsId \in Nat /\ MaxRsPerService \in Nat
  /\ InitAddrs \in Seq(Addrs) /\ Len(InitAddrs) <= MaxRsId
  /\ NLips \in Nat
  /\ NatPortMin \in Nat \ {0} /\ NatPortMax \in Nat
  /\ NatPortMax - NatPortMin + 1 >= N
  /\ Probes \in Nat
  /\ Mode \in {"NAT", "DR"}
  /\ RetByRss \in BOOLEAN
  /\ Timeout \in [TcpStates -> Nat]

VARIABLES
  cur,         \* the published snapshot; also the desired state
  old,         \* the snapshot it replaced, until publish() frees it
  behind,      \* workers that still run on old: publish() waits for them
  next_rs_id,  \* SnapshotManager::next_rs_id_
  sess,        \* sess[w][c]: the session of client c in worker w's table
  lip_cursor,  \* WorkerCtx::lip_cursor, modulo the number of candidates
  lip_rr,      \* WorkerCtx::lip_rr, modulo the number of LIPs
  active,      \* ST_SESS_NEW - ST_SESS_CLOSED - ST_SESS_EXPIRED of a worker
  result       \* what process_packet made of the last step's packet

ctlvars == <<cur, old, behind, next_rs_id>>
portvars == <<lip_cursor, lip_rr>>
vars == <<ctlvars, sess, portvars, active, result>>

\* usable(): existing sessions may go on; schedulable(): new ones may start.
usable(rs) == rs.status \in {"up", "drain"}
schedulable(rs) == rs.status = "up"

\* The snapshot worker w read at the top of its loop.
View(w) == IF w \in behind THEN old ELSE cur

-----------------------------------------------------------------------------
(* SNAT ports: Steering and create_fullnat.                                *)

port_step == IF RetByRss THEN 1 ELSE N
Slots == (NatPortMax - NatPortMin + 1) \div port_step

ret_owner(server) ==
  IF N = 1 THEN 0
  ELSE IF RetByRss THEN RssOwner[server] ELSE server.port % N

\* Mutant: the offset forgets where the range starts.
NatPortFromZero(w, k) == NatPortMin + k * port_step + w

\* The k-th candidate port of worker w.
NatPort(w, k) ==
  NatPortMin + k * port_step
    + IF port_step > 1
      THEN (w + port_step - (NatPortMin % port_step)) % port_step ELSE 0

key_in_use(tab, server) ==
  \E c \in Clients : tab[c] # NoSession /\ tab[c].server = server

Candidate(w, rs, lip, i, proto) ==
  [addr |-> rs.addr, lip |-> lip,
   port |-> NatPort(w, (lip_cursor[w][lip] + i) % Slots), protocol |-> proto]

\* Mutant: the return path's owner is not asked.
HitsAnyOwner(w, tab, rs, lip, proto) ==
  {i \in 0 .. Probes - 1 :
     LET server == Candidate(w, rs, lip, i, proto)
     IN  server.port <= NatPortMax /\ ~key_in_use(tab, server)}

\* The probes on one LIP that would succeed, in the table tab of worker w.
Hits(w, tab, rs, lip, proto) ==
  {i \in 0 .. Probes - 1 :
     LET server == Candidate(w, rs, lip, i, proto)
     IN  /\ server.port <= NatPortMax
         /\ RetByRss => ret_owner(server) = w
         /\ ~key_in_use(tab, server)}

Least(S) == CHOOSE x \in S : \A y \in S : x <= y

\* The n-th LIP tried, and those n on which some probe would succeed.
LipAt(w, n) == (lip_rr[w] + n) % NLips

LipHits(w, tab, rs, proto) ==
  {n \in Lips : Hits(w, tab, rs, LipAt(w, n), proto) # {}}

\* create_fullnat() finds no port: every LIP's cursor moved past its probes.
FullnatFails(w, tab, rs, proto) ==
  /\ LipHits(w, tab, rs, proto) = {}
  /\ lip_cursor' = [lip_cursor EXCEPT ![w] =
                      [l \in Lips |-> (@[l] + Probes) % Slots]]
  /\ UNCHANGED lip_rr

\* create_fullnat() takes the first free candidate on the first LIP with one.
PickedLip(w, tab, rs, proto) == LipAt(w, Least(LipHits(w, tab, rs, proto)))

PickedServer(w, tab, rs, proto) ==
  LET lip == PickedLip(w, tab, rs, proto)
  IN  Candidate(w, rs, lip, Least(Hits(w, tab, rs, lip, proto)), proto)

\* The cursors it leaves; the next session starts at the next LIP, if the table
\* has room for this one.
FullnatPicks(w, tab, rs, proto, room) ==
  LET n == Least(LipHits(w, tab, rs, proto))
      lip == LipAt(w, n)
      i == Least(Hits(w, tab, rs, lip, proto))
      missed == {LipAt(w, m) : m \in 0 .. n - 1}
  IN  /\ LipHits(w, tab, rs, proto) # {}
      /\ lip_cursor' = [lip_cursor EXCEPT ![w] =
           [l \in Lips |->
              CASE l = lip      -> (@[l] + i + 1) % Slots
                [] l \in missed -> (@[l] + Probes) % Slots
                [] OTHER        -> @[l]]]
      /\ lip_rr' = IF room THEN [lip_rr EXCEPT ![w] = (lip + 1) % NLips]
                   ELSE lip_rr

-----------------------------------------------------------------------------
(* Packets.                                                                *)

\* A Result: a packet sent to or on behalf of an RS, a drop and its counter, or
\* that the step was no packet.  "unsent": ST_DROP_NO_NEIGH or ST_DROP_TTL.
Quiet == [verdict |-> "none"]
Send(rs, dir) == [verdict |-> "SEND", rs |-> rs, dir |-> dir]
Drop(why) == [verdict |-> "DROP", why |-> why]
SendIf(ok, rs, dir) == IF ok THEN Send(rs, dir) ELSE Drop("unsent")

Protocol(c) == IF c \in TcpClients THEN 6 ELSE 17

Flags(c) == IF c \in TcpClients THEN FlagSets ELSE {{}}

is_syn(flags) == flags \cap {"SYN", "ACK", "RST"} = {"SYN"}

\* deadline() in ticks from now: a tick is a second that has begun, so that one more
\* than the timeout makes a session live at least that long.
deadline(timeout) == (IF timeout = 0 THEN 1 ELSE timeout) + 1

\* Mutant: the session is touched with the timeout of the state it leaves.
update_stateLate(s, flags, dir) ==
  LET fin == fin_next(s.state, flags, dir, s.fin)
      st  == tcp_next_state(s.state, flags, dir, fin)
  IN  [s EXCEPT !.state = st, !.fin = fin, !.left = deadline(Timeout[s.state]), !.idle = 0]

\* update_state: the next TCP state, and touch() with that state's timeout.
update_state(s, flags, dir) ==
  LET fin == fin_next(s.state, flags, dir, s.fin)
      st  == tcp_next_state(s.state, flags, dir, fin)
  IN  [s EXCEPT !.state = st, !.fin = fin, !.left = deadline(Timeout[st]), !.idle = 0]

\* Mutants: any SYN starts over; a deleted RS is not noticed; an unusable RS that
\* still exists is not noticed.
StaleOnSyn(w, s, flags) == ~usable(View(w)[s.rs]) \/ is_syn(flags)

StaleDownOnly(w, s, flags) ==
  \/ View(w)[s.rs] # NoRs /\ ~usable(View(w)[s.rs])
  \/ is_syn(flags) /\ tcp_state_reusable(s.state)

StaleGoneOnly(w, s, flags) ==
  \/ View(w)[s.rs] = NoRs
  \/ is_syn(flags) /\ tcp_state_reusable(s.state)

\* The session cannot serve this packet: its RS is deleted or unusable in the
\* worker's snapshot, or a SYN reuses the tuple of a finished connection.
Stale(w, s, flags) ==
  \/ ~usable(View(w)[s.rs])
  \/ is_syn(flags) /\ tcp_state_reusable(s.state)

\* handle_inbound: the client has a session that can serve the packet.
InboundKnown(w, c, flags, ok) ==
  LET s == sess[w][c]
  IN  /\ s # NoSession
      /\ ~Stale(w, s, flags)
      /\ sess' = [sess EXCEPT ![w][c] = update_state(s, flags, "CLIENT_TO_RS")]
      /\ result' = SendIf(ok, s.rs, "CLIENT_TO_RS")
      /\ UNCHANGED <<ctlvars, portvars, active>>

\* handle_inbound, no session or a stale one: the session is closed and worker
\* w's table becomes tab.
Closed(w, c) == [sess[w] EXCEPT ![c] = NoSession]

\* Mutant: a session replaced by a new connection is not counted as closed.
CloseCountForgotten(w, c) == 0

CloseCount(w, c) == IF sess[w][c] # NoSession THEN 1 ELSE 0

NeedsSession(w, c, flags) ==
  sess[w][c] # NoSession => Stale(w, sess[w][c], flags)

\* Only a SYN starts a TCP connection: anything else is dropped.
InboundDrop(w, c, flags) ==
  /\ NeedsSession(w, c, flags)
  /\ c \in TcpClients /\ ~is_syn(flags)
  /\ sess' = [sess EXCEPT ![w] = Closed(w, c)]
  /\ active' = [active EXCEPT ![w] = @ - CloseCount(w, c)]
  /\ result' = Drop(IF sess[w][c] # NoSession /\ View(w)[sess[w][c].rs] # NoRs
                    THEN "RS_DOWN" ELSE "NO_SESSION")
  /\ UNCHANGED <<ctlvars, portvars>>

\* The session new_session() builds for RS id i, after update_state; for a TCP
\* client of FULLNAT the client's address is still to be told to the RS.
NewSession(c, i, server, flags) ==
  update_state([rs |-> i, server |-> server,
                state |-> IF c \in TcpClients THEN "NONE" ELSE "UDP",
                fin |-> {}, left |-> 0, idle |-> 0,
                flags |-> IF Mode = "NAT" /\ c \in TcpClients /\ Toa
                          THEN {"SF_TOA_PENDING"} ELSE {}],
               flags, "CLIENT_TO_RS")

HasRoom(tab) == Cardinality({c \in Clients : tab[c] # NoSession}) < Capacity

\* A new session is wanted and new_session() cannot make one: no RS takes new
\* connections, no SNAT port is found, or the table is full.
InboundNoSession(w, c, flags) ==
  LET tab == Closed(w, c)
      rss == {i \in Ids : schedulable(View(w)[i])}
  IN  /\ NeedsSession(w, c, flags)
      /\ c \in TcpClients => is_syn(flags)
      /\ \/ rss = {} /\ UNCHANGED portvars /\ result' = Drop("NO_RS")
         \/ /\ Mode = "NAT"
            /\ \E i \in rss : FullnatFails(w, tab, View(w)[i], Protocol(c))
            /\ result' = Drop("NO_PORT")
         \/ /\ ~HasRoom(tab)
            /\ IF Mode = "NAT"
               THEN \E i \in rss : FullnatPicks(w, tab, View(w)[i], Protocol(c), FALSE)
               ELSE rss # {} /\ UNCHANGED portvars
            /\ result' = Drop("TABLE_FULL")
      /\ sess' = [sess EXCEPT ![w] = tab]
      /\ active' = [active EXCEPT ![w] = @ - CloseCount(w, c)]
      /\ UNCHANGED ctlvars

\* new_session() succeeds and the packet starts it; a packet that then cannot
\* be sent takes its session with it.
InboundNew(w, c, flags, ok) ==
  LET tab == Closed(w, c)
  IN  /\ NeedsSession(w, c, flags)
      /\ c \in TcpClients => is_syn(flags)
      /\ HasRoom(tab)
      /\ \E i \in {j \in Ids : schedulable(View(w)[j])} :
           LET rs == View(w)[i]
               server == IF Mode = "NAT" THEN PickedServer(w, tab, rs, Protocol(c))
                         ELSE NoServer
           IN  /\ IF Mode = "NAT" THEN FullnatPicks(w, tab, rs, Protocol(c), TRUE)
                  ELSE UNCHANGED portvars
               /\ sess' = [sess EXCEPT ![w] =
                    IF ok THEN [tab EXCEPT ![c] = NewSession(c, i, server, flags)]
                    ELSE tab]
               /\ result' = SendIf(ok, i, "CLIENT_TO_RS")
      /\ active' = [active EXCEPT ![w] =
                      @ - CloseCount(w, c) + (IF ok THEN 1 ELSE 0)]
      /\ UNCHANGED ctlvars

Inbound ==
  \E w \in Workers, c \in Clients :
    /\ FwdOwner[c] = w
    /\ \E flags \in Flags(c) :
         \/ InboundDrop(w, c, flags)
         \/ InboundNoSession(w, c, flags)
         \/ \E ok \in BOOLEAN : \/ InboundKnown(w, c, flags, ok)
                               \/ InboundNew(w, c, flags, ok)

\* handle_return: a packet from an RS to a LIP, at the owner of its tuple.
Return(w, c, flags, ok) ==
  LET s  == sess[w][c]
      s2 == update_state(s, flags, "RS_TO_CLIENT")
  IN  /\ s # NoSession /\ s.server # NoServer
      /\ ret_owner(s.server) = w
      /\ \/ /\ ~usable(View(w)[s.rs])
            /\ sess' = [sess EXCEPT ![w] = Closed(w, c)]
            /\ active' = [active EXCEPT ![w] = @ - 1]
            /\ result' = Drop("RS_DOWN")
         \/ /\ usable(View(w)[s.rs])
            /\ sess' = [sess EXCEPT ![w][c] =
                 [s2 EXCEPT !.flags = IF "SYN" \in flags THEN @ ELSE {}]]
            /\ result' = SendIf(ok, s.rs, "RS_TO_CLIENT")
            /\ UNCHANGED active
      /\ UNCHANGED <<ctlvars, portvars>>

\* handle_icmp_error: an ICMP error about a packet of the session, from the RS
\* side to the client (FULLNAT) or from the client side to the RS.  It leaves
\* the session alone, and asks only that the RS still exists in the second case.
IcmpError(w, c, dir, ok) ==
  LET s == sess[w][c]
  IN  /\ s # NoSession
      /\ \/ /\ dir = "RS_TO_CLIENT"
            /\ s.server # NoServer /\ ret_owner(s.server) = w
            /\ result' = SendIf(ok, s.rs, "ICMP_TO_CLIENT")
         \/ /\ dir = "CLIENT_TO_RS" /\ FwdOwner[c] = w
            /\ result' = SendIf(ok /\ View(w)[s.rs] # NoRs, s.rs, "ICMP_TO_RS")
      /\ UNCHANGED <<ctlvars, sess, portvars, active>>

Outbound ==
  \E w \in Workers, c \in Clients, ok \in BOOLEAN :
    \/ \E flags \in Flags(c) : Return(w, c, flags, ok)
    \/ \E dir \in Dirs : IcmpError(w, c, dir, ok)

-----------------------------------------------------------------------------
(* The worker's loop and the control thread.                               *)

\* The top of an iteration: the worker reads the current snapshot.  When the last
\* one has, publish() frees the old snapshot and returns.
LoopTop(w) ==
  /\ w \in behind
  /\ behind' = behind \ {w}
  /\ old' = IF behind' = {} THEN cur ELSE old
  /\ result' = Quiet
  /\ UNCHANGED <<cur, next_rs_id, sess, portvars, active>>

\* The end of an iteration in which the clock moved on: now_tick advances and
\* expire() removes the sessions whose time is over.
Tick(w) ==
  LET due == {c \in Clients : sess[w][c] # NoSession /\ sess[w][c].left <= 1}
  IN  /\ \E c \in Clients : sess[w][c] # NoSession
      /\ sess' = [sess EXCEPT ![w] =
           [c \in Clients |->
              IF c \in due \/ sess[w][c] = NoSession THEN NoSession
              ELSE [sess[w][c] EXCEPT !.left = @ - 1, !.idle = @ + 1]]]
      /\ active' = [active EXCEPT ![w] = @ - Cardinality(due)]
      /\ result' = Quiet
      /\ UNCHANGED <<ctlvars, portvars>>

\* publish(): the new snapshot replaces the current one; the control thread
\* does nothing more until every worker has left the old one.
publish(snap) ==
  /\ behind = {}
  /\ old' = cur
  /\ cur' = snap
  /\ behind' = Workers
  /\ result' = Quiet
  /\ UNCHANGED <<sess, portvars, active>>

\* set_weight or set_enabled for one RS, or drain_health's set_health for a burst
\* of events, then publish().  Any status of every RS may change, which is more
\* than one such call does.
SetStatus(new) ==
  /\ publish([i \in Ids |-> IF cur[i] = NoRs THEN NoRs
                            ELSE [cur[i] EXCEPT !.status = new[i]]])
  /\ UNCHANGED next_rs_id

\* Mutant: the least free id is used again.
add_rsReusesId(addr, status) ==
  /\ Cardinality({i \in Ids : cur[i] # NoRs}) < MaxRsPerService
  /\ \A i \in Ids : cur[i] # NoRs => cur[i].addr # addr
  /\ \E i \in Ids : cur[i] = NoRs
  /\ publish([cur EXCEPT ![Least({i \in Ids : cur[i] = NoRs})] =
                 [addr |-> addr, status |-> status]])
  /\ UNCHANGED next_rs_id

add_rs(addr, status) ==
  /\ Cardinality({i \in Ids : cur[i] # NoRs}) < MaxRsPerService
  /\ \A i \in Ids : cur[i] # NoRs => cur[i].addr # addr
  /\ next_rs_id < MaxRsId
  /\ publish([cur EXCEPT ![next_rs_id] = [addr |-> addr, status |-> status]])
  /\ next_rs_id' = next_rs_id + 1

del_rs(i) ==
  /\ cur[i] # NoRs
  /\ publish([cur EXCEPT ![i] = NoRs])
  /\ UNCHANGED next_rs_id

Control ==
  \/ \E new \in [Ids -> Statuses] : SetStatus(new)
  \/ \E addr \in Addrs, status \in {"up", "drain"} : add_rs(addr, status)
  \/ \E i \in Ids : del_rs(i)

Init ==
  /\ cur = [i \in Ids |-> IF i < Len(InitAddrs)
                          THEN [addr |-> InitAddrs[i + 1], status |-> "up"]
                          ELSE NoRs]
  /\ old = cur
  /\ behind = {}
  /\ next_rs_id = Len(InitAddrs)
  /\ sess = [w \in Workers |-> [c \in Clients |-> NoSession]]
  /\ lip_cursor = [w \in Workers |-> [l \in Lips |-> 0]]
  /\ lip_rr = [w \in Workers |-> 0]
  /\ active = [w \in Workers |-> 0]
  /\ result = Quiet

Next ==
  \/ Inbound
  \/ Outbound
  \/ \E w \in Workers : LoopTop(w) \/ Tick(w)
  \/ Control

Spec == Init /\ [][Next]_vars

\* Workers loop forever and their clocks move on (worker_loop).
Fairness == \A w \in Workers : WF_vars(LoopTop(w)) /\ WF_vars(Tick(w))

FairSpec == Spec /\ Fairness

-----------------------------------------------------------------------------
(* Properties.                                                             *)

Results ==
  {Quiet} \cup {Drop(why) : why \in {"NO_SESSION", "RS_DOWN", "NO_RS", "NO_PORT",
                                    "TABLE_FULL", "unsent"}}
    \cup {Send(i, dir) : i \in Ids,
                         dir \in Dirs \cup {"ICMP_TO_CLIENT", "ICMP_TO_RS"}}

\* Every variable has its type.
TypeOK ==
  /\ cur \in Snapshots
  /\ old \in Snapshots
  /\ behind \subseteq Workers
  /\ next_rs_id \in 0 .. MaxRsId
  /\ sess \in [Workers -> [Clients -> Sessions \cup {NoSession}]]
  /\ lip_cursor \in [Workers -> [Lips -> Nat]]
  /\ lip_rr \in [Workers -> Nat]
  /\ active \in [Workers -> Int]
  /\ result \in Results

Live(w, c) == sess[w][c] # NoSession

\* Two sessions never share a server tuple, whichever workers hold them: a
\* packet from an RS belongs to at most one client.  Workers allocate SNAT
\* ports without talking to each other (create_fullnat), so this rests on the
\* candidate ports of different workers being disjoint.
ServerTuplesUnique ==
  \A v, w \in Workers : \A b, c \in Clients :
    /\ Live(v, b) /\ Live(w, c)
    /\ sess[v][b].server = sess[w][c].server
    /\ sess[v][b].server # NoServer
    => v = w /\ b = c

\* Both directions of a session are steered to the worker that holds it: the
\* owner every worker computes for its client tuple and for its server tuple is
\* that worker, and its SNAT port is in the range process_packet looks at.
BothWaysOwned ==
  \A w \in Workers, c \in Clients :
    Live(w, c) =>
      /\ FwdOwner[c] = w
      /\ sess[w][c].server # NoServer =>
           /\ ret_owner(sess[w][c].server) = w
           /\ sess[w][c].server.port \in Ports

\* A session's RS id never comes to mean another server: in every snapshot a
\* worker may hold, the id is free or still has the address the session sends to
\* (ids are not reused, src/ctrl/snapshot.h).
IdKeepsAddress ==
  \A w \in Workers, c \in Clients : \A snap \in {cur, old} :
    Live(w, c) /\ sess[w][c].server # NoServer /\ snap[sess[w][c].rs] # NoRs
      => snap[sess[w][c].rs].addr = sess[w][c].server.addr

\* The counters account for every session: created less closed less expired
\* is what the worker's table holds, on every path that creates, replaces,
\* rolls back or expires one (sessions_active reports it).
ActiveExact ==
  \A w \in Workers : active[w] = Cardinality({c \in Clients : Live(w, c)})

\* A session is given the time of the state it is in, counted from its last packet:
\* it is gone one tick after the timeout of that state (deadline()), so unfinished
\* handshakes and closing connections are on their short timeouts.  And its state
\* agrees with the FINs seen: none if it is established, some if it is closing.
LifeMatchesState ==
  \A w \in Workers, c \in Clients : Live(w, c) =>
    LET s == sess[w][c]
    IN  /\ s.left >= 1
        /\ s.left + s.idle = deadline(Timeout[s.state])
        /\ s.state # "NONE"
        /\ s.state \in {"FIN_WAIT", "TIME_WAIT"} => s.fin # {}
        /\ s.state = "ESTABLISHED" => s.fin = {}
        /\ s.state = "UDP" <=> c \notin TcpClients

\* A connection stays where it is: while its worker's snapshot has its RS
\* usable (drained ones included) and it has not ended, no step but its expiry
\* removes the session or changes its RS or server tuple, and it expires only
\* after the timeout of its state without a packet (include/lb/session.h:54).
Sticky ==
  [][\A w \in Workers, c \in Clients :
       /\ Live(w, c)
       /\ ~tcp_state_reusable(sess[w][c].state)
       /\ usable(View(w)[sess[w][c].rs])
       => \/ /\ sess'[w][c] # NoSession
             /\ sess'[w][c].rs = sess[w][c].rs
             /\ sess'[w][c].server = sess[w][c].server
          \/ /\ sess'[w][c] = NoSession
             /\ sess[w][c].idle >= Timeout[sess[w][c].state]
             /\ result' = Quiet]_vars

\* Once a command has been answered (publish() returned), the workers act on
\* it: traffic flows only to and from usable RSs, ICMP errors go only to RSs
\* that exist, and new sessions only to RSs that take them.
PublishedIsObeyed ==
  [][behind = {} =>
       /\ result'.verdict = "SEND" /\ result'.dir \in Dirs
            => usable(cur[result'.rs])
       /\ result'.verdict = "SEND" /\ result'.dir = "ICMP_TO_RS"
            => cur[result'.rs] # NoRs
       /\ \A w \in Workers, c \in Clients :
            sess'[w][c] # NoSession /\ (Live(w, c) => sess[w][c].rs # sess'[w][c].rs)
              => schedulable(cur[sess'[w][c].rs])]_vars

\* A deleted RS is left by all its sessions, even if their clients or the RS
\* keep sending: a packet closes the session instead of renewing it.
DeletedDrains ==
  \A i \in Ids :
    (i < next_rs_id /\ cur[i] = NoRs)
      ~> \A w \in Workers, c \in Clients : Live(w, c) => sess[w][c].rs # i

=============================================================================
