---------------------------- MODULE HealthCheck ----------------------------
(***************************************************************************)
(* The health checker (src/ctrl/healthcheck.cpp): the master thread sends  *)
(* a SYN to every real server (RS) of a TCP service from a port of its     *)
(* own, judges the RS by the answers, and reports verdicts that differ     *)
(* from the published snapshot through a ring to the control thread, which *)
(* publishes them (drain_health in src/ctrl/control.cpp).                  *)
(*                                                                         *)
(* tick() is a loop over the probes; each iteration is a step, because the *)
(* control thread runs between them.  Times are relative and in units of   *)
(* tick()'s period: the age of the probe in flight, the wait until the     *)
(* next one and the time since the last report, each capped where the code *)
(* stops telling values apart.                                             *)
(***************************************************************************)
EXTENDS Integers, Sequences, FiniteSets

CONSTANTS
  MaxRs,      \* number of RS ids
  InitRs,     \* ids 0 .. InitRs - 1 are configured, the others may be added
  Good,       \* RSs that answer every probe in time, and never die
  NPorts,     \* kHcPortMax - kHcPortMin + 1
  Timeout, Interval, \* conf_.timeout_ms, conf_.interval_ms
  ReportGap,  \* the second between two reports of one RS
  Rise, Fall, \* conf_.rise, conf_.fall
  RingSize,   \* free entries of an empty health_ring
  Burst,      \* events drain_health takes at once
  MaxStep     \* bound: the longest time between two calls of tick()

Rs == 0 .. MaxRs - 1
Ports == 1 .. NPorts
NoRs == -1

ASSUME HealthConstants ==
  /\ MaxRs \in Nat /\ InitRs \in 0 .. MaxRs
  /\ Good \subseteq Rs
  /\ NPorts \in Nat \ {0}
  /\ Timeout \in Nat \ {0} /\ Interval \in Nat \ {0} /\ ReportGap \in Nat
  /\ Rise \in Nat \ {0} /\ Fall \in Nat \ {0}
  /\ RingSize \in Nat \ {0} /\ Burst \in Nat \ {0} /\ MaxStep \in Nat \ {0}

VARIABLES
  rss, up,       \* the published snapshot: its RSs, and the healthy ones
  next_rs_id,    \* SnapshotManager::next_rs_id_
  ring,          \* health_ring
  \* HealthChecker: probes_ is known, a Probe's Boolean fields are sets.
  known, healthy, snap_healthy, in_flight,
  src_port,      \* Probe::src_port, 0 before the first probe
  by_port,       \* by_port_
  next_port,     \* next_port_
  age, wait, since, \* now - sent_ms, next_ms - now, now - reported_ms
  ok, fail,      \* Probe::ok and fail
  clock,         \* now_ms, capped at ReportGap
  todo,          \* the probes tick() has not come to yet
  \* The network and the RSs.
  wire,          \* SYNs sent; each may be answered late, often or never
  awaited,       \* RSs in Good whose answer to the probe in flight is due
  alive          \* RSs that accept connections

snapvars  == <<rss, up, next_rs_id>>
timevars  == <<age, wait, since, clock>>
countvars == <<ok, fail>>
netvars   == <<wire, awaited, alive>>
vars == <<snapvars, ring, known, healthy, snap_healthy, in_flight, src_port,
          by_port, next_port, timevars, countvars, todo, netvars>>

AtMost(x, max) == IF x > max THEN max ELSE x
Off(x, d) == IF x > d THEN x - d ELSE 0

-----------------------------------------------------------------------------
(* tick()                                                                  *)

\* f with its values outside S back at those of a new Probe.
OnlyIn(S, f) == [r \in Rs |-> IF r \in S THEN f[r] ELSE 0]

\* Mutant: a deleted RS leaves its port behind.
ReleasePortsNone(S) == by_port

\* The ports of the probes in S are free again.
ReleasePorts(S) ==
  [p \in 0 .. NPorts |->
     IF \E r \in S \cap in_flight : src_port[r] = p THEN NoRs ELSE by_port[p]]

\* Mutant: the snapshot's verdict is noted once, when the RS appears.
SnapVerdictsOnce == (snap_healthy \cap known) \cup (up \ known)

SnapVerdicts == up

\* The first half of tick(), d after the last: time passes and the probes are
\* brought in line with the snapshot.  A new probe waits for its turn, delay.
TickSync(d, delay) ==
  LET new  == rss \ known
      gone == known \ rss
  IN  /\ todo = {}
      /\ \A r \in awaited : age[r] + d < Timeout
      /\ clock' = AtMost(clock + d, ReportGap)
      /\ known' = rss
      /\ healthy' = (healthy \ gone) \cup (new \cap up)
      /\ snap_healthy' = SnapVerdicts
      /\ by_port' = ReleasePorts(gone)
      /\ in_flight' = in_flight \ gone
      /\ src_port' = OnlyIn(rss \ new, src_port)
      /\ age' = [r \in Rs |-> IF r \in in_flight \ gone
                              THEN AtMost(age[r] + d, Timeout) ELSE 0]
      /\ wait' = [r \in Rs |-> IF r \in new THEN delay[r] ELSE Off(wait[r], d)]
      /\ since' = [r \in Rs |-> IF r \in new THEN clock'
                                ELSE AtMost(since[r] + d, ReportGap)]
      /\ ok' = OnlyIn(rss \ new, ok)
      /\ fail' = OnlyIn(rss \ new, fail)
      /\ todo' = rss
      /\ awaited' = awaited \ gone
      /\ UNCHANGED <<snapvars, ring, next_port, wire, alive>>

\* Mutant: the search ignores by_port and takes the first port of the range.
PicksPortFirst(bp, old, port) == port = 1

\* send_probe: the first free port from next_port_ on; with none free the probe
\* keeps the port it had.
PicksPort(bp, old, port) ==
  LET free == {p \in Ports : bp[p] = NoRs}
      dist(p) == (p - next_port) % NPorts
  IN  IF free = {} THEN port = old
      ELSE port \in free /\ \A q \in free : dist(port) <= dist(q)

After(p) == IF p >= NPorts THEN 1 ELSE p + 1

\* send_probe: the older probes of r are told apart by their sequence numbers.
Sent(r, port) ==
  {[s EXCEPT !.isn = IF s.rs = r THEN "old" ELSE @] : s \in wire}
    \cup {[rs |-> r, port |-> port, isn |-> "cur",
           to |-> IF r \in alive THEN "alive" ELSE "dead"]}

RingFree == Len(ring) < RingSize

\* The second half of tick() for one probe: its timeout, the next probe, and a
\* report if the verdict is not the snapshot's and none was made lately.
TickProbe(r) ==
  LET timedout == r \in in_flight /\ age[r] >= Timeout
      bp       == IF timedout THEN [by_port EXCEPT ![src_port[r]] = NoRs]
                  ELSE by_port
      send     == (r \in in_flight => timedout) /\ wait[r] = 0
      free     == \E p \in Ports : bp[p] = NoRs
      judged   == IF timedout /\ fail[r] + 1 >= Fall THEN healthy \ {r}
                  ELSE healthy
      report   == /\ r \in judged <=> r \notin snap_healthy
                  /\ since[r] >= ReportGap
                  /\ RingFree
  IN  /\ r \in todo
      /\ todo' = todo \ {r}
      /\ fail' = IF timedout THEN [fail EXCEPT ![r] = AtMost(@ + 1, Fall)] ELSE fail
      /\ ok' = IF timedout THEN [ok EXCEPT ![r] = 0] ELSE ok
      /\ healthy' = judged
      /\ IF send
         THEN \E port \in 0 .. NPorts :
              /\ PicksPort(bp, src_port[r], port)
              /\ in_flight' = in_flight \cup {r}
              /\ src_port' = [src_port EXCEPT ![r] = port]
              /\ by_port' = [bp EXCEPT ![port] = r]
              /\ next_port' = IF free THEN After(port) ELSE next_port
              /\ age' = [age EXCEPT ![r] = 0]
              /\ wait' = [wait EXCEPT ![r] = Interval]
              /\ wire' = Sent(r, port)
              /\ awaited' = awaited \cup ({r} \cap Good)
         ELSE /\ in_flight' = IF timedout THEN in_flight \ {r} ELSE in_flight
              /\ by_port' = bp
              /\ age' = IF timedout THEN [age EXCEPT ![r] = 0] ELSE age
              /\ UNCHANGED <<src_port, next_port, wait, wire, awaited>>
      /\ ring' = IF report
                 THEN Append(ring, [rs |-> r, healthy |->
                                      IF r \in judged THEN "UP" ELSE "DOWN"])
                 ELSE ring
      /\ since' = IF report THEN [since EXCEPT ![r] = 0] ELSE since
      /\ UNCHANGED <<snapvars, known, snap_healthy, clock, alive>>

-----------------------------------------------------------------------------
(* Answers.                                                                *)

\* What may come back for a SYN: an RS in Good accepts the connection; another
\* may also refuse it, or acknowledge something else while it lives; a dead one
\* refuses or is silent.
Answers(s) ==
  IF s.rs \in Good THEN {"SYNACK"}
  ELSE IF s.to = "dead" THEN {"RST"}
  ELSE {"SYNACK", "RST"} \cup (IF s.isn = "cur" /\ s.rs \in alive THEN {"ACK"}
                              ELSE {})

\* Mutant: a SYN-ACK of an earlier probe counts.
OwnAnswerAny(s, kind) == TRUE

\* A SYN-ACK must acknowledge this probe's SYN.
OwnAnswer(s, kind) == kind = "SYNACK" => s.isn = "cur"

\* on_response: the answer is for the probe that uses its port, if that is in
\* flight and goes to the RS the answer comes from.  Workers hand the master only
\* what is sent to the port range.
OnResponse(s, kind) ==
  LET r == by_port[s.port]
      accepted == /\ s.port \in Ports /\ r \in in_flight /\ s.rs = r
                  /\ OwnAnswer(s, kind)
  IN  /\ todo = {}
      /\ s \in wire /\ kind \in Answers(s)
      /\ awaited' = IF s.isn = "cur" THEN awaited \ {s.rs} ELSE awaited
      /\ IF ~accepted
         THEN UNCHANGED <<healthy, in_flight, by_port, age, ok, fail>>
         ELSE /\ by_port' = [by_port EXCEPT ![s.port] = NoRs]
              /\ in_flight' = in_flight \ {r}
              /\ age' = [age EXCEPT ![r] = 0]
              /\ ok' = CASE kind = "SYNACK" -> [ok EXCEPT ![r] = AtMost(@ + 1, Rise)]
                         [] kind = "RST" -> [ok EXCEPT ![r] = 0]
                         [] kind = "ACK" -> ok
              /\ fail' = CASE kind = "SYNACK" -> [fail EXCEPT ![r] = 0]
                           [] kind = "RST" -> [fail EXCEPT ![r] = AtMost(@ + 1, Fall)]
                           [] kind = "ACK" -> fail
              /\ healthy' = CASE kind = "SYNACK" /\ ok[r] + 1 >= Rise ->
                                   healthy \cup {r}
                              [] kind = "RST" /\ fail[r] + 1 >= Fall ->
                                   healthy \ {r}
                              [] OTHER -> healthy
      /\ UNCHANGED <<snapvars, ring, known, snap_healthy, src_port, next_port,
                     wait, since, clock, todo, wire, alive>>

-----------------------------------------------------------------------------
(* The control thread, and the RSs.                                        *)

\* The healthy RSs after the events evs, in order: the last one of an RS counts,
\* and those of RSs that are gone are ignored.
Applied(evs) ==
  {r \in rss :
     LET own == {i \in DOMAIN evs : evs[i].rs = r}
     IN  IF own = {} THEN r \in up
         ELSE \E i \in own : /\ \A j \in own : j <= i
                             /\ evs[i].healthy = "UP"}

\* drain_health: set_health for a burst of events, and publish().
DrainHealth ==
  LET n == AtMost(Len(ring), Burst)
  IN  /\ ring # <<>>
      /\ up' = Applied(SubSeq(ring, 1, n))
      /\ ring' = SubSeq(ring, n + 1, Len(ring))
      /\ UNCHANGED <<rss, next_rs_id, known, healthy, snap_healthy, in_flight,
                     src_port, by_port, next_port, timevars, countvars, todo,
                     netvars>>

\* The add and del commands; an added RS counts as healthy.
Control ==
  /\ \/ /\ next_rs_id < MaxRs
        /\ rss' = rss \cup {next_rs_id}
        /\ up' = up \cup {next_rs_id}
        /\ next_rs_id' = next_rs_id + 1
     \/ \E r \in rss :
          /\ rss' = rss \ {r}
          /\ up' = up \ {r}
          /\ UNCHANGED next_rs_id
  /\ UNCHANGED <<ring, known, healthy, snap_healthy, in_flight, src_port, by_port,
                 next_port, timevars, countvars, todo, netvars>>

Die(r) ==
  /\ r \in alive \ Good
  /\ alive' = alive \ {r}
  /\ UNCHANGED <<snapvars, ring, known, healthy, snap_healthy, in_flight, src_port,
                 by_port, next_port, timevars, countvars, todo, wire, awaited>>

Init ==
  /\ rss = 0 .. InitRs - 1 /\ up = rss /\ next_rs_id = InitRs
  /\ ring = <<>>
  /\ known = {} /\ healthy = {} /\ snap_healthy = {} /\ in_flight = {}
  /\ src_port = [r \in Rs |-> 0]
  /\ by_port = [p \in 0 .. NPorts |-> NoRs]
  /\ next_port = 1
  /\ age = [r \in Rs |-> 0] /\ wait = age /\ since = age
  /\ ok = age /\ fail = age
  /\ clock = 0
  /\ todo = {}
  /\ wire = {} /\ awaited = {}
  /\ alive = Rs

Tick ==
  \/ \E d \in 1 .. MaxStep, delay \in [rss \ known -> 0 .. Interval - 1] :
       TickSync(d, delay)
  \/ \E r \in todo : TickProbe(r)

Response == \E s \in wire : \E kind \in Answers(s) : OnResponse(s, kind)

\* The answer an RS in Good owes.
DueResponse ==
  \E s \in wire : s.rs \in awaited /\ s.isn = "cur" /\ OnResponse(s, "SYNACK")

Next == Tick \/ Response \/ DrainHealth \/ Control \/ \E r \in Rs : Die(r)

Spec == Init /\ [][Next]_vars

\* The master and the control thread keep running, and answers that are due
\* arrive.
FairSpec == Spec /\ WF_vars(Tick) /\ WF_vars(DrainHealth) /\ WF_vars(DueResponse)

-----------------------------------------------------------------------------
(* Properties.                                                             *)

Syns == [rs : Rs, port : 0 .. NPorts, isn : {"cur", "old"}, to : {"alive", "dead"}]
Events == [rs : Rs, healthy : {"UP", "DOWN"}]

\* Every variable has its type; the ring never holds more than it has room for.
TypeOK ==
  /\ rss \subseteq Rs /\ up \subseteq rss /\ next_rs_id \in 0 .. MaxRs
  /\ ring \in Seq(Events) /\ Len(ring) <= RingSize
  /\ known \subseteq Rs /\ todo \subseteq known
  /\ healthy \subseteq known /\ snap_healthy \subseteq known
  /\ in_flight \subseteq known
  /\ src_port \in [Rs -> 0 .. NPorts]
  /\ by_port \in [0 .. NPorts -> Rs \cup {NoRs}]
  /\ next_port \in Ports
  /\ age \in [Rs -> 0 .. Timeout]
  /\ wait \in [Rs -> 0 .. Interval]
  /\ since \in [Rs -> 0 .. ReportGap]
  /\ clock \in 0 .. ReportGap
  /\ ok \in [Rs -> 0 .. Rise]
  /\ fail \in [Rs -> 0 .. Fall]
  /\ wire \subseteq Syns
  /\ awaited \subseteq Good \cap in_flight
  /\ alive \subseteq Rs

\* The source ports in use are exactly those of the probes in flight, one each:
\* send_probe takes one ("a free port of the range"), and timeout, answer and
\* deletion of the RS give it back.
PortsExact ==
  /\ \A r \in in_flight : by_port[src_port[r]] = r
  /\ \A p \in 0 .. NPorts :
       by_port[p] # NoRs => by_port[p] \in in_flight /\ src_port[by_port[p]] = p

\* An RS that answers every probe in time is never taken for down, whatever
\* the others do and however late their answers come: probes do not take each
\* other's answers.
GoodStaysUp == Good \cap known \subseteq healthy /\ Good \cap rss \subseteq up

\* An RS that dies is out of the published snapshot for good after a while,
\* although answers it gave before it died may still arrive, and although the
\* ring may be full when it is judged.
DeadGoesDown == \A r \in Rs : r \notin alive ~> [](r \notin up)

\* The snapshot follows the verdict: once the checker's verdict on an RS stops
\* changing, the snapshot comes to have it, however reports and their
\* publication interleave with earlier changes of mind.
SnapshotFollows ==
  \A r \in Rs :
    /\ <>[](r \in rss /\ r \in healthy) => <>[](r \in up)
    /\ <>[](r \in rss /\ r \in known /\ r \notin healthy) => <>[](r \notin up)

=============================================================================
