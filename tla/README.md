# A TLA+ development for l4-loadbalancer

This directory holds TLA+ specifications of the load balancer in this
repository, the TLC configurations that check them on small instances, and
TLAPS proofs of their main properties.  Paths such as `src/lb/session.cpp` are
relative to the repository root.

## 1. The system

`l4lb` is a DPDK layer-4 load balancer.  One process runs these threads:

* **workers** (`worker_loop`, src/dataplane/worker.cpp), one per lcore.  In rtc
  mode a worker polls its own RX queues; in pipeline mode it polls a ring that
  the receiver fills.  Each owns a session table, a TX buffer and a redirect
  ring through which other workers hand it packets of its sessions.
* the **receiver** (src/dataplane/receiver.cpp), pipeline mode only: polls the
  RX queues and dispatches packets to the workers' rings.
* the **master thread** (src/dataplane/master.cpp): ARP and the neighbor table,
  health probes, periodic statistics.
* the **control thread** (src/ctrl/control.cpp): health events and the commands
  of the control socket; the only thread that publishes configuration.
* the **logger thread** (src/common/logger.cpp).
* **main** (src/main.cpp): start-up, the join of all of these, clean-up.

| part | state | operations | shared with |
|---|---|---|---|
| session table | hash, free stack, session array, timing wheel, pending list | create, remove, touch, expire, lookup | one worker only |
| TCP state | `Session::state`, `fin_seen` | `tcp_next_state`, `state_timeout`, `reusable` | one worker only |
| packet processor | LIP port cursors, MAC caches in sessions | inbound, return, ICMP, ARP, health-check replies | reads snapshot, neighbor table; sends master events |
| snapshots | desired state, `cur_`, `version_` | init, set_*, add_rs, del_rs, publish, destroy | control writes; workers and master read |
| RCU (DPDK) | token, counts, registrations | register, online, quiescent, offline, synchronize | all of them |
| scheduler | WRR sequence or Maglev table, cursors | build, pick | built by control, cursors per worker |
| health check | per-RS probe state, source ports | tick, on_response | master; events to control through a ring |
| neighbor table | hash, private metadata, generation | learn, hint, erase, age, lookup | master writes, workers read |
| steering | port sets per worker | owner of a packet | read-only after start |
| rings | rx, redirect, master, health | enqueue and dequeue bursts | one or more producers, one consumer |
| logger | queue, drop count, level | push, run, shutdown | every thread |

How they interact.  A packet is steered to the worker that owns its session; a
worker that receives somebody else's packet passes it on through a ring.  The
owner's handler reads the snapshot, uses the session table, moves the TCP state
machine and asks the neighbor table for the next hop.  Health-check answers and
ARP go from the workers to the master through a ring, verdicts from the master
to the control thread through another.  The control thread turns verdicts and
commands into a new snapshot and waits, through RCU, until nobody uses the old
one.

What is hard, and what must hold:

| part | hard behaviour | properties |
|---|---|---|
| session table | expire stops in the middle of a slot and goes on later, among touches and removals | hash, free stack and lists agree; every session is expired, none early |
| forwarding | workers allocate ports independently; snapshots change between two packets of a session; sessions are replaced and rolled back | one session per server tuple, both directions at one worker, exact counters, sessions stay with a usable RS and leave a deleted one |
| snapshots | readers come, go and hold pointers while the writer frees; shutdown | no use after free, no leak, publish and shutdown terminate |
| health check | late, duplicated and lost answers; ports shared by all probes; a bounded ring to a slower reader | answering RSs stay up, dead ones go down, the snapshot follows the verdict |
| neighbor table | a cache in every session, validated by a generation; lost events; rationed requests | no session keeps an outdated MAC; neighbors that answer are found and kept |
| rings | full rings, two ways to a worker, shutdown with packets inside | every mbuf is sent or freed once; connections stay in order |
| scheduler | rounding, wrap-around, termination | shares follow weights, both builds end |
| packets | one address in several roles, port and length limits, options, the two zeros of a checksum | no packet is taken for another kind; receiver and worker agree; rewritten packets are well formed |
| logger | bounded queue, rotation, files that cannot be opened, shutdown among writers | accepted lines are written in order, dropped ones counted |

## 2. Modules

| module | models | code |
|---|---|---|
| `SessionTable` | one worker's session table, list pointers and all | src/lb/session.cpp |
| `SessionStore` | what it promises: a map from tuples to sessions with deadlines | – |
| `SnapshotRcu` | publication, RCU, reader loops, shutdown | src/ctrl/snapshot.cpp, control.cpp, worker.cpp, master.cpp, main.cpp |
| `TcpState` | the TCP state machine | src/lb/tcp_state.cpp |
| `Forwarding` | several workers' packet handlers and the control thread; uses `TcpState` | src/core/processor.cpp, steering.cpp, snapshot.cpp, control.cpp |
| `HealthCheck` | probes, answers, report ring, control thread | src/ctrl/healthcheck.cpp, control.cpp |
| `Neigh` | neighbor table, the master's loop around it, the sessions' MAC caches | src/net/neigh.cpp, master.cpp, processor.cpp, context.cpp, include/net/route.h |
| `Scheduler` | the WRR and Maglev tables, and picking from them | src/lb/scheduler.cpp |
| `Pipeline` | the way of an mbuf through queues, rings and TX buffers, and clean-up | src/dataplane/receiver.cpp, worker.cpp, main.cpp |
| `Logger` | logging threads, the writer, its files, opening and shutdown | src/common/logger.cpp |
| `Config` | what `Config::load` accepts and makes of a file | src/common/config.cpp |
| `Checksum` | full and incremental Internet checksums | src/protocol/checksum.cpp, include/protocol/checksum.h |
| `Packet` | a frame's dispatch, parsing, classification and rewriting; uses `Config` and `Checksum` | src/dataplane/receiver.cpp, src/protocol/parser.cpp, processor.cpp, src/forward/nat_forwarder.cpp |
| `MC...` | constants for TLC | – |
| `...Proofs` | theorems about the module of that name; `SessionWheelProofs` goes on where `SessionTableProofs` ends, with the timing wheel | – |

`PROJECT.json` maps every definition to its source lines.  Definitions marked as
mutants are wrong variants of the definition that follows them: replacing one by
the other makes TLC report the property named in `PROJECT.json`.

**SessionTable.**  The fields of `Session` that form the lists, the slot heads
and `pending_` are in the record `wheel`; `hash`, `free_stack`, `cur_tick` and
`now` are the members of those names.  Create, Touch and Remove are one step each
because one thread owns the table; each iteration of `expire`'s loops is a step.
`rte_hash` is a function from keys to indices that refuses keys beyond its number
of entries.  Client and server tuples are disjoint sets.

**SnapshotRcu.**  One step per shared memory access.  Readers are the workers and
the master; the RCU library is modelled from its calls.  The neighbor table's
deferred deletions advance the same token (`NeighDefer`).  Memory is sequentially
consistent: the code uses acquire/release on `cur_`, and the library orders the
rest with fences.

**Forwarding.**  Session tables are maps, as `SessionStore` has them; expiry is
complete at each tick, since the budget is `SessionTable`'s subject.  A
packet is an input: client (or server) tuple, flags, and whether it can be sent
(next hop known, TTL left).  One service is modelled.  An RS's weight, enabled
and healthy are the three cases that `usable` and `schedulable` tell apart.  The
scheduler may pick any schedulable RS.  `lip_cursor` and `lip_rr` are kept modulo
the number of candidates and of LIPs; their 32-bit wrap would only change where
the search starts.  A packet of another worker's session is redirected and
changes nothing here, so handlers are modelled at the owner.  Whether RSS decides
the owner of return packets is one constant; the code decides it for TCP and UDP
separately.  A session has the ticks `left` until its `expire_tick`, which `deadline`
sets one tick beyond the timeout, and the ticks it has been `idle`, which no action
reads: properties compare the two.  The old snapshot is gone when the last worker
has left it.

**HealthCheck.**  `tick` is one step for its first half and one per probe after,
because the control thread runs in between; answers are handled between ticks.
Times are relative and capped where the code stops comparing.  The network may
delay and repeat a SYN-ACK or a RST for ever, or lose it.  An ACK that is neither
ends a probe without a verdict; only a live RS sends one, since a dead RS whose
ACK were repeated for ever would never be judged.  RSs in `Good` answer before
their probe times out.  Services are TCP: the code does not probe others.

**Neigh.**  The master's changes of the table and of `gen_` are two steps, and so
are a worker's load of `gen_` and its lookup; a worker's cache is looked up and
stored by `resolve_mac`.  Generations are only compared for equality, so a cache is
current or it is not; that is exact below 2^32 changes.  The events of
`master_ring` are lost when it is full.  Ageing collects the entries to erase and
then erases them one at a time.  A reply is learned as solicited although nobody
may have asked (master.cpp:101-102); hints and requests addressed to the load
balancer are not.  An entry that a full hash refuses leaves its metadata invalid,
which is the same as none.  The configured MAC that `resolve_rs_mac` falls back
on has no state and is left out.

**Scheduler.**  `build` is one step per table entry, so that the loops' termination
can be stated.  The two hashes of a backend are any pair of a given set.  Maglev's
credits are doubles; they are kept as multiples of 1/max_w, and a sum that ought
to be exactly 1 may also come out below it.

**Pipeline.**  One step per burst taken from a queue or a ring and one per packet
handled.  What `process_packet` decides is a verdict: send, drop, consume, or
redirect to the owner.  The NIC takes any part of a TX burst.  `g_running` may
become false at any time; `Cleanup` is what main does after the join.  The plan of
queues comes from `port_plan`: the RX queues are rounded up to a power of two, so
there can be more of them than workers, and a worker polls several.  Which queue a
connection's packets arrive in is a constant; when the driver keeps a table of its own
(`setup_reta`) it can be any.

**Logger.**  One step per critical section of `mu`, one for the files before a batch
and one for each line of it.  Files are sequences of lines and sizes are in lines.
Every attempt to open a file may fail on its own.  Nobody else renames the files.

**Config, Checksum, Packet.**  A configuration file is a sequence of lines whose
values are tokens of a kind: what a number, an address or a list is has been
decided, what each key accepts has not.  Checksums use words of `W` bits.  In
`Packet` a file is loaded and frames go through `Dispatcher::target`, `parse`,
`process_packet` and `nat_rewrite`.  A frame's lengths are in bytes; of its
contents it has what these functions read.  For each packet it is open whether the
build and the port have TX checksum offload (`hw`), and whether the mbuf has room for
a TOA option, has none (`insert_toa` has then already trimmed the padding), or is a
chain.  With offload `l4_checksum_full` writes the sum of the pseudo header and sets
the flag; the NIC's part (`TxChecksum`) is modelled from what the flag asks of it.
Which worker owns a connection is
abstracted to the rule that picks it, and different rules are taken to pick
different workers, so that agreement is never a coincidence.

## 3. Runs

| run | configuration | distinct states | shows |
|---|---|---|---|
| session | 2 clients, capacity 2, wheel of 8, timeouts 1 and 3, budget 1, lag 2, 10 ticks | 217,582 | hash, free stack and lists agree; expired sessions are removed, and overdue ones go; the table implements `SessionStore` |
| session_long_timeout | wheel of 4, timeouts 1 and 4 | violation | finding 1 |
| snapshot_rcu | a worker and the master, 3 versions, 4 tokens | 150,586 | no use after free, no leak, a returned publish is seen by all; publish and shutdown terminate |
| forwarding_control | 2 workers, a TCP and a UDP client, 2 RS ids, 2 addresses, ports 3..4 | 125,006 | both directions at one worker, stickiness, obedience to snapshots, ids, lifetimes |
| forwarding_rss | RSS decides the return owner; 2 TCP clients, 2 LIPs, ports 3..5, 2 probes, TOA | 233,576 | server tuples unique, counters exact, sessions leave a deleted RS |
| health | 2 RS ids, one always answers, 2 ports, fall 2, rise 1, ring of 1 | 105,246 | ports, answering RSs stay up, dead ones go down, the snapshot follows |
| health_ports | 2 RSs, 1 port | violation | finding 2 |
| neigh | gateway with two MACs, client, static RS, RS beyond the gateway; ring of 1 | 302,204 | caches are fresh, table exact, entries in use stay, next hops are found |
| scheduler | 3 backends, weights 0, 1, 2, 3, 7, 9; sequence 7, Maglev table 7, 3 hash pairs, cursors modulo 16 | 164,303 | WRR shares and alternation, Maglev shares, builds end |
| logger | 2 threads, queue of 2, files of 2 lines, 2 old files, 3 lines, opened twice | 194,510 | no line lost, shutdown complete, files in order, lines get out |
| pipeline | 2 workers, 3 RX queues, both modes, 4 packets, bursts of 2, rings of 1 | 158,170 | mbufs and counters accounted for, connections in order, packets get out |
| packet | words of 2 bits, MTU 84; files and frames as below | 362,119 | nothing shadowed, dispatch agrees, rewriting sound |

Why the bounds are enough.

* *session*: the wheel has more slots than the longest timeout and the lag
  together, as the real one (4096 slots of a second) has; the budget is smaller than
  a slot may hold; the clock passes the end of the wheel.
* *snapshot_rcu*: one worker and the master are two readers that start, loop and
  leave independently; the theorems hold for any number.
* *forwarding*: the port range starts at an odd number, so that the alignment in
  `create_fullnat` matters, and its last candidate can fall outside it.  Two RS ids
  allow one to be deleted and another added at the same or a different address.
  Both runs are in NAT mode; the theorems also cover DR mode.  In
  *forwarding_control* established sessions have a timeout of three ticks, closing
  ones of two and all others of one, so a deadline taken from the wrong state is seen.
  That run tells states apart by all variables but `result` (`MCView`): no action
  reads `result`, its invariants do not mention it, and its action properties mention
  only the value after a step, which TLC evaluates for every step, also for one to a
  state it has seen.
* *health*: the ring of one report is full whenever one is pending.  Finding 2
  needs only more probes than ports; the code has 1000 ports and up to 16384 RSs.
* *neigh*: the four addresses are the four ways a next hop is decided.  An entry is
  refreshed after 1 second and aged out after 2; a full ring of one event loses every
  other one.
* *scheduler*: 7 and 9 make a sequence longer than its bound, which is then scaled;
  9 with 1 is scaled below 1.  Cursors modulo 16 wrap inside a sequence whose length
  does not divide 16.  Maglev permutations may be equal, or start at one slot.
* *logger*: three lines overfill the queue of two, rotate a file of two, and leave
  one for the time after shutdown.
* *pipeline*: three packets of a connection are enough to overfill a ring of one
  while another is in a burst; one of the three is an ICMP error, which the receiver
  sends elsewhere, and the fourth has no connection.
* *packet*: the address files let one address be VIP, LIP and `hc_src` in several
  combinations, with services at seven ports at the ends of the port ranges; the odd
  files have one line wrong, repeated or missing, in both formats; the rewrite file
  turns on TOA and stripping.  Frames have lengths on both sides of every limit,
  every checksum a word can hold, and all option fields of five bytes over EOL, NOP,
  2, 3 and the timestamp's kind.  One's complement arithmetic has its carries and
  its two zeros at any width.  The word for protocol and length of the pseudo header
  is at least 1, since the protocol is.  Every packet is rewritten with and without
  offload.

No run uses symmetry or a state constraint.

Fairness.  Workers, receiver and master poll in endless loops, so their steps and
their clock are weakly fair; `SnapshotRcu` and `HealthCheck` assume the same of
the control thread, whose loop has a poll with a timeout, `Pipeline` of main.
Packets, commands, deaths and losses are never assumed to happen.  `HealthCheck`
further assumes that an answer that is due arrives.  `Neigh` assumes that the
master gets through its loop (again and again a burst of events is short), that a
neighbor in `Good` answers, and that of endlessly many requests to one in `Lossy`
endlessly many answers find room in the ring.  `Logger` assumes that the writer
and the threads inside push, open_file and shutdown go on; the writer's wait has a
timeout.  `Scheduler` assumes that `build` goes on.

## 4. Findings

1. `expire` unlinks a session twice (src/lb/session.cpp:162-166 and 126).  With a
   timeout of about the wheel's size, the second unlink empties a slot that a
   surviving session was just linked into; that session never expires.  With
   shorter timeouts the run session shows no session is lost.
2. With all health-check ports in use, `send_probe` sends from a port that is not
   free (src/ctrl/healthcheck.cpp:155-162), and an RS that answers is judged down.

Remarks that need no run:

* docs/控制命令.md:77 says that packets to a deleted RS count as `drop_rs_down`;
  those of clients count as `drop_no_session` (src/core/processor.cpp:273).
* The comment at src/lb/tcp_state.cpp:59 and the diagram in include/lb/tcp_state.h
  say that an acknowledged FIN also leads to TIME_WAIT; the code, and `TcpState`, wait
  for the FINs of both sides.  `LifeMatchesState` asks of a closing session only what
  both agree on, that a FIN was seen.
* docs/校验处理.md:158, the comment at src/forward/nat_forwarder.cpp:212 and
  tests/perf/tools/memif_gen.c:109 say that a UDP checksum of 0 stays 0.  That holds
  when software writes the checksum.  With offload, which is the default build on a
  NIC that has it, `hw` is tested before `had_cksum` (line 203), and the packet leaves
  with a checksum.  The checksum is right, so receivers accept it; `RewriteSound`
  states both cases.
* With offload the pseudo header has the length of the IP packet
  (`rte_ipv4_phdr_cksum`), a receiver takes that of the UDP header.  `parse` accepts
  a UDP packet that is shorter than its IP packet; for such a packet `RewriteSound`
  claims a valid checksum only without offload.
* A WRR sequence may be longer than `kWrrMaxSeq` (include/lb/scheduler.h:41), by less
  than the number of backends, since a scaled weight is at least 1.  `WrrExact` has
  the bound that holds.
* include/dataplane/receiver.h:8-10 has malformed and non-IPv4 frames hashed; the
  code gives them to worker 0, which does as well.

## 5. Proofs

All theorems hold for every value of the constants that satisfies the named
assumption of the module, so the bounds of section 3 do not restrict them; the
bounds on clock, versions, tokens, lines and opens are constants too.

| module | theorems | assumptions |
|---|---|---|
| `SessionTableProofs` | `TypeCorrect`, `KeysAreExact`, `FreeIsExact`, `TableImplementsStore` | `SessionConstants`, `NoKeyIsNoSession` |
| `SessionWheelProofs` | `SlotsAreInTime`, `WheelIsExact`, `ExpiredAreGone`, `HashHasAlwaysRoom` | the same; all but the last also `WheelFits` |
| `SnapshotRcuProofs` | `TypeCorrect`, `ReadersAreSafe`, `PublishedIsSeen`, `NothingLeaks` | `RcuConstants` |
| `ForwardingProofs` | `TypeCorrect`, `BothWaysAreOwned`, `ServerTuplesAreUnique`, `IdsKeepAddresses`, `ActiveIsExact`, `LivesMatchStates`, `ConnectionsAreSticky`, `PublishedAreObeyed` | `ForwardingConstants` |
| `HealthCheckProofs` | `TypeCorrect`, `PortsAreExact`, `GoodStayUp` | `HealthConstants`; the last two also `MaxRs <= NPorts` |
| `NeighProofs` | `CachesAreFresh`, `TableIsExact`, `AnsweringStay` | `NeighConstants`; the last also `RefreshInTime` |
| `SchedulerProofs` | `EqualWeightsDoAlternate`, `SharesAreExact`, `WrrIsExact`, `MaglevIsFair` | `SchedulerConstants`, `CursorIsWide`, `MaglevSizeIsPrime` |
| `LoggerProofs` | `NothingIsLeft`, `NoLineIsLost` | `LoggerConstants` |

Each theorem `Spec => []P` follows from an inductive invariant (`IInv` unless
named otherwise): it holds initially, every action keeps it (one lemma or case per
action), and it implies `P`.

* **SessionTable.**  `KeysExact` alone is not inductive: `expire` follows list
  pointers, and what it removes is live only if the lists hold live sessions.
  `IInv` adds that the doubly linked lists are well formed (`ListsOK`) and that
  the chain `expire` has taken out of its slot is in no list (`ChainOK`).
  Lemmas say what link, unlink and push do to a well-formed set of lists,
  including the second unlink of finding 1.  These theorems and the refinement
  relate timeouts and wheel by no assumption: finding 1 loses a session from the
  wheel, never an index or a key.
* **Refinement.**  `TableImplementsStore`: the mapping of `ImplementsStore` sends
  the table to the map that lookup sees.  Each action is one action of
  `SessionStore` or a stutter: creating adds both keys of one session, removing
  takes both, moving between lists is invisible, and `expire` takes a session only
  when its deadline has come.  `KeysExact` makes the map well defined, and
  `FreeExact` says that a session just popped from the stack was not in it.
* **Session wheel.**  That every session is reached in time needs three things
  `IInv` does not say.  `HeadsOK`: a session without predecessor is the head of
  the list its own fields name.  `RankOK`: the lists have no cycle, stated by the
  existence of a rank that grows along `next` (a bound on a path, since there is
  no induction over lists).  `Ticks`: a linked session's slot is that of a tick
  between the wheel's and its deadline.  `Ticks` is inductive only if no two
  ticks that are in use at a time share a slot, which is `WheelFits`:
  lag + timeout + 3 is at most the number of slots, for every timeout.  Finding 1
  is what happens otherwise.  `HashHasAlwaysRoom` counts: keys are at most two
  for each session in use.
* **SnapshotRcu.**  The heart is `GraceOK`: a reader that still holds the
  snapshot being retired loaded it before the swap, so its count is below the
  grace token and the scan cannot pass it.  `ReadersOK`, `SnapOK` and `EndOK` say
  where readers, references and main are in their loops.
* **Forwarding.**  The port arithmetic is proved first: from the offset of worker
  w, every N-th port is congruent to w modulo N, for any start of the range.
  `OwnersOK` (each session is with the owner of both its tuples) and `TuplesOK`
  (tuples are unique within a worker) together give uniqueness across workers,
  since two workers cannot own the same tuple.  `IdsOK` says that ids not yet
  given out are in no snapshot and no session.  `ActiveExact` counts a finite
  table, with the cardinality of a set plus or minus one element.
  `LifeMatchesState` is inductive together with `IInv`: the state machine keeps
  state and seen FINs in step (`NextStateHonest`), every handler that keeps a
  session sets its deadline from its new state and starts its idle time anew, and a
  tick moves one unit from the time left to the idle time.  `Sticky` uses the sum: a
  session with at most one tick left has been idle for its timeout.  The two action properties rest on
  one lemma for each handler that says what it does to every session
  (`Changes`: a session stays with its RS and server tuple, is replaced for one of
  the reasons the code has, or expires) and which RSs it sends to (`Sends`);
  `Sticky` and `PublishedIsObeyed` follow from these, whatever the handler was.
* **HealthCheck.**  `PortInv`: ports in use and probes in flight are inverse to each
  other.  With a port per RS id a free one exists (`PortsOutnumber`, a pigeonhole
  argument).  `GoodInv`: an RS that answers has an answer due whenever its probe
  is in flight, its own port and sequence number on the way, and no verdict
  against it anywhere between the probe and the snapshot.  Without
  `MaxRs <= NPorts` it fails, by finding 2.
* **Neigh.**  `CacheFresh` is about the moments when no advance of the generation
  is due, so it is kept by the table's changes only because each is followed by
  one; a worker that loaded the generation before a change may still store what it
  read, which is then not current.  `TableExact` needs that the entries collected
  for erasing are valid (`DeadOK`) and that events carry MACs (`EventsOK`).
  `InUseStays` needs `KInv`: for each neighbor that answers, either its entry was
  confirmed or requested so lately that the next ageing comes in time, or the
  answer is already in the ring; and it is never among the entries collected.  `RefreshInTime`
  (refresh time and retry gap, each plus the longest pause of the master's loop, are
  at most the ageing time) is what the argument uses.  With the code's 240 s, 5 s
  and 300 s the pause may be up to 60 s.
* **Scheduler.**  `WrrInv` has `Balanced`: the current weights sum to 0, and that of a
  backend is its weight times the entries made so far less the total times its
  share.  The backend with the largest current weight wins, so no current weight
  falls to -total or below; when total entries have been made, each current weight
  is a multiple of the total, so none is negative, and as they sum to 0 all are 0 and
  shares equal weights.  Sums over backends
  are a recursive function; the lemma `Along` takes the least counterexample, since
  the library's induction cannot be used.
  `WrrIsExact` adds `RoundInv`: shares count the entries of the table, and its
  length is below `MaxSeq` plus a backend each, from a bound on the sum of the
  scaled weights.  A round of picks reads positions that are a rotation of the
  table, hence all of it once, unless the cursor wraps, when it reads two parts of
  the table that are each read at most once (`CursorIsWide`: the 32-bit cursor is
  wider than the table).
  `MaglevIsFair` has two halves.  As the table size is prime (65537 in the code),
  offset and skip give a permutation of the slots (`NoShortCycle`, `EverySlot`), so a
  search that finds a slot free at all finds it within one pass.  `Credits` is an
  equation: credit plus slots taken times the largest weight is the number of turns
  times the weight.  A credit never exceeds the largest weight, so shares are
  in the ratio of weights up to one round and one slot.
* **Logger.**  `StopInv` relates the positions of the writer and of the thread that
  shuts it down: nothing can be queued once `active` is false, and the writer leaves
  only with a batch it took after `stop` was set.  `LineInv` says that the places a
  line can be in (inside push, queue, batch, files, stderr) are pairwise disjoint and
  hold no line twice (`Apart`), and that their number plus the drops is the number of
  lines issued; each action moves one line or a whole sequence of them.

Only model-checked:

* the liveness properties (`OverdueGoes`, `WaitsEnd`, `DeletedDrains`,
  `DeadGoesDown`, `SnapshotFollows`, `NextHopFound`, `BuildEnds`, `LinesGetOut`,
  `PacketsGetOut`): the prover has no rules for fairness;
* `FilesInOrder`: it compares concatenations of whole files, which takes induction
  over sequences;
* `Accounted` and `FlowsInOrder` of `Pipeline`: not attempted yet;
* the properties of `Packet` and `Config`, whose functions are recursive over data.

## 6. What is not modelled

* Packet bytes beyond the fields that are tested or rewritten: building ARP and echo
  replies and probes, the IP header checksum, the inside of a translated ICMP error.
* The Toeplitz hash, the NIC's table and port set-up: which worker a tuple hashes to
  is a constant, and src/dataplane/port.cpp is a sequence of calls into the driver.
* Command text, replies, statistics output, log formatting, rate limits and DPDK's own
  log stream: they change no state that the properties are about.
* Signals other than the stop and the reopening of the log; the daemon's start.
* The wrap of the neighbor table's generation after 2^32 changes.
* Weak memory.  All modules are sequentially consistent.

## 7. Plan

1. `Forwarding` with several services, and the health ring in the same model.
2. Proofs about `Pipeline`: `Accounted` (every mbuf in one place) and `FlowsInOrder`.
