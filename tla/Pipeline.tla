------------------------------ MODULE Pipeline ------------------------------
(***************************************************************************)
(* The way of a packet buffer (mbuf) through the data plane: the receiver  *)
(* (src/dataplane/receiver.cpp), the workers' loop, their rings and TX     *)
(* buffers (src/dataplane/worker.cpp), and what main() does with the rest  *)
(* when the program stops (src/main.cpp).  What process_packet decides for *)
(* a packet of a session is in Forwarding; here it is a verdict.           *)
(*                                                                         *)
(* In mode "rtc" worker w polls the RX queues w, w + N, ... itself; in mode *)
(* "pipeline" the receiver polls all and hands packets to the workers.     *)
(***************************************************************************)
EXTENDS Integers, Sequences, FiniteSets, SequencesExt

CONSTANTS
  N,          \* workers are 0 .. N - 1
  NQ,         \* RX queues are 0 .. NQ - 1
  Modes,      \* dataplane modes: subset of {"rtc", "pipeline"}
  MaxPkts,    \* bound: packets that arrive; they are numbered as they do
  Flow,       \* Flow[p]: the connection of packet p, or NoFlow
  NoFlow,
  Owner,      \* Owner[f]: the worker that has f's session
  Icmp,       \* the packets that are ICMP errors about their connection
  Queue,      \* Queue[p]: the RX queue the NIC puts p in, one per connection
  Hashed,     \* Hashed[p]: the worker a hash of p's two addresses picks
  Burst,      \* BURST_SIZE
  RingSize    \* room in a worker's rx_ring and in its redirect_ring

Workers == 0 .. N - 1
Queues == 0 .. NQ - 1
Pkts == 1 .. MaxPkts

ASSUME PipelineConstants ==
  /\ N \in Nat \ {0} /\ NQ \in Nat \ {0} /\ MaxPkts \in Nat /\ Burst \in Nat \ {0} /\ RingSize \in Nat \ {0}
  /\ Modes \subseteq {"rtc", "pipeline"}
  /\ \A p \in Pkts : /\ Flow[p] # NoFlow => Owner[Flow[p]] \in Workers
                     /\ Queue[p] \in Queues /\ Hashed[p] \in Workers
  /\ \A p, q \in Pkts \ Icmp : Flow[p] = Flow[q] /\ Flow[p] # NoFlow => Queue[p] = Queue[q]

VARIABLES
  mode,       \* g_dp.pipeline
  running,    \* g_running
  arrived,    \* packets that have arrived so far
  nic,        \* the RX queues
  rx_ring, redirect_ring,  \* WorkerCtx::rx_ring, redirect_ring
  wpc, bufs,  \* a worker: which burst it is handling, and what is left of it
  wq,         \* the RX queue it polls next
  tx,         \* WorkerCtx::tx
  rpc, rq,    \* the receiver, and the RX queue it polls next
  mpc,        \* main(): "start", "run", "joined", "exit"
  sent,       \* packets handed to the NIC, in order
  freed,      \* how many times each packet was freed
  stat        \* the counters, and CONSUMED and CLEANUP, which nobody counts

ringvars == <<nic, rx_ring, redirect_ring>>
wrkvars == <<wpc, wq, bufs, tx>>
outvars == <<sent, freed, stat>>
vars == <<mode, running, arrived, ringvars, wrkvars, rpc, rq, mpc, outvars>>

Stats == {"RX", "RING_IN", "REDIRECT_OUT", "REDIRECT_IN", "TX", "TX_FULL",
          "DROP", "DROP_REDIRECT", "DROP_RX_RING", "CONSUMED", "CLEANUP"}

Init ==
  /\ mode \in Modes /\ running = TRUE /\ arrived = 0
  /\ nic = [q \in Queues |-> <<>>]
  /\ rx_ring = [w \in Workers |-> <<>>] /\ redirect_ring = [w \in Workers |-> <<>>]
  /\ wpc = [w \in Workers |-> "off"] /\ wq = [w \in Workers |-> w]
  /\ bufs = [w \in Workers |-> <<>>] /\ tx = [w \in Workers |-> <<>>]
  /\ rpc = "off" /\ rq = 0
  /\ mpc = "start"
  /\ sent = <<>> /\ freed = [p \in Pkts |-> 0] /\ stat = [s \in Stats |-> 0]

Add(c, s, n) == [c EXCEPT ![s] = @ + n]
Free(set) == [p \in Pkts |-> IF p \in set THEN freed[p] + 1 ELSE freed[p]]
Least(a, b) == IF a < b THEN a ELSE b

\* The NIC receives the next packet; signal_handler ends the loops.
Arrive ==
  LET p == arrived + 1
  IN  /\ arrived < MaxPkts
      /\ arrived' = p
      /\ nic' = [nic EXCEPT ![Queue[p]] = Append(@, p)]
      /\ UNCHANGED <<mode, running, rx_ring, redirect_ring, wrkvars, rpc, rq, mpc, outvars>>

Stop ==
  /\ running /\ running' = FALSE
  /\ UNCHANGED <<mode, arrived, ringvars, wrkvars, rpc, rq, mpc, outvars>>

\* main() starts the threads; without the master thread it starts no other.
Launch ==
  /\ mpc = "start" /\ mpc' = "run"
  /\ \/ /\ wpc' = [w \in Workers |-> "top"]
        /\ rpc' = IF mode = "pipeline" THEN "top" ELSE "off"
        /\ UNCHANGED running
     \/ running' = FALSE /\ UNCHANGED <<wpc, rpc>>
  /\ UNCHANGED <<mode, arrived, ringvars, wq, bufs, tx, rq, outvars>>

-----------------------------------------------------------------------------
(* The receiver.                                                           *)

\* Mutant: packets are handed out in turn.
targetInTurn(p) == p % N

\* Dispatcher::target: the owner of the connection; packets without ports are
\* spread by their addresses, an ICMP error too.
target(p) == IF Flow[p] = NoFlow \/ p \in Icmp THEN Hashed[p] ELSE Owner[Flow[p]]

\* receiver_loop and dispatch_rx_queue: a burst of the next queue, grouped by
\* target; what has no room is dropped.  The loop looks at g_running between rounds.
Receive ==
  LET burst == SubSeq(nic[rq], 1, Least(Burst, Len(nic[rq])))
      Group(w) == SelectSeq(burst, LAMBDA p : target(p) = w)
      Done(w) == Least(Len(Group(w)), RingSize - Len(rx_ring[w]))
      dropped == UNION {ToSet(SubSeq(Group(w), Done(w) + 1, Len(Group(w)))) : w \in Workers}
  IN  /\ rpc = "top" /\ (running \/ rq > 0)
      /\ rq' = (rq + 1) % NQ
      /\ nic' = [nic EXCEPT ![rq] = SubSeq(@, Len(burst) + 1, Len(@))]
      /\ rx_ring' = [w \in Workers |-> rx_ring[w] \o SubSeq(Group(w), 1, Done(w))]
      /\ freed' = Free(dropped)
      /\ stat' = Add(Add(stat, "RX", Len(burst)), "DROP_RX_RING", Cardinality(dropped))
      /\ UNCHANGED <<mode, running, arrived, redirect_ring, wrkvars, rpc, mpc, sent>>

ReceiverExit ==
  /\ rpc = "top" /\ ~running /\ rq = 0
  /\ rpc' = "off"
  /\ UNCHANGED <<mode, running, arrived, ringvars, wrkvars, rq, mpc, outvars>>

-----------------------------------------------------------------------------
(* A worker.                                                               *)

\* The first part of a round: a burst of rx_ring, or of each of its RX queues.
PollRing(w) ==
  LET n == Least(Burst, Len(rx_ring[w]))
  IN  /\ mode = "pipeline" /\ wpc[w] = "top" /\ running
      /\ wpc' = [wpc EXCEPT ![w] = "rx"]
      /\ bufs' = [bufs EXCEPT ![w] = SubSeq(rx_ring[w], 1, n)]
      /\ rx_ring' = [rx_ring EXCEPT ![w] = SubSeq(@, n + 1, Len(@))]
      /\ stat' = Add(stat, "RING_IN", n)
      /\ UNCHANGED <<mode, running, arrived, nic, redirect_ring, wq, tx, rpc, rq, mpc, sent, freed>>

PollQueue(w) ==
  LET q == wq[w]
      n == Least(Burst, Len(nic[q]))
  IN  /\ mode = "rtc" /\ q < NQ
      /\ (wpc[w] = "top" /\ running) \/ (wpc[w] = "rx" /\ bufs[w] = <<>>)
      /\ wpc' = [wpc EXCEPT ![w] = "rx"] /\ wq' = [wq EXCEPT ![w] = q + N]
      /\ bufs' = [bufs EXCEPT ![w] = SubSeq(nic[q], 1, n)]
      /\ nic' = [nic EXCEPT ![q] = SubSeq(@, n + 1, Len(@))]
      /\ stat' = Add(stat, "RX", n)
      /\ UNCHANGED <<mode, running, arrived, rx_ring, redirect_ring, tx, rpc, rq, mpc, sent, freed>>

\* The second: a burst of redirect_ring.
PollRedirect(w) ==
  LET n == Least(Burst, Len(redirect_ring[w]))
  IN  /\ bufs[w] = <<>>
      /\ IF mode = "rtc" /\ w < NQ THEN wpc[w] = "rx" /\ wq[w] >= NQ
         ELSE wpc[w] = "rx" \/ (mode = "rtc" /\ wpc[w] = "top" /\ running)
      /\ wpc' = [wpc EXCEPT ![w] = "redirect"] /\ wq' = [wq EXCEPT ![w] = w]
      /\ bufs' = [bufs EXCEPT ![w] = SubSeq(redirect_ring[w], 1, n)]
      /\ redirect_ring' = [redirect_ring EXCEPT ![w] = SubSeq(@, n + 1, Len(@))]
      /\ stat' = Add(stat, "REDIRECT_IN", n)
      /\ UNCHANGED <<mode, running, arrived, nic, rx_ring, tx, rpc, rq, mpc, sent, freed>>

\* tx_flush with n packets taken by the NIC; the others are freed.
FlushBuffer(w, buf, n) ==
  /\ tx' = [tx EXCEPT ![w] = <<>>]
  /\ sent' = sent \o SubSeq(buf, 1, n)
  /\ freed' = Free(ToSet(SubSeq(buf, n + 1, Len(buf))))

\* handle() with verdict SEND: into the TX buffer, which is flushed when full.
Send(w, p) ==
  LET buf == Append(tx[w], p)
  IN  IF Len(buf) < Burst
      THEN tx' = [tx EXCEPT ![w] = buf] /\ UNCHANGED <<outvars, redirect_ring>>
      ELSE /\ \E n \in 0 .. Len(buf) :
                /\ FlushBuffer(w, buf, n)
                /\ stat' = Add(Add(stat, "TX", n), "TX_FULL", Len(buf) - n)
           /\ UNCHANGED redirect_ring

\* Verdict REDIRECT: to the owner's ring, or dropped when that is full.
Redirect(w, p) ==
  LET to == Owner[Flow[p]]
  IN  /\ IF Len(redirect_ring[to]) < RingSize
         THEN /\ redirect_ring' = [redirect_ring EXCEPT ![to] = Append(@, p)]
              /\ stat' = Add(stat, "REDIRECT_OUT", 1)
              /\ UNCHANGED freed
         ELSE /\ freed' = Free({p}) /\ UNCHANGED redirect_ring
              /\ stat' = Add(stat, "DROP_REDIRECT", 1)
      /\ UNCHANGED <<tx, sent>>

\* Verdicts DROP and CONSUMED
Discard(p, as) ==
  /\ freed' = Free({p})
  /\ stat' = Add(stat, as, 1)
  /\ UNCHANGED <<tx, sent, redirect_ring>>

\* process_packet's question: does another worker own the packet's session?
Elsewhere(w, p) == Flow[p] # NoFlow /\ Owner[Flow[p]] # w

Handle(w) ==
  LET p == Head(bufs[w])
  IN  /\ wpc[w] \in {"rx", "redirect"} /\ bufs[w] # <<>>
      /\ bufs' = [bufs EXCEPT ![w] = Tail(@)]
      /\ \/ Elsewhere(w, p) /\ wpc[w] = "rx" /\ Redirect(w, p)
         \/ ~Elsewhere(w, p) /\ Send(w, p)
         \/ (Elsewhere(w, p) => wpc[w] = "redirect") /\ Discard(p, "DROP")
         \/ Flow[p] = NoFlow /\ Discard(p, "CONSUMED")
      /\ UNCHANGED <<mode, running, arrived, nic, rx_ring, wpc, wq, rpc, rq, mpc>>

\* Mutant: a round ends without tx_flush; only a full buffer is sent.
FlushWhenFull(w) ==
  /\ wpc[w] = "redirect" /\ bufs[w] = <<>> /\ wpc' = [wpc EXCEPT ![w] = "top"]
  /\ UNCHANGED <<mode, running, arrived, ringvars, wq, bufs, tx, rpc, rq, mpc, outvars>>

\* The end of a round, and the end of the loop: tx_flush.
Flush(w) ==
  /\ \/ wpc[w] = "redirect" /\ bufs[w] = <<>> /\ wpc' = [wpc EXCEPT ![w] = "top"]
     \/ wpc[w] = "top" /\ ~running /\ wpc' = [wpc EXCEPT ![w] = "off"]
  /\ \E n \in 0 .. Len(tx[w]) :
       /\ FlushBuffer(w, tx[w], n)
       /\ stat' = Add(Add(stat, "TX", n), "TX_FULL", Len(tx[w]) - n)
  /\ UNCHANGED <<mode, running, arrived, ringvars, wq, bufs, rpc, rq, mpc>>

Worker(w) == PollRing(w) \/ PollQueue(w) \/ PollRedirect(w) \/ Handle(w) \/ Flush(w)

-----------------------------------------------------------------------------
(* main().                                                                 *)

\* rte_eal_mp_wait_lcore
Join ==
  /\ mpc = "run" /\ rpc = "off" /\ \A w \in Workers : wpc[w] = "off"
  /\ mpc' = "joined"
  /\ UNCHANGED <<mode, running, arrived, ringvars, wrkvars, rpc, rq, outvars>>

\* Mutant: only the receiver's rings are emptied.
CleanedRx(w) == ToSet(rx_ring[w])

\* The packets of a worker's rings that the clean-up frees
Cleaned(w) == ToSet(rx_ring[w]) \cup ToSet(redirect_ring[w])

Cleanup ==
  LET rest == UNION {Cleaned(w) : w \in Workers}
  IN  /\ mpc = "joined"
      /\ mpc' = "exit"
      /\ freed' = Free(rest)
      /\ stat' = Add(stat, "CLEANUP", Cardinality(rest))
      /\ rx_ring' = [w \in Workers |-> <<>>]
      /\ redirect_ring' = [w \in Workers |-> <<>>]
      /\ UNCHANGED <<mode, running, arrived, nic, wrkvars, rpc, rq, sent>>

Next ==
  \/ Arrive \/ Stop \/ Launch
  \/ Receive \/ ReceiverExit
  \/ \E w \in Workers : Worker(w)
  \/ Join \/ Cleanup

Spec == Init /\ [][Next]_vars

\* The lcores poll without end, and main() goes on.
FairSpec ==
  /\ Spec
  /\ \A w \in Workers : WF_vars(Worker(w))
  /\ WF_vars(Receive \/ ReceiverExit)
  /\ WF_vars(Launch \/ Join \/ Cleanup)

-----------------------------------------------------------------------------
(* Properties.                                                             *)

\* The packets worker w's rings and buffers hold; those the program holds
Held(w) == rx_ring[w] \o redirect_ring[w] \o bufs[w] \o tx[w]
InFlight == UNION {ToSet(Held(w)) : w \in Workers}
Waiting == UNION {ToSet(nic[q]) : q \in Queues}

\* Every packet is in one place or freed once: no ring, buffer or burst holds it
\* twice, none is freed while it is held or has been sent, and none is forgotten,
\* not even by the clean-up at exit.  The counters account for every packet.
Accounted ==
  /\ \A w \in Workers : Cardinality(ToSet(Held(w))) = Len(Held(w))
  /\ \A w, v \in Workers : w # v => ToSet(Held(w)) \cap ToSet(Held(v)) = {}
  /\ InFlight \cap (Waiting \cup ToSet(sent)) = {}
  /\ \A p \in 1 .. arrived :
       freed[p] = IF p \in InFlight \cup Waiting \cup ToSet(sent) THEN 0 ELSE 1
  /\ stat["RX"] = Cardinality(InFlight) + stat["TX"] + stat["TX_FULL"] + stat["DROP"]
                    + stat["DROP_REDIRECT"] + stat["DROP_RX_RING"]
                    + stat["CONSUMED"] + stat["CLEANUP"]
  /\ stat["TX"] = Cardinality(ToSet(sent)) /\ stat["TX"] = Len(sent)
  /\ mpc = "exit" => InFlight = {}

\* Packets of a connection are sent by its owner only, and in the order in which
\* they arrived, whether they were redirected or not.
FlowsInOrder ==
  /\ \A w \in Workers : \A p \in ToSet(tx[w]) : Flow[p] # NoFlow => Owner[Flow[p]] = w
  /\ \A i, j \in DOMAIN sent :
       /\ i < j /\ {sent[i], sent[j]} \cap Icmp = {}
       /\ Flow[sent[i]] = Flow[sent[j]] /\ Flow[sent[i]] # NoFlow
       => sent[i] < sent[j]

\* No packet stays in the rings and buffers for ever, and the program exits once
\* it is told to.
PacketsGetOut ==
  /\ \A p \in Pkts : []<>(p \notin InFlight)
  /\ []<>(running \/ mpc = "exit")

=============================================================================
