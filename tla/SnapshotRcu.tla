---------------------------- MODULE SnapshotRcu ----------------------------
(***************************************************************************)
(* Publication and reclamation of configuration snapshots: the control     *)
(* thread (control.cpp, snapshot.cpp) swaps SnapshotManager::cur_ and      *)
(* frees the old snapshot after an RCU grace period; every worker          *)
(* (worker.cpp) and the master thread (master.cpp) read the current        *)
(* snapshot once per loop round and report a quiescent state at its end;   *)
(* main (main.cpp) joins them and destroys the last snapshot.              *)
(*                                                                         *)
(* rte_rcu_qsbr is DPDK's.  It is modelled from the way it is called here, *)
(* one step per shared access: a token the writer advances, a count per    *)
(* reader that is 0 while the reader is offline, and the set of registered *)
(* readers that the writer scans.                                          *)
(***************************************************************************)
EXTENDS Integers, FiniteSets

CONSTANTS
  Readers,     \* the RCU thread ids: worker lcores and kMasterRcuId
  Master,      \* kMasterRcuId, the reader that also ages the neighbor table
  MaxVersion,  \* bound: number of snapshots published
  MaxToken     \* bound: the token the neighbor table's deferrals may reach

ASSUME RcuConstants ==
  /\ Master \in Readers
  /\ MaxVersion \in Nat
  /\ MaxToken \in Nat

VARIABLES
  cur,         \* SnapshotManager::cur_, a snapshot version; 0 is nullptr
  version,     \* SnapshotManager::version_
  heap,        \* the snapshots that are allocated
  token,       \* qsbr: the token
  cnt,         \* qsbr: the count each reader last reported, 0 when offline
  registered,  \* qsbr: the registered readers
  rpc,         \* where each reader is in its loop
  tok,         \* the token a reader has loaded and not yet stored
  snap,        \* the reader's local reference to a snapshot, 0 when it has none
  cpc,         \* where the control thread's run loop is
  ppc,         \* where the control thread is inside publish
  old,         \* publish's local old
  grace,       \* the token publish waits for
  scan,        \* the readers publish has yet to see quiescent
  g_running,   \* cleared by a signal or by the quit command
  stop,        \* ControlServer::stop_
  mpc          \* where main is in its shutdown sequence

qsbrVars == <<token, cnt, registered>>
readVars == <<rpc, tok, snap>>
snapVars == <<cur, version, heap>>
pubVars  == <<ppc, old, grace, scan>>
endVars  == <<g_running, stop, mpc>>
vars     == <<snapVars, qsbrVars, readVars, cpc, pubVars, endVars>>

\* main has run snapshots.init, which publishes version 1 with no old snapshot
\* to wait for, and has started the control thread, the master and the workers.
Init ==
  /\ cur = 1 /\ version = 1 /\ heap = {1}
  /\ token = 1
  /\ cnt = [r \in Readers |-> 0]
  /\ registered = {}
  /\ rpc = [r \in Readers |-> "start"]
  /\ tok = [r \in Readers |-> 0]
  /\ snap = [r \in Readers |-> 0]
  /\ cpc = "top"
  /\ ppc = "idle" /\ old = 0 /\ grace = 0 /\ scan = {}
  /\ g_running = TRUE /\ stop = FALSE /\ mpc = "wait"

(***************************************************************************)
(* Readers: worker_loop and master_loop                                    *)
(***************************************************************************)

Goto(r, a, b) ==
  /\ rpc[r] = a
  /\ rpc' = [rpc EXCEPT ![r] = b]

Register(r) ==
  /\ Goto(r, "start", "registered")
  /\ registered' = registered \cup {r}
  /\ UNCHANGED <<snapVars, token, cnt, tok, snap, cpc, pubVars, endVars>>

\* rte_rcu_qsbr_thread_online: load the token, then store it as the count.
OnlineLoad(r) ==
  /\ Goto(r, "registered", "onlining")
  /\ tok' = [tok EXCEPT ![r] = token]
  /\ UNCHANGED <<snapVars, qsbrVars, snap, cpc, pubVars, endVars>>

OnlineStore(r) ==
  /\ Goto(r, "onlining", "loop")
  /\ cnt' = [cnt EXCEPT ![r] = tok[r]]
  /\ UNCHANGED <<snapVars, token, registered, tok, snap, cpc, pubVars, endVars>>

LoopTest(r) ==
  /\ Goto(r, "loop", IF g_running THEN "round" ELSE "leave")
  /\ UNCHANGED <<snapVars, qsbrVars, tok, snap, cpc, pubVars, endVars>>

\* current(): from here to the quiescent call the reader follows snap.
LoadCurrent(r) ==
  /\ Goto(r, "round", "hold")
  /\ snap' = [snap EXCEPT ![r] = cur]
  /\ UNCHANGED <<snapVars, qsbrVars, tok, cpc, pubVars, endVars>>

\* Mutant: the quiescent state is reported before the round's last packets.
QuiescentLoadEarly(r) ==
  /\ Goto(r, "hold", "quiescent")
  /\ tok' = [tok EXCEPT ![r] = token]
  /\ UNCHANGED <<snapVars, qsbrVars, snap, cpc, pubVars, endVars>>

\* rte_rcu_qsbr_quiescent: the round is over and snap is not used again.
QuiescentLoad(r) ==
  /\ Goto(r, "hold", "quiescent")
  /\ tok' = [tok EXCEPT ![r] = token]
  /\ snap' = [snap EXCEPT ![r] = 0]
  /\ UNCHANGED <<snapVars, qsbrVars, cpc, pubVars, endVars>>

QuiescentStore(r) ==
  /\ Goto(r, "quiescent", "loop")
  /\ cnt' = [cnt EXCEPT ![r] = tok[r]]
  /\ UNCHANGED <<snapVars, token, registered, tok, snap, cpc, pubVars, endVars>>

\* Mutant: a reader that leaves its loop stays online.
OfflineSkipped(r) ==
  /\ Goto(r, "leave", "gone")
  /\ UNCHANGED <<snapVars, qsbrVars, tok, snap, cpc, pubVars, endVars>>

Offline(r) ==
  /\ Goto(r, "leave", "offline")
  /\ cnt' = [cnt EXCEPT ![r] = 0]
  /\ UNCHANGED <<snapVars, token, registered, tok, snap, cpc, pubVars, endVars>>

Unregister(r) ==
  /\ Goto(r, "offline", "gone")
  /\ registered' = registered \ {r}
  /\ UNCHANGED <<snapVars, token, cnt, tok, snap, cpc, pubVars, endVars>>

\* NeighTable::erase inside master_periodic: rte_hash defers the freed slot on
\* the same qsbr, which advances the token (RTE_HASH_QSBR_MODE_DQ).
NeighDefer ==
  /\ rpc[Master] = "hold"
  /\ token < MaxToken
  /\ token' = token + 1
  /\ UNCHANGED <<snapVars, cnt, registered, readVars, cpc, pubVars, endVars>>

ReaderStep(r) ==
  \/ Register(r)
  \/ OnlineLoad(r) \/ OnlineStore(r)
  \/ LoopTest(r) \/ LoadCurrent(r)
  \/ QuiescentLoad(r) \/ QuiescentStore(r)
  \/ Offline(r) \/ Unregister(r)

(***************************************************************************)
(* The control thread: ControlServer::run and SnapshotManager::publish     *)
(***************************************************************************)

\* run: drain_health and the command of one client may each end in a publish.
AfterStage(stage) == IF stage = "drain" THEN "command" ELSE "top"

RunTop ==
  /\ cpc = "top"
  /\ cpc' = IF stop THEN "stopped" ELSE "drain"
  /\ UNCHANGED <<snapVars, qsbrVars, readVars, pubVars, endVars>>

\* No health event is queued, no client is waiting, or its command changes
\* nothing that needs publishing.
RunSkip ==
  /\ cpc \in {"drain", "command"}
  /\ ppc = "idle"
  /\ cpc' = AfterStage(cpc)
  /\ UNCHANGED <<snapVars, qsbrVars, readVars, pubVars, endVars>>

\* Mutant: publish returns without waiting for the readers.
PublishSwapNoWait ==
  /\ cpc \in {"drain", "command"}
  /\ ppc = "idle"
  /\ version < MaxVersion
  /\ version' = version + 1
  /\ cur'  = version + 1
  /\ heap' = (heap \ {cur}) \cup {version + 1}
  /\ cpc'  = AfterStage(cpc)
  /\ UNCHANGED <<qsbrVars, readVars, pubVars, endVars>>

\* publish builds the next version and exchanges it with cur_ under mu_.
PublishSwap ==
  /\ cpc \in {"drain", "command"}
  /\ ppc = "idle"
  /\ version < MaxVersion
  /\ version' = version + 1
  /\ cur'  = version + 1
  /\ heap' = heap \cup {version + 1}
  /\ old'  = cur
  /\ ppc'  = "start"
  /\ UNCHANGED <<qsbrVars, readVars, cpc, grace, scan, endVars>>

\* rte_rcu_qsbr_synchronize: advance the token, then wait until no registered
\* reader is online with an older count.
SyncStart ==
  /\ ppc = "start"
  /\ token' = token + 1
  /\ grace' = token + 1
  /\ ppc'   = "bitmap"
  /\ UNCHANGED <<snapVars, cnt, registered, readVars, cpc, old, scan, endVars>>

SyncBitmap ==
  /\ ppc = "bitmap"
  /\ scan' = registered
  /\ ppc'  = "scan"
  /\ UNCHANGED <<snapVars, qsbrVars, readVars, cpc, old, grace, endVars>>

Passed(r) == cnt[r] = 0 \/ cnt[r] >= grace

\* A reader that has not passed makes the writer read the registrations again.
SyncCheck(r) ==
  /\ ppc = "scan"
  /\ r \in scan
  /\ scan' = IF Passed(r) THEN scan \ {r} ELSE registered
  /\ UNCHANGED <<snapVars, qsbrVars, readVars, cpc, ppc, old, grace, endVars>>

PublishFree ==
  /\ ppc = "scan"
  /\ scan = {}
  /\ heap'  = heap \ {old}
  /\ old'   = 0
  /\ grace' = 0
  /\ ppc'   = "idle"
  /\ cpc'   = AfterStage(cpc)
  /\ UNCHANGED <<cur, version, qsbrVars, readVars, scan, endVars>>

ControlStep ==
  \/ RunTop \/ RunSkip
  \/ PublishSwap \/ SyncStart \/ SyncBitmap
  \/ \E r \in Readers : SyncCheck(r)
  \/ PublishFree

(***************************************************************************)
(* Shutdown: signal or quit, then the tail of main                         *)
(***************************************************************************)

Shutdown ==
  /\ g_running
  /\ g_running' = FALSE
  /\ UNCHANGED <<snapVars, qsbrVars, readVars, cpc, pubVars, stop, mpc>>

\* rte_eal_mp_wait_lcore and master_join have returned: ctl.stop().
MainStop ==
  /\ mpc = "wait"
  /\ \A r \in Readers : rpc[r] = "gone"
  /\ stop' = TRUE
  /\ mpc'  = "join"
  /\ UNCHANGED <<snapVars, qsbrVars, readVars, cpc, pubVars, g_running>>

\* Mutant: the control thread is told to stop but not joined.
MainDestroyUnjoined ==
  /\ mpc = "join"
  /\ heap' = heap \ {cur}
  /\ cur'  = 0
  /\ mpc'  = "exit"
  /\ UNCHANGED <<version, qsbrVars, readVars, cpc, pubVars, g_running, stop>>

\* The control thread is joined: snapshots.destroy().
MainDestroy ==
  /\ mpc = "join"
  /\ cpc = "stopped"
  /\ heap' = heap \ {cur}
  /\ cur'  = 0
  /\ mpc'  = "exit"
  /\ UNCHANGED <<version, qsbrVars, readVars, cpc, pubVars, g_running, stop>>

\* The process has exited.
Exited == mpc = "exit" /\ UNCHANGED vars

Next ==
  \/ \E r \in Readers : ReaderStep(r)
  \/ NeighDefer
  \/ ControlStep
  \/ Shutdown \/ MainStop \/ MainDestroy \/ Exited

Spec == Init /\ [][Next]_vars

\* The threads are not starved; nothing has to be published, no neighbor has to
\* be erased, and the process may run for ever.
Fairness ==
  /\ \A r \in Readers : WF_vars(ReaderStep(r))
  /\ WF_vars(RunTop \/ RunSkip \/ PublishSwap)
  /\ WF_vars(SyncStart \/ SyncBitmap \/ PublishFree)
  /\ \A r \in Readers : WF_vars(SyncCheck(r))
  /\ WF_vars(MainStop \/ MainDestroy)

FairSpec == Spec /\ Fairness

(***************************************************************************)
(* Properties                                                              *)
(***************************************************************************)

\* Every variable has its type.
TypeOK ==
  /\ cur \in Nat /\ version \in Nat /\ heap \subseteq Nat
  /\ token \in Nat \ {0}
  /\ cnt \in [Readers -> Nat]
  /\ registered \subseteq Readers
  /\ rpc \in [Readers -> {"start", "registered", "onlining", "loop", "round",
                          "hold", "quiescent", "leave", "offline", "gone"}]
  /\ tok \in [Readers -> Nat]
  /\ snap \in [Readers -> Nat]
  /\ cpc \in {"top", "drain", "command", "stopped"}
  /\ ppc \in {"idle", "start", "bitmap", "scan"}
  /\ old \in Nat /\ grace \in Nat
  /\ scan \subseteq Readers
  /\ g_running \in BOOLEAN /\ stop \in BOOLEAN
  /\ mpc \in {"wait", "join", "exit"}

\* A worker or the master never follows a freed snapshot: publish's delete and
\* destroy come after every reader has let go of the pointer it loaded.
NoUseAfterFree ==
  \A r \in Readers : snap[r] # 0 => snap[r] \in heap

\* When publish has returned, so that the control command is about to answer
\* "ok", no packet is still handled under the configuration it replaced.
OkMeansEveryReader ==
  ppc = "idle" => \A r \in Readers : snap[r] \in {0, cur}

\* Every allocated snapshot is the current one or the one being retired, both
\* are allocated, and none is left when the process exits.
HeapExact ==
  /\ heap = {cur, old} \ {0}
  /\ mpc = "exit" => heap = {}

\* publish returns: its grace period ends whatever the readers are doing, be it
\* starting, looping or leaving their loops for good.
PublishReturns == ppc # "idle" ~> ppc = "idle"

\* After a signal or quit the process exits: the join of the control thread
\* does not wait for a publish that waits for readers that have left.
ShutdownCompletes == ~g_running ~> mpc = "exit"

\* Nobody waits for ever: a publish returns, and so does the shutdown.
WaitsEnd == PublishReturns /\ ShutdownCompletes
=============================================================================
