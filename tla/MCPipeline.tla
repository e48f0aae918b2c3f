----------------------------- MODULE MCPipeline -----------------------------
(***************************************************************************)
(* Values of Pipeline's constants for TLC.  Worker 1 owns the connection;  *)
(* the NIC puts its packets in a queue that worker 0 polls, and an ICMP    *)
(* error about it, like the packet of no connection, hashes to worker 0.   *)
(***************************************************************************)
EXTENDS Pipeline

MCFlow == <<"f", "f", "f", "none">>
MCOwner == [f \in {"f"} |-> 1]
MCQueue == <<2, 2, 0, 1>>
MCHashed == <<1, 1, 0, 0>>

=============================================================================
