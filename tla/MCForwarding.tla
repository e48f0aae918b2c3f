---------------------------- MODULE MCForwarding ----------------------------
(***************************************************************************)
(* Values of Forwarding's constants for TLC.                               *)
(***************************************************************************)
EXTENDS Forwarding, TLC

CONSTANTS c1, c2, u1, a1, a2

\* Two TCP clients share a worker and compete for its ports; a UDP client is
\* with the other worker.
MCFwdOwner == (c1 :> 0) @@ (c2 :> 0) @@ (u1 :> 1)

\* Two TCP clients, one with each worker.
MCSplitOwner == (c1 :> 0) @@ (c2 :> 1)

MCInitAddrs == <<a1>>

\* Established sessions outlive closing ones, and those the others.
MCTimeout == [s \in TcpStates |-> CASE s = "ESTABLISHED" -> 3
                                    [] s = "FIN_WAIT" -> 2
                                    [] OTHER -> 1]

\* Equal timeouts, where lifetimes are not the question.
MCEqualTimeout == [s \in TcpStates |-> 1]

\* What TLC tells states apart by.  No action reads result and the properties of the
\* run only its value after a step, which TLC looks at for every step.
MCView == <<ctlvars, sess, portvars, active>>

\* What RSS makes of a return tuple when the NIC hashes ports: neither worker
\* owns a regular set of them.
MCRssOwner == [t \in ServerTuples |-> IF t.port \in {4, 7} THEN 1 ELSE 0]

=============================================================================
