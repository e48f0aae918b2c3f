---------------------------- MODULE MCScheduler ----------------------------
(***************************************************************************)
(* Values of Scheduler's constants for TLC: the backends' permutations of  *)
(* the Maglev table may start together, and may be one and the same.       *)
(***************************************************************************)
EXTENDS Scheduler

MCHashes == {<<0, 1>>, <<3, 2>>, <<3, 5>>}

=============================================================================
