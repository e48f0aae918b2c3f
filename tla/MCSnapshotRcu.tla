--------------------------- MODULE MCSnapshotRcu ---------------------------
(***************************************************************************)
(* SnapshotRcu for TLC; its constants are all given in the configuration.  *)
(***************************************************************************)
EXTENDS SnapshotRcu, TLC

=============================================================================
