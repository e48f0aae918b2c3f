--------------------------- MODULE MCHealthCheck ---------------------------
(***************************************************************************)
(* HealthCheck for TLC.                                                    *)
(***************************************************************************)
EXTENDS HealthCheck

=============================================================================
