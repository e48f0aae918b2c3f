--------------------------- MODULE MCSessionTable ---------------------------
(***************************************************************************)
(* SessionTable for TLC.                                                   *)
(***************************************************************************)
EXTENDS SessionTable

=============================================================================
