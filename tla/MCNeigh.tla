------------------------------ MODULE MCNeigh ------------------------------
(***************************************************************************)
(* Values of Neigh's constants for TLC: a gateway g whose MAC changes, a   *)
(* client c of the local network, an RS s with a configured MAC, and the   *)
(* session of c with an RS r beyond the gateway.                           *)
(***************************************************************************)
EXTENDS Neigh, TLC

CONSTANTS g, c, s, r, toR, m1, m2

MCMacsOf == (g :> {m1, m2}) @@ (c :> {m1}) @@ (s :> {m2}) @@ (r :> {})
MCStaticMac == s :> m1
MCDest == toR :> r
MCClient == toR :> c

=============================================================================
