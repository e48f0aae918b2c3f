------------------------------ MODULE MCLogger ------------------------------
(* Two threads log while the logger is opened and shut down. *)
EXTENDS Logger

CONSTANTS t1, t2

=============================================================================
