------------------------------ MODULE TcpState ------------------------------
(***************************************************************************)
(* The simplified TCP state machine of src/lb/tcp_state.cpp: what a packet *)
(* with given flags and direction makes of a session's state and of its    *)
(* fin_seen bitmap, which is here the set of directions that sent a FIN.   *)
(***************************************************************************)

TcpStates ==
  {"NONE", "SYN_RECV", "ESTABLISHED", "FIN_WAIT", "TIME_WAIT", "CLOSE", "UDP"}

Dirs == {"CLIENT_TO_RS", "RS_TO_CLIENT"}

TcpFlags == {"SYN", "ACK", "FIN", "RST"}

\* fin_seen after the packet: a FIN sets the bit of its direction, unless the
\* packet carries a RST or the session is a UDP one (those return first).
fin_next(cur, flags, dir, fin) ==
  IF cur # "UDP" /\ "RST" \notin flags /\ "FIN" \in flags
  THEN fin \cup {dir} ELSE fin

\* The state after the packet, given fin_seen as fin_next has updated it.
tcp_next_state(cur, flags, dir, fin) ==
  CASE cur = "UDP" -> cur
    [] cur # "UDP" /\ "RST" \in flags -> "CLOSE"
    [] cur = "NONE" /\ "RST" \notin flags ->
         IF "SYN" \in flags THEN "SYN_RECV" ELSE cur
    [] cur = "SYN_RECV" /\ "RST" \notin flags ->
         IF dir = "CLIENT_TO_RS" /\ "ACK" \in flags /\ "SYN" \notin flags
         THEN IF fin # {} THEN "FIN_WAIT" ELSE "ESTABLISHED"
         ELSE cur
    [] cur = "ESTABLISHED" /\ "RST" \notin flags ->
         IF fin # {} THEN "FIN_WAIT" ELSE cur
    [] cur = "FIN_WAIT" /\ "RST" \notin flags ->
         IF fin = Dirs THEN "TIME_WAIT" ELSE cur
    [] cur \in {"TIME_WAIT", "CLOSE"} /\ "RST" \notin flags -> cur

\* A SYN on a session in one of these states starts a new connection.
tcp_state_reusable(s) == s \in {"TIME_WAIT", "CLOSE"}

=============================================================================
