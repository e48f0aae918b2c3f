-------------------------- MODULE ForwardingProofs --------------------------
(***************************************************************************)
(* Proofs about Forwarding, for any number of workers, clients, ports and  *)
(* real servers.                                                           *)
(***************************************************************************)
EXTENDS Forwarding, FiniteSetTheorems, WellFoundedInduction, TLAPS

-----------------------------------------------------------------------------
(* Arithmetic of the SNAT ports.                                           *)

LEMMA MulSign ==
  ASSUME NEW n \in Nat \ {0}, NEW z \in Int
  PROVE  (z >= 1 => n * z >= n) /\ (z <= -1 => n * z <= -n)
OBVIOUS

LEMMA DivMod ==
  ASSUME NEW a \in Int, NEW n \in Nat \ {0}
  PROVE  a % n \in 0 .. n - 1 /\ a \div n \in Int
         /\ a = n * (a \div n) + (a % n)
OBVIOUS

LEMMA ModUnique ==
  ASSUME NEW a \in Int, NEW n \in Nat \ {0}, NEW b \in Int, NEW c \in 0 .. n - 1,
         a = n * b + c
  PROVE  a % n = c
<1> DEFINE d == a % n
           e == a \div n
<1>1. d \in 0 .. n - 1 /\ e \in Int /\ a = n * e + d
  BY DivMod
<1> HIDE DEF d, e
<1>2. n * (b - e) = d - c
  BY <1>1
<1>3. b - e = 0
  BY <1>1, <1>2, MulSign
<1>. QED BY <1>1, <1>2, <1>3 DEF d

\* The offset of worker w from the start m of the range puts every n-th port
\* after it in w's residue class.
LEMMA OffsetClass ==
  ASSUME NEW n \in Nat \ {0}, NEW m \in Nat, NEW w \in 0 .. n - 1, NEW k \in Nat
  PROVE  (m + k * n + ((w + n - (m % n)) % n)) % n = w
<1> DEFINE r == m % n
           q == m \div n
           off == (w + n - r) % n
<1>1. r \in 0 .. n - 1 /\ q \in Int /\ m = n * q + r
  BY DivMod
<1> HIDE DEF r, q
<1>2. off = IF w >= r THEN w - r ELSE w + n - r
  <2>1. CASE w >= r
    <3>1. w + n - r = n * 1 + (w - r)
      BY <1>1
    <3>2. w - r \in 0 .. n - 1 /\ w + n - r \in Int
      BY <1>1, <2>1
    <3>. QED BY <2>1, <3>1, <3>2, ModUnique
  <2>2. CASE w < r
    <3>1. w + n - r = n * 0 + (w + n - r)
      BY <1>1
    <3>2. w + n - r \in 0 .. n - 1
      BY <1>1, <2>2
    <3>. QED BY <1>1, <2>2, <3>1, <3>2, ModUnique
  <2>. QED BY <1>1, <2>1, <2>2
<1> HIDE DEF off
<1> DEFINE p == m + k * n + off
           b == IF w >= r THEN q + k ELSE q + k + 1
<1>3. b \in Int /\ p \in Int /\ p = n * b + w
  BY <1>1, <1>2
<1> HIDE DEF p, b
<1>4. p % n = w
  BY <1>3, ModUnique
<1>. QED BY <1>4 DEF p, off, r

LEMMA LeastIn ==
  ASSUME NEW S \in SUBSET Nat, S # {}
  PROVE  Least(S) \in S
<1> DEFINE R == OpToRel(<, Nat)
<1>1. \E n \in S : \A m \in S : ~(<<m, n>> \in R)
  BY NatLessThanWellFounded, WFMin, Zenon
<1>2. R = {p \in Nat \X Nat : p[1] < p[2]}
  BY DEF OpToRel
<1> HIDE DEF R
<1>3. \A m, n \in Nat : m < n => <<m, n>> \in R
  <2> SUFFICES ASSUME NEW m \in Nat, NEW n \in Nat, m < n
               PROVE  <<m, n>> \in R
    OBVIOUS
  <2> DEFINE p == <<m, n>>
  <2>1. p \in Nat \X Nat /\ p[1] = m /\ p[2] = n
    OBVIOUS
  <2> HIDE DEF p
  <2>2. p \in {x \in Nat \X Nat : x[1] < x[2]}
    BY <2>1
  <2>. QED BY <2>2, <1>2 DEF p
<1>4. PICK n \in S : \A m \in S : ~(<<m, n>> \in R)
  BY <1>1
<1>5. \A m \in S : ~(m < n)
  BY <1>3, <1>4, Zenon
<1>6. \A m \in S : n <= m
  BY <1>5
<1>. QED BY <1>6, Zenon DEF Least

\* There is a candidate port for every worker.
LEMMA SlotsPositive == Slots \in Nat \ {0} /\ port_step \in Nat \ {0}
<1> DEFINE R == NatPortMax - NatPortMin + 1
<1>1. port_step \in Nat \ {0} /\ port_step <= N /\ R \in Int /\ R >= N
  BY ForwardingConstants DEF port_step
<1> HIDE DEF R
<1>2. R \div port_step \in Int /\ R % port_step \in 0 .. port_step - 1
      /\ R = port_step * (R \div port_step) + (R % port_step)
  BY <1>1, DivMod, Zenon
<1>3. R \div port_step >= 1
  <2>1. R > R % port_step /\ N \in Nat
    BY <1>1, <1>2, ForwardingConstants
  <2>. QED BY <1>1, <1>2, <2>1, MulSign
<1>4. Slots = R \div port_step
  BY DEF Slots, R
<1>. QED BY <1>1, <1>2, <1>3, <1>4

\* Every candidate of a worker is a port the worker owns; with RSS it is asked.
LEMMA CandidateOwned ==
  ASSUME NEW w \in Workers, NEW k \in Nat, ~RetByRss, NEW server,
         server.port = NatPort(w, k)
  PROVE  ret_owner(server) = w /\ NatPort(w, k) >= NatPortMin
         /\ NatPort(w, k) \in Nat
<1>1. N \in Nat \ {0} /\ NatPortMin \in Nat /\ port_step = N /\ w \in 0 .. N - 1
  BY ForwardingConstants DEF port_step, Workers
<1>2. CASE N = 1
  BY <1>1, <1>2 DEF NatPort, ret_owner
<1>3. CASE N # 1
  <2> DEFINE off == (w + N - (NatPortMin % N)) % N
  <2>1. off \in 0 .. N - 1
    <3>1. NatPortMin % N \in 0 .. N - 1
      BY <1>1, DivMod
    <3>2. w + N - (NatPortMin % N) \in Int
      BY <1>1, <3>1
    <3>. QED BY <1>1, <3>2, DivMod, Zenon
  <2>2. k * N \in Nat
    BY <1>1
  <2>3. NatPort(w, k) = NatPortMin + k * N + off
    BY <1>1, <1>3 DEF NatPort
  <2>4. (NatPortMin + k * N + off) % N = w
    BY <1>1, OffsetClass, ZenonT(40)
  <2> HIDE DEF off
  <2>5. ret_owner(server) = w
    BY <1>3, <2>3, <2>4 DEF ret_owner
  <2>. QED BY <1>1, <2>1, <2>2, <2>3, <2>5
<1>. QED BY <1>2, <1>3

\* create_fullnat takes a tuple that leads back to its worker and that no
\* session of the worker has.
LEMMA PickedOK ==
  ASSUME NEW w \in Workers, NEW tab \in [Clients -> Sessions \cup {NoSession}],
         NEW rs \in RsStates, rs.addr \in Addrs, NEW pr \in {6, 17}, LipHits(w, tab, rs, pr) # {},
         lip_cursor \in [Workers -> [Lips -> Nat]], lip_rr \in [Workers -> Nat]
  PROVE  /\ PickedServer(w, tab, rs, pr) \in ServerTuples
         /\ PickedServer(w, tab, rs, pr).addr = rs.addr
         /\ ret_owner(PickedServer(w, tab, rs, pr)) = w
         /\ ~key_in_use(tab, PickedServer(w, tab, rs, pr))
         /\ PickedLip(w, tab, rs, pr) \in Lips
<1> DEFINE n == Least(LipHits(w, tab, rs, pr))
           lip == LipAt(w, n)
           i == Least(Hits(w, tab, rs, lip, pr))
           k == (lip_cursor[w][lip] + i) % Slots
           server == Candidate(w, rs, lip, i, pr)
<1>1. n \in LipHits(w, tab, rs, pr)
  <2>1. LipHits(w, tab, rs, pr) \in SUBSET Nat
    BY ForwardingConstants DEF LipHits, Lips
  <2>. QED BY <2>1, LeastIn, Zenon
<1>2. lip \in Lips /\ Hits(w, tab, rs, lip, pr) # {}
  <2>1. n \in Lips /\ Hits(w, tab, rs, lip, pr) # {}
    BY <1>1, Zenon DEF LipHits
  <2>2. NLips \in Nat \ {0} /\ lip_rr[w] + n \in Int
    BY <2>1, ForwardingConstants DEF Lips
  <2>3. LipAt(w, n) \in 0 .. NLips - 1
    BY <2>2, DivMod, Zenon DEF LipAt
  <2>. QED BY <2>1, <2>3, Zenon DEF Lips
<1> HIDE DEF n, lip
<1>3. i \in Hits(w, tab, rs, lip, pr)
  <2>1. Hits(w, tab, rs, lip, pr) \in SUBSET Nat
    BY ForwardingConstants DEF Hits
  <2>. QED BY <1>2, <2>1, LeastIn
<1>4. /\ i \in Nat /\ server.port <= NatPortMax
      /\ RetByRss => ret_owner(server) = w
      /\ ~key_in_use(tab, server)
  BY <1>3, ForwardingConstants DEF Hits
<1> HIDE DEF i
<1>5. k \in Nat
  <2>1. lip_cursor[w][lip] + i \in Int
    BY <1>2, <1>4
  <2>. QED BY <2>1, SlotsPositive, DivMod
<1> HIDE DEF k
<1>6. server = [addr |-> rs.addr, lip |-> lip, port |-> NatPort(w, k),
                protocol |-> pr]
  BY Zenon DEF Candidate, k
<1>7. /\ server.port = NatPort(w, k) /\ server.addr = rs.addr
      /\ server.lip = lip /\ server.protocol = pr
  BY <1>6
<1>8. NatPort(w, k) \in Nat /\ NatPort(w, k) >= NatPortMin
  <2>1. CASE ~RetByRss
    BY <1>5, <1>7, <2>1, CandidateOwned, Zenon
  <2>2. CASE RetByRss
    BY <1>5, <2>2, ForwardingConstants DEF NatPort, port_step
  <2>. QED BY <2>1, <2>2, Zenon
<1>9. NatPort(w, k) \in Ports
  BY <1>4, <1>7, <1>8, ForwardingConstants DEF Ports
<1>10. server \in ServerTuples
  BY <1>2, <1>6, <1>9 DEF ServerTuples
<1>11. ret_owner(server) = w
  BY <1>4, <1>5, <1>7, CandidateOwned, Zenon
<1>12. /\ server = PickedServer(w, tab, rs, pr)
       /\ lip = PickedLip(w, tab, rs, pr)
  BY Zenon DEF PickedServer, PickedLip, lip, n, i
<1> HIDE DEF server
<1>. QED BY <1>2, <1>4, <1>7, <1>10, <1>11, <1>12, Zenon

-----------------------------------------------------------------------------
(* Sessions.                                                               *)

LEMMA NextStateType ==
  ASSUME NEW st \in TcpStates, NEW flags, NEW dir, NEW fin
  PROVE  tcp_next_state(st, flags, dir, fin) \in TcpStates
BY Zenon DEF tcp_next_state, TcpStates

LEMMA DeadlineType ==
  ASSUME NEW st \in TcpStates
  PROVE  /\ Timeout[st] \in Nat
         /\ deadline(Timeout[st]) \in Nat
         /\ deadline(Timeout[st]) >= 2 /\ deadline(Timeout[st]) > Timeout[st]
<1>1. Timeout[st] \in Nat
  BY ForwardingConstants, Zenon
<1>. QED BY <1>1 DEF deadline

\* update_state keeps the session's RS and server tuple.
LEMMA UpdateKeeps ==
  ASSUME NEW s \in Sessions, NEW flags, NEW dir \in Dirs
  PROVE  LET s2 == update_state(s, flags, dir)
         IN  /\ s2 \in Sessions /\ s2 # NoSession
             /\ s2.rs = s.rs /\ s2.server = s.server /\ s2.flags = s.flags
<1> DEFINE fin == fin_next(s.state, flags, dir, s.fin)
           st == tcp_next_state(s.state, flags, dir, fin)
           t == deadline(Timeout[st])
           s2 == [s EXCEPT !.state = st, !.fin = fin, !.left = t, !.idle = 0]
<1>1. s.state \in TcpStates /\ s.fin \in SUBSET Dirs
  BY DEF Sessions
<1>2. fin \in SUBSET Dirs
  BY <1>1 DEF fin_next
<1>3. st \in TcpStates
  BY <1>1, NextStateType, Zenon
<1>4. t \in Nat /\ 0 \in Nat
  BY <1>3, DeadlineType
<1> HIDE DEF fin, st, t
<1>5. s2 \in Sessions /\ s2.rs = s.rs /\ s2.server = s.server
      /\ s2.flags = s.flags /\ s2.state = st
  BY <1>2, <1>3, <1>4, Zenon DEF Sessions
<1>6. s2.state # "none"
  BY <1>3, <1>5 DEF TcpStates
<1>7. s2 # NoSession
  BY <1>6, Zenon DEF NoSession
<1>8. s2 = update_state(s, flags, dir)
  BY DEF update_state, fin, st, t
<1> HIDE DEF s2
<1>. QED BY <1>5, <1>7, <1>8, Zenon

LEMMA NewSessionOK ==
  ASSUME NEW c \in Clients, NEW i \in Ids, NEW flags,
         NEW server \in ServerTuples \cup {NoServer}
  PROVE  /\ NewSession(c, i, server, flags) \in Sessions
         /\ NewSession(c, i, server, flags) # NoSession
         /\ NewSession(c, i, server, flags).rs = i
         /\ NewSession(c, i, server, flags).server = server
<1> DEFINE s0 == [rs |-> i, server |-> server,
                  state |-> IF c \in TcpClients THEN "NONE" ELSE "UDP",
                  fin |-> {}, left |-> 0, idle |-> 0,
                  flags |-> IF Mode = "NAT" /\ c \in TcpClients /\ Toa
                            THEN {"SF_TOA_PENDING"} ELSE {}]
<1>1. s0 \in Sessions /\ s0.rs = i /\ s0.server = server
  BY Zenon DEF Sessions, TcpStates
<1>2. NewSession(c, i, server, flags) = update_state(s0, flags, "CLIENT_TO_RS")
  BY Zenon DEF NewSession
<1> HIDE DEF s0
<1>. QED BY <1>1, <1>2, UpdateKeeps DEF Dirs

-----------------------------------------------------------------------------
(* The inductive invariant.                                                *)

\* A session is where both its owners say, and its RS id has been given out.
OwnersOK ==
  \A w \in Workers, c \in Clients : Live(w, c) =>
    /\ FwdOwner[c] = w
    /\ sess[w][c].rs < next_rs_id
    /\ sess[w][c].server # NoServer => ret_owner(sess[w][c].server) = w

\* Within one worker no two sessions have the same server tuple.
TuplesOK ==
  \A w \in Workers : \A b, c \in Clients :
    /\ Live(w, b) /\ Live(w, c)
    /\ sess[w][b].server = sess[w][c].server /\ sess[w][b].server # NoServer
    => b = c

\* Ids not given out are free, and an id never changes its address.
IdsOK ==
  \A i \in Ids :
    /\ i >= next_rs_id => cur[i] = NoRs /\ old[i] = NoRs
    /\ cur[i] # NoRs /\ old[i] # NoRs => cur[i].addr = old[i].addr

SessOK ==
  /\ sess \in [Workers -> [Clients -> Sessions \cup {NoSession}]]
  /\ active \in [Workers -> Int]
  /\ OwnersOK /\ TuplesOK /\ IdKeepsAddress /\ ActiveExact

IInv == TypeOK /\ SessOK /\ IdsOK

LiveSet(w) == {c \in Clients : Live(w, c)}

\* What a session put in worker w's table for client c must satisfy.
Fits(w, c, x) ==
  x # NoSession =>
    /\ FwdOwner[c] = w
    /\ x.rs < next_rs_id
    /\ x.server # NoServer =>
         /\ ret_owner(x.server) = w
         /\ \A b \in Clients \ {c} : Live(w, b) => sess[w][b].server # x.server
         /\ \A snap \in {cur, old} :
              snap[x.rs] # NoRs => snap[x.rs].addr = x.server.addr

\* Sessions that go, or stay with their RS and server tuple, keep what OwnersOK
\* and TuplesOK say.
LEMMA SurvivorsKeep ==
  ASSUME OwnersOK, TuplesOK,
         \A v \in Workers, b \in Clients : Live(v, b)' =>
           /\ Live(v, b)
           /\ sess'[v][b].rs = sess[v][b].rs
           /\ sess'[v][b].server = sess[v][b].server
           /\ sess[v][b].rs < next_rs_id'
  PROVE  OwnersOK' /\ TuplesOK'
<1>1. ASSUME NEW v \in Workers, NEW b \in Clients, Live(v, b)'
      PROVE  /\ FwdOwner[b] = v
             /\ sess'[v][b].rs < next_rs_id'
             /\ sess'[v][b].server # NoServer => ret_owner(sess'[v][b].server) = v
  <2>1. /\ Live(v, b)
        /\ sess'[v][b].rs = sess[v][b].rs
        /\ sess'[v][b].server = sess[v][b].server
        /\ sess[v][b].rs < next_rs_id'
    BY <1>1, Zenon
  <2>2. /\ FwdOwner[b] = v
        /\ sess[v][b].server # NoServer => ret_owner(sess[v][b].server) = v
    BY <2>1, Zenon DEF OwnersOK
  <2>. QED BY <2>1, <2>2, Zenon
<1>2. OwnersOK'
  BY <1>1, Zenon DEF OwnersOK, ret_owner
<1>3. TuplesOK'
  <2> SUFFICES ASSUME NEW v \in Workers, NEW b \in Clients, NEW c \in Clients,
                      Live(v, b)', Live(v, c)',
                      sess'[v][b].server = sess'[v][c].server,
                      sess'[v][b].server # NoServer
               PROVE  b = c
    BY Zenon DEF TuplesOK
  <2>1. /\ Live(v, b) /\ Live(v, c)
        /\ sess[v][b].server = sess[v][c].server /\ sess[v][b].server # NoServer
    BY Zenon
  <2>. QED BY <2>1, Zenon DEF TuplesOK
<1>. QED BY <1>2, <1>3, Zenon

\* The same for IdKeepsAddress, when no snapshot is published.
LEMMA AddressesKeep ==
  ASSUME IdKeepsAddress, UNCHANGED cur, old' \in {old, cur},
         \A v \in Workers, b \in Clients : Live(v, b)' =>
           /\ Live(v, b)
           /\ sess'[v][b].rs = sess[v][b].rs
           /\ sess'[v][b].server = sess[v][b].server
  PROVE  IdKeepsAddress'
<1>0. \A snap \in {cur', old'} : snap \in {cur, old}
  BY Zenon
<1> SUFFICES ASSUME NEW v \in Workers, NEW b \in Clients, NEW snap \in {cur, old},
                    Live(v, b)', sess'[v][b].server # NoServer,
                    snap[sess'[v][b].rs] # NoRs
             PROVE  snap[sess'[v][b].rs].addr = sess'[v][b].server.addr
  BY <1>0, Zenon DEF IdKeepsAddress
<1>1. /\ Live(v, b)
      /\ sess'[v][b].rs = sess[v][b].rs
      /\ sess'[v][b].server = sess[v][b].server
  BY Zenon
<1>. QED BY <1>1, Zenon DEF IdKeepsAddress

\* Replacing one client's session by one that fits, or by none, keeps SessOK,
\* if the counters follow.
LEMMA PutKeeps ==
  ASSUME IInv, NEW w \in Workers, NEW c \in Clients,
         NEW x \in Sessions \cup {NoSession}, Fits(w, c, x),
         sess' = [sess EXCEPT ![w] = [sess[w] EXCEPT ![c] = x]],
         active' = [active EXCEPT ![w] =
                      active[w] - CloseCount(w, c)
                        + (IF x # NoSession THEN 1 ELSE 0)],
         UNCHANGED ctlvars
  PROVE  SessOK'
<1>1. \A v \in Workers, b \in Clients :
        sess'[v][b] = IF v = w /\ b = c THEN x ELSE sess[v][b]
  BY Zenon DEF IInv, TypeOK
<1>2. sess' \in [Workers -> [Clients -> Sessions \cup {NoSession}]]
  BY Zenon DEF IInv, TypeOK
<1>3. UNCHANGED <<cur, old, next_rs_id>>
  BY DEF ctlvars
<1> DEFINE own(v, b) == v = w /\ b = c
<1>a. OwnersOK /\ TuplesOK /\ IdKeepsAddress
  BY DEF IInv, SessOK
<1>4. OwnersOK'
  <2>1. ASSUME NEW v \in Workers, NEW b \in Clients, Live(v, b)'
        PROVE  /\ FwdOwner[b] = v
               /\ sess'[v][b].rs < next_rs_id
               /\ sess'[v][b].server # NoServer => ret_owner(sess'[v][b].server) = v
    <3>1. CASE own(v, b)
      <4>1. sess'[v][b] = x /\ x # NoSession
        BY <1>1, <2>1, <3>1, Zenon DEF Live
      <4>. QED BY <3>1, <4>1, Zenon DEF Fits
    <3>2. CASE ~own(v, b)
      <4>1. sess'[v][b] = sess[v][b] /\ Live(v, b)
        BY <1>1, <2>1, <3>2, Zenon DEF Live
      <4>. QED BY <1>a, <4>1 DEF OwnersOK
    <3>. QED BY <3>1, <3>2, Zenon
  <2>2. next_rs_id' = next_rs_id
    BY <1>3
  <2>. QED BY <2>1, <2>2, ZenonT(20), SMT DEF OwnersOK, ret_owner
<1>5. TuplesOK'
  <2>1. ASSUME NEW b \in Clients, b # c, Live(w, b)', x # NoSession,
               x.server # NoServer
        PROVE  sess'[w][b].server # x.server
    <3>1. sess'[w][b] = sess[w][b] /\ Live(w, b)
      BY <1>1, <2>1, Zenon DEF Live
    <3>. QED BY <2>1, <3>1, Zenon DEF Fits
  <2> SUFFICES ASSUME NEW v \in Workers, NEW a \in Clients, NEW b \in Clients,
                      Live(v, a)', Live(v, b)',
                      sess'[v][a].server = sess'[v][b].server,
                      sess'[v][a].server # NoServer
               PROVE  a = b
    BY Zenon DEF TuplesOK
  <2>2. CASE own(v, a)
    BY <1>1, <2>1, <2>2 DEF Live
  <2>3. CASE own(v, b)
    BY <1>1, <2>1, <2>3, Zenon DEF Live
  <2>4. CASE ~own(v, a) /\ ~own(v, b)
    <3>1. sess'[v][a] = sess[v][a] /\ sess'[v][b] = sess[v][b]
      BY <1>1, <2>4, Zenon
    <3>. QED BY <1>a, <3>1, Zenon DEF TuplesOK, Live
  <2>. QED BY <2>2, <2>3, <2>4, Zenon
<1>6. IdKeepsAddress'
  <2> SUFFICES ASSUME NEW v \in Workers, NEW b \in Clients, NEW snap \in {cur, old},
                      Live(v, b)', sess'[v][b].server # NoServer,
                      snap[sess'[v][b].rs] # NoRs
               PROVE  snap[sess'[v][b].rs].addr = sess'[v][b].server.addr
    BY <1>3, Zenon DEF IdKeepsAddress
  <2>1. CASE own(v, b)
    <3>1. sess'[v][b] = x /\ x # NoSession
      BY <1>1, <2>1, Zenon DEF Live
    <3>. QED BY <3>1, Zenon DEF Fits
  <2>2. CASE ~own(v, b)
    <3>1. sess'[v][b] = sess[v][b] /\ Live(v, b)
      BY <1>1, <2>2, Zenon DEF Live
    <3>2. snap[sess[v][b].rs].addr = sess[v][b].server.addr
      <4>1. sess[v][b].server # NoServer /\ snap[sess[v][b].rs] # NoRs
        BY <3>1, Zenon
      <4>. QED BY <1>a, <3>1, <4>1, Zenon DEF IdKeepsAddress
    <3>. QED BY <3>1, <3>2, Zenon
  <2>. QED BY <2>1, <2>2, Zenon
<1>7. /\ active' \in [Workers -> Int]
      /\ active'[w] = active[w] - CloseCount(w, c)
                        + (IF x # NoSession THEN 1 ELSE 0)
      /\ \A v \in Workers \ {w} : active'[v] = active[v]
  BY DEF IInv, TypeOK, CloseCount
<1>8. ActiveExact'
  <2>1. \A v \in Workers \ {w} : LiveSet(v)' = LiveSet(v)
    BY <1>1 DEF LiveSet, Live
  <2>2. LiveSet(w)' = IF x # NoSession THEN (LiveSet(w) \ {c}) \cup {c}
                      ELSE LiveSet(w) \ {c}
    BY <1>1 DEF LiveSet, Live
  <2>3. IsFiniteSet(LiveSet(w)) /\ Cardinality(LiveSet(w)) \in Nat
    <3>1. LiveSet(w) \subseteq Clients
      BY DEF LiveSet
    <3>. QED BY <3>1, ForwardingConstants, FS_Subset, FS_CardinalityType, Zenon
  <2>4. /\ IsFiniteSet(LiveSet(w) \ {c})
        /\ Cardinality(LiveSet(w) \ {c})
             = Cardinality(LiveSet(w)) - CloseCount(w, c)
    <3>1. CloseCount(w, c) = IF c \in LiveSet(w) THEN 1 ELSE 0
      BY Zenon DEF CloseCount, LiveSet, Live
    <3>. QED BY <2>3, <3>1, FS_RemoveElement
  <2>5. Cardinality((LiveSet(w) \ {c}) \cup {c})
          = Cardinality(LiveSet(w)) - CloseCount(w, c) + 1
    BY <2>4, FS_AddElement, Zenon
  <2>6. Cardinality(LiveSet(w)') = active'[w]
    <3>1. active[w] = Cardinality(LiveSet(w))
      BY Zenon DEF IInv, SessOK, ActiveExact, LiveSet
    <3>2. CASE x # NoSession
      BY <1>7, <2>2, <2>5, <3>1, <3>2, Zenon
    <3>3. CASE x = NoSession
      BY <1>7, <2>2, <2>3, <2>4, <3>1, <3>3 DEF CloseCount
    <3>. QED BY <3>2, <3>3, Zenon
  <2>7. ASSUME NEW v \in Workers \ {w}
        PROVE  Cardinality(LiveSet(v)') = active'[v]
    <3>1. active[v] = Cardinality(LiveSet(v))
      BY Zenon DEF IInv, SessOK, ActiveExact, LiveSet
    <3>. QED BY <1>7, <2>1, <3>1, Zenon
  <2>. QED BY <2>6, <2>7, Zenon DEF ActiveExact, LiveSet
<1>. QED BY <1>2, <1>4, <1>5, <1>6, <1>7, <1>8, Zenon DEF SessOK

LEMMA InitIInv == Init => IInv
<1> SUFFICES ASSUME Init PROVE IInv
  OBVIOUS
<1>1. cur \in Snapshots /\ old = cur /\ next_rs_id = Len(InitAddrs)
      /\ next_rs_id \in 0 .. MaxRsId
      /\ \A i \in Ids : i >= next_rs_id => cur[i] = NoRs
  <2>1. /\ Len(InitAddrs) \in 0 .. MaxRsId
        /\ \A i \in Ids : i < Len(InitAddrs) => InitAddrs[i + 1] \in Addrs
    BY ForwardingConstants DEF Ids
  <2>2. \A i \in Ids : cur[i] \in RsStates \cup {NoRs}
    BY <2>1, Zenon DEF Init, RsStates, Statuses
  <2>. QED BY <2>1, <2>2 DEF Init, Snapshots, Ids
<1>2. \A w \in Workers, c \in Clients : ~Live(w, c)
  BY Zenon DEF Init, Live
<1>3. /\ sess \in [Workers -> [Clients -> Sessions \cup {NoSession}]]
      /\ lip_cursor \in [Workers -> [Lips -> Nat]]
      /\ lip_rr \in [Workers -> Nat]
      /\ active \in [Workers -> Int]
      /\ behind \subseteq Workers
      /\ result \in Results
  BY DEF Init, Results
<1>4. TypeOK
  BY <1>1, <1>3 DEF TypeOK
<1>5. ActiveExact
  <2>1. \A w \in Workers : LiveSet(w) = {}
    BY <1>2 DEF LiveSet
  <2>2. \A w \in Workers : active[w] = 0
    BY Zenon DEF Init
  <2>3. \A w \in Workers : Cardinality(LiveSet(w)) = 0
    BY <2>1, FS_EmptySet
  <2>. QED BY <2>2, <2>3 DEF ActiveExact, LiveSet
<1>6. OwnersOK /\ TuplesOK /\ IdKeepsAddress
  BY <1>2, Zenon DEF OwnersOK, TuplesOK, IdKeepsAddress
<1>7. IdsOK
  BY <1>1 DEF IdsOK
<1>. QED BY <1>3, <1>4, <1>5, <1>6, <1>7 DEF IInv, SessOK

\* The cursors keep their types, whether a port is found or not.
LEMMA CursorTypes ==
  ASSUME NEW w \in Workers, NEW tab, NEW rs, NEW pr, NEW room,
         \/ FullnatFails(w, tab, rs, pr)
         \/ FullnatPicks(w, tab, rs, pr, room),
         lip_cursor \in [Workers -> [Lips -> Nat]], lip_rr \in [Workers -> Nat]
  PROVE  /\ lip_cursor' \in [Workers -> [Lips -> Nat]]
         /\ lip_rr' \in [Workers -> Nat]
<1>1. \A x \in Nat : x % Slots \in Nat
  BY SlotsPositive, DivMod
<1>2. Probes \in Nat /\ NLips \in Nat
  BY ForwardingConstants, Zenon
<1>3. CASE FullnatFails(w, tab, rs, pr)
  <2>1. \A l \in Lips : (lip_cursor[w][l] + Probes) % Slots \in Nat
    BY <1>1, <1>2
  <2>. QED BY <1>3, <2>1, Zenon DEF FullnatFails
<1>4. CASE FullnatPicks(w, tab, rs, pr, room)
  <2> DEFINE n == Least(LipHits(w, tab, rs, pr))
             lip == LipAt(w, n)
             i == Least(Hits(w, tab, rs, lip, pr))
             missed == {LipAt(w, m) : m \in 0 .. n - 1}
             f == [l \in Lips |->
                     CASE l = lip -> (lip_cursor[w][l] + i + 1) % Slots
                       [] l \in missed -> (lip_cursor[w][l] + Probes) % Slots
                       [] OTHER -> lip_cursor[w][l]]
  <2>1. n \in LipHits(w, tab, rs, pr)
    <3>1. LipHits(w, tab, rs, pr) \in SUBSET Nat
      BY <1>2 DEF LipHits, Lips
    <3>2. LipHits(w, tab, rs, pr) # {}
      BY <1>4, Zenon DEF FullnatPicks
    <3>. QED BY <3>1, <3>2, LeastIn, Zenon
  <2>2. n \in Lips /\ Hits(w, tab, rs, lip, pr) # {}
    BY <2>1, Zenon DEF LipHits
  <2>3. i \in Nat
    <3>1. Hits(w, tab, rs, lip, pr) \in SUBSET Nat
      BY <1>2 DEF Hits
    <3>2. i \in Hits(w, tab, rs, lip, pr)
      BY <2>2, <3>1, LeastIn, Zenon
    <3>. QED BY <3>1, <3>2, Zenon
  <2>4. NLips \in Nat \ {0} /\ lip \in Nat /\ (lip + 1) % NLips \in Nat
    <3>1. NLips \in Nat \ {0} /\ lip_rr[w] + n \in Int
      BY <1>2, <2>2 DEF Lips
    <3>2. lip \in Nat
      BY <3>1, DivMod DEF LipAt
    <3>. QED BY <3>1, <3>2, DivMod
  <2>5. /\ lip_cursor' = [lip_cursor EXCEPT ![w] = f]
        /\ lip_rr' = IF room THEN [lip_rr EXCEPT ![w] = (lip + 1) % NLips]
                     ELSE lip_rr
    BY <1>4, Zenon DEF FullnatPicks
  <2> HIDE DEF n, lip, i, missed
  <2>6. f \in [Lips -> Nat]
    <3>1. \A l \in Lips : /\ (lip_cursor[w][l] + i + 1) % Slots \in Nat
                          /\ (lip_cursor[w][l] + Probes) % Slots \in Nat
                          /\ lip_cursor[w][l] \in Nat
      BY <1>1, <1>2, <2>3
    <3>. QED BY <3>1, Zenon
  <2> HIDE DEF f
  <2>. QED BY <2>4, <2>5, <2>6, Zenon
<1>. QED BY <1>3, <1>4, Zenon

LEMMA SendIfType ==
  ASSUME NEW ok, NEW i \in Ids,
         NEW dir \in Dirs \cup {"ICMP_TO_CLIENT", "ICMP_TO_RS"}
  PROVE  SendIf(ok, i, dir) \in Results
BY DEF SendIf, Results

LEMMA ViewType ==
  ASSUME IInv, NEW w \in Workers, NEW i \in Ids, View(w)[i] # NoRs
  PROVE  /\ View(w)[i] \in RsStates
         /\ i < next_rs_id
         /\ \A snap \in {cur, old} : snap[i] # NoRs =>
              snap[i].addr = View(w)[i].addr
<1>1. View(w) \in {cur, old} /\ cur \in Snapshots /\ old \in Snapshots
  BY DEF View, IInv, TypeOK
<1>2. View(w)[i] \in RsStates
  BY <1>1 DEF Snapshots
<1>3. i < next_rs_id
  BY <1>1, ForwardingConstants DEF IInv, IdsOK, TypeOK, Ids
<1>4. \A snap \in {cur, old} : snap[i] # NoRs => snap[i].addr = View(w)[i].addr
  BY <1>1, Zenon DEF IInv, IdsOK
<1>. QED BY <1>2, <1>3, <1>4, Zenon

\* A packet's step: one session replaced, cursors and result of their types.
LEMMA PacketKeeps ==
  ASSUME IInv, NEW w \in Workers, NEW c \in Clients,
         NEW x \in Sessions \cup {NoSession}, Fits(w, c, x),
         sess' = [sess EXCEPT ![w] = [sess[w] EXCEPT ![c] = x]],
         active' = [active EXCEPT ![w] =
                      active[w] - CloseCount(w, c)
                        + (IF x # NoSession THEN 1 ELSE 0)],
         lip_cursor' \in [Workers -> [Lips -> Nat]],
         lip_rr' \in [Workers -> Nat],
         result' \in Results,
         UNCHANGED ctlvars
  PROVE  IInv'
<1>1. SessOK'
  BY PutKeeps, Zenon
<1>2. UNCHANGED <<cur, old, behind, next_rs_id>>
  BY DEF ctlvars
<1>3. TypeOK'
  BY <1>1, <1>2 DEF IInv, TypeOK, SessOK, Results
<1>4. IdsOK'
  BY <1>2, Zenon DEF IInv, IdsOK
<1>. QED BY <1>1, <1>3, <1>4 DEF IInv

\* A session that goes on with the same RS and server tuple.
LEMMA ContinuedKeeps ==
  ASSUME IInv, NEW w \in Workers, NEW c \in Clients, Live(w, c),
         NEW x \in Sessions, x # NoSession,
         x.rs = sess[w][c].rs, x.server = sess[w][c].server,
         sess' = [sess EXCEPT ![w][c] = x], result' \in Results,
         UNCHANGED <<ctlvars, portvars, active>>
  PROVE  IInv'
<1>1. Fits(w, c, x)
  <2>1. OwnersOK /\ TuplesOK /\ IdKeepsAddress
    BY Zenon DEF IInv, SessOK
  <2>2. /\ FwdOwner[c] = w /\ x.rs < next_rs_id
        /\ x.server # NoServer => ret_owner(x.server) = w
    BY <2>1 DEF OwnersOK
  <2>3. ASSUME NEW b \in Clients \ {c}, Live(w, b), x.server # NoServer
        PROVE  sess[w][b].server # x.server
    BY <2>1, <2>3, Zenon DEF TuplesOK
  <2>4. ASSUME NEW snap \in {cur, old}, x.server # NoServer, snap[x.rs] # NoRs
        PROVE  snap[x.rs].addr = x.server.addr
    BY <2>1, <2>4, Zenon DEF IdKeepsAddress
  <2>. QED BY <2>2, <2>3, <2>4, Zenon DEF Fits
<1>2. sess' = [sess EXCEPT ![w] = [sess[w] EXCEPT ![c] = x]]
  BY Zenon DEF IInv, TypeOK
<1>3. active' = [active EXCEPT ![w] =
                      active[w] - CloseCount(w, c)
                        + (IF x # NoSession THEN 1 ELSE 0)]
  BY DEF IInv, TypeOK, CloseCount, Live
<1>4. /\ lip_cursor' \in [Workers -> [Lips -> Nat]]
      /\ lip_rr' \in [Workers -> Nat]
      /\ UNCHANGED ctlvars
  BY Zenon DEF IInv, TypeOK, portvars
<1>. QED BY <1>1, <1>2, <1>3, <1>4, PacketKeeps, Zenon

\* A session that is removed, or was not there.
LEMMA ClosedKeeps ==
  ASSUME IInv, NEW w \in Workers, NEW c \in Clients,
         sess' = [sess EXCEPT ![w] = Closed(w, c)],
         active' = [active EXCEPT ![w] = active[w] - CloseCount(w, c)],
         lip_cursor' \in [Workers -> [Lips -> Nat]],
         lip_rr' \in [Workers -> Nat],
         result' \in Results,
         UNCHANGED ctlvars
  PROVE  IInv'
<1>1. Fits(w, c, NoSession)
  BY Zenon DEF Fits
<1>2. sess' = [sess EXCEPT ![w] = [sess[w] EXCEPT ![c] = NoSession]]
  BY DEF Closed
<1>3. active' = [active EXCEPT ![w] =
                      active[w] - CloseCount(w, c)
                        + (IF NoSession # NoSession THEN 1 ELSE 0)]
  <2>1. active[w] - CloseCount(w, c)
          = active[w] - CloseCount(w, c)
              + (IF NoSession # NoSession THEN 1 ELSE 0)
    BY DEF IInv, TypeOK, CloseCount
  <2>. QED BY <2>1, Zenon
<1>. QED BY <1>1, <1>2, <1>3, PacketKeeps, Zenon

LEMMA LiveSession ==
  ASSUME IInv, NEW w \in Workers, NEW c \in Clients, sess[w][c] # NoSession
  PROVE  sess[w][c] \in Sessions /\ sess[w][c].rs \in Ids /\ Live(w, c)
BY DEF IInv, TypeOK, Sessions, Live

LEMMA InboundKnownKeeps ==
  ASSUME IInv, NEW w \in Workers, NEW c \in Clients, NEW flags, NEW ok,
         InboundKnown(w, c, flags, ok)
  PROVE  IInv'
<1> DEFINE x == update_state(sess[w][c], flags, "CLIENT_TO_RS")
<1>1. sess[w][c] \in Sessions /\ sess[w][c].rs \in Ids /\ Live(w, c)
  BY LiveSession, Zenon DEF InboundKnown
<1>2. x \in Sessions /\ x # NoSession /\ x.rs = sess[w][c].rs
      /\ x.server = sess[w][c].server
  BY <1>1, UpdateKeeps, Zenon DEF Dirs
<1>3. sess' = [sess EXCEPT ![w][c] = x] /\ UNCHANGED <<ctlvars, portvars, active>>
  BY Zenon DEF InboundKnown
<1>4. result' \in Results
  BY <1>1, SendIfType, Zenon DEF InboundKnown, Dirs
<1> HIDE DEF x
<1>. QED BY <1>1, <1>2, <1>3, <1>4, ContinuedKeeps, Zenon

LEMMA InboundDropKeeps ==
  ASSUME IInv, NEW w \in Workers, NEW c \in Clients, NEW flags,
         InboundDrop(w, c, flags)
  PROVE  IInv'
<1>1. /\ lip_cursor' \in [Workers -> [Lips -> Nat]]
      /\ lip_rr' \in [Workers -> Nat]
      /\ result' \in Results
  BY SMTT(60) DEF InboundDrop, IInv, TypeOK, portvars, Results
<1>2. /\ sess' = [sess EXCEPT ![w] = Closed(w, c)]
      /\ active' = [active EXCEPT ![w] = active[w] - CloseCount(w, c)]
      /\ UNCHANGED ctlvars
  BY Zenon DEF InboundDrop
<1>. QED BY <1>1, <1>2, ClosedKeeps, Zenon

LEMMA InboundNoSessionKeeps ==
  ASSUME IInv, NEW w \in Workers, NEW c \in Clients, NEW flags,
         InboundNoSession(w, c, flags)
  PROVE  IInv'
<1>1. /\ sess' = [sess EXCEPT ![w] = Closed(w, c)]
      /\ active' = [active EXCEPT ![w] = active[w] - CloseCount(w, c)]
      /\ UNCHANGED ctlvars
  BY Zenon DEF InboundNoSession
<1>2. result' \in Results
  <2>1. result' \in {Drop("NO_RS"), Drop("NO_PORT"), Drop("TABLE_FULL")}
    BY Zenon DEF InboundNoSession
  <2>. QED BY <2>1 DEF Results
<1>3. \/ UNCHANGED portvars
      \/ \E i \in Ids : FullnatFails(w, Closed(w, c), View(w)[i], Protocol(c))
      \/ \E i \in Ids :
           FullnatPicks(w, Closed(w, c), View(w)[i], Protocol(c), FALSE)
  BY Zenon DEF InboundNoSession
<1>4. lip_cursor \in [Workers -> [Lips -> Nat]] /\ lip_rr \in [Workers -> Nat]
  BY Zenon DEF IInv, TypeOK
<1>5. /\ lip_cursor' \in [Workers -> [Lips -> Nat]]
      /\ lip_rr' \in [Workers -> Nat]
  <2>1. CASE UNCHANGED portvars
    BY <1>4, <2>1, Zenon DEF portvars
  <2>2. CASE \E i \in Ids : FullnatFails(w, Closed(w, c), View(w)[i], Protocol(c))
    BY <1>4, <2>2, CursorTypes, Zenon
  <2>3. CASE \E i \in Ids :
               FullnatPicks(w, Closed(w, c), View(w)[i], Protocol(c), FALSE)
    BY <1>4, <2>3, CursorTypes, Zenon
  <2>. QED BY <1>3, <2>1, <2>2, <2>3, Zenon
<1>. QED BY <1>1, <1>2, <1>5, ClosedKeeps, Zenon

LEMMA InboundNewKeeps ==
  ASSUME IInv, NEW w \in Workers, NEW c \in Clients, NEW flags, NEW ok \in BOOLEAN,
         FwdOwner[c] = w, InboundNew(w, c, flags, ok)
  PROVE  IInv'
<1> DEFINE tab == Closed(w, c)
           pr == Protocol(c)
           Server(i) == IF Mode = "NAT" THEN PickedServer(w, tab, View(w)[i], pr)
                        ELSE NoServer
<1>1. PICK i \in Ids :
        /\ schedulable(View(w)[i])
        /\ IF Mode = "NAT" THEN FullnatPicks(w, tab, View(w)[i], pr, TRUE)
           ELSE UNCHANGED portvars
        /\ sess' = [sess EXCEPT ![w] =
              IF ok THEN [tab EXCEPT ![c] = NewSession(c, i, Server(i), flags)]
              ELSE tab]
        /\ result' = SendIf(ok, i, "CLIENT_TO_RS")
  BY Zenon DEF InboundNew
<1>2. /\ active' = [active EXCEPT ![w] =
                      active[w] - CloseCount(w, c) + (IF ok THEN 1 ELSE 0)]
      /\ UNCHANGED ctlvars
  BY Zenon DEF InboundNew
<1>3. lip_cursor \in [Workers -> [Lips -> Nat]] /\ lip_rr \in [Workers -> Nat]
  BY Zenon DEF IInv, TypeOK
<1>4. /\ lip_cursor' \in [Workers -> [Lips -> Nat]]
      /\ lip_rr' \in [Workers -> Nat]
  <2>1. CASE Mode = "NAT"
    BY <1>1, <1>3, <2>1, CursorTypes, Zenon
  <2>2. CASE Mode # "NAT"
    BY <1>1, <1>3, <2>2, Zenon DEF portvars
  <2>. QED BY <2>1, <2>2, Zenon
<1>5. result' \in Results
  BY <1>1, SendIfType, Zenon DEF Dirs
<1>6. CASE ~ok
  <2>1. sess' = [sess EXCEPT ![w] = Closed(w, c)]
    BY <1>1, <1>6, Zenon
  <2>2. active' = [active EXCEPT ![w] = active[w] - CloseCount(w, c)]
    <3>1. active[w] - CloseCount(w, c) + (IF ok THEN 1 ELSE 0)
            = active[w] - CloseCount(w, c)
      BY <1>6 DEF IInv, TypeOK, CloseCount
    <3>. QED BY <1>2, <3>1, Zenon
  <2>. QED BY <1>2, <1>4, <1>5, <2>1, <2>2, ClosedKeeps, Zenon
<1>7. CASE ok
  <2> DEFINE server == Server(i)
             x == NewSession(c, i, server, flags)
  <2>1. /\ View(w)[i] \in RsStates /\ i < next_rs_id
        /\ \A snap \in {cur, old} : snap[i] # NoRs =>
             snap[i].addr = View(w)[i].addr
    <3>1. View(w)[i] # NoRs
      <4>1. NoRs.status = "none"
        BY DEF NoRs
      <4>2. View(w)[i].status = "up"
        BY <1>1, Zenon DEF schedulable
      <4>. QED BY <4>1, <4>2, Zenon
    <3>. QED BY <3>1, ViewType, Zenon
  <2>2. /\ server \in ServerTuples \cup {NoServer}
        /\ server # NoServer =>
             /\ server.addr = View(w)[i].addr
             /\ ret_owner(server) = w
             /\ ~key_in_use(tab, server)
    <3>1. CASE Mode = "NAT"
      <4>1. LipHits(w, tab, View(w)[i], pr) # {}
        BY <1>1, <3>1, Zenon DEF FullnatPicks
      <4>2. View(w)[i] \in RsStates /\ View(w)[i].addr \in Addrs
        BY <2>1, Zenon DEF RsStates
      <4>3. pr \in {6, 17}
        BY DEF Protocol
      <4>t. tab \in [Clients -> Sessions \cup {NoSession}]
        BY Zenon DEF Closed, IInv, TypeOK
      <4> HIDE DEF tab, pr
      <4> DEFINE rs == View(w)[i]
                 picked == PickedServer(w, tab, rs, pr)
      <4> HIDE DEF rs
      <4>4. /\ picked \in ServerTuples /\ picked.addr = rs.addr
            /\ ret_owner(picked) = w /\ ~key_in_use(tab, picked)
        <5>1. rs \in RsStates /\ rs.addr \in Addrs /\ LipHits(w, tab, rs, pr) # {}
          BY <4>1, <4>2, Zenon DEF rs
        <5>. QED BY <1>3, <4>3, <4>t, <5>1, PickedOK, ZenonT(60)
      <4>5. server = picked
        BY <3>1, Zenon DEF rs
      <4> HIDE DEF server, picked
      <4>. QED BY <4>4, <4>5, Zenon DEF rs
    <3>2. CASE Mode # "NAT"
      BY <3>2, Zenon
    <3>. QED BY <3>1, <3>2, ZenonT(40)
  <2>3. x \in Sessions /\ x # NoSession /\ x.rs = i /\ x.server = server
    <3> HIDE DEF server
    <3>1. server \in ServerTuples \cup {NoServer}
      BY <2>2, Zenon
    <3>. QED BY <3>1, NewSessionOK
  <2>4. sess' = [sess EXCEPT ![w] = [sess[w] EXCEPT ![c] = x]]
    BY <1>1, <1>7, Zenon DEF Closed, IInv, TypeOK
  <2>5. active' = [active EXCEPT ![w] =
                      active[w] - CloseCount(w, c)
                        + (IF x # NoSession THEN 1 ELSE 0)]
    BY <1>2, <1>7, <2>3, Zenon
  <2> HIDE DEF x, server
  <2>6. Fits(w, c, x)
    <3>1. ~key_in_use(tab, server) =>
            \A b \in Clients \ {c} : Live(w, b) => sess[w][b].server # server
      BY Zenon DEF key_in_use, Closed, Live, IInv, TypeOK
    <3>. QED BY <2>1, <2>2, <2>3, <3>1, Zenon DEF Fits
  <2>. QED BY <1>2, <1>4, <1>5, <2>3, <2>4, <2>5, <2>6, PacketKeeps, Zenon
<1>. QED BY <1>6, <1>7

LEMMA ReturnKeeps ==
  ASSUME IInv, NEW w \in Workers, NEW c \in Clients, NEW flags, NEW ok,
         Return(w, c, flags, ok)
  PROVE  IInv'
<1> DEFINE s2 == update_state(sess[w][c], flags, "RS_TO_CLIENT")
           x == [s2 EXCEPT !.flags = IF "SYN" \in flags THEN s2.flags ELSE {}]
<1>1. sess[w][c] \in Sessions /\ sess[w][c].rs \in Ids /\ Live(w, c)
  BY LiveSession, Zenon DEF Return
<1>2. CASE ~usable(View(w)[sess[w][c].rs])
  <2>1. /\ sess' = [sess EXCEPT ![w] = Closed(w, c)]
        /\ active' = [active EXCEPT ![w] = active[w] - 1]
        /\ result' = Drop("RS_DOWN")
        /\ UNCHANGED <<ctlvars, portvars>>
    BY <1>2, Zenon DEF Return
  <2>2. active' = [active EXCEPT ![w] = active[w] - CloseCount(w, c)]
    BY <1>1, <2>1, Zenon DEF CloseCount, Live
  <2>3. /\ lip_cursor' \in [Workers -> [Lips -> Nat]]
        /\ lip_rr' \in [Workers -> Nat]
        /\ result' \in Results
    BY <2>1 DEF IInv, TypeOK, portvars, Results
  <2>. QED BY <2>1, <2>2, <2>3, ClosedKeeps, Zenon
<1>3. CASE usable(View(w)[sess[w][c].rs])
  <2>1. /\ sess' = [sess EXCEPT ![w][c] = x]
        /\ result' = SendIf(ok, sess[w][c].rs, "RS_TO_CLIENT")
        /\ UNCHANGED <<ctlvars, portvars, active>>
    BY <1>3, Zenon DEF Return
  <2>2. s2 \in Sessions /\ s2.rs = sess[w][c].rs /\ s2.server = sess[w][c].server
    BY <1>1, UpdateKeeps, Zenon DEF Dirs
  <2>3. x \in Sessions /\ x.rs = sess[w][c].rs /\ x.server = sess[w][c].server
    <3> HIDE DEF s2
    <3>. QED BY <2>2, Zenon DEF Sessions
  <2>4. x # NoSession
    <3> HIDE DEF x
    <3>. QED BY <2>3, SMTT(60) DEF Sessions, NoSession, TcpStates
  <2>5. result' \in Results
    BY <1>1, <2>1, SendIfType, Zenon DEF Dirs
  <2> HIDE DEF x
  <2>. QED BY <1>1, <2>1, <2>3, <2>4, <2>5, ContinuedKeeps, Zenon
<1>. QED BY <1>2, <1>3, Zenon

\* A step that leaves the sessions and what is known of the RSs alone.
LEMMA IdleKeeps ==
  ASSUME IInv, behind' \subseteq Workers, result' \in Results, old' \in {old, cur},
         UNCHANGED <<cur, next_rs_id, sess, lip_cursor, lip_rr, active>>
  PROVE  IInv'
<1>1. TypeOK'
  <2>1. old' \in Snapshots
    BY Zenon DEF IInv, TypeOK
  <2>. QED BY <2>1 DEF IInv, TypeOK, Results
<1>2. IdsOK'
  BY Zenon DEF IInv, IdsOK
<1>3. OwnersOK' /\ TuplesOK' /\ IdKeepsAddress' /\ ActiveExact'
  <2>1. OwnersOK /\ TuplesOK /\ IdKeepsAddress /\ ActiveExact
    BY DEF IInv, SessOK
  <2>2. \A v \in Workers, b \in Clients : Live(v, b)' =>
          /\ Live(v, b)
          /\ sess'[v][b].rs = sess[v][b].rs
          /\ sess'[v][b].server = sess[v][b].server
          /\ sess[v][b].rs < next_rs_id'
    BY <2>1, Zenon DEF OwnersOK, Live
  <2>3. ActiveExact'
    BY <2>1, Zenon DEF ActiveExact, Live
  <2>. QED BY <2>1, <2>2, <2>3, SurvivorsKeep, AddressesKeep, Zenon
<1>. QED BY <1>1, <1>2, <1>3, Zenon DEF IInv, SessOK, TypeOK

LEMMA IcmpErrorKeeps ==
  ASSUME IInv, NEW w \in Workers, NEW c \in Clients, NEW dir, NEW ok,
         IcmpError(w, c, dir, ok)
  PROVE  IInv'
<1>1. sess[w][c].rs \in Ids
  BY LiveSession, Zenon DEF IcmpError
<1>2. result' \in Results
  <2>1. \/ result' = SendIf(ok, sess[w][c].rs, "ICMP_TO_CLIENT")
        \/ result' = SendIf(ok /\ View(w)[sess[w][c].rs] # NoRs, sess[w][c].rs,
                            "ICMP_TO_RS")
    BY Zenon DEF IcmpError
  <2>. QED BY <1>1, <2>1, SendIfType, Zenon
<1>3. behind' \subseteq Workers /\ old' \in {old, cur}
      /\ UNCHANGED <<cur, next_rs_id, sess, lip_cursor, lip_rr, active>>
  BY Zenon DEF IcmpError, ctlvars, portvars, IInv, TypeOK
<1>. QED BY <1>2, <1>3, IdleKeeps, SMTT(20)

LEMMA LoopTopKeeps ==
  ASSUME IInv, NEW w \in Workers, LoopTop(w)
  PROVE  IInv'
<1>1. behind' \subseteq Workers /\ result' \in Results /\ old' \in {old, cur}
      /\ UNCHANGED <<cur, next_rs_id, sess, lip_cursor, lip_rr, active>>
  BY DEF LoopTop, portvars, IInv, TypeOK, Results
<1>. QED BY <1>1, IdleKeeps

LEMMA TickKeeps ==
  ASSUME IInv, NEW w \in Workers, Tick(w)
  PROVE  IInv'
<1> DEFINE due == {c \in Clients : sess[w][c] # NoSession /\ sess[w][c].left <= 1}
           tab == [c \in Clients |->
                     IF c \in due \/ sess[w][c] = NoSession THEN NoSession
                     ELSE [sess[w][c] EXCEPT !.left = sess[w][c].left - 1,
                                             !.idle = sess[w][c].idle + 1]]
<1>1. /\ sess' = [sess EXCEPT ![w] = tab]
      /\ active' = [active EXCEPT ![w] = active[w] - Cardinality(due)]
      /\ result' = Quiet
      /\ UNCHANGED <<cur, old, behind, next_rs_id, lip_cursor, lip_rr>>
  BY Zenon DEF Tick, ctlvars, portvars
<1>2. ASSUME NEW c \in Clients, sess[w][c] # NoSession, c \notin due
      PROVE  /\ tab[c] \in Sessions /\ tab[c] # NoSession
             /\ tab[c].rs = sess[w][c].rs /\ tab[c].server = sess[w][c].server
  <2>1. sess[w][c] \in Sessions
    BY <1>2, SMTT(20) DEF IInv, TypeOK
  <2>2. sess[w][c].left \in Nat /\ sess[w][c].idle \in Nat /\ ~(sess[w][c].left <= 1)
    BY <1>2, <2>1, Zenon DEF Sessions
  <2>3. tab[c] = [sess[w][c] EXCEPT !.left = sess[w][c].left - 1,
                                    !.idle = sess[w][c].idle + 1]
    BY <1>2, Zenon
  <2>6. sess[w][c].left - 1 \in Nat /\ sess[w][c].idle + 1 \in Nat
    BY <2>2
  <2>4. tab[c] \in Sessions /\ tab[c].rs = sess[w][c].rs
        /\ tab[c].server = sess[w][c].server
    BY <2>1, <2>3, <2>6, Zenon DEF Sessions
  <2>5. tab[c].state \in TcpStates
    BY <2>4, Zenon DEF Sessions
  <2>. QED BY <2>4, <2>5, Zenon DEF NoSession, TcpStates
<1>3. ASSUME NEW c \in Clients, sess[w][c] = NoSession \/ c \in due
      PROVE  tab[c] = NoSession
  BY <1>3, Zenon
<1>4. due \subseteq LiveSet(w)
  BY DEF LiveSet, Live
<1>5. tab \in [Clients -> Sessions \cup {NoSession}]
  <2>1. \A c \in Clients : tab[c] \in Sessions \cup {NoSession}
    <3> HIDE DEF tab
    <3>. QED BY <1>2, <1>3, Zenon
  <2>. QED BY <2>1, Zenon
<1>6. \A c \in Clients : tab[c] # NoSession =>
        /\ Live(w, c)
        /\ tab[c].rs = sess[w][c].rs /\ tab[c].server = sess[w][c].server
  <2> HIDE DEF tab
  <2>. QED BY <1>2, <1>3, Zenon DEF Live
<1>7. \A c \in Clients : tab[c] # NoSession <=> c \in LiveSet(w) \ due
  <2> HIDE DEF tab
  <2>. QED BY <1>2, <1>3, Zenon DEF Live, LiveSet
<1> HIDE DEF tab, due
<1>8. /\ \A v \in Workers \ {w} : sess'[v] = sess[v]
      /\ sess'[w] = tab
      /\ sess' \in [Workers -> [Clients -> Sessions \cup {NoSession}]]
  BY <1>1, <1>5, Zenon DEF IInv, TypeOK
<1>9. \A v \in Workers, c \in Clients : Live(v, c)' =>
        /\ Live(v, c)
        /\ sess'[v][c].rs = sess[v][c].rs
        /\ sess'[v][c].server = sess[v][c].server
  BY <1>6, <1>8, Zenon DEF Live
<1>10. IsFiniteSet(due) /\ Cardinality(due) \in Nat
       /\ IsFiniteSet(LiveSet(w)) /\ Cardinality(LiveSet(w)) \in Nat
  <2>1. LiveSet(w) \subseteq Clients
    BY DEF LiveSet
  <2>2. IsFiniteSet(LiveSet(w)) /\ IsFiniteSet(due)
    BY <1>4, <2>1, ForwardingConstants, FS_Subset, Zenon
  <2>. QED BY <2>2, FS_CardinalityType
<1>11. active' \in [Workers -> Int]
  BY <1>1, <1>10 DEF IInv, TypeOK
<1>12. ActiveExact'
  <2>1. LiveSet(w)' = LiveSet(w) \ due
    BY <1>7, <1>8, Zenon DEF LiveSet, Live
  <2>2. Cardinality(LiveSet(w) \ due) = Cardinality(LiveSet(w)) - Cardinality(due)
    <3>1. LiveSet(w) \cap due = due
      BY <1>4
    <3>. QED BY <1>10, <3>1, FS_Difference, ZenonT(40)
  <2>3. \A v \in Workers : active[v] = Cardinality(LiveSet(v))
    BY Zenon DEF IInv, SessOK, ActiveExact, LiveSet
  <2>4. active'[w] = Cardinality(LiveSet(w)')
    BY <1>1, <2>1, <2>2, <2>3, Zenon DEF IInv, TypeOK
  <2>5. ASSUME NEW v \in Workers \ {w}
        PROVE  active'[v] = Cardinality(LiveSet(v)')
    <3>1. LiveSet(v)' = LiveSet(v)
      BY <1>8, Zenon DEF LiveSet, Live
    <3>2. active'[v] = active[v]
      BY <1>1, Zenon DEF IInv, TypeOK
    <3>. QED BY <2>3, <3>1, <3>2, Zenon
  <2>. QED BY <2>4, <2>5 DEF ActiveExact, LiveSet
<1>13. OwnersOK /\ TuplesOK /\ IdKeepsAddress
  BY SMTT(20) DEF IInv, SessOK
<1>14. OwnersOK' /\ TuplesOK'
  <2>1. \A v \in Workers, c \in Clients : Live(v, c) => sess[v][c].rs < next_rs_id'
    BY <1>1, <1>13, Zenon DEF OwnersOK
  <2>. QED BY <1>9, <1>13, <2>1, SurvivorsKeep, Zenon
<1>15. IdKeepsAddress'
  BY <1>1, <1>9, <1>13, AddressesKeep, Zenon
<1>16. TypeOK' /\ IdsOK'
  <2>1. result' \in Results
    BY <1>1 DEF Results
  <2>2. TypeOK /\ IdsOK
    BY DEF IInv
  <2>3. TypeOK'
    BY <1>1, <1>8, <1>11, <2>1, <2>2, Zenon DEF TypeOK
  <2>4. IdsOK'
    BY <1>1, <2>2, Zenon DEF IdsOK
  <2>. QED BY <2>3, <2>4
<1>. QED BY <1>8, <1>11, <1>12, <1>14, <1>15, <1>16, Zenon DEF IInv, SessOK

\* publish() of a snapshot that changes no address and uses no id twice.
LEMMA PublishKeeps ==
  ASSUME IInv, NEW snap \in Snapshots, publish(snap),
         next_rs_id' \in next_rs_id .. MaxRsId,
         \A i \in Ids : i >= next_rs_id' => snap[i] = NoRs,
         \A i \in Ids : i < next_rs_id /\ snap[i] # NoRs =>
           cur[i] # NoRs /\ snap[i].addr = cur[i].addr
  PROVE  IInv'
<1>1. /\ cur' = snap /\ old' = cur /\ behind' = Workers /\ result' = Quiet
      /\ UNCHANGED <<sess, lip_cursor, lip_rr, active>>
  BY DEF publish, portvars
<1>2. next_rs_id \in Nat /\ next_rs_id' \in 0 .. MaxRsId /\ next_rs_id' >= next_rs_id
  BY ForwardingConstants DEF IInv, TypeOK
<1>3. TypeOK'
  BY <1>1, <1>2, SMTT(60) DEF IInv, TypeOK, Results
<1>4. IdsOK'
  <2>0. IdsOK
    BY Zenon DEF IInv
  <2>1. ASSUME NEW i \in Ids, i >= next_rs_id'
        PROVE  cur'[i] = NoRs /\ old'[i] = NoRs
    <3>1. i >= next_rs_id
      BY <1>2, <2>1 DEF Ids
    <3>2. cur[i] = NoRs
      BY <2>0, <3>1, Zenon DEF IdsOK
    <3>. QED BY <1>1, <2>1, <3>2, Zenon
  <2>2. ASSUME NEW i \in Ids, cur'[i] # NoRs, old'[i] # NoRs
        PROVE  cur'[i].addr = old'[i].addr
    <3>1. i < next_rs_id
      <4>1. ~(i >= next_rs_id)
        BY <1>1, <2>0, <2>2, Zenon DEF IdsOK
      <4>. QED BY <1>2, <4>1 DEF Ids
    <3>. QED BY <1>1, <2>2, <3>1, Zenon
  <2>. QED BY <2>1, <2>2, Zenon DEF IdsOK
<1>5. \A w \in Workers, c \in Clients : Live(w, c) =>
        sess[w][c].rs \in Ids /\ sess[w][c].rs < next_rs_id
  BY LiveSession, Zenon DEF IInv, SessOK, OwnersOK, Live
<1>6. OwnersOK' /\ TuplesOK'
  <2>1. OwnersOK /\ TuplesOK
    BY Zenon DEF IInv, SessOK
  <2>2. \A w \in Workers, c \in Clients : Live(w, c) => sess[w][c].rs < next_rs_id'
    BY <1>2, <1>5 DEF Ids
  <2>3. \A w \in Workers, c \in Clients : Live(w, c)' =>
          /\ Live(w, c)
          /\ sess'[w][c].rs = sess[w][c].rs
          /\ sess'[w][c].server = sess[w][c].server
          /\ sess[w][c].rs < next_rs_id'
    BY <1>1, <2>2, Zenon DEF Live
  <2>. QED BY <2>1, <2>3, SurvivorsKeep, Zenon
<1>7. ActiveExact'
  BY <1>1, Zenon DEF IInv, SessOK, ActiveExact, Live
<1>8. IdKeepsAddress'
  <2>1. IdKeepsAddress
    BY Zenon DEF IInv, SessOK
  <2> SUFFICES ASSUME NEW w \in Workers, NEW c \in Clients, NEW sn \in {snap, cur},
                      Live(w, c), sess[w][c].server # NoServer,
                      sn[sess[w][c].rs] # NoRs
               PROVE  sn[sess[w][c].rs].addr = sess[w][c].server.addr
    BY <1>1, Zenon DEF IdKeepsAddress, Live
  <2>2. cur[sess[w][c].rs] # NoRs
        /\ sn[sess[w][c].rs].addr = cur[sess[w][c].rs].addr
    BY <1>5, Zenon
  <2>. QED BY <2>1, <2>2, Zenon DEF IdKeepsAddress
<1>. QED BY <1>3, <1>4, <1>6, <1>7, <1>8, Zenon DEF IInv, SessOK, TypeOK

LEMMA ControlKeeps ==
  ASSUME IInv, Control
  PROVE  IInv'
<1>1. cur \in Snapshots /\ next_rs_id \in 0 .. MaxRsId /\ MaxRsId \in Nat
      /\ \A i \in Ids : i >= next_rs_id => cur[i] = NoRs
  BY ForwardingConstants, Zenon DEF IInv, TypeOK, IdsOK
<1>2. ASSUME NEW new \in [Ids -> Statuses], SetStatus(new)
      PROVE  IInv'
  <2> DEFINE snap == [i \in Ids |-> IF cur[i] = NoRs THEN NoRs
                                    ELSE [cur[i] EXCEPT !.status = new[i]]]
  <2>1. publish(snap) /\ next_rs_id' = next_rs_id
    BY <1>2 DEF SetStatus
  <2>2. ASSUME NEW i \in Ids
        PROVE  /\ cur[i] = NoRs => snap[i] = NoRs
               /\ cur[i] # NoRs => snap[i] \in RsStates
                                   /\ snap[i].addr = cur[i].addr
    <3>1. cur[i] # NoRs => cur[i] \in RsStates
      BY <1>1 DEF Snapshots
    <3>. QED BY <3>1, Zenon DEF RsStates
  <2>3. snap \in Snapshots
    BY <2>2, Zenon DEF Snapshots
  <2> HIDE DEF snap
  <2>4. \A j \in Ids : j >= next_rs_id' => snap[j] = NoRs
    BY <1>1, <2>1, <2>2, Zenon
  <2>5. \A j \in Ids : j < next_rs_id /\ snap[j] # NoRs =>
           cur[j] # NoRs /\ snap[j].addr = cur[j].addr
    BY <2>2, Zenon
  <2>6. next_rs_id' \in next_rs_id .. MaxRsId
    BY <1>1, <2>1
  <2>. QED BY <2>1, <2>3, <2>4, <2>5, <2>6, PublishKeeps, Zenon
<1>3. ASSUME NEW addr \in Addrs, NEW status \in {"up", "drain"},
             add_rs(addr, status)
      PROVE  IInv'
  <2> DEFINE rs == [addr |-> addr, status |-> status]
             snap == [cur EXCEPT ![next_rs_id] = rs]
  <2>1. publish(snap) /\ next_rs_id' = next_rs_id + 1 /\ next_rs_id < MaxRsId
    BY <1>3 DEF add_rs
  <2>2. rs \in RsStates
    BY DEF RsStates, Statuses
  <2> HIDE DEF rs
  <2>3. snap \in Snapshots /\ \A j \in Ids \ {next_rs_id} : snap[j] = cur[j]
    BY <1>1, <2>2, Zenon DEF Snapshots
  <2> HIDE DEF snap
  <2>4. \A j \in Ids : j >= next_rs_id' => snap[j] = NoRs
    BY <1>1, <2>1, <2>3 DEF Ids
  <2>5. \A j \in Ids : j < next_rs_id /\ snap[j] # NoRs =>
           cur[j] # NoRs /\ snap[j].addr = cur[j].addr
    BY <1>1, <2>3 DEF Ids
  <2>6. next_rs_id' \in next_rs_id .. MaxRsId
    BY <1>1, <2>1
  <2>. QED BY <2>1, <2>3, <2>4, <2>5, <2>6, PublishKeeps, Zenon
<1>4. ASSUME NEW i \in Ids, del_rs(i)
      PROVE  IInv'
  <2> DEFINE snap == [cur EXCEPT ![i] = NoRs]
  <2>1. publish(snap) /\ next_rs_id' = next_rs_id
    BY <1>4 DEF del_rs
  <2>2. /\ snap \in Snapshots /\ snap[i] = NoRs
        /\ \A j \in Ids \ {i} : snap[j] = cur[j]
    BY <1>1, Zenon DEF Snapshots
  <2> HIDE DEF snap
  <2>3. \A j \in Ids : j >= next_rs_id' => snap[j] = NoRs
    BY <1>1, <2>1, <2>2, Zenon
  <2>4. \A j \in Ids : j < next_rs_id /\ snap[j] # NoRs =>
           cur[j] # NoRs /\ snap[j].addr = cur[j].addr
    BY <2>2, Zenon
  <2>5. next_rs_id' \in next_rs_id .. MaxRsId
    BY <1>1, <2>1
  <2>. QED BY <2>1, <2>2, <2>3, <2>4, <2>5, PublishKeeps, Zenon
<1>. QED BY <1>2, <1>3, <1>4 DEF Control

LEMMA NextIInv == IInv /\ [Next]_vars => IInv'
<1> SUFFICES ASSUME IInv, [Next]_vars PROVE IInv'
  OBVIOUS
<1>1. CASE Inbound
  BY <1>1, InboundDropKeeps, InboundNoSessionKeeps, InboundKnownKeeps,
     InboundNewKeeps, Zenon DEF Inbound
<1>2. CASE Outbound
  BY <1>2, ReturnKeeps, IcmpErrorKeeps DEF Outbound
<1>3. CASE \E w \in Workers : LoopTop(w) \/ Tick(w)
  BY <1>3, LoopTopKeeps, TickKeeps
<1>4. CASE Control
  BY <1>4, ControlKeeps
<1>5. CASE UNCHANGED vars
  BY <1>5, IdleKeeps, Zenon DEF vars, ctlvars, portvars, IInv, TypeOK
<1>. QED BY <1>1, <1>2, <1>3, <1>4, <1>5 DEF Next

LEMMA Inductive == Spec => []IInv
BY InitIInv, NextIInv, PTL DEF Spec

\* Every variable keeps its type: session tables, cursors, counters and ids stay
\* in range whatever packets and commands arrive.
THEOREM TypeCorrect == Spec => []TypeOK
<1>1. IInv => TypeOK
  BY DEF IInv
<1>. QED BY <1>1, Inductive, PTL

\* Both directions of every session are steered to the worker that holds it, for
\* any number of workers, port range, probe limit and RSS function: the offset
\* create_fullnat adds puts each candidate in the worker's residue class.
THEOREM BothWaysAreOwned == Spec => []BothWaysOwned
<1>1. IInv => BothWaysOwned
  <2> SUFFICES ASSUME IInv, NEW w \in Workers, NEW c \in Clients, Live(w, c)
               PROVE  /\ FwdOwner[c] = w
                      /\ sess[w][c].server # NoServer =>
                           /\ ret_owner(sess[w][c].server) = w
                           /\ sess[w][c].server.port \in Ports
    BY Zenon DEF BothWaysOwned
  <2>1. sess[w][c].server \in ServerTuples \cup {NoServer}
    BY LiveSession, Zenon DEF Live, Sessions
  <2>2. sess[w][c].server # NoServer => sess[w][c].server.port \in Ports
    BY <2>1, Zenon DEF ServerTuples
  <2>. QED BY <2>2, Zenon DEF IInv, SessOK, OwnersOK
<1>. QED BY <1>1, Inductive, PTL

\* No two sessions of any workers share a server tuple: one worker checks its
\* own table, and tuples of different workers have different owners.
THEOREM ServerTuplesAreUnique == Spec => []ServerTuplesUnique
<1>1. IInv => ServerTuplesUnique
  <2> SUFFICES ASSUME IInv, NEW v \in Workers, NEW w \in Workers,
                      NEW b \in Clients, NEW c \in Clients,
                      Live(v, b), Live(w, c),
                      sess[v][b].server = sess[w][c].server,
                      sess[v][b].server # NoServer
               PROVE  v = w /\ b = c
    BY Zenon DEF ServerTuplesUnique
  <2>1. v = w
    BY DEF IInv, SessOK, OwnersOK
  <2>. QED BY <2>1, Zenon DEF IInv, SessOK, TuplesOK
<1>. QED BY <1>1, Inductive, PTL

\* A session's RS id never comes to mean another address, however many RSs are
\* added and deleted while it lives.
THEOREM IdsKeepAddresses == Spec => []IdKeepsAddress
<1>1. IInv => IdKeepsAddress
  BY DEF IInv, SessOK
<1>. QED BY <1>1, Inductive, PTL

\* The session counters account exactly for the sessions in the table, on every
\* path that creates, replaces, rolls back or expires one.
THEOREM ActiveIsExact == Spec => []ActiveExact
<1>1. IInv => ActiveExact
  BY SMTT(20) DEF IInv, SessOK
<1>. QED BY <1>1, Inductive, PTL

-----------------------------------------------------------------------------
(* The TCP state of a session and its timeout.                             *)

LifeOK(c, s) ==
  /\ s.left >= 1
  /\ s.left + s.idle = deadline(Timeout[s.state])
  /\ s.state # "NONE"
  /\ s.state \in {"FIN_WAIT", "TIME_WAIT"} => s.fin # {}
  /\ s.state = "ESTABLISHED" => s.fin = {}
  /\ s.state = "UDP" <=> c \notin TcpClients

\* One packet keeps the states that promise something of fin_seen honest.
LEMMA NextStateHonest ==
  ASSUME NEW st \in TcpStates, NEW flags, NEW dir \in Dirs, NEW fin \in SUBSET Dirs,
         st = "NONE" => "SYN" \in flags \/ "RST" \in flags,
         st \in {"FIN_WAIT", "TIME_WAIT"} => fin # {},
         st = "ESTABLISHED" => fin = {}
  PROVE  LET fin2 == fin_next(st, flags, dir, fin)
             st2  == tcp_next_state(st, flags, dir, fin2)
         IN  /\ st2 # "NONE"
             /\ st2 \in {"FIN_WAIT", "TIME_WAIT"} => fin2 # {}
             /\ st2 = "ESTABLISHED" => fin2 = {}
             /\ st2 = "UDP" <=> st = "UDP"
<1> DEFINE fin2 == fin_next(st, flags, dir, fin)
           st2 == tcp_next_state(st, flags, dir, fin2)
<1>1. fin \subseteq fin2 /\ fin2 \subseteq Dirs
  BY DEF fin_next
<1> HIDE DEF fin2
<1> SUFFICES /\ st2 # "NONE"
             /\ st2 \in {"FIN_WAIT", "TIME_WAIT"} => fin2 # {}
             /\ st2 = "ESTABLISHED" => fin2 = {}
             /\ st2 = "UDP" <=> st = "UDP"
  BY Zenon DEF fin2
<1>2. CASE st = "UDP"
  BY <1>2 DEF tcp_next_state
<1>3. CASE st # "UDP" /\ "RST" \in flags
  BY <1>3 DEF tcp_next_state
<1>4. CASE "RST" \notin flags /\ st = "NONE"
  BY <1>4 DEF tcp_next_state
<1>5. CASE "RST" \notin flags /\ st = "SYN_RECV"
  BY <1>5 DEF tcp_next_state
<1>6. CASE "RST" \notin flags /\ st = "ESTABLISHED"
  BY <1>6 DEF tcp_next_state
<1>7. CASE "RST" \notin flags /\ st = "FIN_WAIT"
  BY <1>1, <1>7 DEF tcp_next_state
<1>8. CASE "RST" \notin flags /\ st \in {"TIME_WAIT", "CLOSE"}
  BY <1>1, <1>8, Zenon DEF tcp_next_state
<1>. QED BY <1>2, <1>3, <1>4, <1>5, <1>6, <1>7, <1>8, Zenon DEF TcpStates

LEMMA UpdateHonest ==
  ASSUME NEW c \in Clients, NEW flags, NEW dir \in Dirs, NEW s,
         s.state \in TcpStates, s.fin \in SUBSET Dirs,
         {"state", "fin", "left", "idle"} \subseteq DOMAIN s,
         s.state = "NONE" => "SYN" \in flags \/ "RST" \in flags,
         s.state \in {"FIN_WAIT", "TIME_WAIT"} => s.fin # {},
         s.state = "ESTABLISHED" => s.fin = {},
         s.state = "UDP" <=> c \notin TcpClients
  PROVE  LifeOK(c, update_state(s, flags, dir))
<1> DEFINE fin == fin_next(s.state, flags, dir, s.fin)
           st == tcp_next_state(s.state, flags, dir, fin)
           s2 == update_state(s, flags, dir)
<1>1. s.state \in TcpStates /\ s.fin \in SUBSET Dirs
  BY SMTT(20)
<1>2. /\ st # "NONE"
      /\ st \in {"FIN_WAIT", "TIME_WAIT"} => fin # {}
      /\ st = "ESTABLISHED" => fin = {}
      /\ st = "UDP" <=> s.state = "UDP"
  BY <1>1, NextStateHonest
<1>3. st \in TcpStates
  BY <1>1, NextStateType, Zenon
<1>4. s2 = [s EXCEPT !.state = st, !.fin = fin, !.left = deadline(Timeout[st]), !.idle = 0]
  BY DEF update_state
<1> HIDE DEF fin, st, s2
<1>5. s2.state = st /\ s2.fin = fin /\ s2.left = deadline(Timeout[st]) /\ s2.idle = 0
  BY <1>4
<1>6. s2.left >= 1 /\ s2.left + s2.idle = deadline(Timeout[s2.state])
  BY <1>3, <1>5, DeadlineType
<1>7. LifeOK(c, s2)
  BY <1>2, <1>5, <1>6, Zenon DEF LifeOK
<1>. QED BY <1>7, Zenon DEF s2

LEMMA KnownHonest ==
  ASSUME NEW c \in Clients, NEW s \in Sessions, NEW flags, NEW dir \in Dirs,
         LifeOK(c, s)
  PROVE  LifeOK(c, update_state(s, flags, dir))
<1>1. /\ s.state \in TcpStates /\ s.fin \in SUBSET Dirs
      /\ {"state", "fin", "left", "idle"} \subseteq DOMAIN s
  BY DEF Sessions
<1>2. /\ s.state # "NONE"
      /\ s.state \in {"FIN_WAIT", "TIME_WAIT"} => s.fin # {}
      /\ s.state = "ESTABLISHED" => s.fin = {}
      /\ s.state = "UDP" <=> c \notin TcpClients
  BY Zenon DEF LifeOK
<1>. QED BY <1>1, <1>2, UpdateHonest, Zenon

\* Which sessions a step leaves, ends or changes.
LEMMA LifeKeeps ==
  ASSUME LifeMatchesState,
         \A w \in Workers, c \in Clients :
           \/ sess'[w][c] \in {sess[w][c], NoSession}
           \/ LifeOK(c, sess'[w][c])
  PROVE  LifeMatchesState'
<1> SUFFICES ASSUME NEW w \in Workers, NEW c \in Clients, sess'[w][c] # NoSession
             PROVE  LifeOK(c, sess'[w][c])
  BY Zenon DEF LifeMatchesState, LifeOK, Live
<1>. QED BY Zenon DEF LifeMatchesState, LifeOK, Live

LEMMA LifeStep == IInv /\ LifeMatchesState /\ [Next]_vars => LifeMatchesState'
<1> SUFFICES ASSUME IInv, LifeMatchesState, [Next]_vars PROVE LifeMatchesState'
  OBVIOUS
<1>1. sess \in [Workers -> [Clients -> Sessions \cup {NoSession}]]
  BY Zenon DEF IInv, TypeOK
<1>2. ASSUME NEW w \in Workers, NEW c \in Clients, sess[w][c] # NoSession
      PROVE  sess[w][c] \in Sessions /\ LifeOK(c, sess[w][c])
  <2>1. sess[w][c] \in Sessions
    BY <1>1, <1>2, Zenon
  <2>2. LifeOK(c, sess[w][c])
    BY <1>2, Zenon DEF LifeMatchesState, LifeOK, Live
  <2>. QED BY <2>1, <2>2, Zenon
<1>3. ASSUME NEW w \in Workers, NEW c \in Clients, NEW x,
             x = NoSession \/ LifeOK(c, x),
             sess' = [sess EXCEPT ![w][c] = x]
      PROVE  LifeMatchesState'
  BY <1>1, <1>3, LifeKeeps, Zenon
<1>4. ASSUME NEW w \in Workers, NEW c \in Clients,
             sess' = [sess EXCEPT ![w] = Closed(w, c)]
      PROVE  LifeMatchesState'
  BY <1>1, <1>4, LifeKeeps, Zenon DEF Closed
<1>5. ASSUME UNCHANGED sess PROVE LifeMatchesState'
  BY <1>5, LifeKeeps
<1>6. CASE Inbound
  <2>1. PICK w \in Workers, c \in Clients : \E flags \in Flags(c) :
          \/ InboundDrop(w, c, flags)
          \/ InboundNoSession(w, c, flags)
          \/ \E ok \in BOOLEAN : \/ InboundKnown(w, c, flags, ok)
                                 \/ InboundNew(w, c, flags, ok)
    BY <1>6, Zenon DEF Inbound
  <2>2. PICK flags \in Flags(c) :
          \/ InboundDrop(w, c, flags)
          \/ InboundNoSession(w, c, flags)
          \/ \E ok \in BOOLEAN : \/ InboundKnown(w, c, flags, ok)
                                 \/ InboundNew(w, c, flags, ok)
    BY <2>1, Zenon
  <2>3. CASE InboundDrop(w, c, flags) \/ InboundNoSession(w, c, flags)
    <3>1. sess' = [sess EXCEPT ![w] = Closed(w, c)]
      BY <2>3, Zenon DEF InboundDrop, InboundNoSession
    <3>. QED BY <1>4, <3>1, Zenon
  <2>4. ASSUME NEW ok \in BOOLEAN, InboundKnown(w, c, flags, ok)
        PROVE  LifeMatchesState'
    <3> DEFINE x == update_state(sess[w][c], flags, "CLIENT_TO_RS")
    <3>1. sess' = [sess EXCEPT ![w][c] = x] /\ sess[w][c] # NoSession
      BY <2>4, Zenon DEF InboundKnown
    <3>2. LifeOK(c, x)
      BY <1>2, <3>1, KnownHonest, Zenon DEF Dirs
    <3> HIDE DEF x
    <3>. QED BY <1>3, <3>1, <3>2, Zenon
  <2>5. ASSUME NEW ok \in BOOLEAN, InboundNew(w, c, flags, ok)
        PROVE  LifeMatchesState'
    <3>1. c \in TcpClients => "SYN" \in flags
      BY <2>5, Zenon DEF InboundNew, is_syn
    <3>2. PICK i \in Ids : \E server :
            sess' = [sess EXCEPT ![w] =
              IF ok THEN [Closed(w, c) EXCEPT ![c] = NewSession(c, i, server, flags)]
              ELSE Closed(w, c)]
      BY <2>5, Zenon DEF InboundNew
    <3>3. PICK server :
            sess' = [sess EXCEPT ![w] =
              IF ok THEN [Closed(w, c) EXCEPT ![c] = NewSession(c, i, server, flags)]
              ELSE Closed(w, c)]
      BY <3>2, Zenon
    <3> DEFINE x == IF ok THEN NewSession(c, i, server, flags) ELSE NoSession
    <3>4. LifeOK(c, NewSession(c, i, server, flags))
      <4> DEFINE s0 == [rs |-> i, server |-> server,
                        state |-> IF c \in TcpClients THEN "NONE" ELSE "UDP",
                        fin |-> {}, left |-> 0, idle |-> 0,
                        flags |-> IF Mode = "NAT" /\ c \in TcpClients /\ Toa
                                  THEN {"SF_TOA_PENDING"} ELSE {}]
      <4>1. /\ s0.state \in TcpStates /\ s0.fin = {}
            /\ {"state", "fin", "left", "idle"} \subseteq DOMAIN s0
        BY Zenon DEF TcpStates
      <4>2. s0.state = IF c \in TcpClients THEN "NONE" ELSE "UDP"
        BY Zenon
      <4>3. NewSession(c, i, server, flags) = update_state(s0, flags, "CLIENT_TO_RS")
        BY Zenon DEF NewSession
      <4> HIDE DEF s0
      <4>. QED BY <3>1, <4>1, <4>2, <4>3, UpdateHonest, ZenonT(40) DEF Dirs
    <3>5. x = NoSession \/ LifeOK(c, x)
      BY <3>4, Zenon
    <3>6. sess' = [sess EXCEPT ![w][c] = x]
      BY <1>1, <3>3, Zenon DEF Closed
    <3> HIDE DEF x
    <3>. QED BY <1>3, <3>5, <3>6, Zenon
  <2>. QED BY <2>2, <2>3, <2>4, <2>5, Zenon
<1>7. CASE Outbound
  <2>1. ASSUME NEW w \in Workers, NEW c \in Clients, NEW flags \in Flags(c),
               NEW ok \in BOOLEAN, Return(w, c, flags, ok)
        PROVE  LifeMatchesState'
    <3> DEFINE x == update_state(sess[w][c], flags, "RS_TO_CLIENT")
               y == [x EXCEPT !.flags = IF "SYN" \in flags THEN x.flags ELSE {}]
    <3>1. CASE sess' = [sess EXCEPT ![w] = Closed(w, c)]
      BY <1>4, <3>1, Zenon
    <3>2. CASE sess' = [sess EXCEPT ![w][c] = y]
      <4>1. sess[w][c] # NoSession
        BY <2>1, Zenon DEF Return
      <4>2. x \in Sessions /\ LifeOK(c, x)
        BY <1>2, <4>1, UpdateKeeps, KnownHonest, Zenon DEF Dirs
      <4>3. y.state = x.state /\ y.fin = x.fin /\ y.left = x.left /\ y.idle = x.idle
        BY <4>2, Zenon DEF Sessions
      <4>4. LifeOK(c, y)
        BY <4>2, <4>3, Zenon DEF LifeOK
      <4> HIDE DEF y
      <4>. QED BY <1>3, <3>2, <4>4, Zenon
    <3>. QED BY <2>1, <3>1, <3>2, Zenon DEF Return
  <2>2. ASSUME NEW w \in Workers, NEW c \in Clients, NEW dir \in Dirs,
               NEW ok \in BOOLEAN, IcmpError(w, c, dir, ok)
        PROVE  UNCHANGED sess
    BY <2>2, Zenon DEF IcmpError
  <2>. QED BY <1>5, <1>7, <2>1, <2>2, Zenon DEF Outbound
<1>8. ASSUME NEW w \in Workers, Tick(w) PROVE LifeMatchesState'
  <2> SUFFICES ASSUME NEW v \in Workers, NEW c \in Clients
               PROVE  \/ sess'[v][c] \in {sess[v][c], NoSession}
                      \/ LifeOK(c, sess'[v][c])
    BY LifeKeeps, Zenon
  <2>1. CASE v # w
    BY <1>1, <1>8, <2>1, Zenon DEF Tick
  <2>2. CASE v = w /\ sess[w][c] # NoSession /\ ~(sess[w][c].left <= 1)
    <3> DEFINE s == sess[w][c]
               x == [s EXCEPT !.left = s.left - 1, !.idle = s.idle + 1]
    <3>1. sess'[v][c] = x
      BY <1>1, <1>8, <2>2, Zenon DEF Tick
    <3>2. s \in Sessions /\ LifeOK(c, s)
      BY <1>2, <2>2, Zenon
    <3>3. /\ x.state = s.state /\ x.fin = s.fin
          /\ x.left = s.left - 1 /\ x.idle = s.idle + 1
      BY <3>2, Zenon DEF Sessions
    <3>4. /\ s.left \in Nat /\ s.idle \in Nat
          /\ s.left + s.idle = deadline(Timeout[s.state])
      BY <3>2, Zenon DEF LifeOK, Sessions
    <3>5. x.left >= 1 /\ x.left + x.idle = deadline(Timeout[x.state])
      <4>1. ~(s.left <= 1)
        BY <2>2
      <4> HIDE DEF s, x
      <4>. QED BY <3>3, <3>4, <4>1
    <3>. QED BY <3>1, <3>2, <3>3, <3>5, Zenon DEF LifeOK
  <2>3. CASE v = w /\ ~(sess[w][c] # NoSession /\ ~(sess[w][c].left <= 1))
    BY <1>1, <1>8, <2>3, Zenon DEF Tick
  <2>. QED BY <2>1, <2>2, <2>3, Zenon
<1>9. ASSUME NEW w \in Workers, LoopTop(w) PROVE UNCHANGED sess
  BY <1>9 DEF LoopTop
<1>10. CASE Control
  BY <1>5, <1>10, Zenon DEF Control, SetStatus, add_rs, del_rs, publish
<1>11. CASE UNCHANGED vars
  BY <1>5, <1>11, Zenon DEF vars
<1>. QED BY <1>5, <1>6, <1>7, <1>8, <1>9, <1>10, <1>11, Zenon DEF Next

\* The time a session has left and the time since its last packet add up to the
\* deadline of the state it is in; a closing session has seen a FIN and an established
\* one has not, and UDP is the state of UDP sessions only (update_state, Tick).
THEOREM LivesMatchStates == Spec => []LifeMatchesState
<1>1. Init => LifeMatchesState
  BY DEF Init, LifeMatchesState, Live
<1>. QED BY <1>1, LifeStep, Inductive, PTL DEF Spec

-----------------------------------------------------------------------------
(* What a step may do to a session, and whom it may send to.               *)

\* A session stays as it is or goes on with its RS and server tuple; or there is
\* none that can serve, and if one is made its RS takes new ones; or it expires.
Stays(w, c) ==
  \/ sess'[w][c] = sess[w][c]
  \/ /\ sess[w][c] # NoSession /\ sess'[w][c] # NoSession
     /\ sess'[w][c].rs = sess[w][c].rs /\ sess'[w][c].server = sess[w][c].server

Replaced(w, c) ==
  /\ sess[w][c] # NoSession =>
       ~usable(View(w)[sess[w][c].rs]) \/ tcp_state_reusable(sess[w][c].state)
  /\ sess'[w][c] # NoSession => schedulable(View(w)[sess'[w][c].rs])

Expires(w, c) ==
  sess'[w][c] = NoSession /\ sess[w][c] # NoSession /\ result' = Quiet
  /\ sess[w][c].idle >= Timeout[sess[w][c].state]

Changes == \A w \in Workers, c \in Clients : Stays(w, c) \/ Replaced(w, c) \/ Expires(w, c)

Sends ==
  /\ result'.verdict = "SEND" /\ result'.dir \in Dirs =>
       \E w \in Workers : usable(View(w)[result'.rs])
  /\ result'.verdict = "SEND" /\ result'.dir = "ICMP_TO_RS" =>
       \E w \in Workers : View(w)[result'.rs] # NoRs

\* One session of one worker's table changes.
LEMMA OneChanges ==
  ASSUME IInv, NEW w \in Workers, NEW c \in Clients, NEW x,
         \/ sess' = [sess EXCEPT ![w][c] = x]
         \/ sess' = [sess EXCEPT ![w] = [sess[w] EXCEPT ![c] = x]],
         Stays(w, c) \/ Replaced(w, c)
  PROVE  Changes
<1>1. sess \in [Workers -> [Clients -> Sessions \cup {NoSession}]]
  BY Zenon DEF IInv, TypeOK
<1>2. \A v \in Workers, b \in Clients : v # w \/ b # c => sess'[v][b] = sess[v][b]
  BY <1>1
<1>. QED BY <1>2, Zenon DEF Changes, Stays

LEMMA SameChanges ==
  ASSUME UNCHANGED sess
  PROVE  Changes
BY DEF Changes, Stays

LEMMA SendIfCases ==
  ASSUME NEW ok, NEW i, NEW dir,
         result' = SendIf(ok, i, dir)
  PROVE  result'.verdict = "SEND" => ok /\ result'.rs = i /\ result'.dir = dir
BY Zenon DEF SendIf, Send, Drop

LEMMA KnownChanges ==
  ASSUME IInv, NEW w \in Workers, NEW c \in Clients, NEW flags, NEW ok,
         InboundKnown(w, c, flags, ok)
  PROVE  Changes /\ Sends
<1> DEFINE x == update_state(sess[w][c], flags, "CLIENT_TO_RS")
<1>1. sess[w][c] \in Sessions
  BY LiveSession, Zenon DEF InboundKnown
<1>2. x # NoSession /\ x.rs = sess[w][c].rs /\ x.server = sess[w][c].server
  BY <1>1, UpdateKeeps, Zenon DEF Dirs
<1>3. /\ sess' = [sess EXCEPT ![w][c] = x] /\ sess[w][c] # NoSession
      /\ result' = SendIf(ok, sess[w][c].rs, "CLIENT_TO_RS")
      /\ usable(View(w)[sess[w][c].rs])
  BY Zenon DEF InboundKnown, Stale
<1> HIDE DEF x
<1>4. sess'[w][c] = x
  BY <1>3, Zenon DEF IInv, TypeOK
<1>5. Changes
  BY <1>2, <1>3, <1>4, OneChanges, Zenon DEF Stays
<1>6. Sends
  <2>1. result'.verdict = "SEND" =>
          result'.rs = sess[w][c].rs /\ result'.dir = "CLIENT_TO_RS"
    BY <1>3, SendIfCases, Zenon
  <2>. QED BY <1>3, <2>1, Zenon DEF Sends
<1>. QED BY <1>5, <1>6

LEMMA GoneChanges ==
  ASSUME IInv, NEW w \in Workers, NEW c \in Clients, NEW flags,
         InboundDrop(w, c, flags) \/ InboundNoSession(w, c, flags)
  PROVE  Changes /\ Sends
<1>1. /\ sess' = [sess EXCEPT ![w] = [sess[w] EXCEPT ![c] = NoSession]]
      /\ NeedsSession(w, c, flags)
  BY Zenon DEF InboundDrop, InboundNoSession, Closed
<1>2. sess'[w][c] = NoSession
  BY <1>1, Zenon DEF IInv, TypeOK
<1>3. Replaced(w, c)
  BY <1>1, <1>2, Zenon DEF Replaced, NeedsSession, Stale
<1>4. result'.verdict = "DROP"
  <2>1. \E why : result' = Drop(why)
    BY Zenon DEF InboundDrop, InboundNoSession
  <2>. QED BY <2>1 DEF Drop
<1>. QED BY <1>1, <1>3, <1>4, OneChanges, Zenon DEF Sends

LEMMA NewChanges ==
  ASSUME IInv, NEW w \in Workers, NEW c \in Clients, NEW flags, NEW ok \in BOOLEAN,
         InboundNew(w, c, flags, ok)
  PROVE  Changes /\ Sends
<1>1. PICK i \in Ids : \E server :
        /\ schedulable(View(w)[i])
        /\ sess' = [sess EXCEPT ![w] =
              IF ok THEN [Closed(w, c) EXCEPT ![c] = NewSession(c, i, server, flags)]
              ELSE Closed(w, c)]
        /\ result' = SendIf(ok, i, "CLIENT_TO_RS")
  BY Zenon DEF InboundNew
<1>2. PICK server :
        sess' = [sess EXCEPT ![w] =
              IF ok THEN [Closed(w, c) EXCEPT ![c] = NewSession(c, i, server, flags)]
              ELSE Closed(w, c)]
  BY <1>1, Zenon
<1> DEFINE x == IF ok THEN NewSession(c, i, server, flags) ELSE NoSession
<1>3. sess \in [Workers -> [Clients -> Sessions \cup {NoSession}]]
  BY Zenon DEF IInv, TypeOK
<1>4. sess' = [sess EXCEPT ![w] = [sess[w] EXCEPT ![c] = x]]
  BY <1>2, <1>3, Zenon DEF Closed
<1>5. x # NoSession => x.rs = i
  BY Zenon DEF NewSession, update_state
<1> HIDE DEF x
<1>6. sess'[w][c] = x
  BY <1>3, <1>4, Zenon
<1>7. Replaced(w, c)
  BY <1>1, <1>5, <1>6, Zenon DEF Replaced, InboundNew, NeedsSession, Stale
<1>8. Changes
  BY <1>4, <1>7, OneChanges, ZenonT(40)
<1>9. Sends
  <2>1. usable(View(w)[i])
    BY <1>1, Zenon DEF usable, schedulable
  <2>2. result'.verdict = "SEND" => result'.rs = i /\ result'.dir = "CLIENT_TO_RS"
    BY <1>1, SendIfCases, SMTT(20)
  <2>. QED BY <2>1, <2>2, Zenon DEF Sends, Dirs
<1>. QED BY <1>8, <1>9

LEMMA ReturnChanges ==
  ASSUME IInv, NEW w \in Workers, NEW c \in Clients, NEW flags, NEW ok,
         Return(w, c, flags, ok)
  PROVE  Changes /\ Sends
<1> DEFINE x == update_state(sess[w][c], flags, "RS_TO_CLIENT")
           y == [x EXCEPT !.flags = IF "SYN" \in flags THEN x.flags ELSE {}]
<1>1. sess[w][c] # NoSession /\ sess[w][c] \in Sessions
  BY LiveSession, Zenon DEF Return
<1>2. CASE ~usable(View(w)[sess[w][c].rs])
  <2>1. /\ sess' = [sess EXCEPT ![w] = [sess[w] EXCEPT ![c] = NoSession]]
        /\ result' = Drop("RS_DOWN")
    BY <1>2, Zenon DEF Return, Closed
  <2>2. sess'[w][c] = NoSession
    BY <2>1, Zenon DEF IInv, TypeOK
  <2>3. Changes
    BY <1>2, <2>1, <2>2, OneChanges, Zenon DEF Replaced
  <2>. QED BY <2>1, <2>3, Zenon DEF Sends, Drop
<1>3. CASE usable(View(w)[sess[w][c].rs])
  <2>1. /\ sess' = [sess EXCEPT ![w][c] = y]
        /\ result' = SendIf(ok, sess[w][c].rs, "RS_TO_CLIENT")
    BY <1>3, Zenon DEF Return
  <2>2. x \in Sessions /\ x.rs = sess[w][c].rs /\ x.server = sess[w][c].server
    BY <1>1, UpdateKeeps, Zenon DEF Dirs
  <2>3. y \in Sessions /\ y.rs = sess[w][c].rs /\ y.server = sess[w][c].server
    BY <2>2, Zenon DEF Sessions
  <2>4. y # NoSession
    BY <2>3 DEF Sessions, NoSession, TcpStates
  <2> HIDE DEF y
  <2>5. sess'[w][c] = y
    BY <2>1, Zenon DEF IInv, TypeOK
  <2>6. Changes
    BY <1>1, <2>1, <2>3, <2>4, <2>5, OneChanges, Zenon DEF Stays
  <2>7. Sends
    <3>1. result'.verdict = "SEND" =>
            result'.rs = sess[w][c].rs /\ result'.dir = "RS_TO_CLIENT"
      BY <2>1, SendIfCases, Zenon
    <3>. QED BY <1>3, <3>1, Zenon DEF Sends
  <2>. QED BY <2>6, <2>7
<1>. QED BY <1>2, <1>3, Zenon

LEMMA IcmpChanges ==
  ASSUME IInv, NEW w \in Workers, NEW c \in Clients, NEW dir, NEW ok,
         IcmpError(w, c, dir, ok)
  PROVE  Changes /\ Sends
<1>1. UNCHANGED sess
  BY Zenon DEF IcmpError
<1>2. CASE result' = SendIf(ok, sess[w][c].rs, "ICMP_TO_CLIENT")
  <2>1. result'.verdict = "SEND" => result'.dir = "ICMP_TO_CLIENT"
    BY <1>2, SendIfCases, Zenon
  <2>. QED BY <1>1, <2>1, SameChanges, Zenon DEF Sends, Dirs
<1>3. CASE result' = SendIf(ok /\ View(w)[sess[w][c].rs] # NoRs, sess[w][c].rs, "ICMP_TO_RS")
  <2>1. result'.verdict = "SEND" =>
          /\ View(w)[sess[w][c].rs] # NoRs /\ result'.rs = sess[w][c].rs
          /\ result'.dir = "ICMP_TO_RS"
    BY <1>3, SendIfCases, ZenonT(40)
  <2>. QED BY <1>1, <2>1, SameChanges, Zenon DEF Sends, Dirs
<1>. QED BY <1>2, <1>3, Zenon DEF IcmpError

LEMMA TickChanges ==
  ASSUME IInv, LifeMatchesState, NEW w \in Workers, Tick(w)
  PROVE  Changes /\ Sends
<1>1. result' = Quiet
  BY Zenon DEF Tick
<1>2. sess \in [Workers -> [Clients -> Sessions \cup {NoSession}]]
  BY Zenon DEF IInv, TypeOK
<1> DEFINE Ticked(c) ==
             IF (sess[w][c] # NoSession /\ sess[w][c].left <= 1) \/ sess[w][c] = NoSession
             THEN NoSession
             ELSE [sess[w][c] EXCEPT !.left = sess[w][c].left - 1, !.idle = sess[w][c].idle + 1]
<1>3. sess' = [sess EXCEPT ![w] = [c \in Clients |-> Ticked(c)]]
  BY ZenonT(40) DEF Tick
<1>4. \A c \in Clients : sess'[w][c] = Ticked(c)
  <2> HIDE DEF Ticked
  <2>. QED BY <1>2, <1>3, Zenon
<1>5. \A v \in Workers : v # w => sess'[v] = sess[v]
  <2> HIDE DEF Ticked
  <2>. QED BY <1>2, <1>3
<1>6. ASSUME NEW v \in Workers, NEW c \in Clients PROVE Stays(v, c) \/ Expires(v, c)
  <2>1. CASE v # w \/ sess[v][c] = NoSession
    <3>1. sess'[v][c] = sess[v][c]
      BY <1>4, <1>5, <2>1, ZenonT(40)
    <3>. QED BY <3>1, Zenon DEF Stays
  <2>2. CASE v = w /\ sess[w][c] # NoSession /\ sess[w][c].left <= 1
    <3>1. sess[w][c] \in Sessions
      BY <1>2, <2>2, Zenon
    <3>2. LifeOK(c, sess[w][c])
      BY <2>2, Zenon DEF LifeMatchesState, LifeOK, Live
    <3>3. sess[w][c].idle >= Timeout[sess[w][c].state]
      <4> DEFINE l == sess[w][c].left
                 i == sess[w][c].idle
                 t == Timeout[sess[w][c].state]
                 d == deadline(t)
      <4>1. l + i = d
        BY <3>2, Zenon DEF LifeOK
      <4>2. l \in Nat /\ i \in Nat /\ sess[w][c].state \in TcpStates
        BY <3>1, Zenon DEF Sessions
      <4>3. t \in Nat /\ d \in Nat /\ d > t
        BY <4>2, DeadlineType
      <4>4. l <= 1
        BY <2>2
      <4> HIDE DEF l, i, t, d
      <4>5. i >= t
        BY <4>1, <4>2, <4>3, <4>4
      <4>. QED BY <4>5, Zenon DEF i, t
    <3>4. sess'[w][c] = NoSession
      BY <1>4, <2>2, Zenon
    <3>. QED BY <1>1, <2>2, <3>3, <3>4, Zenon DEF Expires
  <2>3. CASE v = w /\ sess[w][c] # NoSession /\ ~(sess[w][c].left <= 1)
    <3> DEFINE x == [sess[w][c] EXCEPT !.left = sess[w][c].left - 1,
                                       !.idle = sess[w][c].idle + 1]
    <3>1. sess'[w][c] = x
      BY <1>4, <2>3, Zenon
    <3>2. sess[w][c] \in Sessions
      BY <1>2, <2>3, Zenon
    <3>3. x.rs = sess[w][c].rs /\ x.server = sess[w][c].server /\ x.state = sess[w][c].state
          /\ sess[w][c].state # "none"
      BY <3>2, Zenon DEF Sessions, TcpStates
    <3>4. x # NoSession
      BY <3>3, Zenon DEF NoSession
    <3> HIDE DEF x
    <3>. QED BY <2>3, <3>1, <3>3, <3>4, Zenon DEF Stays
  <2>. QED BY <2>1, <2>2, <2>3, Zenon
<1>. QED BY <1>1, <1>6, Zenon DEF Changes, Sends, Quiet

LEMMA StepChanges ==
  ASSUME IInv, LifeMatchesState, Next
  PROVE  Changes /\ Sends
<1>1. CASE Inbound
  BY <1>1, KnownChanges, GoneChanges, NewChanges, Zenon DEF Inbound
<1>2. CASE Outbound
  BY <1>2, ReturnChanges, IcmpChanges, Zenon DEF Outbound
<1>3. ASSUME NEW w \in Workers, LoopTop(w) PROVE Changes /\ Sends
  BY <1>3, SameChanges, Zenon DEF LoopTop, Sends, Quiet
<1>4. CASE Control
  <2>1. UNCHANGED sess /\ result' = Quiet
    BY <1>4, ZenonT(40) DEF Control, SetStatus, add_rs, del_rs, publish
  <2>. QED BY <2>1, SameChanges, Zenon DEF Sends, Quiet
<1>. QED BY <1>1, <1>2, <1>3, <1>4, TickChanges DEF Next

\* A connection stays with its RS and its server tuple as long as the worker's
\* snapshot has the RS usable and it is not finished; only a whole timeout of its
\* state without a packet ends it.
THEOREM ConnectionsAreSticky == Spec => Sticky
<1> DEFINE A == \A w \in Workers, c \in Clients :
                  /\ Live(w, c)
                  /\ ~tcp_state_reusable(sess[w][c].state)
                  /\ usable(View(w)[sess[w][c].rs])
                  => \/ /\ sess'[w][c] # NoSession
                        /\ sess'[w][c].rs = sess[w][c].rs
                        /\ sess'[w][c].server = sess[w][c].server
                     \/ /\ sess'[w][c] = NoSession
                        /\ sess[w][c].idle >= Timeout[sess[w][c].state]
                        /\ result' = Quiet
<1>1. ASSUME IInv, LifeMatchesState, [Next]_vars PROVE [A]_vars
  <2>1. CASE Next
    <3>1. Changes
      BY <1>1, <2>1, StepChanges
    <3>. QED BY <3>1, Zenon DEF Changes, Stays, Replaced, Expires, Live
  <2>. QED BY <1>1, <2>1, Zenon
<1>2. Spec => [][A]_vars
  BY <1>1, Inductive, LivesMatchStates, PTL DEF Spec
<1>. QED BY <1>2, Zenon DEF Sticky

\* When a command has been answered, every worker obeys it: publish() waited for
\* all of them, so what they read is what was published.
THEOREM PublishedAreObeyed == Spec => PublishedIsObeyed
<1> DEFINE A == behind = {} =>
       /\ result'.verdict = "SEND" /\ result'.dir \in Dirs
            => usable(cur[result'.rs])
       /\ result'.verdict = "SEND" /\ result'.dir = "ICMP_TO_RS"
            => cur[result'.rs] # NoRs
       /\ \A w \in Workers, c \in Clients :
            sess'[w][c] # NoSession /\ (Live(w, c) => sess[w][c].rs # sess'[w][c].rs)
              => schedulable(cur[sess'[w][c].rs])
<1>1. ASSUME IInv, LifeMatchesState, [Next]_vars PROVE [A]_vars
  <2>1. CASE Next
    <3>1. Changes /\ Sends
      BY <1>1, <2>1, StepChanges
    <3>2. behind = {} => \A w : View(w) = cur
      BY DEF View
    <3>. QED BY <3>1, <3>2 DEF Changes, Sends, Stays, Replaced, Expires, Live
  <2>. QED BY <1>1, <2>1, ZenonT(40)
<1>2. Spec => [][A]_vars
  BY <1>1, Inductive, LivesMatchStates, PTL DEF Spec
<1>. QED BY <1>2, SMTT(20) DEF PublishedIsObeyed

=============================================================================
