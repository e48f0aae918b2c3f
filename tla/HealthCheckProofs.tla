------------------------- MODULE HealthCheckProofs -------------------------
(***************************************************************************)
(* Proofs about HealthCheck: types for every value of the constants, and,  *)
(* when there are at least as many source ports as RS ids, that ports are  *)
(* used by one probe each and that an RS that answers stays up.            *)
(***************************************************************************)
EXTENDS HealthCheck, FiniteSetTheorems, SequenceTheorems, TLAPS

\* A due answer has not timed out yet: tick() comes after it.
DueInTime == \A r \in awaited : age[r] < Timeout

TypeInv == TypeOK /\ DueInTime

LEMMA AppendType ==
  ASSUME NEW S, NEW seq \in Seq(S), NEW e \in S
  PROVE  Append(seq, e) \in Seq(S) /\ Len(Append(seq, e)) = Len(seq) + 1
OBVIOUS

LEMMA SentType ==
  ASSUME wire \subseteq Syns, NEW r \in Rs, NEW port \in 0 .. NPorts
  PROVE  Sent(r, port) \subseteq Syns
<1>1. ASSUME NEW s \in wire
      PROVE  [s EXCEPT !.isn = IF s.rs = r THEN "old" ELSE @] \in Syns
  <2>1. s \in Syns
    OBVIOUS
  <2>. QED BY <2>1 DEF Syns
<1>2. [rs |-> r, port |-> port, isn |-> "cur",
       to |-> IF r \in alive THEN "alive" ELSE "dead"] \in Syns
  BY DEF Syns
<1>. QED BY <1>1, <1>2 DEF Sent

LEMMA InitTypeInv == Init => TypeInv
<1> SUFFICES ASSUME Init PROVE TypeInv
  OBVIOUS
<1>1. rss \subseteq Rs /\ up \subseteq rss /\ next_rs_id \in 0 .. MaxRs
  BY HealthConstants DEF Init, Rs
<1>2. ring \in Seq(Events) /\ Len(ring) <= RingSize
  BY HealthConstants DEF Init
<1>3. /\ src_port \in [Rs -> 0 .. NPorts]
      /\ by_port \in [0 .. NPorts -> Rs \cup {NoRs}]
      /\ next_port \in Ports
  BY HealthConstants DEF Init, Ports
<1>4. /\ age \in [Rs -> 0 .. Timeout] /\ wait \in [Rs -> 0 .. Interval]
      /\ since \in [Rs -> 0 .. ReportGap] /\ clock \in 0 .. ReportGap
      /\ ok \in [Rs -> 0 .. Rise] /\ fail \in [Rs -> 0 .. Fall]
  BY HealthConstants DEF Init
<1>. QED BY <1>1, <1>2, <1>3, <1>4, Zenon DEF Init, TypeInv, TypeOK, DueInTime

LEMMA SyncTypeInv ==
  ASSUME TypeInv, NEW d \in 1 .. MaxStep,
         NEW delay \in [rss \ known -> 0 .. Interval - 1], TickSync(d, delay)
  PROVE  TypeInv'
<1>a. /\ age \in [Rs -> 0 .. Timeout] /\ wait \in [Rs -> 0 .. Interval]
      /\ since \in [Rs -> 0 .. ReportGap] /\ clock \in 0 .. ReportGap
  BY Zenon DEF TypeInv, TypeOK
<1>b. /\ src_port \in [Rs -> 0 .. NPorts]
      /\ by_port \in [0 .. NPorts -> Rs \cup {NoRs}]
      /\ next_port \in Ports
  BY Zenon DEF TypeInv, TypeOK
<1>c. ok \in [Rs -> 0 .. Rise] /\ fail \in [Rs -> 0 .. Fall]
  BY Zenon DEF TypeInv, TypeOK
<1>d. /\ known \subseteq Rs /\ todo \subseteq known
      /\ healthy \subseteq known /\ in_flight \subseteq known
      /\ awaited \subseteq Good \cap in_flight /\ wire \subseteq Syns
      /\ DueInTime
  BY Zenon DEF TypeInv, TypeOK
<1>e. rss \subseteq Rs /\ up \subseteq rss
  BY Zenon DEF TypeInv, TypeOK
<1>1. d \in Nat /\ Timeout \in Nat /\ Interval \in Nat /\ ReportGap \in Nat
  BY HealthConstants
<1>2. clock' \in 0 .. ReportGap
  BY <1>a, <1>1 DEF TickSync, AtMost
<1>3. age' \in [Rs -> 0 .. Timeout]
  <2>1. \A r \in Rs : AtMost(age[r] + d, Timeout) \in 0 .. Timeout
    BY <1>a, <1>1 DEF AtMost
  <2>. QED BY <1>1, <2>1 DEF TickSync
<1>4. since' \in [Rs -> 0 .. ReportGap]
  <2>1. \A r \in Rs : AtMost(since[r] + d, ReportGap) \in 0 .. ReportGap
    BY <1>a, <1>1 DEF AtMost
  <2>. QED BY <1>2, <2>1, Zenon DEF TickSync
<1>5. wait' \in [Rs -> 0 .. Interval]
  <2>1. \A r \in Rs : Off(wait[r], d) \in 0 .. Interval
    BY <1>a, <1>1 DEF Off
  <2>2. \A r \in rss \ known : delay[r] \in 0 .. Interval
    BY <1>1
  <2>. QED BY <2>1, <2>2, Zenon DEF TickSync
<1>6. /\ src_port' \in [Rs -> 0 .. NPorts]
      /\ ok' \in [Rs -> 0 .. Rise] /\ fail' \in [Rs -> 0 .. Fall]
  BY <1>b, <1>c, HealthConstants DEF TickSync, OnlyIn
<1>7. by_port' \in [0 .. NPorts -> Rs \cup {NoRs}]
  BY <1>b, Zenon DEF TickSync, ReleasePorts
<1>8. /\ known' = rss /\ todo' = rss /\ healthy' \subseteq rss
      /\ snap_healthy' = up /\ in_flight' = in_flight \ (known \ rss)
      /\ awaited' = awaited \ (known \ rss)
      /\ UNCHANGED <<rss, up, next_rs_id, ring, next_port, wire, alive>>
  BY <1>d, <1>e, Zenon DEF TickSync, SnapVerdicts, snapvars
<1>9. TypeOK'
  BY <1>2, <1>3, <1>4, <1>5, <1>6, <1>7, <1>8, Zenon DEF TypeInv, TypeOK
<1>10. DueInTime'
  <2> SUFFICES ASSUME NEW r \in awaited' PROVE age'[r] < Timeout
    BY DEF DueInTime
  <2>1. r \in awaited /\ r \in in_flight \ (known \ rss) /\ r \in Rs
    BY <1>d, <1>8, Zenon
  <2>2. age[r] + d < Timeout
    BY <2>1, Zenon DEF TickSync
  <2>3. age'[r] = AtMost(age[r] + d, Timeout)
    BY <2>1, Zenon DEF TickSync
  <2>. QED BY <1>a, <1>1, <2>1, <2>2, <2>3 DEF AtMost
<1>. QED BY <1>9, <1>10 DEF TypeInv

LEMMA ProbeTypeInv ==
  ASSUME TypeInv, NEW r \in todo, TickProbe(r)
  PROVE  TypeInv'
<1> DEFINE timedout == r \in in_flight /\ age[r] >= Timeout
           bp == IF timedout THEN [by_port EXCEPT ![src_port[r]] = NoRs]
                 ELSE by_port
           send == (r \in in_flight => timedout) /\ wait[r] = 0
           judged == IF timedout /\ fail[r] + 1 >= Fall THEN healthy \ {r}
                     ELSE healthy
           ev == [rs |-> r, healthy |-> IF r \in judged THEN "UP" ELSE "DOWN"]
<1>a. /\ age \in [Rs -> 0 .. Timeout] /\ wait \in [Rs -> 0 .. Interval]
      /\ since \in [Rs -> 0 .. ReportGap] /\ clock \in 0 .. ReportGap
  BY Zenon DEF TypeInv, TypeOK
<1>b. /\ src_port \in [Rs -> 0 .. NPorts]
      /\ by_port \in [0 .. NPorts -> Rs \cup {NoRs}]
      /\ next_port \in Ports
  BY Zenon DEF TypeInv, TypeOK
<1>c. ok \in [Rs -> 0 .. Rise] /\ fail \in [Rs -> 0 .. Fall]
  BY Zenon DEF TypeInv, TypeOK
<1>d. /\ known \subseteq Rs /\ todo \subseteq known
      /\ healthy \subseteq known /\ in_flight \subseteq known
      /\ awaited \subseteq Good \cap in_flight /\ wire \subseteq Syns
      /\ DueInTime
  BY Zenon DEF TypeInv, TypeOK
<1>e. ring \in Seq(Events) /\ Len(ring) <= RingSize
  BY Zenon DEF TypeInv, TypeOK
<1>1. r \in Rs /\ r \in known /\ Timeout \in Nat \ {0} /\ Interval \in Nat
      /\ Fall \in Nat /\ ReportGap \in Nat /\ NPorts \in Nat \ {0}
      /\ RingSize \in Nat
  BY <1>d, HealthConstants, Zenon
<1>2. fail' \in [Rs -> 0 .. Fall] /\ ok' \in [Rs -> 0 .. Rise]
  <2>1. AtMost(fail[r] + 1, Fall) \in 0 .. Fall /\ 0 \in 0 .. Rise
    BY <1>c, <1>1, HealthConstants DEF AtMost
  <2>. QED BY <1>c, <2>1, Zenon DEF TickProbe
<1>3. bp \in [0 .. NPorts -> Rs \cup {NoRs}]
  BY <1>b, <1>1, Zenon
<1>4. healthy' = judged /\ todo' = todo \ {r} /\ judged \subseteq known
  BY <1>d, Zenon DEF TickProbe
<1>5. ev \in Events
  BY <1>1, Zenon DEF Events
<1>6. ring' \in Seq(Events) /\ Len(ring') <= RingSize
  <2>1. ring' = ring \/ (ring' = Append(ring, ev) /\ Len(ring) < RingSize)
    BY Zenon DEF TickProbe, RingFree
  <2> HIDE DEF ev
  <2>2. Append(ring, ev) \in Seq(Events) /\ Len(Append(ring, ev)) = Len(ring) + 1
    BY <1>e, <1>5, AppendType
  <2>3. Len(ring) \in Nat
    BY <1>e, LenProperties
  <2>4. CASE ring' = ring
    BY <1>e, <2>4
  <2>5. CASE ring' = Append(ring, ev) /\ Len(ring) < RingSize
    BY <1>1, <2>2, <2>3, <2>5
  <2>. QED BY <2>1, <2>4, <2>5
<1>7. since' \in [Rs -> 0 .. ReportGap]
  BY <1>a, <1>1 DEF TickProbe
<1>8. UNCHANGED <<rss, up, next_rs_id, known, snap_healthy, clock, alive>>
  BY Zenon DEF TickProbe, snapvars
<1> HIDE DEF ev
<1>9. CASE send
  <2> HIDE DEF bp
  <2>1. PICK port \in 0 .. NPorts :
          /\ in_flight' = in_flight \cup {r}
          /\ src_port' = [src_port EXCEPT ![r] = port]
          /\ by_port' = [bp EXCEPT ![port] = r]
          /\ \/ next_port' = After(port)
             \/ next_port' = next_port
          /\ age' = [age EXCEPT ![r] = 0]
          /\ wait' = [wait EXCEPT ![r] = Interval]
          /\ wire' = Sent(r, port)
          /\ awaited' = awaited \cup ({r} \cap Good)
    BY <1>9, Zenon DEF TickProbe, bp
  <2>2. /\ src_port' \in [Rs -> 0 .. NPorts]
        /\ by_port' \in [0 .. NPorts -> Rs \cup {NoRs}]
        /\ age' \in [Rs -> 0 .. Timeout] /\ wait' \in [Rs -> 0 .. Interval]
    BY <1>a, <1>b, <1>1, <1>3, <2>1
  <2>3. next_port' \in Ports
    BY <1>b, <1>1, <2>1 DEF After, Ports
  <2>4. wire' \subseteq Syns
    BY <1>d, <1>1, <2>1, SentType, Zenon
  <2>5. in_flight' \subseteq known /\ awaited' \subseteq Good \cap in_flight'
    BY <1>d, <1>1, <2>1, Zenon
  <2>6. DueInTime'
    BY <1>a, <1>d, <1>1, <2>1 DEF DueInTime
  <2>. QED BY <1>1, <1>2, <1>4, <1>6, <1>7, <1>8, <2>2, <2>3, <2>4, <2>5, <2>6, Zenon DEF TypeInv, TypeOK
<1>10. CASE ~send
  <2>1. /\ in_flight' = IF timedout THEN in_flight \ {r} ELSE in_flight
        /\ by_port' = bp
        /\ age' = IF timedout THEN [age EXCEPT ![r] = 0] ELSE age
        /\ UNCHANGED <<src_port, next_port, wait, wire, awaited>>
    BY <1>10, Zenon DEF TickProbe
  <2> HIDE DEF bp
  <2>2. timedout => r \notin awaited
    BY <1>a, <1>d, <1>1 DEF DueInTime
  <2> HIDE DEF timedout
  <2>3. age' \in [Rs -> 0 .. Timeout]
    BY <1>a, <1>1, <2>1
  <2>4. DueInTime'
    BY <1>a, <1>d, <1>1, <2>1, <2>2, Zenon DEF DueInTime
  <2>5. in_flight' \subseteq known /\ awaited' \subseteq Good \cap in_flight'
    BY <1>d, <1>1, <2>1, <2>2, Zenon
  <2>. QED BY <1>1, <1>2, <1>3, <1>4, <1>6, <1>7, <1>8, <2>1, <2>3, <2>4, <2>5, ZenonT(40) DEF TypeInv, TypeOK
<1>. QED BY <1>9, <1>10

LEMMA ResponseTypeInv ==
  ASSUME TypeInv, NEW s \in wire, NEW kind \in Answers(s), OnResponse(s, kind)
  PROVE  TypeInv'
<1> DEFINE r == by_port[s.port]
           accepted == /\ s.port \in Ports /\ r \in in_flight /\ s.rs = r
                       /\ OwnAnswer(s, kind)
<1>a. /\ age \in [Rs -> 0 .. Timeout] /\ wait \in [Rs -> 0 .. Interval]
      /\ since \in [Rs -> 0 .. ReportGap] /\ clock \in 0 .. ReportGap
  BY Zenon DEF TypeInv, TypeOK
<1>b. /\ src_port \in [Rs -> 0 .. NPorts]
      /\ by_port \in [0 .. NPorts -> Rs \cup {NoRs}]
      /\ next_port \in Ports
  BY Zenon DEF TypeInv, TypeOK
<1>c. ok \in [Rs -> 0 .. Rise] /\ fail \in [Rs -> 0 .. Fall]
  BY Zenon DEF TypeInv, TypeOK
<1>d. /\ known \subseteq Rs /\ todo \subseteq known
      /\ healthy \subseteq known /\ in_flight \subseteq known
      /\ awaited \subseteq Good \cap in_flight /\ wire \subseteq Syns
      /\ DueInTime
  BY Zenon DEF TypeInv, TypeOK
<1>1. s \in Syns /\ s.port \in 0 .. NPorts /\ s.rs \in Rs
  BY <1>d, Zenon DEF Syns
<1>2. kind \in {"SYNACK", "RST", "ACK"}
  BY DEF Answers
<1>3. /\ awaited' = IF s.isn = "cur" THEN awaited \ {s.rs} ELSE awaited
      /\ UNCHANGED <<rss, up, next_rs_id, ring, known, snap_healthy, src_port,
                     next_port, wait, since, clock, todo, wire, alive>>
  BY Zenon DEF OnResponse, snapvars
<1>4. CASE ~accepted
  <2>1. UNCHANGED <<healthy, in_flight, by_port, age, ok, fail>>
    BY <1>4, Zenon DEF OnResponse
  <2>. QED BY <1>3, <2>1, Zenon DEF TypeInv, TypeOK, DueInTime
<1>5. CASE accepted
  <2>1. r \in Rs /\ r \in known /\ Rise \in Nat /\ Fall \in Nat /\ Timeout \in Nat
    BY <1>d, <1>5, HealthConstants, Zenon
  <2>2. /\ by_port' = [by_port EXCEPT ![s.port] = NoRs]
        /\ in_flight' = in_flight \ {r}
        /\ age' = [age EXCEPT ![r] = 0]
    BY <1>5, Zenon DEF OnResponse
  <2>3. ok' \in [Rs -> 0 .. Rise] /\ fail' \in [Rs -> 0 .. Fall]
    <3>1. AtMost(ok[r] + 1, Rise) \in 0 .. Rise /\ 0 \in 0 .. Rise
      <4> HIDE DEF r
      <4>. QED BY <1>c, <2>1 DEF AtMost
    <3>2. AtMost(fail[r] + 1, Fall) \in 0 .. Fall /\ 0 \in 0 .. Fall
      <4> HIDE DEF r
      <4>. QED BY <1>c, <2>1 DEF AtMost
    <3>3. CASE kind = "SYNACK"
      <4>1. /\ ok' = [ok EXCEPT ![r] = AtMost(ok[r] + 1, Rise)]
            /\ fail' = [fail EXCEPT ![r] = 0]
        BY <1>5, <2>1, <3>3, Zenon DEF OnResponse
      <4> HIDE DEF r
      <4>. QED BY <1>c, <2>1, <3>1, <3>2, <4>1, Zenon
    <3>4. CASE kind = "RST"
      <4>1. /\ fail' = [fail EXCEPT ![r] = AtMost(fail[r] + 1, Fall)]
            /\ ok' = [ok EXCEPT ![r] = 0]
        BY <1>5, <2>1, <3>4, Zenon DEF OnResponse
      <4> HIDE DEF r
      <4>. QED BY <1>c, <2>1, <3>1, <3>2, <4>1, Zenon
    <3>5. CASE kind = "ACK"
      BY <1>c, <1>5, <3>5, Zenon DEF OnResponse
    <3>. QED BY <1>2, <3>3, <3>4, <3>5, Zenon
  <2>5. healthy' \subseteq known
    <3>1. healthy' \in {healthy, healthy \cup {r}, healthy \ {r}}
      BY <1>2, <1>5, Zenon DEF OnResponse
    <3>. QED BY <1>d, <2>1, <3>1, Zenon
  <2>6. r \notin awaited'
    <3> SUFFICES ASSUME r \in awaited PROVE s.isn = "cur"
      BY <1>3, <1>5, Zenon
    <3>1. kind = "SYNACK"
      BY <1>d, <1>5, Zenon DEF Answers
    <3>. QED BY <1>5, <3>1, Zenon DEF OwnAnswer
  <2>7. awaited' \subseteq awaited
    BY <1>3, Zenon
  <2>8. age' \in [Rs -> 0 .. Timeout] /\ by_port' \in [0 .. NPorts -> Rs \cup {NoRs}]
    <3> HIDE DEF r
    <3>. QED BY <1>a, <1>b, <1>1, <2>1, <2>2
  <2>9. DueInTime'
    <3> SUFFICES ASSUME NEW q \in awaited' PROVE age'[q] < Timeout
      <4> HIDE DEF r
      <4>. QED BY DEF DueInTime
    <3>1. q \in awaited /\ q # r /\ q \in Rs
      BY <1>d, <2>6, <2>7, Zenon
    <3> HIDE DEF r
    <3>. QED BY <1>a, <1>d, <2>2, <3>1, Zenon DEF DueInTime
  <2> HIDE DEF r
  <2>. QED BY <1>d, <1>3, <2>2, <2>3, <2>5, <2>6, <2>7, <2>8, <2>9, Zenon DEF TypeInv, TypeOK
<1>. QED BY <1>4, <1>5, Zenon

LEMMA DrainTypeInv ==
  ASSUME TypeInv, DrainHealth
  PROVE  TypeInv'
<1> USE DEF TypeInv, TypeOK
<1> DEFINE n == AtMost(Len(ring), Burst)
<1>1. Len(ring) \in Nat /\ n \in Nat /\ n <= Len(ring) /\ RingSize \in Nat
  BY HealthConstants, LenProperties DEF AtMost
<1>2. ring' = SubSeq(ring, n + 1, Len(ring))
  BY Zenon DEF DrainHealth
<1>3. ring' \in Seq(Events) /\ Len(ring') <= Len(ring)
  <2> HIDE DEF n
  <2>. QED BY <1>1, <1>2
<1>4. Len(ring') <= RingSize
  BY <1>1, <1>3, LenProperties
<1>5. up' \subseteq rss
  BY Zenon DEF DrainHealth, Applied
<1>6. UNCHANGED <<rss, next_rs_id, known, healthy, snap_healthy, in_flight,
                  src_port, by_port, next_port, timevars, countvars, todo, netvars>>
  BY Zenon DEF DrainHealth
<1>. QED BY <1>3, <1>4, <1>5, <1>6, Zenon DEF DueInTime, timevars, countvars, netvars

LEMMA ControlTypeInv ==
  ASSUME TypeInv, Control
  PROVE  TypeInv'
<1> USE DEF TypeInv, TypeOK
<1>1. rss' \subseteq Rs /\ up' \subseteq rss' /\ next_rs_id' \in 0 .. MaxRs
  <2>1. CASE /\ next_rs_id < MaxRs
             /\ rss' = rss \cup {next_rs_id}
             /\ up' = up \cup {next_rs_id}
             /\ next_rs_id' = next_rs_id + 1
    <3>1. next_rs_id \in Rs /\ next_rs_id' \in 0 .. MaxRs
      BY <2>1, HealthConstants DEF Rs
    <3>. QED BY <2>1, <3>1, Zenon
  <2>2. CASE \E r \in rss : /\ rss' = rss \ {r}
                             /\ up' = up \ {r}
                             /\ UNCHANGED next_rs_id
    BY <2>2, Zenon
  <2>. QED BY <2>1, <2>2, Zenon DEF Control
<1>2. UNCHANGED <<ring, known, healthy, snap_healthy, in_flight, src_port, by_port,
                  next_port, timevars, countvars, todo, netvars>>
  BY Zenon DEF Control
<1>. QED BY <1>1, <1>2, Zenon DEF DueInTime, timevars, countvars, netvars

LEMMA NextTypeInv == TypeInv /\ [Next]_vars => TypeInv'
<1> SUFFICES ASSUME TypeInv, [Next]_vars PROVE TypeInv'
  OBVIOUS
<1>1. CASE Tick
  BY <1>1, SyncTypeInv, ProbeTypeInv DEF Tick
<1>2. CASE Response
  BY <1>2, ResponseTypeInv DEF Response
<1>3. CASE DrainHealth
  BY <1>3, DrainTypeInv
<1>4. CASE Control
  BY <1>4, ControlTypeInv
<1>5. CASE \E r \in Rs : Die(r)
  BY <1>5, Zenon DEF Die, TypeInv, TypeOK, DueInTime, snapvars, timevars, countvars
<1>6. CASE UNCHANGED vars
  BY <1>6, Zenon DEF vars, TypeInv, TypeOK, DueInTime, snapvars, timevars, countvars, netvars
<1>. QED BY <1>1, <1>2, <1>3, <1>4, <1>5, <1>6 DEF Next

\* Every variable of the health checker keeps its type, for every number of
\* RSs, ports and ring entries: the ring is never overfull, the counters ok and
\* fail are bounded by their thresholds, and no probe is in flight for an RS
\* that the checker does not know.
THEOREM TypeCorrect == Spec => []TypeOK
<1>1. TypeInv => TypeOK
  BY DEF TypeInv
<1>. QED BY <1>1, InitTypeInv, NextTypeInv, PTL DEF Spec

-----------------------------------------------------------------------------
(* Ports and verdicts, when there is a port for every RS id.               *)

\* The ports of the probes in flight are taken from the range.
PortInv ==
  /\ PortsExact
  /\ \A r \in in_flight : src_port[r] \in Ports

\* The probe in flight to an RS that answers is not answered yet, its SYN carries
\* the port the checker waits on, and nothing says that the RS is down.
GoodInv ==
  /\ Good \cap in_flight \subseteq awaited
  /\ \A s \in wire : s.isn = "cur" /\ s.rs \in in_flight => s.port = src_port[s.rs]
  /\ \A i \in DOMAIN ring : ring[i].rs \notin Good
  /\ Good \cap known \subseteq snap_healthy
  /\ GoodStaysUp

IInv == TypeInv /\ PortInv /\ GoodInv

\* With a port for every RS, probes of all RSs but one leave a port free: a
\* function from the ports to the other RSs takes some value twice.
LEMMA PortsOutnumber ==
  ASSUME MaxRs <= NPorts, NEW r \in Rs, NEW f \in [Ports -> Rs \ {r}]
  PROVE  \E p, q \in Ports : p # q /\ f[p] = f[q]
<1>1. IsFiniteSet(Ports) /\ Cardinality(Ports) = NPorts
  BY HealthConstants, FS_Interval DEF Ports
<1>2. IsFiniteSet(Rs) /\ Cardinality(Rs) = MaxRs
  BY HealthConstants, FS_Interval DEF Rs
<1>3. IsFiniteSet(Rs \ {r}) /\ Cardinality(Rs \ {r}) = MaxRs - 1
  BY <1>2, FS_RemoveElement
<1>4. Cardinality(Rs \ {r}) < Cardinality(Ports)
  BY <1>1, <1>3, HealthConstants
<1>5. \A g \in [Ports -> Rs \ {r}] : \E p, q \in Ports : p # q /\ g[p] = g[q]
  BY <1>1, <1>3, <1>4, FS_PigeonHole, Zenon
<1>. QED BY <1>5, Zenon

LEMMA InitIInv == Init => IInv
<1> SUFFICES ASSUME Init PROVE PortInv /\ GoodInv
  BY InitTypeInv DEF IInv
<1>1. PortInv
  BY DEF Init, PortInv, PortsExact
<1>2. GoodInv
  BY DEF Init, GoodInv, GoodStaysUp
<1>. QED BY <1>1, <1>2

LEMMA SyncIInv ==
  ASSUME IInv, NEW d \in 1 .. MaxStep,
         NEW delay \in [rss \ known -> 0 .. Interval - 1], TickSync(d, delay)
  PROVE  PortInv' /\ GoodInv'
<1> DEFINE gone == known \ rss
<1>0. /\ in_flight \subseteq known /\ known \subseteq Rs /\ healthy \subseteq known /\ up \subseteq rss
      /\ src_port \in [Rs -> 0 .. NPorts]
      /\ by_port \in [0 .. NPorts -> Rs \cup {NoRs}]
      /\ PortInv /\ GoodInv
  BY Zenon DEF IInv, TypeInv, TypeOK
<1>1. /\ known' = rss /\ healthy' = (healthy \ gone) \cup ((rss \ known) \cap up)
      /\ snap_healthy' = up /\ in_flight' = in_flight \ gone
      /\ awaited' = awaited \ gone /\ UNCHANGED <<rss, up, ring, wire>>
  BY Zenon DEF TickSync, SnapVerdicts, snapvars
<1>2. \A r \in in_flight' : r \in in_flight /\ r \in Rs /\ src_port'[r] = src_port[r]
  <2>1. src_port' = [r \in Rs |-> IF r \in rss \ (rss \ known) THEN src_port[r] ELSE 0]
    BY Zenon DEF TickSync, OnlyIn
  <2>. QED BY <1>0, <1>1, <2>1, Zenon
<1>3. by_port' = [p \in 0 .. NPorts |->
        IF \E r \in gone \cap in_flight : src_port[r] = p THEN NoRs ELSE by_port[p]]
  BY Zenon DEF TickSync, ReleasePorts
<1>4. PortInv'
  <2>1. ASSUME NEW r \in in_flight'
        PROVE  by_port'[src_port'[r]] = r /\ src_port'[r] \in Ports
    <3>1. /\ r \in in_flight /\ r \notin gone /\ src_port'[r] = src_port[r]
          /\ src_port[r] \in 0 .. NPorts
      BY <1>0, <1>1, <1>2, <2>1, Zenon
    <3>2. ~ \E q \in gone \cap in_flight : src_port[q] = src_port[r]
      BY <1>0, <3>1, Zenon DEF PortInv, PortsExact
    <3>. QED BY <1>0, <1>3, <3>1, <3>2, Zenon DEF PortInv, PortsExact
  <2>2. ASSUME NEW p \in 0 .. NPorts, by_port'[p] # NoRs
        PROVE  by_port'[p] \in in_flight' /\ src_port'[by_port'[p]] = p
    <3>1. by_port'[p] = by_port[p] /\ ~ \E r \in gone \cap in_flight : src_port[r] = p
      BY <1>3, <2>2, Zenon
    <3>2. by_port[p] \in in_flight /\ src_port[by_port[p]] = p
      BY <1>0, <2>2, <3>1, Zenon DEF PortInv, PortsExact
    <3>. QED BY <1>1, <1>2, <3>1, <3>2, Zenon
  <2>. QED BY <2>1, <2>2, Zenon DEF PortInv, PortsExact
<1>5. GoodInv'
  <2>1. (Good \cap in_flight \subseteq awaited)'
    BY <1>0, <1>1, Zenon DEF GoodInv
  <2>2. (\A s \in wire : s.isn = "cur" /\ s.rs \in in_flight => s.port = src_port[s.rs])'
    BY <1>0, <1>1, <1>2, Zenon DEF GoodInv
  <2>3. (Good \cap known \subseteq snap_healthy /\ GoodStaysUp)'
    BY <1>0, <1>1, Zenon DEF GoodInv, GoodStaysUp
  <2>. QED BY <1>0, <1>1, <2>1, <2>2, <2>3, Zenon DEF GoodInv
<1>. QED BY <1>4, <1>5

LEMMA ProbeIInv ==
  ASSUME MaxRs <= NPorts, IInv, NEW r \in todo, TickProbe(r)
  PROVE  PortInv' /\ GoodInv'
<1> DEFINE timedout == r \in in_flight /\ age[r] >= Timeout
           bp == IF timedout THEN [by_port EXCEPT ![src_port[r]] = NoRs]
                 ELSE by_port
           send == (r \in in_flight => timedout) /\ wait[r] = 0
           S == IF timedout THEN in_flight \ {r} ELSE in_flight
           judged == IF timedout /\ fail[r] + 1 >= Fall THEN healthy \ {r}
                     ELSE healthy
<1>0. /\ in_flight \subseteq Rs /\ wire \subseteq Syns /\ ring \in Seq(Events)
      /\ src_port \in [Rs -> 0 .. NPorts]
      /\ by_port \in [0 .. NPorts -> Rs \cup {NoRs}]
      /\ age \in [Rs -> 0 .. Timeout]
  BY Zenon DEF IInv, TypeInv, TypeOK
<1>a. DueInTime /\ PortInv /\ GoodInv
  BY DEF IInv, TypeInv
<1>1. r \in Rs /\ r \in known
  BY Zenon DEF IInv, TypeInv, TypeOK
<1>2. timedout => r \notin Good
  <2>1. r \in in_flight /\ r \in Good => age[r] < Timeout /\ age[r] \in Nat
    BY <1>0, <1>a, <1>1 DEF GoodInv, DueInTime
  <2>. QED BY <2>1, HealthConstants
<1>4. bp \in [0 .. NPorts -> Rs \cup {NoRs}]
  BY <1>0, <1>1
<1>3. /\ \A q \in S : q \in Rs /\ bp[src_port[q]] = q /\ src_port[q] \in Ports
      /\ \A p \in 0 .. NPorts : bp[p] # NoRs => bp[p] \in S /\ src_port[bp[p]] = p
  <2>1. /\ \A q \in in_flight : by_port[src_port[q]] = q /\ src_port[q] \in Ports
        /\ \A p \in 0 .. NPorts : by_port[p] # NoRs =>
             by_port[p] \in in_flight /\ src_port[by_port[p]] = p
    BY <1>a, Zenon DEF PortInv, PortsExact
  <2>2. CASE ~timedout
    BY <1>0, <2>1, <2>2, Zenon
  <2>3. CASE timedout
    <3>1. bp = [by_port EXCEPT ![src_port[r]] = NoRs] /\ S = in_flight \ {r}
          /\ r \in in_flight
      BY <2>3, Zenon
    <3> HIDE DEF bp, S
    <3>2. ASSUME NEW q \in S
          PROVE  q \in Rs /\ bp[src_port[q]] = q /\ src_port[q] \in Ports
      <4>1. q \in in_flight /\ q # r /\ q \in Rs
        BY <1>0, <3>1, Zenon
      <4>2. src_port[q] # src_port[r]
        BY <2>1, <3>1, <4>1, Zenon
      <4>. QED BY <1>0, <2>1, <3>1, <4>1, <4>2, Zenon
    <3>3. ASSUME NEW p \in 0 .. NPorts, bp[p] # NoRs
          PROVE  bp[p] \in S /\ src_port[bp[p]] = p
      <4>1. p # src_port[r] /\ bp[p] = by_port[p]
        BY <1>0, <3>1, <3>3, Zenon
      <4>2. by_port[p] \in in_flight /\ src_port[by_port[p]] = p
        BY <2>1, <3>3, <4>1, Zenon
      <4>. QED BY <3>1, <4>1, <4>2
    <3>. QED BY <3>2, <3>3, Zenon
  <2>. QED BY <2>2, <2>3, Zenon
<1>5. UNCHANGED <<rss, up, known, snap_healthy>> /\ healthy' = judged
  BY Zenon DEF TickProbe, snapvars
<1>6. (Good \cap known \subseteq snap_healthy /\ GoodStaysUp)'
  BY <1>a, <1>2, <1>5, Zenon DEF GoodInv, GoodStaysUp
<1>7. (\A i \in DOMAIN ring : ring[i].rs \notin Good)'
  <2> DEFINE ev == [rs |-> r, healthy |-> IF r \in judged THEN "UP" ELSE "DOWN"]
  <2>1. r \in Good => r \in judged /\ r \in snap_healthy
    BY <1>a, <1>1, <1>2, Zenon DEF GoodInv, GoodStaysUp
  <2>2. ring' = ring \/ (ring' = Append(ring, ev) /\ r \notin Good)
    BY <2>1, Zenon DEF TickProbe
  <2>3. ev.rs = r
    BY Zenon
  <2> HIDE DEF ev
  <2>4. CASE ring' = ring
    BY <1>a, <2>4, Zenon DEF GoodInv
  <2>5. CASE ring' = Append(ring, ev) /\ r \notin Good
    <3>1. ASSUME NEW i \in DOMAIN ring' PROVE ring'[i].rs \notin Good
      <4>1. (i \in DOMAIN ring /\ ring'[i] = ring[i]) \/ ring'[i] = ev
        BY <1>0, <2>5, AppendProperties
      <4>. QED BY <1>a, <2>3, <2>5, <4>1, Zenon DEF GoodInv
    <3>. QED BY <3>1
  <2>. QED BY <2>2, <2>4, <2>5
<1> HIDE DEF judged
<1>8. CASE send
  <2>1. r \notin S /\ S \subseteq Rs /\ in_flight \cup {r} = S \cup {r}
    BY <1>0, <1>1, <1>8, Zenon
  <2>2. \E p \in Ports : bp[p] = NoRs
    <3> DEFINE f == [p \in Ports |-> bp[p]]
    <3> HIDE DEF S, bp, send, timedout
    <3> SUFFICES ASSUME \A p \in Ports : bp[p] # NoRs PROVE FALSE
      OBVIOUS
    <3>1. \A p \in Ports : bp[p] \in Rs \ {r} /\ src_port[bp[p]] = p
      BY <1>3, <2>1 DEF Ports
    <3>2. f \in [Ports -> Rs \ {r}]
      BY <3>1, Zenon
    <3>3. PICK p \in Ports, q \in Ports : p # q /\ f[p] = f[q]
      <4> HIDE DEF f
      <4>. QED BY <1>1, <3>2, PortsOutnumber, Zenon
    <3>. QED BY <3>1, <3>3, Zenon
  <2>3. PICK port \in 0 .. NPorts :
          /\ PicksPort(bp, src_port[r], port)
          /\ in_flight' = in_flight \cup {r}
          /\ src_port' = [src_port EXCEPT ![r] = port]
          /\ by_port' = [bp EXCEPT ![port] = r]
          /\ wire' = Sent(r, port)
          /\ awaited' = awaited \cup ({r} \cap Good)
    BY <1>8, Zenon DEF TickProbe
  <2> HIDE DEF S, bp, send, timedout
  <2>4. port \in Ports /\ bp[port] = NoRs
    <3>1. {p \in Ports : bp[p] = NoRs} # {}
      BY <2>2
    <3>2. port \in {p \in Ports : bp[p] = NoRs}
      BY <2>3, <3>1, Zenon DEF PicksPort
    <3>. QED BY <3>2
  <2>5. \A q \in S : q # r /\ src_port[q] # port
    <3> SUFFICES ASSUME NEW q \in S PROVE q # r /\ src_port[q] # port
      OBVIOUS
    <3>1. q # NoRs
      BY <2>1, HealthConstants DEF NoRs, Rs
    <3>. QED BY <1>3, <2>1, <2>4, <3>1, Zenon
  <2>6. PortInv'
    <3>1. ASSUME NEW q \in in_flight'
          PROVE  by_port'[src_port'[q]] = q /\ src_port'[q] \in Ports
      <4>1. CASE q = r
        BY <1>0, <1>1, <1>4, <2>3, <2>4, <4>1, Zenon
      <4>2. CASE q # r
        <5>1. q \in S
          BY <2>1, <2>3, <4>2, Zenon
        <5>. QED BY <1>0, <1>3, <1>4, <2>3, <2>5, <4>2, <5>1, Zenon
      <4>. QED BY <4>1, <4>2, Zenon
    <3>2. ASSUME NEW p \in 0 .. NPorts, by_port'[p] # NoRs
          PROVE  by_port'[p] \in in_flight' /\ src_port'[by_port'[p]] = p
      <4>1. CASE p = port
        BY <1>0, <1>1, <1>4, <2>3, <4>1, Zenon
      <4>2. CASE p # port
        <5>1. by_port'[p] = bp[p] /\ bp[p] \in S /\ src_port[bp[p]] = p
          BY <1>3, <1>4, <2>3, <3>2, <4>2, Zenon
        <5>. QED BY <1>0, <1>3, <2>1, <2>3, <2>5, <5>1
      <4>. QED BY <4>1, <4>2, Zenon
    <3>. QED BY <3>1, <3>2, Zenon DEF PortInv, PortsExact
  <2>7. (Good \cap in_flight \subseteq awaited)'
    BY <1>a, <2>3, Zenon DEF GoodInv
  <2>8. ASSUME NEW s \in wire', s.isn = "cur", s.rs \in in_flight'
        PROVE  s.port = src_port'[s.rs]
    <3>1. CASE s = [rs |-> r, port |-> port, isn |-> "cur",
                    to |-> IF r \in alive THEN "alive" ELSE "dead"]
      BY <1>0, <1>1, <2>3, <3>1, Zenon
    <3>2. CASE \E t \in wire : s = [t EXCEPT !.isn = IF t.rs = r THEN "old" ELSE @]
      <4>1. PICK t \in wire : s = [t EXCEPT !.isn = IF t.rs = r THEN "old" ELSE @]
        BY <3>2
      <4>2. t \in Syns
        BY <1>0, Zenon
      <4>3. s.rs = t.rs /\ s.port = t.port /\ t.rs # r /\ t.isn = "cur" /\ t.rs \in Rs
        BY <2>8, <4>1, <4>2 DEF Syns
      <4>. QED BY <1>0, <1>a, <2>3, <2>8, <4>3, Zenon DEF GoodInv
    <3>. QED BY <2>3, <3>1, <3>2, Zenon DEF Sent
  <2>. QED BY <1>6, <1>7, <2>6, <2>7, <2>8, Zenon DEF GoodInv
<1>9. CASE ~send
  <2>1. in_flight' = S /\ by_port' = bp /\ UNCHANGED <<src_port, wire, awaited>>
    BY <1>9, Zenon DEF TickProbe
  <2>2. S \subseteq in_flight
    OBVIOUS
  <2> HIDE DEF S, bp, send, timedout
  <2>3. PortInv'
    BY <1>3, <2>1, Zenon DEF PortInv, PortsExact
  <2>. QED BY <1>a, <1>6, <1>7, <2>1, <2>2, <2>3, Zenon DEF GoodInv
<1>. QED BY <1>8, <1>9

LEMMA ResponseIInv ==
  ASSUME IInv, NEW s \in wire, NEW kind \in Answers(s), OnResponse(s, kind)
  PROVE  PortInv' /\ GoodInv'
<1> DEFINE pr == by_port[s.port]
           accepted == /\ s.port \in Ports /\ pr \in in_flight /\ s.rs = pr
                       /\ OwnAnswer(s, kind)
<1>1. /\ s \in Syns /\ in_flight \subseteq Rs
      /\ src_port \in [Rs -> 0 .. NPorts]
      /\ by_port \in [0 .. NPorts -> Rs \cup {NoRs}]
  BY Zenon DEF IInv, TypeInv, TypeOK
<1>2. s.port \in 0 .. NPorts /\ s.rs \in Rs
  BY <1>1 DEF Syns
<1>3. s.rs \in Good => kind = "SYNACK"
  BY DEF Answers
<1>4. /\ awaited' = IF s.isn = "cur" THEN awaited \ {s.rs} ELSE awaited
      /\ UNCHANGED <<rss, up, ring, known, snap_healthy, src_port, wire>>
  BY Zenon DEF OnResponse, snapvars
<1>5. /\ Good \cap in_flight \subseteq awaited
      /\ \A t \in wire : t.isn = "cur" /\ t.rs \in in_flight => t.port = src_port[t.rs]
      /\ \A i \in DOMAIN ring : ring[i].rs \notin Good
      /\ Good \cap known \subseteq snap_healthy
      /\ Good \cap known \subseteq healthy /\ Good \cap rss \subseteq up
  BY Zenon DEF IInv, GoodInv, GoodStaysUp
<1>6. /\ \A q \in in_flight : by_port[src_port[q]] = q /\ src_port[q] \in Ports
      /\ \A p \in 0 .. NPorts : by_port[p] # NoRs =>
           by_port[p] \in in_flight /\ src_port[by_port[p]] = p
  BY Zenon DEF IInv, PortInv, PortsExact
\* The answer of a probe to a good RS that is in flight is always taken.
<1>7. s.isn = "cur" /\ s.rs \in Good /\ s.rs \in in_flight => accepted
  BY <1>3, <1>5, <1>6, Zenon DEF OwnAnswer
<1>8. CASE ~accepted
  <2>1. UNCHANGED <<healthy, in_flight, by_port>>
    BY <1>8, Zenon DEF OnResponse
  <2>2. PortInv'
    BY <1>4, <1>6, <2>1, Zenon DEF PortInv, PortsExact
  <2>3. (Good \cap in_flight \subseteq awaited)'
    <3> HIDE DEF accepted
    <3>. QED BY <1>4, <1>5, <1>7, <1>8, <2>1, Zenon
  <2>. QED BY <1>4, <1>5, <2>1, <2>2, <2>3, Zenon DEF GoodInv, GoodStaysUp
<1>9. CASE accepted
  <2>1. /\ by_port' = [by_port EXCEPT ![s.port] = NoRs]
        /\ in_flight' = in_flight \ {pr}
    BY <1>9, Zenon DEF OnResponse
  <2>2. pr \in Rs /\ pr \in in_flight /\ s.rs = pr
    BY <1>1, <1>9, Zenon
  <2>3. pr # NoRs
    BY <2>2, HealthConstants, SMTT(20) DEF NoRs, Rs
  <2>4. src_port[pr] = s.port
    BY <1>2, <1>6, <2>3, Zenon
  <2>5. Good \cap known \subseteq healthy'
    <3>1. pr \in Good => healthy' \in {healthy, healthy \cup {pr}}
      BY <1>3, <1>9, Zenon DEF OnResponse
    <3>2. healthy' \in {healthy, healthy \cup {pr}, healthy \ {pr}}
      BY <1>9, Zenon DEF OnResponse
    <3> HIDE DEF pr
    <3>. QED BY <1>5, <3>1, <3>2, Zenon
  <2> HIDE DEF pr, accepted
  <2>6. PortInv'
    <3>1. ASSUME NEW q \in in_flight'
          PROVE  by_port'[src_port'[q]] = q /\ src_port'[q] \in Ports
      <4>1. q \in in_flight /\ q # pr /\ q \in Rs /\ src_port'[q] = src_port[q]
        BY <1>1, <1>4, <2>1, Zenon
      <4>2. src_port[q] # s.port
        BY <1>6, <2>2, <2>4, <4>1
      <4>. QED BY <1>1, <1>6, <2>1, <4>1, <4>2, Zenon
    <3>2. ASSUME NEW p \in 0 .. NPorts, by_port'[p] # NoRs
          PROVE  by_port'[p] \in in_flight' /\ src_port'[by_port'[p]] = p
      <4>1. p # s.port /\ by_port'[p] = by_port[p]
        BY <1>1, <1>2, <2>1, <3>2, Zenon
      <4>2. by_port[p] \in in_flight /\ src_port[by_port[p]] = p
        BY <1>6, <3>2, <4>1, Zenon
      <4>. QED BY <1>4, <2>1, <2>4, <4>1, <4>2
    <3>. QED BY <3>1, <3>2, Zenon DEF PortInv, PortsExact
  <2>7. (Good \cap in_flight \subseteq awaited)'
    BY <1>4, <1>5, <2>1, <2>2, Zenon
  <2>8. (\A t \in wire : t.isn = "cur" /\ t.rs \in in_flight => t.port = src_port[t.rs])'
    BY <1>4, <1>5, <2>1, Zenon
  <2>. QED BY <1>4, <1>5, <2>5, <2>6, <2>7, <2>8, Zenon DEF GoodInv, GoodStaysUp
<1>. QED BY <1>8, <1>9, Zenon

LEMMA DrainIInv ==
  ASSUME IInv, DrainHealth
  PROVE  PortInv' /\ GoodInv'
<1> DEFINE n == AtMost(Len(ring), Burst)
           evs == SubSeq(ring, 1, n)
<1>1. ring \in Seq(Events) /\ PortInv /\ GoodInv
  BY DEF IInv, TypeInv, TypeOK
<1>2. Len(ring) \in Nat /\ n \in Nat /\ n <= Len(ring)
  BY <1>1, HealthConstants, LenProperties DEF AtMost
<1>3. ring' = SubSeq(ring, n + 1, Len(ring)) /\ up' = Applied(evs)
  BY DEF DrainHealth
<1>4. UNCHANGED <<rss, known, healthy, snap_healthy, in_flight, src_port, by_port,
                  wire, awaited>>
  BY DEF DrainHealth, netvars
<1> HIDE DEF n
<1>5. \A i \in 1 .. Len(ring) : ring[i].rs \notin Good
  BY <1>1 DEF GoodInv
<1>6. ASSUME NEW i \in DOMAIN evs PROVE evs[i].rs \notin Good
  <2>1. i \in 1 .. n /\ evs[i] = ring[i]
    BY <1>1, <1>2
  <2>2. i \in 1 .. Len(ring)
    BY <1>2, <2>1
  <2> HIDE DEF evs
  <2>. QED BY <1>5, <2>1, <2>2
<1>7. ASSUME NEW i \in DOMAIN ring' PROVE ring'[i].rs \notin Good
  <2>1. i \in 1 .. Len(ring) - n /\ ring'[i] = ring[n + i]
    BY <1>1, <1>2, <1>3
  <2>2. n + i \in 1 .. Len(ring)
    BY <1>2, <2>1
  <2>. QED BY <1>5, <2>1, <2>2, Zenon
<1> HIDE DEF evs
<1>8. ASSUME NEW r \in Good \cap rss PROVE r \in up'
  <2>1. r \in up
    BY <1>1 DEF GoodInv, GoodStaysUp
  <2>2. {i \in DOMAIN evs : evs[i].rs = r} = {}
    BY <1>6
  <2>. QED BY <1>3, <2>1, <2>2, Zenon DEF Applied
<1>9. PortInv'
  BY <1>1, <1>4, Zenon DEF PortInv, PortsExact
<1>. QED BY <1>1, <1>4, <1>7, <1>8, <1>9, Zenon DEF GoodInv, GoodStaysUp

LEMMA NextIInv ==
  ASSUME MaxRs <= NPorts
  PROVE  IInv /\ [Next]_vars => IInv'
<1> SUFFICES ASSUME IInv, [Next]_vars PROVE PortInv' /\ GoodInv'
  BY NextTypeInv DEF IInv
<1>1. CASE Tick
  BY <1>1, SyncIInv, ProbeIInv DEF Tick
<1>2. CASE Response
  BY <1>2, ResponseIInv DEF Response
<1>3. CASE DrainHealth
  BY <1>3, DrainIInv
<1>4. CASE Control
  BY <1>4, Zenon DEF Control, IInv, PortInv, PortsExact, GoodInv, GoodStaysUp, netvars
<1>5. CASE \E r \in Rs : Die(r)
  BY <1>5, Zenon DEF Die, IInv, PortInv, PortsExact, GoodInv, GoodStaysUp, snapvars
<1>6. CASE UNCHANGED vars
  BY <1>6, Zenon DEF vars, IInv, PortInv, PortsExact, GoodInv, GoodStaysUp, snapvars, netvars
<1>. QED BY <1>1, <1>2, <1>3, <1>4, <1>5, <1>6 DEF Next

\* With a port for every RS, the source ports in use are exactly those of the
\* probes in flight, one each, across timeouts, late answers and deletions.
THEOREM PortsAreExact ==
  ASSUME MaxRs <= NPorts
  PROVE  Spec => []PortsExact
<1>1. IInv => PortsExact
  BY DEF IInv, PortInv
<1>2. IInv /\ [Next]_vars => IInv'
  BY NextIInv
<1>. QED BY <1>1, <1>2, InitIInv, PTL DEF Spec

\* With a port for every RS, an RS that answers every probe in time is never
\* judged or published as down: no other probe takes its port, so no answer of
\* its is lost or credited elsewhere.
THEOREM GoodStayUp ==
  ASSUME MaxRs <= NPorts
  PROVE  Spec => []GoodStaysUp
<1>1. IInv => GoodStaysUp
  BY DEF IInv, GoodInv
<1>2. IInv /\ [Next]_vars => IInv'
  BY NextIInv
<1>. QED BY <1>1, <1>2, InitIInv, PTL DEF Spec

=============================================================================
