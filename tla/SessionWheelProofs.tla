------------------------- MODULE SessionWheelProofs -------------------------
(***************************************************************************)
(* Proofs about the timing wheel of SessionTable: as long as no timeout    *)
(* reaches a whole turn ahead, every live session is on the list that its  *)
(* fields name and expire removes it in time.  And about the size of the   *)
(* hash: it never refuses a key.                                           *)
(***************************************************************************)
EXTENDS SessionTableProofs, FiniteSetTheorems

LEMMA LeastOf ==
  ASSUME NEW S \in SUBSET Nat, S # {}
  PROVE  \E n \in S : \A m \in S : n <= m
<1> DEFINE R == OpToRel(<, Nat)
<1>1. \E n \in S : \A m \in S : ~(<<m, n>> \in R)
  BY NatLessThanWellFounded, WFMin, Zenon
<1>2. R = {p \in Nat \X Nat : p[1] < p[2]}
  BY DEF OpToRel
<1> HIDE DEF R
<1>3. ASSUME NEW m \in Nat, NEW n \in Nat, m < n PROVE <<m, n>> \in R
  BY <1>2, <1>3
<1>4. PICK n \in S : \A m \in S : ~(<<m, n>> \in R)
  BY <1>1
<1>5. \A m \in S : ~(m < n)
  BY <1>3, <1>4, Zenon
<1>6. \A m \in S : n <= m
  BY <1>5
<1>. QED BY <1>6

\* A set of sessions that holds the predecessors of its members holds one
\* without a predecessor.
LEMMA FirstOf ==
  ASSUME NEW w \in WheelType, NEW h, RankOK(w, h), NEW S \in SUBSET Idx, S # {},
         \A i \in S : w.prev[i] \in Idx /\ i # h => w.prev[i] \in S
  PROVE  \E i \in S : i = h \/ w.prev[i] \notin Idx
<1>1. PICK r \in [Idx -> Nat], b \in Nat : Ranks(w, h, r, b)
  BY DEF RankOK
<1> DEFINE T == {b - r[i] : i \in S}
<1>2. \A i \in S : b - r[i] \in Nat
  BY <1>1 DEF Ranks
<1>3. PICK n \in T : \A m \in T : n <= m
  <2>1. T \in SUBSET Nat /\ T # {}
    BY <1>2, Zenon
  <2> HIDE DEF T
  <2>. QED BY <2>1, LeastOf, Zenon
<1>4. PICK i \in S : n = b - r[i]
  BY <1>3, Zenon
<1>5. ASSUME w.prev[i] \in Idx, i # h PROVE FALSE
  <2>1. w.prev[i] \in S /\ r[i] < r[w.prev[i]]
    BY <1>1, <1>4, <1>5, Zenon DEF Ranks
  <2>2. b - r[w.prev[i]] \in T
    BY <2>1, Zenon
  <2>3. b - r[i] <= b - r[w.prev[i]]
    BY <1>3, <1>4, <2>2, Zenon
  <2>4. r[i] \in Nat /\ r[w.prev[i]] \in Nat
    BY <1>1, <1>4, <2>1, Zenon
  <2>. QED BY <1>1, <2>1, <2>3, <2>4
<1>. QED BY <1>4, <1>5, Zenon

\* Ticks less than a turn apart are in different slots.
LEMMA SlotsDiffer ==
  ASSUME NEW a \in Nat, NEW b \in Nat, a < b, b < a + WheelSlots
  PROVE  SlotOf(a) # SlotOf(b)
<1> DEFINE x == a \div WheelSlots
           y == b \div WheelSlots
           m == a % WheelSlots
<1> SUFFICES ASSUME m = b % WheelSlots PROVE FALSE
  BY DEF SlotOf
<1>0. WheelSlots \in Nat \ {0}
  BY SessionConstants
<1>1. /\ x \in Int /\ y \in Int /\ m \in Int
      /\ a = WheelSlots * x + m /\ b = WheelSlots * y + m
  BY <1>0
<1> HIDE DEF x, y, m
<1>2. b - a = WheelSlots * (y - x)
  BY <1>0, <1>1
<1>3. y - x >= 1 \/ y - x <= -1 \/ y - x = 0
  BY <1>1
<1>4. ASSUME NEW z \in Int
      PROVE  (z >= 1 => WheelSlots * z >= WheelSlots) /\ (z <= 0 => WheelSlots * z <= 0)
  BY <1>0
<1>5. y - x \in Int
  BY <1>1
<1>. QED BY <1>0, <1>2, <1>3, <1>4, <1>5

(***************************************************************************)
(* The ticks.  Sessions in a slot are less than a turn ahead of cur_tick,  *)
(* so a slot holds one tick; the pending ones are those of the tick just   *)
(* taken.                                                                  *)
(***************************************************************************)
Clock ==
  /\ now <= cur_tick + MaxLag
  /\ cur_tick <= now + 1
  /\ pc = "take" => /\ cur_tick <= now
                    /\ wheel.slots[SlotOf(cur_tick)] = kNil
  /\ head # kNil => SlotOf(wheel.slot_tick[head]) = SlotOf(cur_tick)

TickOf(i, cur, taking) ==
  IF i \in wheel.in_pending
  THEN wheel.slot_tick[i] = (IF taking THEN cur ELSE cur - 1)
  ELSE cur <= wheel.slot_tick[i] /\ wheel.slot_tick[i] <= expire_tick[i]

Ticks ==
  /\ wheel.in_pending \subseteq Live
  /\ \A i \in Live : /\ expire_tick[i] <= cur_tick + WheelSlots - 2
                     /\ TickOf(i, cur_tick, pc = "take")

WInv == HeadsOK(wheel, head) /\ RankOK(wheel, head) /\ Clock /\ Ticks

LEMMA FreeUnlinked ==
  ASSUME wheel \in WheelType, ListsOK(wheel, kNil), NEW i \in Idx, i \notin Live
  PROVE  Unlinked(wheel, i)
<1>1. wheel.prev[i] = kFree
  BY DEF Live
<1>2. wheel.next[i] = kNil
  BY <1>1, Zenon DEF ListsOK, Follows
<1>3. \A k \in Idx : wheel.next[k] # i
  BY <1>1, Sentinels DEF ListsOK, Follows
<1>4. \A k \in Idx : wheel.prev[k] # i
  BY <1>2, Sentinels, Zenon DEF ListsOK
<1>5. wheel.pending # i /\ \A x \in Slots : wheel.slots[x] # i
  BY <1>1, Sentinels DEF ListsOK
<1>. QED BY <1>1, <1>2, <1>3, <1>4, <1>5, Zenon DEF Unlinked

LEMMA LinkTick ==
  ASSUME NEW w \in WheelType, NEW i \in Idx, NEW t \in Nat, cur_tick \in Nat,
         cur_tick <= t
  PROVE  /\ wheel_link(w, i, t).slot_tick = [w.slot_tick EXCEPT ![i] = t]
         /\ wheel_link(w, i, t).in_pending = w.in_pending \ {i}
<1> DEFINE u == IF t < cur_tick THEN cur_tick ELSE t
           new == wheel_link(w, i, t)
<1>1. /\ u \in Nat
      /\ SlotOf(u) \in Slots
      /\ new.slots = [w.slots EXCEPT ![SlotOf(u)] = i]
      /\ new.pending = w.pending
      /\ new.prev = [k \in Idx |-> IF k = i THEN kNil
                                   ELSE IF k = w.slots[SlotOf(u)] THEN i
                                   ELSE w.prev[k]]
      /\ new.next = [w.next EXCEPT ![i] = w.slots[SlotOf(u)]]
      /\ new.slot_tick = [w.slot_tick EXCEPT ![i] = u]
      /\ new.in_pending = w.in_pending \ {i}
      /\ new \in WheelType
  BY LinkFields, Zenon
<1>2. u = t
  OBVIOUS
<1> HIDE DEF u, new
<1>. QED BY <1>1, <1>2, Zenon DEF new

LEMMA InitWInv == Init => WInv
<1> SUFFICES ASSUME Init PROVE WInv
  OBVIOUS
<1>1. Live = {} /\ \A i \in Idx : wheel.prev[i] = kFree
  BY Zenon DEF Init, Live
<1>2. HeadsOK(wheel, head)
  BY <1>1, SessionConstants DEF HeadsOK
<1>3. RankOK(wheel, head)
  <2> DEFINE r == [i \in Idx |-> 0]
  <2>1. r \in [Idx -> Nat] /\ Ranks(wheel, head, r, 0)
    BY <1>1, SessionConstants DEF Ranks
  <2>. QED BY <2>1 DEF RankOK
<1>4. Clock
  <2>1. now = 1 /\ cur_tick = 1 /\ pc = "idle" /\ head = kNil
    BY Zenon DEF Init
  <2>. QED BY <2>1, SessionConstants DEF Clock
<1>5. Ticks
  <2>1. wheel.in_pending = {}
    BY Zenon DEF Init
  <2>. QED BY <1>1, <2>1 DEF Ticks
<1>. QED BY <1>2, <1>3, <1>4, <1>5 DEF WInv

\* A session on the pending list keeps the list's head from being empty.
LEMMA PendingFound ==
  ASSUME IInv, WInv, wheel.in_pending # {}
  PROVE  wheel.pending # kNil
<1> DEFINE S == wheel.in_pending
<1>0. wheel \in WheelType /\ S \in SUBSET Idx
  BY Zenon DEF IInv, TypeOK, WheelType
<1>1. \A i \in S : wheel.prev[i] \in Idx /\ i # head => wheel.prev[i] \in S
  BY <1>0, Sentinels DEF IInv, ListsOK, Follows
<1>2. PICK i \in S : i = head \/ wheel.prev[i] \notin Idx
  BY <1>0, <1>1, FirstOf, Zenon DEF WInv
<1>3. i # head
  BY <1>0, <1>2, Sentinels, Zenon DEF IInv, ChainOK
<1>4. wheel.prev[i] = kNil
  BY <1>0, <1>2, <1>3, Zenon DEF WInv, Ticks, Live, WheelType
<1>5. HeadOf(wheel, i) = i
  BY <1>0, <1>3, <1>4, Zenon DEF WInv, HeadsOK
<1>. QED BY <1>0, <1>5, Sentinels DEF HeadOf

\* A live session keeps its slot from being empty.
LEMMA SlotFound ==
  ASSUME IInv, WInv, head = kNil, NEW i \in Live, i \notin wheel.in_pending
  PROVE  wheel.slots[SlotOf(wheel.slot_tick[i])] # kNil
<1> DEFINE s == SlotOf(wheel.slot_tick[i])
           S == {k \in Live : k \notin wheel.in_pending /\ SlotOf(wheel.slot_tick[k]) = s}
<1>0. wheel \in WheelType /\ S \in SUBSET Idx /\ S # {}
  BY Zenon DEF IInv, TypeOK, Live
<1> HIDE DEF s
<1>1. ASSUME NEW k \in S, wheel.prev[k] \in Idx PROVE wheel.prev[k] \in S
  <2>1. wheel.next[wheel.prev[k]] = k /\ k # kNil
    BY <1>0, <1>1, Sentinels, Zenon DEF IInv, ListsOK
  <2>2. Follows(wheel, wheel.prev[k], k)
    BY <1>1, <2>1, Zenon DEF IInv, ListsOK
  <2>. QED BY <1>1, <2>2, Zenon DEF Follows, Live
<1>2. PICK k \in S : k = head \/ wheel.prev[k] \notin Idx
  <2> HIDE DEF S
  <2>. QED BY <1>0, <1>1, FirstOf DEF WInv
<1>3. k \in Idx /\ k # kNil
  BY <1>0, Sentinels, Zenon
<1>4. wheel.prev[k] = kNil
  BY <1>0, <1>2, <1>3, Zenon DEF Live, WheelType
<1>5. HeadOf(wheel, k) = k
  BY <1>3, <1>4, Zenon DEF WInv, HeadsOK
<1>. QED BY <1>3, <1>5, Zenon DEF HeadOf, s

LEMMA TickType ==
  ASSUME IInv
  PROVE  /\ cur_tick \in Nat /\ now \in Nat /\ WheelSlots \in Nat \ {0} /\ MaxLag \in Nat
         /\ wheel \in WheelType
         /\ \A i \in Idx : wheel.slot_tick[i] \in Nat /\ expire_tick[i] \in Nat
BY SessionConstants, Zenon DEF IInv, TypeOK, WheelType

LEMMA DeadlineFits ==
  ASSUME IInv, WInv, WheelFits, NEW t \in Timeouts
  PROVE  /\ Deadline(t) \in Nat
         /\ cur_tick <= Deadline(t)
         /\ Deadline(t) <= cur_tick + WheelSlots - 2
<1>1. t \in Nat /\ Deadline(t) = now + (IF t = 0 THEN 1 ELSE t) + 1
  BY SessionConstants DEF Deadline
<1>2. MaxLag + (IF t = 0 THEN 1 ELSE t) + 3 <= WheelSlots
  BY DEF WheelFits
<1>3. now <= cur_tick + MaxLag /\ cur_tick <= now + 1
  BY Zenon DEF WInv, Clock
<1>. QED BY <1>1, <1>2, <1>3, TickType

LEMMA CreateWheel ==
  ASSUME IInv, WInv, WheelFits, NEW c \in Clients, NEW s \in Servers \cup {NoKey},
         NEW t \in Timeouts, Create(c, s, t)
  PROVE  WInv'
<1> DEFINE i == free_stack[Len(free_stack)]
           d == Deadline(t)
<1>1. /\ wheel' = wheel_link(wheel, i, d)
      /\ expire_tick' = [expire_tick EXCEPT ![i] = d]
      /\ cur_tick' = cur_tick /\ now' = now /\ pc' = pc /\ head' = head
      /\ pc = "idle" /\ head = kNil
  BY Zenon DEF Create, loopVars, IInv
<1>2. i \in Idx /\ i \notin Live
  <2>1. Len(free_stack) \in 1 .. Len(free_stack) /\ free_stack \in Seq(Idx)
    BY DEF Create, IInv, TypeOK
  <2>. QED BY <2>1 DEF IInv, FreeExact
<1>3. /\ d \in Nat /\ cur_tick <= d /\ d <= cur_tick + WheelSlots - 2
      /\ cur_tick \in Nat /\ wheel \in WheelType /\ ListsOK(wheel, kNil)
  BY <1>1, DeadlineFits, TickType, Zenon DEF IInv
<1> HIDE DEF i, d
<1>4. Unlinked(wheel, i)
  BY <1>2, <1>3, FreeUnlinked, Zenon
<1>5. HeadsOK(wheel, i) /\ RankOK(wheel, kNil)
  BY <1>1, Sentinels, Zenon DEF WInv, HeadsOK
<1>6. HeadsOK(wheel', kNil) /\ RankOK(wheel', kNil)
  BY <1>1, <1>2, <1>3, <1>4, <1>5, LinkHeads, Zenon
<1>7. LiveIn(wheel') = LiveIn(wheel) \cup {i}
  BY <1>1, <1>2, <1>3, LinkLive, Zenon
<1>8. Live' = Live \cup {i}
  BY <1>7, Zenon DEF Live, LiveIn
<1>9. wheel'.slot_tick = [wheel.slot_tick EXCEPT ![i] = d]
      /\ wheel'.in_pending = wheel.in_pending \ {i}
  BY <1>1, <1>2, <1>3, LinkTick
<1>10. Clock'
  BY <1>1, Zenon DEF WInv, Clock
<1>11. Ticks'
  <2>1. wheel'.in_pending \subseteq Live'
    BY <1>8, <1>9, Zenon DEF WInv, Ticks
  <2>2. ASSUME NEW k \in Live'
        PROVE  /\ expire_tick'[k] <= cur_tick + WheelSlots - 2
               /\ TickOf(k, cur_tick, pc = "take")'
    <3>1. CASE k = i
      <4>1. wheel'.slot_tick[i] = d /\ i \notin wheel'.in_pending
        BY <1>2, <1>3, <1>9, Zenon DEF WheelType
      <4>2. expire_tick'[i] = d
        BY <1>1, <1>2, Zenon DEF IInv, TypeOK
      <4>. QED BY <1>1, <1>3, <3>1, <4>1, <4>2 DEF TickOf
    <3>2. CASE k # i
      <4>1. k \in Live /\ k \in Idx
        BY <1>8, <3>2, Zenon DEF Live
      <4>2. /\ wheel'.slot_tick[k] = wheel.slot_tick[k]
            /\ expire_tick'[k] = expire_tick[k]
            /\ k \in wheel'.in_pending <=> k \in wheel.in_pending
        BY <1>1, <1>9, <3>2, <4>1, TickType, SMTT(20) DEF WheelType, IInv, TypeOK
      <4>3. expire_tick[k] <= cur_tick + WheelSlots - 2 /\ TickOf(k, cur_tick, pc = "take")
        BY <4>1, Zenon DEF WInv, Ticks
      <4>. QED BY <1>1, <4>2, <4>3, Zenon DEF TickOf
    <3>. QED BY <3>1, <3>2, Zenon
  <2>. QED BY <1>1, <2>1, <2>2, Zenon DEF Ticks
<1>. QED BY <1>1, <1>6, <1>10, <1>11, Zenon DEF WInv

LEMMA RemoveWheel ==
  ASSUME IInv, WInv, NEW i \in Idx, Remove(i)
  PROVE  WInv'
<1>1. /\ i \in Live /\ i \in LiveIn(wheel) /\ head = kNil /\ wheel \in WheelType
      /\ ListsOK(wheel, kNil) /\ pc = "idle"
      /\ RemoveFrom(wheel, i)
      /\ cur_tick' = cur_tick /\ now' = now /\ pc' = pc /\ head' = head
  BY TypeWheel, Zenon DEF IInv, Remove, Live, LiveIn, loopVars
<1>2. /\ wheel' = Freed(wheel, i)
      /\ expire_tick' = [expire_tick EXCEPT ![i] = 0]
  BY <1>1 DEF RemoveFrom, Freed
<1>3. HeadsOK(wheel, kNil) /\ RankOK(wheel, kNil)
  BY <1>1 DEF WInv
<1>4. /\ HeadsOK(wheel', kNil) /\ RankOK(wheel', kNil)
      /\ wheel'.in_pending = wheel.in_pending \ {i}
      /\ \A k \in Idx : k # i => wheel'.slot_tick[k] = wheel.slot_tick[k]
  <2>1. wheel \in WheelType /\ i \in LiveIn(wheel) /\ ListsOK(wheel, kNil)
    BY <1>1, SMTT(20)
  <2>. QED BY ONLY <2>1, <1>2, <1>3, FreeHeads
<1>5. LiveIn(wheel') = LiveIn(wheel) \ {i}
  BY <1>1, <1>2, FreeOK, Zenon DEF Freed
<1>6. Live' = Live \ {i}
  BY <1>5, Zenon DEF Live, LiveIn
<1>7. Clock'
  BY <1>1, Zenon DEF WInv, Clock
<1>8. Ticks'
  <2>1. wheel'.in_pending \subseteq Live'
    BY <1>4, <1>6, Zenon DEF WInv, Ticks
  <2>2. ASSUME NEW k \in Live'
        PROVE  /\ expire_tick'[k] <= cur_tick + WheelSlots - 2
               /\ TickOf(k, cur_tick, pc = "take")'
    <3>1. k \in Live /\ k \in Idx /\ k # i
      BY <1>6 DEF Live
    <3>2. /\ wheel'.slot_tick[k] = wheel.slot_tick[k]
          /\ expire_tick'[k] = expire_tick[k]
          /\ k \in wheel'.in_pending <=> k \in wheel.in_pending
      BY <1>2, <1>4, <3>1, Zenon DEF IInv, TypeOK
    <3>3. expire_tick[k] <= cur_tick + WheelSlots - 2 /\ TickOf(k, cur_tick, pc = "take")
      BY <3>1, Zenon DEF WInv, Ticks
    <3>. QED BY <1>1, <3>2, <3>3, Zenon DEF TickOf
  <2>. QED BY <1>1, <2>1, <2>2, Zenon DEF Ticks
<1>. QED BY <1>1, <1>4, <1>7, <1>8, Zenon DEF WInv

LEMMA TouchWheel ==
  ASSUME IInv, WInv, WheelFits, NEW i \in Idx, NEW t \in Timeouts, Touch(i, t)
  PROVE  WInv'
<1> DEFINE d == Deadline(t)
           moved == d < wheel.slot_tick[i] /\ i \notin wheel.in_pending
           mid == wheel_unlink(wheel, i)
<1>1. /\ i \in Live /\ i \in LiveIn(wheel) /\ wheel.prev[i] # kFree
      /\ head = kNil /\ wheel \in WheelType /\ ListsOK(wheel, kNil) /\ pc = "idle"
      /\ wheel' = (IF moved THEN wheel_link(mid, i, d) ELSE wheel)
      /\ expire_tick' = [expire_tick EXCEPT ![i] = d]
      /\ cur_tick' = cur_tick /\ now' = now /\ pc' = pc /\ head' = head
  BY TypeWheel, Zenon DEF IInv, Touch, Live, LiveIn, loopVars
<1>2. /\ d \in Nat /\ cur_tick <= d /\ d <= cur_tick + WheelSlots - 2
      /\ cur_tick \in Nat
  BY DeadlineFits, TickType, Zenon
<1>3. HeadsOK(wheel, kNil) /\ RankOK(wheel, kNil)
  BY <1>1, Zenon DEF WInv
<1>4. /\ mid \in WheelType /\ ListsOK(mid, kNil) /\ Unlinked(mid, i)
      /\ HeadsOK(mid, i) /\ RankOK(mid, kNil) /\ LiveIn(mid) = LiveIn(wheel)
  BY <1>1, <1>3, UnlinkOK, UnlinkLive, UnlinkHeads, Zenon
<1>5. mid.slot_tick = wheel.slot_tick /\ mid.in_pending = wheel.in_pending
  BY <1>1, UnlinkFields, ZenonT(40)
<1> HIDE DEF d, mid
<1>6. /\ HeadsOK(wheel', kNil) /\ RankOK(wheel', kNil)
      /\ LiveIn(wheel') = LiveIn(wheel)
      /\ wheel'.slot_tick = (IF moved THEN [wheel.slot_tick EXCEPT ![i] = d]
                             ELSE wheel.slot_tick)
      /\ wheel'.in_pending = wheel.in_pending
  <2>1. CASE moved
    <3>1. HeadsOK(wheel', kNil) /\ RankOK(wheel', kNil)
      BY <1>1, <1>2, <1>4, <2>1, LinkHeads, Zenon
    <3>2. LiveIn(wheel') = LiveIn(mid) \cup {i}
      BY <1>1, <1>2, <1>4, <2>1, LinkLive, Zenon
    <3>3. /\ wheel'.slot_tick = [mid.slot_tick EXCEPT ![i] = d]
          /\ wheel'.in_pending = mid.in_pending \ {i}
      BY <1>1, <1>2, <1>4, <2>1, LinkTick, SMTT(20)
    <3>4. mid.in_pending \ {i} = wheel.in_pending /\ LiveIn(mid) \cup {i} = LiveIn(wheel)
      BY <1>1, <1>4, <1>5, <2>1, Zenon
    <3> HIDE DEF moved
    <3>. QED BY <1>5, <2>1, <3>1, <3>2, <3>3, <3>4, Zenon
  <2>2. CASE ~moved
    BY <1>1, <1>3, <2>2, Zenon
  <2>. QED BY <2>1, <2>2, Zenon
<1>7. Live' = Live
  BY <1>6, Zenon DEF Live, LiveIn
<1>8. Clock'
  BY <1>1, Zenon DEF WInv, Clock
<1>9. Ticks'
  <2>1. wheel'.in_pending \subseteq Live'
    BY <1>6, <1>7, Zenon DEF WInv, Ticks
  <2>2. ASSUME NEW k \in Live'
        PROVE  /\ expire_tick'[k] <= cur_tick + WheelSlots - 2
               /\ TickOf(k, cur_tick, pc = "take")'
    <3>0. /\ expire_tick[k] <= cur_tick + WheelSlots - 2 /\ TickOf(k, cur_tick, pc = "take")
          /\ k \in Idx
      BY <1>7, Zenon DEF WInv, Ticks, Live
    <3>1. CASE k = i
      <4>1. expire_tick'[i] = d
        BY <1>1, <3>0, <3>1, Zenon DEF IInv, TypeOK
      <4>2. CASE moved
        <5>1. wheel'.slot_tick[i] = d /\ i \notin wheel'.in_pending
          BY <1>1, <1>6, <4>2, Zenon DEF WheelType
        <5>. QED BY <1>1, <1>2, <3>1, <4>1, <5>1 DEF TickOf
      <4>3. CASE ~moved
        <5>1. /\ wheel'.slot_tick[i] = wheel.slot_tick[i]
              /\ wheel.slot_tick[i] \in Nat
              /\ i \notin wheel.in_pending => wheel.slot_tick[i] <= d
          BY <1>2, <1>6, <4>3, TickType, SMTT(20)
        <5>. QED BY <1>1, <1>2, <1>6, <3>0, <3>1, <4>1, <5>1, Zenon DEF TickOf
      <4>. QED BY <4>2, <4>3, Zenon
    <3>2. CASE k # i
      <4>1. /\ wheel'.slot_tick[k] = wheel.slot_tick[k]
            /\ expire_tick'[k] = expire_tick[k]
        BY <1>1, <1>6, <3>0, <3>2, Zenon DEF WheelType, IInv, TypeOK
      <4>. QED BY <1>1, <1>6, <3>0, <4>1, Zenon DEF TickOf
    <3>. QED BY <3>1, <3>2, Zenon
  <2>. QED BY <1>1, <2>1, <2>2, Zenon DEF Ticks
<1>. QED BY <1>1, <1>6, <1>8, <1>9, Zenon DEF WInv

LEMMA TakeSlotWheel ==
  ASSUME IInv, WInv, ExpireTakeSlot
  PROVE  WInv'
<1> DEFINE slot == SlotOf(cur_tick)
<1>1. /\ wheel \in WheelType /\ ListsOK(wheel, kNil) /\ slot \in Slots
      /\ expire_tick' = expire_tick /\ cur_tick' = cur_tick /\ now' = now
      /\ pc = "loop" /\ pc' = "take" /\ cur_tick <= now /\ head = kNil
      /\ head' = wheel.slots[slot] /\ wheel.pending = kNil
      /\ wheel' = [wheel EXCEPT !.slots[slot] = kNil]
  <2>1. cur_tick \in Nat
    BY Zenon DEF IInv, TypeOK
  <2>. QED BY <2>1, SlotRange, TypeWheel, Zenon DEF IInv, ExpireTakeSlot, keyVars
<1> HIDE DEF slot
<1>2. /\ wheel'.slots = [wheel.slots EXCEPT ![slot] = kNil]
      /\ wheel'.pending = wheel.pending
      /\ wheel'.prev = wheel.prev
      /\ wheel'.slot_tick = wheel.slot_tick
      /\ wheel'.in_pending = wheel.in_pending
  BY <1>1, Zenon DEF WheelType
<1>3. wheel.in_pending = {}
  BY <1>1, PendingFound
<1>4. HeadsOK(wheel', head')
  <2> SUFFICES ASSUME NEW k \in Idx, wheel'.prev[k] = kNil, k # head'
               PROVE  HeadOf(wheel', k) = k
    BY DEF HeadsOK
  <2>1. HeadOf(wheel, k) = k /\ k \notin wheel.in_pending
    BY <1>1, <1>2, <1>3, Sentinels, Zenon DEF WInv, HeadsOK
  <2>2. SlotOf(wheel.slot_tick[k]) # slot /\ SlotOf(wheel.slot_tick[k]) \in Slots
    BY <1>1, <2>1, SlotRange, Zenon DEF HeadOf, WheelType
  <2>. QED BY <1>1, <1>2, <2>1, <2>2, Zenon DEF HeadOf, WheelType
<1>5. RankOK(wheel', head')
  <2>1. PICK r \in [Idx -> Nat], b \in Nat : Ranks(wheel, head, r, b)
    BY DEF WInv, RankOK
  <2>2. Ranks(wheel', head', r, b)
    BY <1>1, <1>2, <2>1, Sentinels, Zenon DEF Ranks
  <2>. QED BY <2>1, <2>2 DEF RankOK
<1>6. Clock'
  <2>1. head' # kNil => SlotOf(wheel.slot_tick[head']) = slot
    BY <1>1, Zenon DEF ListsOK
  <2>2. wheel'.slots[slot] = kNil
    BY <1>1, <1>2, Zenon DEF WheelType
  <2>. QED BY <1>1, <1>2, <2>1, <2>2, Zenon DEF WInv, Clock, slot
<1>7. Ticks'
  <2>1. Live' = Live
    BY <1>2 DEF Live
  <2>. QED BY <1>1, <1>2, <1>3, <2>1, Zenon DEF WInv, Ticks, TickOf
<1>. QED BY <1>4, <1>5, <1>6, <1>7 DEF WInv

LEMMA ExpirePushWheel ==
  ASSUME IInv, WInv, ExpirePush
  PROVE  WInv'
<1>1. /\ wheel \in WheelType /\ ListsOK(wheel, head) /\ ChainOK(wheel, head)
      /\ head \in Idx /\ head # kNil
      /\ expire_tick' = expire_tick /\ cur_tick' = cur_tick /\ now' = now
      /\ pc = "take" /\ pc' = pc
      /\ head' = wheel.next[head]
      /\ wheel' = pending_push(wheel, head)
  BY TypeWheel, Zenon DEF IInv, ExpirePush, keyVars
<1>2. HeadsOK(wheel', head') /\ RankOK(wheel', head')
  BY <1>1, PushHeads, Zenon DEF WInv
<1>3. /\ wheel'.slots = wheel.slots /\ wheel'.slot_tick = wheel.slot_tick
      /\ wheel'.in_pending = wheel.in_pending \cup {head}
  BY <1>1, PushFields, ZenonT(40)
<1>4. LiveIn(wheel') = LiveIn(wheel)
  BY <1>1, PushLive, Zenon
<1>5. Live' = Live /\ head \in Live /\ head \notin wheel.in_pending
  BY <1>1, <1>4, Zenon DEF Live, LiveIn, ChainOK
<1>6. Clock'
  <2>1. head' # kNil => SlotOf(wheel.slot_tick[head']) = SlotOf(wheel.slot_tick[head])
    BY <1>1, <1>5, Zenon DEF ListsOK, Follows
  <2>. QED BY <1>1, <1>3, <2>1, Zenon DEF WInv, Clock
<1>7. wheel.slot_tick[head] = cur_tick
  <2>1. /\ cur_tick <= wheel.slot_tick[head] /\ wheel.slot_tick[head] <= expire_tick[head]
        /\ expire_tick[head] <= cur_tick + WheelSlots - 2
    BY <1>5, Zenon DEF WInv, Ticks, TickOf
  <2>2. SlotOf(wheel.slot_tick[head]) = SlotOf(cur_tick)
    BY <1>1, Zenon DEF WInv, Clock
  <2>. QED BY <1>1, <2>1, <2>2, SlotsDiffer, TickType, SMTT(20)
<1>8. Ticks'
  <2>1. wheel'.in_pending \subseteq Live'
    BY <1>3, <1>5, Zenon DEF WInv, Ticks
  <2>2. ASSUME NEW k \in Live
        PROVE  TickOf(k, cur_tick, pc = "take")'
    <3>1. TickOf(k, cur_tick, pc = "take")
      BY Zenon DEF WInv, Ticks
    <3>. QED BY <1>1, <1>3, <1>7, <3>1, Zenon DEF TickOf
  <2>. QED BY <1>1, <1>5, <2>1, <2>2, Zenon DEF WInv, Ticks
<1>. QED BY <1>2, <1>6, <1>8 DEF WInv

LEMMA TakenWheel ==
  ASSUME IInv, WInv, ExpireTaken
  PROVE  WInv'
<1>1. /\ wheel' = wheel /\ head' = head /\ head = kNil /\ expire_tick' = expire_tick
      /\ cur_tick' = cur_tick + 1 /\ now' = now /\ pc = "take" /\ pc' = "loop"
  BY DEF ExpireTaken, keyVars
<1>2. HeadsOK(wheel', head') /\ RankOK(wheel', head')
  BY <1>1 DEF WInv
<1>3. Clock'
  BY <1>1, TickType DEF WInv, Clock
<1>4. ASSUME NEW k \in Live, k \notin wheel.in_pending
      PROVE  wheel.slot_tick[k] # cur_tick
  <2>1. wheel.slots[SlotOf(wheel.slot_tick[k])] # kNil
    BY <1>1, <1>4, SlotFound, Zenon
  <2>2. wheel.slots[SlotOf(cur_tick)] = kNil
    BY <1>1, Zenon DEF WInv, Clock
  <2>. QED BY <2>1, <2>2, Zenon
<1>5. Ticks'
  <2>1. Live' = Live
    BY <1>1 DEF Live
  <2>2. ASSUME NEW k \in Live
        PROVE  /\ expire_tick[k] <= cur_tick' + WheelSlots - 2
               /\ TickOf(k, cur_tick, pc = "take")'
    <3>1. /\ TickOf(k, cur_tick, pc = "take") /\ k \in Idx
          /\ expire_tick[k] <= cur_tick + WheelSlots - 2
      BY Zenon DEF WInv, Ticks, Live
    <3>2. wheel.slot_tick[k] \in Nat /\ expire_tick[k] \in Nat
      BY <3>1, TickType, Zenon
    <3>. QED BY <1>1, <1>4, <3>1, <3>2, TickType DEF TickOf
  <2>. QED BY <1>1, <2>1, <2>2, Zenon DEF WInv, Ticks
<1>. QED BY <1>2, <1>3, <1>5 DEF WInv

LEMMA PopDueWheel ==
  ASSUME IInv, WInv, ExpirePopDue
  PROVE  WInv'
<1> DEFINE i == wheel.pending
           w == pending_pop(wheel)
<1>1. /\ wheel \in WheelType /\ ListsOK(wheel, kNil) /\ i # kNil
      /\ head = kNil /\ head' = head /\ pc = "loop" /\ pc' = pc
      /\ cur_tick' = cur_tick /\ now' = now
      /\ wheel' = Freed(w, i)
      /\ expire_tick' = [expire_tick EXCEPT ![i] = 0]
  BY TypeWheel, Zenon DEF IInv, ExpirePopDue, RemoveFrom, Freed
<1>2. HeadsOK(wheel, kNil) /\ RankOK(wheel, kNil)
  BY <1>1, Zenon DEF WInv
<1>3. /\ w \in WheelType /\ ListsOK(w, kNil) /\ LiveIn(w) = LiveIn(wheel)
      /\ Unlinked(w, i) /\ i \in LiveIn(wheel) /\ i \in Idx
  BY <1>1, PopOK, Zenon DEF LiveIn
<1>4. /\ HeadsOK(w, i) /\ RankOK(w, kNil) /\ w.slots = wheel.slots
      /\ w.slot_tick = wheel.slot_tick /\ w.in_pending = wheel.in_pending \ {i}
  BY <1>1, <1>2, PopHeads, Zenon
<1>5. i \in wheel.in_pending /\ i \in Live
  BY <1>1, <1>3, Zenon DEF ListsOK, Live, LiveIn
<1> HIDE DEF w, i
<1>6. wheel.slots[SlotOf(wheel.slot_tick[i])] = kNil
  <2> DEFINE s == SlotOf(wheel.slot_tick[i])
             k == wheel.slots[s]
  <2> SUFFICES ASSUME k # kNil PROVE FALSE
    BY Zenon
  <2>1. s \in Slots /\ k \in Idx
    BY <1>1, <1>3, SlotRange, Zenon DEF WheelType
  <2>2. k \in Live /\ k \notin wheel.in_pending /\ SlotOf(wheel.slot_tick[k]) = s
    BY <1>1, <2>1, Sentinels, Zenon DEF ListsOK, Live
  <2>3. wheel.slot_tick[i] = cur_tick - 1
    BY <1>1, <1>5, Zenon DEF WInv, Ticks, TickOf
  <2>4. /\ cur_tick <= wheel.slot_tick[k] /\ wheel.slot_tick[k] <= expire_tick[k]
        /\ expire_tick[k] <= cur_tick + WheelSlots - 2
    BY <2>2, Zenon DEF WInv, Ticks, TickOf
  <2>5. wheel.slot_tick[i] < wheel.slot_tick[k] /\ wheel.slot_tick[k] < wheel.slot_tick[i] + WheelSlots
    BY <1>3, <2>1, <2>3, <2>4, TickType, SMTT(20)
  <2>6. wheel.slot_tick[i] \in Nat /\ wheel.slot_tick[k] \in Nat
    BY <1>3, <2>1, TickType, Zenon
  <2>. QED BY <2>2, <2>5, <2>6, SlotsDiffer, Zenon
<1>7. /\ HeadsOK(wheel', kNil) /\ RankOK(wheel', kNil)
      /\ wheel'.in_pending = w.in_pending
      /\ \A k \in Idx : k # i => wheel'.slot_tick[k] = w.slot_tick[k]
  <2>1. i \in LiveIn(w) /\ i \notin w.in_pending /\ w.slots[SlotOf(w.slot_tick[i])] = kNil
    BY <1>3, <1>4, <1>6, Zenon
  <2>. QED BY <1>1, <1>3, <1>4, <2>1, FreePopped, Zenon
<1>8. Live' = Live \ {i}
  <2>1. LiveIn(wheel') = LiveIn(w) \ {i}
    BY <1>1, <1>3, FreeOK, Zenon DEF Freed
  <2>. QED BY <1>3, <2>1, Zenon DEF Live, LiveIn
<1>9. Clock'
  BY <1>1, Zenon DEF WInv, Clock
<1>10. Ticks'
  <2>1. wheel'.in_pending \subseteq Live'
    BY <1>4, <1>7, <1>8, Zenon DEF WInv, Ticks
  <2>2. ASSUME NEW k \in Live'
        PROVE  /\ expire_tick'[k] <= cur_tick + WheelSlots - 2
               /\ TickOf(k, cur_tick, pc = "take")'
    <3>1. k \in Live /\ k \in Idx /\ k # i
      BY <1>8, Zenon DEF Live
    <3>2. /\ wheel'.slot_tick[k] = wheel.slot_tick[k]
          /\ expire_tick'[k] = expire_tick[k]
          /\ k \in wheel'.in_pending <=> k \in wheel.in_pending
      BY <1>1, <1>4, <1>7, <3>1, Zenon DEF IInv, TypeOK
    <3>3. expire_tick[k] <= cur_tick + WheelSlots - 2 /\ TickOf(k, cur_tick, pc = "take")
      BY <3>1, Zenon DEF WInv, Ticks
    <3>. QED BY <1>1, <3>2, <3>3, Zenon DEF TickOf
  <2>. QED BY <1>1, <2>1, <2>2, Zenon DEF Ticks
<1>. QED BY <1>1, <1>7, <1>9, <1>10, Zenon DEF WInv

LEMMA PopLaterWheel ==
  ASSUME IInv, WInv, ExpirePopLater
  PROVE  WInv'
<1> DEFINE i == wheel.pending
           w == pending_pop(wheel)
           d == expire_tick[i]
<1>1. /\ wheel \in WheelType /\ ListsOK(wheel, kNil) /\ i # kNil
      /\ head = kNil /\ head' = head /\ pc = "loop" /\ pc' = pc
      /\ cur_tick' = cur_tick /\ now' = now /\ expire_tick' = expire_tick
      /\ wheel' = wheel_link(w, i, d) /\ d > now
  BY TypeWheel, Zenon DEF IInv, ExpirePopLater, keyVars
<1>2. HeadsOK(wheel, kNil) /\ RankOK(wheel, kNil)
  BY <1>1, Zenon DEF WInv
<1>3. /\ w \in WheelType /\ ListsOK(w, kNil) /\ LiveIn(w) = LiveIn(wheel)
      /\ Unlinked(w, i) /\ i \in LiveIn(wheel) /\ i \in Idx
  BY <1>1, PopOK, Zenon DEF LiveIn
<1>4. /\ HeadsOK(w, i) /\ RankOK(w, kNil)
      /\ w.slot_tick = wheel.slot_tick /\ w.in_pending = wheel.in_pending \ {i}
  BY <1>1, <1>2, PopHeads, Zenon
<1>5. d \in Nat /\ cur_tick \in Nat /\ cur_tick <= d
  <2>1. cur_tick <= now + 1
    BY Zenon DEF WInv, Clock
  <2>2. d \in Nat /\ cur_tick \in Nat /\ now \in Nat
    BY <1>3, TickType, Zenon
  <2> HIDE DEF d
  <2>. QED BY <1>1, <2>1, <2>2
<1> HIDE DEF w, i, d
<1>6. HeadsOK(wheel', kNil) /\ RankOK(wheel', kNil)
  BY <1>1, <1>3, <1>4, <1>5, LinkHeads, Zenon
<1>7. /\ wheel'.slot_tick = [w.slot_tick EXCEPT ![i] = d]
      /\ wheel'.in_pending = w.in_pending \ {i}
  BY <1>1, <1>3, <1>5, LinkTick
<1>8. Live' = Live
  <2>1. LiveIn(wheel') = LiveIn(w) \cup {i}
    BY <1>1, <1>3, <1>5, LinkLive, Zenon
  <2>. QED BY <1>3, <2>1, Zenon DEF Live, LiveIn
<1>9. Clock'
  BY <1>1, Zenon DEF WInv, Clock
<1>10. Ticks'
  <2>1. wheel'.in_pending \subseteq Live'
    BY <1>4, <1>7, <1>8, Zenon DEF WInv, Ticks
  <2>2. ASSUME NEW k \in Live
        PROVE  TickOf(k, cur_tick, pc = "take")'
    <3>0. k \in Idx /\ wheel.slot_tick \in [Idx -> Nat]
      BY <1>1, Zenon DEF Live, WheelType
    <3>1. CASE k = i
      <4>1. wheel'.slot_tick[i] = d /\ i \notin wheel'.in_pending /\ expire_tick'[i] = d
        BY <1>1, <1>3, <1>4, <1>7, <3>0, Zenon DEF d
      <4>. QED BY <1>1, <1>5, <3>1, <4>1, SMTT(20) DEF TickOf
    <3>2. CASE k # i
      <4>1. /\ wheel'.slot_tick[k] = wheel.slot_tick[k]
            /\ k \in wheel'.in_pending <=> k \in wheel.in_pending
        BY <1>4, <1>7, <3>0, <3>2, Zenon
      <4>2. TickOf(k, cur_tick, pc = "take")
        BY Zenon DEF WInv, Ticks
      <4>. QED BY <1>1, <4>1, <4>2, Zenon DEF TickOf
    <3>. QED BY <3>1, <3>2, Zenon
  <2>. QED BY <1>1, <1>8, <2>1, <2>2, Zenon DEF WInv, Ticks
<1>. QED BY <1>1, <1>6, <1>9, <1>10, Zenon DEF WInv

LEMMA NextWInv == ASSUME WheelFits PROVE IInv /\ WInv /\ [Next]_vars => WInv'
<1> SUFFICES ASSUME IInv, WInv, [Next]_vars PROVE WInv'
  OBVIOUS
<1>1. ASSUME NEW c \in Clients, NEW s \in Servers \cup {NoKey},
             NEW t \in Timeouts, Create(c, s, t)
      PROVE  WInv'
  BY <1>1, CreateWheel
<1>2. ASSUME NEW i \in Idx, Remove(i) PROVE WInv'
  BY <1>2, RemoveWheel
<1>3. ASSUME NEW i \in Idx, NEW t \in Timeouts, Touch(i, t) PROVE WInv'
  BY <1>3, TouchWheel
<1>4. CASE ExpireTakeSlot
  BY <1>4, TakeSlotWheel
<1>5. CASE ExpirePush
  BY <1>5, ExpirePushWheel, SMTT(20)
<1>6. CASE ExpireTaken
  BY <1>6, TakenWheel
<1>7. CASE ExpirePopDue
  BY <1>7, PopDueWheel
<1>8. CASE ExpirePopLater
  BY <1>8, PopLaterWheel
<1>9. ASSUME \/ \E t \in 1 .. MaxTick : ExpireCall(t)
             \/ ExpireReturn
             \/ UNCHANGED vars
      PROVE  WInv'
  <2>1. /\ wheel' = wheel /\ head' = head /\ expire_tick' = expire_tick
        /\ cur_tick' = cur_tick /\ (pc' = "take" <=> pc = "take")
    BY <1>9, Zenon DEF ExpireCall, ExpireReturn, vars, keyVars, loopVars
  <2>2. now' >= now /\ now' <= cur_tick + MaxLag /\ now' \in Nat
    BY <1>9, TickType, SessionConstants DEF ExpireCall, ExpireReturn, vars, WInv, Clock
  <2>3. Live' = Live
    BY <2>1 DEF Live
  <2>4. Clock'
    BY <2>1, <2>2, TickType, SMTT(20) DEF WInv, Clock
  <2>5. Ticks'
    BY <2>1, <2>3, Zenon DEF WInv, Ticks, TickOf
  <2>. QED BY <2>1, <2>4, <2>5, SMTT(20) DEF WInv
<1>. QED
  BY <1>1, <1>2, <1>3, <1>4, <1>5, <1>6, <1>7, <1>8, <1>9, SMTT(20) DEF Next, ExpireStep

\* As long as no timeout reaches a turn of the wheel ahead, a session waits in
\* a slot the wheel has yet to process, no later than its deadline (touch may
\* leave it there).
THEOREM SlotsAreInTime == ASSUME WheelFits PROVE Spec => []SlotInTime
<1>1. WInv => SlotInTime
  BY Zenon DEF WInv, Ticks, TickOf, SlotInTime
<1>2. WheelFits
  OBVIOUS
<1>3. IInv /\ WInv /\ [Next]_vars => WInv'
  BY <1>2, NextWInv
<1>. QED BY InitIInv, NextIInv, InitWInv, <1>1, <1>3, PTL DEF Spec

\* As long as no timeout reaches a turn of the wheel ahead, an expire that
\* returns with the wheel caught up leaves no session whose deadline has come.
THEOREM ExpiredAreGone == ASSUME WheelFits PROVE Spec => []ExpiredAreRemoved
<1>1. IInv /\ WInv => ExpiredAreRemoved
  <2> SUFFICES ASSUME IInv, WInv, pc = "idle", wheel.pending = kNil, cur_tick > now,
                      NEW i \in Live
               PROVE  expire_tick[i] > now
    BY DEF ExpiredAreRemoved
  <2>1. i \notin wheel.in_pending
    BY PendingFound
  <2>2. cur_tick <= wheel.slot_tick[i] /\ wheel.slot_tick[i] <= expire_tick[i]
    BY <2>1, Zenon DEF WInv, Ticks, TickOf
  <2>3. wheel.slot_tick[i] \in Nat /\ expire_tick[i] \in Nat /\ now \in Nat /\ cur_tick \in Nat
    BY TickType, Zenon DEF Live
  <2>. QED BY <2>2, <2>3
<1>2. WheelFits
  OBVIOUS
<1>3. IInv /\ WInv /\ [Next]_vars => WInv'
  BY <1>2, NextWInv
<1>. QED BY InitIInv, NextIInv, InitWInv, <1>1, <1>3, PTL DEF Spec

-----------------------------------------------------------------------------
(* ListFrom walks a list Capacity steps, which is as far as any list goes.  *)

\* One more step along the lists from the sessions of S.
After(S) == S \cup ({wheel.next[k] : k \in S} \ {kNil})

LEMMA AlongSessions ==
  ASSUME NEW S, 0 \in S, \A n \in 0 .. Capacity - 1 : n \in S => n + 1 \in S
  PROVE  \A n \in 0 .. Capacity : n \in S
<1>0. Capacity \in Nat
  BY SessionConstants
<1> DEFINE T == (0 .. Capacity) \ S
<1> SUFFICES ASSUME T # {} PROVE FALSE
  OBVIOUS
<1>1. PICK n \in T : \A m \in T : n <= m
  <2>1. T \in SUBSET Nat
    BY <1>0
  <2> HIDE DEF T
  <2>. QED BY <2>1, LeastOf
<1>2. n - 1 \in 0 .. Capacity - 1 /\ n - 1 \in S
  BY <1>0, <1>1
<1>. QED BY <1>0, <1>1, <1>2

LEMMA AfterType ==
  ASSUME wheel \in WheelType, NEW S \in SUBSET Idx
  PROVE  After(S) \in SUBSET Idx
BY DEF After, WheelType

LEMMA ListFromRec ==
  ASSUME wheel \in WheelType, NEW h \in Idx \cup {kNil}
  PROVE  \E u \in [0 .. Capacity -> SUBSET Idx] :
           /\ ListFrom(h) = u[Capacity]
           /\ u[0] = {h} \ {kNil}
           /\ \A n \in 1 .. Capacity : u[n] = After(u[n - 1])
<1> DEFINE Good(u, k) == /\ u[0] = {h} \ {kNil}
                         /\ \A n \in 1 .. k : u[n] = After(u[n - 1])
           S == {k \in 0 .. Capacity : \E u \in [0 .. k -> SUBSET Idx] : Good(u, k)}
<1>0. Capacity \in Nat \ {0}
  BY SessionConstants
<1>1. 0 \in S
  <2> DEFINE u == [x \in 0 .. 0 |-> {h} \ {kNil}]
  <2>1. u \in [0 .. 0 -> SUBSET Idx] /\ u[0] = {h} \ {kNil} /\ 0 \in 0 .. Capacity
    BY <1>0
  <2>2. Good(u, 0)
    BY <2>1
  <2> HIDE DEF u
  <2>. QED BY <2>1, <2>2
<1>2. ASSUME NEW k \in 0 .. Capacity - 1, k \in S PROVE k + 1 \in S
  <2>1. PICK u \in [0 .. k -> SUBSET Idx] : Good(u, k)
    BY <1>2
  <2> DEFINE v == [n \in 0 .. k + 1 |-> IF n <= k THEN u[n] ELSE After(u[k])]
  <2>2. v \in [0 .. k + 1 -> SUBSET Idx]
    <3>1. k \in 0 .. k /\ u[k] \in SUBSET Idx
      BY <2>1
    <3>2. After(u[k]) \in SUBSET Idx
      BY <3>1, AfterType
    <3>3. ASSUME NEW n \in 0 .. k + 1, n <= k PROVE u[n] \in SUBSET Idx
      BY <3>3, <2>1
    <3>. QED BY <3>2, <3>3, Zenon
  <2>3. Good(v, k + 1)
    <3>1. v[0] = {h} \ {kNil}
      BY <2>1
    <3>2. ASSUME NEW n \in 1 .. k + 1 PROVE v[n] = After(v[n - 1])
      <4>1. CASE n \in 1 .. k
        BY <2>1, <4>1
      <4>2. CASE n = k + 1
        BY <4>2
      <4>. QED BY <4>1, <4>2
    <3>. QED BY <3>1, <3>2, Zenon
  <2>4. k + 1 \in 0 .. Capacity
    BY <1>0
  <2>. QED BY <2>2, <2>3, <2>4, Zenon
<1>3. Capacity \in S
  <2> HIDE DEF S
  <2>. QED BY <1>0, <1>1, <1>2, AlongSessions
<1>4. PICK u \in [0 .. Capacity -> SUBSET Idx] : Good(u, Capacity)
  BY <1>3
<1> DEFINE Rec(x) == [n \in 0 .. Capacity |->
                        IF n = 0 THEN {h} \ {kNil}
                        ELSE x[n - 1] \cup ({wheel.next[k] : k \in x[n - 1]} \ {kNil})]
<1>5. u = Rec(u)
  <2>1. \A n \in 0 .. Capacity : u[n] = Rec(u)[n]
    BY <1>4 DEF After
  <2>2. u = [n \in 0 .. Capacity |-> u[n]]
    BY <1>4, Zenon
  <2>. QED BY <2>1, <2>2, Zenon
<1> DEFINE s == CHOOSE x : x = Rec(x)
<1>6. ListFrom(h) = s[Capacity]
  BY SMTT(20) DEF ListFrom
<1>7. s = Rec(s)
  BY <1>5, Zenon
<1> HIDE DEF s
<1>8. s[0] = {h} \ {kNil} /\ \A n \in 1 .. Capacity : s[n] = After(s[n - 1])
  <2>1. \A n \in 0 .. Capacity :
          s[n] = IF n = 0 THEN {h} \ {kNil} ELSE After(s[n - 1])
    <3> DEFINE y == [n \in 0 .. Capacity |->
                       IF n = 0 THEN {h} \ {kNil} ELSE After(s[n - 1])]
    <3>1. s = y
      BY <1>7, Zenon DEF After
    <3>2. \A n \in 0 .. Capacity : y[n] = IF n = 0 THEN {h} \ {kNil} ELSE After(s[n - 1])
      BY Zenon
    <3> HIDE DEF y
    <3>. QED BY <3>1, <3>2, Zenon
  <2>. QED BY <1>0, <2>1
<1> DEFINE V == {n \in 0 .. Capacity : s[n] \in SUBSET Idx}
<1>9. 0 \in V
  BY <1>0, <1>8
<1>10. ASSUME NEW n \in 0 .. Capacity - 1, n \in V PROVE n + 1 \in V
  <2>1. n + 1 \in 1 .. Capacity /\ s[n + 1] = After(s[n])
    BY <1>0, <1>8
  <2>2. s[n] \in SUBSET Idx
    BY <1>10, Zenon
  <2>3. After(s[n]) \in SUBSET Idx
    BY <2>2, AfterType, Zenon
  <2>. QED BY <2>1, <2>3
<1>11. \A n \in 0 .. Capacity : n \in V
  <2> HIDE DEF V
  <2>. QED BY <1>9, <1>10, AlongSessions, Zenon
<1>12. s \in [0 .. Capacity -> SUBSET Idx]
  BY <1>7, <1>11, Zenon
<1>. QED BY <1>6, <1>8, <1>12, Zenon

\* Walked Capacity steps, a list is closed under wheel_next.
LEMMA ListFromClosed ==
  ASSUME wheel \in WheelType, NEW h \in Idx \cup {kNil}
  PROVE  /\ h # kNil => h \in ListFrom(h)
         /\ \A k \in ListFrom(h) \cap Idx : wheel.next[k] # kNil => wheel.next[k] \in ListFrom(h)
<1>0. Capacity \in Nat \ {0} /\ IsFiniteSet(Idx) /\ Cardinality(Idx) = Capacity
  BY FS_Interval, SessionConstants DEF Idx
<1>1. PICK u \in [0 .. Capacity -> SUBSET Idx] :
        /\ ListFrom(h) = u[Capacity]
        /\ u[0] = {h} \ {kNil}
        /\ \A n \in 1 .. Capacity : u[n] = After(u[n - 1])
  BY ListFromRec, ZenonT(40)
<1>2. \A n \in 0 .. Capacity - 1 : /\ n \in 0 .. Capacity /\ n + 1 \in 0 .. Capacity
                                   /\ u[n + 1] = After(u[n])
  BY <1>0, <1>1
<1> DEFINE Closed(A) == \A k \in A : wheel.next[k] # kNil => wheel.next[k] \in A
           S == {n \in 0 .. Capacity : /\ h # kNil => h \in u[n]
                                       /\ Closed(u[n]) \/ Cardinality(u[n]) >= n + 1}
<1>3. 0 \in S
  <2>1. CASE h = kNil
    BY <1>0, <1>1, <2>1
  <2>2. CASE h # kNil
    <3>1. u[0] = {h}
      BY <1>1, <2>2, Zenon
    <3>2. Cardinality({h}) = 1
      BY FS_Singleton, Zenon
    <3>3. 0 \in 0 .. Capacity /\ h \in u[0]
      BY <1>0, <3>1
    <3>4. Cardinality(u[0]) >= 0 + 1
      BY <3>1, <3>2
    <3>. QED BY <3>3, <3>4, Zenon
  <2>. QED BY <2>1, <2>2, Zenon
<1>4. ASSUME NEW n \in 0 .. Capacity - 1, n \in S PROVE n + 1 \in S
  <2>0. /\ u[n] \in SUBSET Idx /\ u[n + 1] \in SUBSET Idx /\ u[n + 1] = After(u[n])
        /\ n \in Nat /\ n + 1 \in 0 .. Capacity
    BY <1>0, <1>1, <1>2
  <2>1. h # kNil => h \in u[n + 1]
    BY <1>4, <2>0, Zenon DEF After
  <2>2. CASE Closed(u[n])
    <3>1. After(u[n]) = u[n]
      BY <2>2, Zenon DEF After
    <3>. QED BY <2>0, <2>1, <2>2, <3>1, Zenon
  <2>3. CASE ~Closed(u[n])
    <3>1. PICK k \in u[n] : wheel.next[k] # kNil /\ wheel.next[k] \notin u[n]
      BY <2>3, Zenon
    <3>2. Cardinality(u[n]) >= n + 1
      BY <1>4, <2>3, Zenon
    <3> DEFINE x == wheel.next[k]
               B == u[n] \cup {x}
    <3>3. IsFiniteSet(u[n]) /\ IsFiniteSet(u[n + 1])
      BY <1>0, <2>0, FS_Subset, Zenon
    <3>4. Cardinality(B) = Cardinality(u[n]) + 1 /\ IsFiniteSet(B)
      BY <3>1, <3>3, FS_AddElement, Zenon
    <3>5. B \in SUBSET u[n + 1]
      BY <2>0, <3>1, Zenon DEF After
    <3>6. Cardinality(B) <= Cardinality(u[n + 1])
      BY <3>3, <3>5, FS_Subset, Zenon
    <3>7. Cardinality(u[n]) \in Nat /\ Cardinality(u[n + 1]) \in Nat
      BY <3>3, FS_CardinalityType, Zenon
    <3> HIDE DEF B
    <3>8. Cardinality(u[n + 1]) >= n + 1 + 1
      BY <2>0, <3>2, <3>4, <3>6, <3>7
    <3>. QED BY <2>0, <2>1, <3>8, Zenon
  <2>. QED BY <2>2, <2>3, Zenon
<1>5. Capacity \in S
  <2> HIDE DEF S
  <2>. QED BY <1>0, <1>3, <1>4, AlongSessions, SMTT(20)
<1>6. Closed(u[Capacity])
  <2>1. u[Capacity] \in SUBSET Idx
    BY <1>0, <1>1
  <2>2. Cardinality(u[Capacity]) <= Capacity /\ Cardinality(u[Capacity]) \in Nat
    BY <1>0, <2>1, FS_Subset, FS_CardinalityType, Zenon
  <2>. QED BY <1>0, <1>5, <2>2
<1>. QED BY <1>1, <1>5, <1>6, Zenon

LEMMA NothingIsOrphaned == IInv /\ WInv => NoOrphan
<1> SUFFICES ASSUME IInv, WInv PROVE NoOrphan
  OBVIOUS
<1>0. wheel \in WheelType /\ ListsOK(wheel, head) /\ head \in Idx \cup {kNil}
  BY Zenon DEF IInv, TypeOK
<1> DEFINE On(i) == \/ i \in ListFrom(HeadOf(wheel, i))
                    \/ pc = "take" /\ i \in ListFrom(head)
           S == {i \in Live : ~On(i)}
<1>1. NoOrphan <=> S = {}
  BY Zenon DEF NoOrphan, HeadOf
<1> SUFFICES ASSUME S # {} PROVE FALSE
  BY <1>1
<1>2. ASSUME NEW i \in Idx PROVE HeadOf(wheel, i) \in Idx \cup {kNil}
  BY <1>0, SlotRange, Zenon DEF HeadOf, WheelType
<1>3. ASSUME NEW i \in S, wheel.prev[i] \in Idx, i # head
      PROVE  wheel.prev[i] \in S
  <2> DEFINE p == wheel.prev[i]
  <2>1. wheel.next[p] = i /\ i # kNil /\ i \in Idx
    BY <1>0, <1>3, Sentinels, Zenon DEF ListsOK, Live
  <2>2. Follows(wheel, p, i)
    BY <1>0, <1>3, <2>1, Zenon DEF ListsOK
  <2>3. p \in Live /\ HeadOf(wheel, p) = HeadOf(wheel, i)
    BY <1>3, <2>2, Zenon DEF Follows, Live, HeadOf
  <2>4. ASSUME On(p) PROVE On(i)
    <3>1. CASE p \in ListFrom(HeadOf(wheel, p))
      <4>1. HeadOf(wheel, p) \in Idx \cup {kNil}
        BY <1>2, <1>3, Zenon
      <4>2. i \in ListFrom(HeadOf(wheel, p))
        BY <1>0, <1>3, <2>1, <3>1, <4>1, ListFromClosed, Zenon
      <4>. QED BY <2>3, <4>2, Zenon
    <3>2. CASE pc = "take" /\ p \in ListFrom(head)
      <4>1. i \in ListFrom(head)
        BY <1>0, <1>3, <2>1, <3>2, ListFromClosed, Zenon
      <4>. QED BY <3>2, <4>1, Zenon
    <3>. QED BY <2>4, <3>1, <3>2, Zenon
  <2>. QED BY <2>3, <2>4, Zenon
<1>4. PICK i \in S : i = head \/ wheel.prev[i] \notin Idx
  <2>1. S \in SUBSET Idx
    BY DEF Live
  <2> HIDE DEF S
  <2>. QED BY <1>0, <1>3, <2>1, FirstOf, Zenon DEF WInv
<1>5. i \in Idx /\ i # kNil /\ wheel.prev[i] # kFree
  BY Sentinels, Zenon DEF Live
<1>6. CASE i = head
  <2>1. i \in ListFrom(head)
    BY <1>0, <1>5, <1>6, ListFromClosed, Zenon
  <2>2. pc = "take"
    BY <1>5, <1>6, Zenon DEF IInv
  <2>. QED BY <2>1, <2>2
<1>7. CASE i # head
  <2>1. wheel.prev[i] = kNil
    BY <1>0, <1>4, <1>5, <1>7, Zenon DEF WheelType
  <2>2. HeadOf(wheel, i) = i
    BY <1>5, <1>7, <2>1, Zenon DEF WInv, HeadsOK
  <2>3. i \in ListFrom(i)
    BY <1>0, <1>5, ListFromClosed, Zenon
  <2>. QED BY <2>2, <2>3, Zenon
<1>. QED BY <1>6, <1>7, Zenon

\* As long as no timeout reaches a turn of the wheel ahead, every live session
\* is on the list its fields name, in a slot the wheel will process no later
\* than its deadline: expire reaches it, whatever was linked, unlinked, popped
\* and put back around it.
THEOREM WheelIsExact == ASSUME WheelFits PROVE Spec => []WheelExact
<1>1. IInv /\ WInv => WheelExact
  BY NothingIsOrphaned, Zenon DEF WInv, Ticks, TickOf, SlotInTime, WheelExact
<1>2. WheelFits
  OBVIOUS
<1>3. IInv /\ WInv /\ [Next]_vars => WInv'
  BY <1>2, NextWInv
<1>. QED BY InitIInv, NextIInv, InitWInv, <1>1, <1>3, PTL DEF Spec

-----------------------------------------------------------------------------
(* The size of the hash.  A session is found under each of its keys, so the *)
(* keys in use are at most two for each session in use.                     *)

LEMMA HashHasRoom ==
  ASSUME TypeOK, KeysExact, FreeExact
  PROVE  HashNeverRefuses
<1> DEFINE A == {k \in UsedKeys : k = client[hash[k]]}
           B == {k \in UsedKeys : k = server[hash[k]]}
<1>1. UsedKeys = A \cup B /\ \A k \in UsedKeys : hash[k] \in Live
  BY Zenon DEF UsedKeys, KeysExact
<1> SUFFICES ASSUME free_stack # <<>>
             PROVE  Cardinality(UsedKeys) + 2 <= HashEntries
  BY DEF HashNeverRefuses
<1>2. PICK x \in Idx : x \notin Live
  BY DEF TypeOK, FreeExact
<1>3. IsFiniteSet(Idx) /\ Cardinality(Idx) = Capacity
  BY FS_Interval, SessionConstants DEF Idx
<1>4. IsFiniteSet(Live) /\ Cardinality(Live) <= Capacity - 1
  <2>1. Live \in SUBSET (Idx \ {x})
    BY <1>2 DEF Live
  <2>2. IsFiniteSet(Idx \ {x}) /\ Cardinality(Idx \ {x}) = Capacity - 1
    BY <1>3, FS_RemoveElement, SMTT(20)
  <2>. QED BY <2>1, <2>2, FS_Subset
<1>5. [k \in A |-> hash[k]] \in Injection(A, Live)
  BY <1>1, Zenon DEF Injection, IsInjective
<1>6. [k \in B |-> hash[k]] \in Injection(B, Live)
  BY <1>1, Zenon DEF Injection, IsInjective
<1> HIDE DEF A, B
<1>7. IsFiniteSet(A) /\ Cardinality(A) <= Cardinality(Live)
  BY <1>4, <1>5, FS_Injection, Zenon
<1>8. IsFiniteSet(B) /\ Cardinality(B) <= Cardinality(Live)
  BY <1>4, <1>6, FS_Injection, Zenon
<1>9. /\ Cardinality(A \cup B) = Cardinality(A) + Cardinality(B) - Cardinality(A \cap B)
      /\ IsFiniteSet(A \cap B)
  BY <1>7, <1>8, FS_Union, FS_Intersection, Zenon
<1>10. /\ Cardinality(A) \in Nat /\ Cardinality(B) \in Nat /\ Cardinality(Live) \in Nat
       /\ Cardinality(A \cap B) \in Nat
  BY <1>4, <1>7, <1>8, <1>9, FS_CardinalityType, Zenon
<1>11. Capacity \in Nat \ {0} /\ Capacity \div 2 >= 0 /\ Capacity \div 2 \in Int
  BY SessionConstants
<1>. QED BY <1>1, <1>4, <1>7, <1>8, <1>9, <1>10, <1>11, SMTT(20) DEF HashEntries

\* While a session is free, the hash has room for its two keys: create never fails
\* half way, with one key inserted (SessionTable::create and init).
THEOREM HashHasAlwaysRoom == Spec => []HashNeverRefuses
<1>1. IInv => HashNeverRefuses
  BY HashHasRoom, Zenon DEF IInv
<1>. QED BY InitIInv, NextIInv, <1>1, PTL DEF Spec
=============================================================================
