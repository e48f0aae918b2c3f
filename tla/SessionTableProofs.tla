------------------------- MODULE SessionTableProofs -------------------------
(***************************************************************************)
(* Proofs about SessionTable, for every capacity, wheel size, budget and   *)
(* set of keys.                                                            *)
(***************************************************************************)
EXTENDS SessionTable, TLAPS

\* j follows i on a list: they point at each other and are on the same list.
Follows(w, i, j) ==
  /\ w.prev[i] # kFree
  /\ w.prev[j] = i
  /\ (i \in w.in_pending <=> j \in w.in_pending)
  /\ i \notin w.in_pending => SlotOf(w.slot_tick[i]) = SlotOf(w.slot_tick[j])

\* The lists are well formed.  h is the chain expire has taken out of its slot
\* but not yet pushed; its first session may still point back.
ListsOK(w, h) ==
  /\ \A i \in Idx : w.next[i] # kNil => Follows(w, i, w.next[i])
  /\ \A i \in Idx : w.prev[i] \in Idx /\ i # h => w.next[w.prev[i]] = i
  /\ \A s \in Slots : w.slots[s] # kNil =>
       /\ w.prev[w.slots[s]] = kNil
       /\ w.slots[s] \notin w.in_pending
       /\ SlotOf(w.slot_tick[w.slots[s]]) = s
  /\ w.pending # kNil => w.prev[w.pending] = kNil /\ w.pending \in w.in_pending

\* Nothing points at i.
Unlinked(w, i) ==
  /\ w.next[i] = kNil
  /\ w.prev[i] \in {kNil, kFree}
  /\ \A k \in Idx : w.next[k] # i /\ w.prev[k] # i
  /\ \A s \in Slots : w.slots[s] # i
  /\ w.pending # i

\* h, if not empty, starts a chain of live sessions that no list holds.
ChainOK(w, h) ==
  h # kNil => /\ w.prev[h] # kFree
              /\ h \notin w.in_pending
              /\ \A k \in Idx : w.next[k] # h
              /\ \A s \in Slots : w.slots[s] # h

LEMMA Sentinels == kNil \notin Idx /\ kFree \notin Idx /\ kNil # kFree
BY SessionConstants

LEMMA TouchFacts ==
  ASSUME NEW i, NEW t, Touch(i, t)
  PROVE  /\ i \in Live /\ pc = "idle" /\ pc' = pc /\ now' = now
         /\ hash' = hash /\ client' = client /\ server' = server
         /\ expire_tick' = [expire_tick EXCEPT ![i] = Deadline(t)]
BY DEF Touch, loopVars

LEMMA PopDueFacts ==
  ASSUME ExpirePopDue
  PROVE  /\ RemoveFrom(pending_pop(wheel), wheel.pending) /\ now' = now /\ pc' = pc
         /\ pc = "loop" /\ expire_tick[wheel.pending] <= now /\ wheel.pending # kNil
BY DEF ExpirePopDue

LEMMA OneMore ==
  ASSUME NEW a \in Nat, NEW b \in Nat, a <= b
  PROVE  a < a + 1 /\ a <= b + 1
OBVIOUS

LEMMA Between ==
  ASSUME NEW a \in Nat, NEW b \in Nat, NEW c \in Nat, a < b, b < c
  PROVE  a < c
OBVIOUS

LEMMA SlotRange ==
  ASSUME NEW t \in Nat
  PROVE  SlotOf(t) \in Slots
BY SessionConstants DEF SlotOf, Slots

LEMMA LinkFields ==
  ASSUME NEW w \in WheelType, NEW i \in Idx, NEW t \in Nat, cur_tick \in Nat
  PROVE  LET u   == IF t < cur_tick THEN cur_tick ELSE t
             new == wheel_link(w, i, t)
         IN  /\ u \in Nat
             /\ SlotOf(u) \in Slots
             /\ new.slots = [w.slots EXCEPT ![SlotOf(u)] = i]
             /\ new.pending = w.pending
             /\ new.prev = [k \in Idx |-> IF k = i THEN kNil
                                          ELSE IF k = w.slots[SlotOf(u)] THEN i
                                          ELSE w.prev[k]]
             /\ new.next = [w.next EXCEPT ![i] = w.slots[SlotOf(u)]]
             /\ new.slot_tick = [w.slot_tick EXCEPT ![i] = u]
             /\ new.in_pending = w.in_pending \ {i}
             /\ new \in WheelType
<1> DEFINE u == IF t < cur_tick THEN cur_tick ELSE t
           new == wheel_link(w, i, t)
<1>1. u \in Nat
  OBVIOUS
<1>2. SlotOf(u) \in Slots
  BY <1>1, SlotRange
<1>3. /\ new.slots = [w.slots EXCEPT ![SlotOf(u)] = i]
      /\ new.pending = w.pending
      /\ new.prev = [k \in Idx |-> IF k = i THEN kNil
                                   ELSE IF k = w.slots[SlotOf(u)] THEN i
                                   ELSE w.prev[k]]
      /\ new.next = [w.next EXCEPT ![i] = w.slots[SlotOf(u)]]
      /\ new.slot_tick = [w.slot_tick EXCEPT ![i] = u]
      /\ new.in_pending = w.in_pending \ {i}
  BY <1>1, <1>2 DEF wheel_link, WheelType
<1>4. new \in WheelType
  BY <1>1, <1>2, ZenonT(60) DEF wheel_link, WheelType
<1>. QED BY <1>1, <1>2, <1>3, <1>4, Zenon

LEMMA UnlinkFields ==
  ASSUME NEW w \in WheelType, NEW i \in Idx
  PROVE  LET slot == SlotOf(w.slot_tick[i])
             new  == wheel_unlink(w, i)
         IN  /\ slot \in Slots
             /\ new.slots = [w.slots EXCEPT ![slot] =
                               IF w.prev[i] = kNil /\ i \notin w.in_pending
                               THEN w.next[i] ELSE w.slots[slot]]
             /\ new.pending = IF w.prev[i] = kNil /\ i \in w.in_pending
                              THEN w.next[i] ELSE w.pending
             /\ new.prev = [k \in Idx |-> IF k = i THEN kNil
                                          ELSE IF k = w.next[i] THEN w.prev[i]
                                          ELSE w.prev[k]]
             /\ new.next = [k \in Idx |-> IF k = i THEN kNil
                                          ELSE IF k = w.prev[i] THEN w.next[i]
                                          ELSE w.next[k]]
             /\ new.slot_tick = w.slot_tick
             /\ new.in_pending = w.in_pending
             /\ new \in WheelType
<1> DEFINE slot == SlotOf(w.slot_tick[i])
           new  == wheel_unlink(w, i)
<1>1. slot \in Slots
  BY SlotRange DEF WheelType
<1>2. /\ new.slots = [w.slots EXCEPT ![slot] =
                        IF w.prev[i] = kNil /\ i \notin w.in_pending
                        THEN w.next[i] ELSE w.slots[slot]]
      /\ new.pending = IF w.prev[i] = kNil /\ i \in w.in_pending
                       THEN w.next[i] ELSE w.pending
  BY <1>1 DEF wheel_unlink, WheelType
<1>3. /\ new.prev = [k \in Idx |-> IF k = i THEN kNil
                                   ELSE IF k = w.next[i] THEN w.prev[i]
                                   ELSE w.prev[k]]
      /\ new.next = [k \in Idx |-> IF k = i THEN kNil
                                   ELSE IF k = w.prev[i] THEN w.next[i]
                                   ELSE w.next[k]]
      /\ new.slot_tick = w.slot_tick
      /\ new.in_pending = w.in_pending
  BY DEF wheel_unlink, WheelType
<1>4. new \in WheelType
  BY <1>1, ZenonT(40) DEF wheel_unlink, WheelType
<1>. QED BY <1>1, <1>2, <1>3, <1>4, Zenon

LEMMA PushFields ==
  ASSUME NEW w \in WheelType, NEW i \in Idx
  PROVE  LET new == pending_push(w, i)
         IN  /\ new.slots = w.slots
             /\ new.pending = i
             /\ new.prev = [k \in Idx |-> IF k = i THEN kNil
                                          ELSE IF k = w.pending THEN i
                                          ELSE w.prev[k]]
             /\ new.next = [w.next EXCEPT ![i] = w.pending]
             /\ new.slot_tick = w.slot_tick
             /\ new.in_pending = w.in_pending \cup {i}
             /\ new \in WheelType
BY Zenon DEF pending_push, WheelType

\* wheel_link puts an unlinked session at the head of a slot.
LEMMA LinkOK ==
  ASSUME NEW w \in WheelType, NEW i \in Idx, NEW t \in Nat, cur_tick \in Nat,
         ListsOK(w, kNil), Unlinked(w, i)
  PROVE  ListsOK(wheel_link(w, i, t), kNil)
<1> DEFINE u == IF t < cur_tick THEN cur_tick ELSE t
           new == wheel_link(w, i, t)
           old == w.slots[SlotOf(u)]
<1>0. /\ u \in Nat
      /\ SlotOf(u) \in Slots
      /\ new.slots = [w.slots EXCEPT ![SlotOf(u)] = i]
      /\ new.pending = w.pending
      /\ new.prev = [k \in Idx |-> IF k = i THEN kNil
                                   ELSE IF k = old THEN i ELSE w.prev[k]]
      /\ new.next = [w.next EXCEPT ![i] = old]
      /\ new.slot_tick = [w.slot_tick EXCEPT ![i] = u]
      /\ new.in_pending = w.in_pending \ {i}
      /\ new \in WheelType
  BY LinkFields, Zenon
<1> HIDE DEF u, new
<1>1. ASSUME NEW k \in Idx, new.next[k] # kNil
      PROVE  Follows(new, k, new.next[k])
  BY <1>0, <1>1, Sentinels DEF ListsOK, Follows, Unlinked, WheelType
<1>2. ASSUME NEW k \in Idx, new.prev[k] \in Idx
      PROVE  new.next[new.prev[k]] = k
  BY <1>0, <1>2, Sentinels DEF ListsOK, Unlinked, WheelType
<1>3. ASSUME NEW s \in Slots, new.slots[s] # kNil
      PROVE  /\ new.prev[new.slots[s]] = kNil
             /\ new.slots[s] \notin new.in_pending
             /\ SlotOf(new.slot_tick[new.slots[s]]) = s
  BY <1>0, <1>3, Sentinels DEF ListsOK, Unlinked, WheelType
<1>4. new.pending # kNil =>
        new.prev[new.pending] = kNil /\ new.pending \in new.in_pending
  BY <1>0, Sentinels DEF ListsOK, Unlinked, WheelType
<1>. QED BY <1>1, <1>2, <1>3, <1>4, Zenon DEF ListsOK, new

\* wheel_unlink takes a live session off its list.
LEMMA UnlinkOK ==
  ASSUME NEW w \in WheelType, NEW i \in Idx,
         ListsOK(w, kNil), w.prev[i] # kFree
  PROVE  ListsOK(wheel_unlink(w, i), kNil) /\ Unlinked(wheel_unlink(w, i), i)
<1> DEFINE slot == SlotOf(w.slot_tick[i])
           new  == wheel_unlink(w, i)
<1>0. /\ slot \in Slots
      /\ new.slots = [w.slots EXCEPT ![slot] =
                        IF w.prev[i] = kNil /\ i \notin w.in_pending
                        THEN w.next[i] ELSE w.slots[slot]]
      /\ new.pending = IF w.prev[i] = kNil /\ i \in w.in_pending
                       THEN w.next[i] ELSE w.pending
      /\ new.prev = [k \in Idx |-> IF k = i THEN kNil
                                   ELSE IF k = w.next[i] THEN w.prev[i]
                                   ELSE w.prev[k]]
      /\ new.next = [k \in Idx |-> IF k = i THEN kNil
                                   ELSE IF k = w.prev[i] THEN w.next[i]
                                   ELSE w.next[k]]
      /\ new.slot_tick = w.slot_tick
      /\ new.in_pending = w.in_pending
      /\ new \in WheelType
  BY UnlinkFields, Zenon
<1> HIDE DEF slot, new
<1>1. ASSUME NEW k \in Idx, new.next[k] # kNil
      PROVE  Follows(new, k, new.next[k])
  BY <1>0, <1>1, Sentinels DEF ListsOK, Follows, WheelType
<1>2. ASSUME NEW k \in Idx, new.prev[k] \in Idx
      PROVE  new.next[new.prev[k]] = k
  BY <1>0, <1>2, Sentinels DEF ListsOK, Follows, WheelType
<1>3. ASSUME NEW s \in Slots, new.slots[s] # kNil
      PROVE  /\ new.prev[new.slots[s]] = kNil
             /\ new.slots[s] \notin new.in_pending
             /\ SlotOf(new.slot_tick[new.slots[s]]) = s
  BY <1>0, <1>3, Sentinels, SMTT(60) DEF ListsOK, Follows, WheelType, slot
<1>4. new.pending # kNil =>
        new.prev[new.pending] = kNil /\ new.pending \in new.in_pending
  BY <1>0, Sentinels DEF ListsOK, Follows, WheelType
<1>5. Unlinked(new, i)
  BY <1>0, Sentinels DEF ListsOK, Follows, Unlinked, WheelType, slot
<1>. QED BY <1>1, <1>2, <1>3, <1>4, <1>5, Zenon DEF ListsOK, new

\* expire moves the first session of the chain it took down to the pending list.
LEMMA PushOK ==
  ASSUME NEW w \in WheelType, NEW h \in Idx,
         ListsOK(w, h), ChainOK(w, h)
  PROVE  /\ ListsOK(pending_push(w, h), w.next[h])
         /\ ChainOK(pending_push(w, h), w.next[h])
<1> DEFINE new == pending_push(w, h)
           nxt == w.next[h]
<1>0. /\ new.slots = w.slots
      /\ new.pending = h
      /\ new.prev = [k \in Idx |-> IF k = h THEN kNil
                                   ELSE IF k = w.pending THEN h ELSE w.prev[k]]
      /\ new.next = [w.next EXCEPT ![h] = w.pending]
      /\ new.slot_tick = w.slot_tick
      /\ new.in_pending = w.in_pending \cup {h}
      /\ new \in WheelType
  BY PushFields, Zenon
<1> HIDE DEF new
<1>1. ASSUME NEW k \in Idx, new.next[k] # kNil
      PROVE  Follows(new, k, new.next[k])
  BY <1>0, <1>1, Sentinels DEF ListsOK, ChainOK, Follows, WheelType
<1>2. ASSUME NEW k \in Idx, new.prev[k] \in Idx, k # nxt
      PROVE  new.next[new.prev[k]] = k
  BY <1>0, <1>2, Sentinels DEF ListsOK, ChainOK, Follows, WheelType
<1>3. ASSUME NEW s \in Slots, new.slots[s] # kNil
      PROVE  /\ new.prev[new.slots[s]] = kNil
             /\ new.slots[s] \notin new.in_pending
             /\ SlotOf(new.slot_tick[new.slots[s]]) = s
  BY <1>0, <1>3, Sentinels DEF ListsOK, ChainOK, WheelType
<1>4. new.prev[new.pending] = kNil /\ new.pending \in new.in_pending
  BY <1>0, Sentinels, Zenon DEF WheelType
<1>5. ChainOK(new, nxt)
  BY <1>0, Sentinels DEF ListsOK, ChainOK, Follows, WheelType
<1>. QED BY <1>1, <1>2, <1>3, <1>4, <1>5, Zenon DEF ListsOK, new

LiveIn(w) == {i \in Idx : w.prev[i] # kFree}

LEMMA LinkLive ==
  ASSUME NEW w \in WheelType, NEW i \in Idx, NEW t \in Nat, cur_tick \in Nat,
         ListsOK(w, kNil)
  PROVE  /\ wheel_link(w, i, t) \in WheelType
         /\ LiveIn(wheel_link(w, i, t)) = LiveIn(w) \cup {i}
<1> DEFINE u   == IF t < cur_tick THEN cur_tick ELSE t
           new == wheel_link(w, i, t)
<1>1. /\ u \in Nat
      /\ SlotOf(u) \in Slots
      /\ new.slots = [w.slots EXCEPT ![SlotOf(u)] = i]
      /\ new.pending = w.pending
      /\ new.prev = [k \in Idx |-> IF k = i THEN kNil
                                   ELSE IF k = w.slots[SlotOf(u)] THEN i
                                   ELSE w.prev[k]]
      /\ new.next = [w.next EXCEPT ![i] = w.slots[SlotOf(u)]]
      /\ new.slot_tick = [w.slot_tick EXCEPT ![i] = u]
      /\ new.in_pending = w.in_pending \ {i}
      /\ new \in WheelType
  BY LinkFields, Zenon
<1> HIDE DEF u, new
<1>2. \A k \in Idx : new.prev[k] # kFree <=> w.prev[k] # kFree \/ k = i
  BY <1>1, Sentinels DEF ListsOK, WheelType
<1>. QED BY <1>1, <1>2 DEF LiveIn, new

LEMMA UnlinkLive ==
  ASSUME NEW w \in WheelType, NEW i \in LiveIn(w), ListsOK(w, kNil)
  PROVE  /\ wheel_unlink(w, i) \in WheelType
         /\ LiveIn(wheel_unlink(w, i)) = LiveIn(w)
<1> DEFINE new == wheel_unlink(w, i)
<1>0. i \in Idx /\ w.prev[i] # kFree
  BY DEF LiveIn
<1>1. /\ new.prev = [k \in Idx |-> IF k = i THEN kNil
                                   ELSE IF k = w.next[i] THEN w.prev[i]
                                   ELSE w.prev[k]]
      /\ new \in WheelType
  BY <1>0, UnlinkFields, Zenon
<1> HIDE DEF new
<1>2. \A k \in Idx : new.prev[k] # kFree <=> w.prev[k] # kFree
  BY <1>0, <1>1, Sentinels DEF ListsOK, Follows, WheelType
<1>. QED BY <1>1, <1>2, Zenon DEF LiveIn, new

\* pending_pop leaves the popped session live and off every list.
LEMMA PopOK ==
  ASSUME NEW w \in WheelType, ListsOK(w, kNil), w.pending # kNil
  PROVE  /\ pending_pop(w) \in WheelType
         /\ ListsOK(pending_pop(w), kNil)
         /\ Unlinked(pending_pop(w), w.pending)
         /\ LiveIn(pending_pop(w)) = LiveIn(w)
         /\ w.pending \in LiveIn(w)
<1> DEFINE i   == w.pending
           mid == wheel_unlink(w, i)
           new == pending_pop(w)
<1>1. i \in Idx /\ w.prev[i] # kFree /\ i \in LiveIn(w)
  BY Sentinels, Zenon DEF ListsOK, WheelType, LiveIn
<1>2. /\ mid \in WheelType /\ LiveIn(mid) = LiveIn(w)
      /\ ListsOK(mid, kNil) /\ Unlinked(mid, i)
  BY <1>1, UnlinkOK, UnlinkLive
<1> HIDE DEF mid, i
<1>3. new = [mid EXCEPT !.in_pending = @ \ {i}]
  BY DEF pending_pop, mid, i
<1> HIDE DEF new
<1>4. /\ new \in WheelType
      /\ new.slots = mid.slots /\ new.pending = mid.pending
      /\ new.prev = mid.prev /\ new.next = mid.next
      /\ new.slot_tick = mid.slot_tick
      /\ new.in_pending = mid.in_pending \ {i}
  BY <1>2, <1>3, Zenon DEF WheelType
<1>5. ListsOK(new, kNil)
  BY <1>1, <1>2, <1>4, Sentinels DEF ListsOK, Unlinked, Follows, WheelType
<1>6. Unlinked(new, i) /\ LiveIn(new) = LiveIn(w)
  BY <1>2, <1>4, Zenon DEF Unlinked, LiveIn
<1>. QED BY <1>1, <1>4, <1>5, <1>6, Zenon DEF new, i

\* remove, seen on the wheel: the session is off its list and free.
LEMMA FreeOK ==
  ASSUME NEW w \in WheelType, NEW i \in LiveIn(w), ListsOK(w, kNil),
         NEW new, new = [wheel_unlink(w, i) EXCEPT !.prev[i] = kFree,
                                                   !.slot_tick[i] = 0,
                                                   !.in_pending = @ \ {i}]
  PROVE  /\ new \in WheelType
         /\ ListsOK(new, kNil)
         /\ LiveIn(new) = LiveIn(w) \ {i}
<1> DEFINE mid == wheel_unlink(w, i)
<1>1. i \in Idx /\ w.prev[i] # kFree
  BY DEF LiveIn
<1>2. /\ mid \in WheelType /\ LiveIn(mid) = LiveIn(w)
      /\ ListsOK(mid, kNil) /\ Unlinked(mid, i)
  BY <1>1, UnlinkOK, UnlinkLive
<1> HIDE DEF mid
<1>3. new = [mid EXCEPT !.prev[i] = kFree, !.slot_tick[i] = 0,
                        !.in_pending = @ \ {i}]
  BY DEF mid
<1>4. /\ new \in WheelType
      /\ new.slots = mid.slots /\ new.pending = mid.pending
      /\ new.prev = [mid.prev EXCEPT ![i] = kFree] /\ new.next = mid.next
      /\ new.slot_tick = [mid.slot_tick EXCEPT ![i] = 0]
      /\ new.in_pending = mid.in_pending \ {i}
  <2>1. /\ new.slots = mid.slots /\ new.pending = mid.pending
        /\ new.next = mid.next
        /\ new.prev = [mid.prev EXCEPT ![i] = kFree]
        /\ new.slot_tick = [mid.slot_tick EXCEPT ![i] = 0]
        /\ new.in_pending = mid.in_pending \ {i}
    BY <1>2, <1>3, Zenon DEF WheelType
  <2>2. [mid EXCEPT !.prev[i] = kFree] \in WheelType
    BY <1>1, <1>2, Zenon DEF WheelType
  <2>3. [mid EXCEPT !.prev[i] = kFree, !.slot_tick[i] = 0] \in WheelType
    BY <1>1, <1>2, <2>2, Zenon DEF WheelType
  <2> DEFINE m == [mid EXCEPT !.prev[i] = kFree, !.slot_tick[i] = 0]
  <2>4. new = [m EXCEPT !.in_pending = @ \ {i}] /\ m \in WheelType
    BY <1>3, <2>3
  <2> HIDE DEF m
  <2>5. new \in WheelType
    BY <2>4 DEF WheelType
  <2>. QED BY <2>1, <2>5, Zenon
<1>5. ListsOK(new, kNil)
  BY <1>1, <1>2, <1>4, Sentinels, SMTT(60) DEF ListsOK, Unlinked, Follows, WheelType
<1>6. LiveIn(new) = LiveIn(w) \ {i}
  <2>1. \A k \in Idx : new.prev[k] # kFree <=> mid.prev[k] # kFree /\ k # i
    BY <1>1, <1>2, <1>4 DEF WheelType
  <2>. QED BY <1>2, <2>1, Zenon DEF LiveIn
<1>. QED BY <1>4, <1>5, <1>6, Zenon

LEMMA PushLive ==
  ASSUME NEW w \in WheelType, NEW h \in Idx, ListsOK(w, h), ChainOK(w, h)
  PROVE  /\ pending_push(w, h) \in WheelType
         /\ LiveIn(pending_push(w, h)) = LiveIn(w)
<1> DEFINE new == pending_push(w, h)
<1>1. /\ new.prev = [k \in Idx |-> IF k = h THEN kNil
                                   ELSE IF k = w.pending THEN h ELSE w.prev[k]]
      /\ new \in WheelType
  BY PushFields, Zenon
<1> HIDE DEF new
<1>2. \A k \in Idx : new.prev[k] # kFree <=> w.prev[k] # kFree
  BY <1>1, Sentinels DEF ListsOK, ChainOK, WheelType
<1>. QED BY <1>1, <1>2 DEF LiveIn, new

(***************************************************************************)
(* The inductive invariant.  KeysExact and FreeExact are about the hash    *)
(* and the free stack, but a wheel list that held a free session would let *)
(* wheel_link or wheel_unlink overwrite its kFree mark, and the index      *)
(* would be in use and on the free stack at once.  So the well-formedness  *)
(* of the lists is part of the invariant.                                  *)
(***************************************************************************)
IInv ==
  /\ TypeOK
  /\ ListsOK(wheel, head)
  /\ ChainOK(wheel, head)
  /\ pc # "take" => head = kNil
  /\ FreeExact
  /\ KeysExact

LEMMA InitIInv == Init => IInv
<1> SUFFICES ASSUME Init PROVE IInv
  OBVIOUS
<1>1. TypeOK
  BY SessionConstants DEF Init, TypeOK, WheelType, Slots, Idx, Keys
<1>2. ListsOK(wheel, head) /\ ChainOK(wheel, head)
  BY SessionConstants, Zenon DEF Init, ListsOK, ChainOK, Slots
<1>3. Live = {}
  BY Zenon DEF Init, Live
<1>4. FreeExact
  BY <1>3, SessionConstants DEF Init, FreeExact, Idx
<1>5. KeysExact
  BY <1>3, Zenon DEF Init, KeysExact
<1>. QED BY <1>1, <1>2, <1>4, <1>5, Zenon DEF IInv, Init

\* remove(s): both keys leave the hash and the index returns to the stack.
LEMMA RemoveFromKeeps ==
  ASSUME TypeOK, FreeExact, KeysExact,
         NEW w \in WheelType, ListsOK(w, kNil), LiveIn(w) = Live,
         NEW i \in Live, RemoveFrom(w, i)
  PROVE  /\ wheel' \in WheelType
         /\ ListsOK(wheel', kNil)
         /\ hash' \in [Keys -> Idx \cup {kNil}]
         /\ free_stack' \in Seq(Idx)
         /\ client' \in [Idx -> Clients \cup {NoKey}]
         /\ server' \in [Idx -> Servers \cup {NoKey}]
         /\ expire_tick' \in [Idx -> Nat]
         /\ Live' = Live \ {i}
         /\ FreeExact'
         /\ KeysExact'
<1>1. i \in Idx /\ i \in LiveIn(w)
  BY DEF Live
<1>2. /\ wheel' \in WheelType
      /\ ListsOK(wheel', kNil)
      /\ LiveIn(wheel') = LiveIn(w) \ {i}
  BY <1>1, FreeOK, Zenon DEF RemoveFrom
<1>3. Live' = Live \ {i}
  BY <1>2 DEF Live, LiveIn
<1>4. /\ hash' \in [Keys -> Idx \cup {kNil}]
      /\ free_stack' \in Seq(Idx)
      /\ client' \in [Idx -> Clients \cup {NoKey}]
      /\ server' \in [Idx -> Servers \cup {NoKey}]
      /\ expire_tick' \in [Idx -> Nat]
  BY <1>1 DEF TypeOK, RemoveFrom
<1>5. FreeExact'
  <2>1. free_stack' = Append(free_stack, i) /\ free_stack \in Seq(Idx)
    BY DEF RemoveFrom, TypeOK
  <2>2. \A n \in 1 .. Len(free_stack) : free_stack[n] # i
    BY <1>1 DEF FreeExact
  <2>3. /\ Len(free_stack') = Len(free_stack) + 1
        /\ \A n \in 1 .. Len(free_stack) : free_stack'[n] = free_stack[n]
        /\ free_stack'[Len(free_stack) + 1] = i
        /\ Len(free_stack) \in Nat
    BY <2>1, <1>1
  <2>4. \A m, n \in 1 .. Len(free_stack') :
          free_stack'[m] = free_stack'[n] => m = n
    BY <2>2, <2>3 DEF FreeExact
  <2>5. ASSUME NEW k \in Idx
        PROVE  k \in Live' <=>
                 \A n \in 1 .. Len(free_stack') : free_stack'[n] # k
    <3>1. CASE k = i
      BY <1>3, <2>3, <3>1
    <3>2. CASE k # i
      BY <1>3, <2>3, <3>2 DEF FreeExact
    <3>. QED BY <3>1, <3>2
  <2>. QED BY <2>4, <2>5 DEF FreeExact
<1>6. KeysExact'
  <2>1. /\ hash' = [k \in Keys |-> IF k \in {client[i], server[i]}
                                   THEN kNil ELSE hash[k]]
        /\ client' = [client EXCEPT ![i] = NoKey]
        /\ server' = [server EXCEPT ![i] = NoKey]
    BY DEF RemoveFrom
  <2>2. ASSUME NEW k \in Live'
        PROVE  /\ client'[k] \in Clients
               /\ hash'[client'[k]] = k
               /\ server'[k] # NoKey => hash'[server'[k]] = k
    <3>1. /\ k \in Live /\ k # i /\ k \in Idx
          /\ client'[k] = client[k] /\ server'[k] = server[k]
      BY <1>3, <2>1, Zenon DEF TypeOK, Live
    <3>2. /\ client[k] \in Clients /\ hash[client[k]] = k
          /\ server[k] # NoKey => server[k] \in Servers /\ hash[server[k]] = k
      BY <3>1, Zenon DEF KeysExact, TypeOK
    <3>3. /\ client[k] \notin {client[i], server[i]}
          /\ server[k] # NoKey => server[k] \notin {client[i], server[i]}
      BY <3>1, <3>2, <1>1, SessionConstants DEF KeysExact, TypeOK, Keys
    <3>. QED BY <2>1, <3>1, <3>2, <3>3, Zenon DEF Keys
  <2>3. ASSUME NEW k \in Keys, hash'[k] # kNil
        PROVE  /\ hash'[k] \in Live'
               /\ k \in {client'[hash'[k]], server'[hash'[k]]}
    <3>1. hash'[k] = hash[k] /\ k \notin {client[i], server[i]}
      BY <2>1, <2>3, Zenon
    <3>2. hash[k] \in Live /\ k \in {client[hash[k]], server[hash[k]]}
      BY <2>3, <3>1, Zenon DEF KeysExact
    <3>3. hash[k] # i
      BY <3>1, <3>2, Zenon
    <3>. QED BY <1>3, <2>1, <3>1, <3>2, <3>3, Zenon DEF TypeOK, Live
  <2>. QED BY <2>2, <2>3, Zenon DEF KeysExact
<1>. QED BY <1>2, <1>3, <1>4, <1>5, <1>6

LEMMA TypeWheel == TypeOK <=> /\ wheel \in WheelType
                              /\ hash \in [Keys -> Idx \cup {kNil}]
                              /\ free_stack \in Seq(Idx)
                              /\ client \in [Idx -> Clients \cup {NoKey}]
                              /\ server \in [Idx -> Servers \cup {NoKey}]
                              /\ expire_tick \in [Idx -> Nat]
                              /\ cur_tick \in Nat
                              /\ now \in Nat
                              /\ pc \in {"idle", "loop", "take"}
                              /\ budget \in 0 .. ExpireBudget
                              /\ head \in Idx \cup {kNil}
BY Zenon DEF TypeOK

LEMMA PopLast ==
  ASSUME NEW q \in Seq(Idx), Len(q) \in Nat \ {0}
  PROVE  LET r == SubSeq(q, 1, Len(q) - 1)
         IN  Len(r) = Len(q) - 1 /\ \A n \in 1 .. Len(r) : r[n] = q[n]
<1> DEFINE m == Len(q) - 1
<1>1. m \in Nat /\ m = Len(q) - 1
  OBVIOUS
<1> HIDE DEF m
<1>2. Len(SubSeq(q, 1, m)) = m
  BY <1>1
<1>3. ASSUME NEW n \in 1 .. m PROVE SubSeq(q, 1, m)[n] = q[n]
  BY <1>1
<1>. QED BY <1>2, <1>3 DEF m

LEMMA DeadlineNat ==
  ASSUME now \in Nat, NEW t \in Timeouts
  PROVE  Deadline(t) \in Nat
BY SessionConstants DEF Deadline

\* create: the index comes off the stack and both keys lead to it.
LEMMA CreateKeeps ==
  ASSUME IInv, NEW c \in Clients, NEW s \in Servers \cup {NoKey},
         NEW t \in Timeouts, Create(c, s, t)
  PROVE  IInv'
<1> DEFINE i == free_stack[Len(free_stack)]
           d == Deadline(t)
<1>1. /\ free_stack \in Seq(Idx) /\ Len(free_stack) \in Nat \ {0}
      /\ i \in Idx /\ d \in Nat /\ i \notin Live
      /\ head = kNil /\ wheel \in WheelType /\ ListsOK(wheel, kNil)
      /\ cur_tick \in Nat
  <2>1. free_stack \in Seq(Idx) /\ now \in Nat /\ cur_tick \in Nat
    BY DEF IInv, TypeOK
  <2>2. Len(free_stack) \in Nat \ {0}
    BY <2>1 DEF Create
  <2>3. i \in Idx
    BY <2>1, <2>2
  <2>4. i \notin Live
    BY <2>2, <2>3 DEF IInv, FreeExact
  <2>5. d \in Nat
    BY <2>1, DeadlineNat
  <2>6. head = kNil /\ wheel \in WheelType /\ ListsOK(wheel, kNil)
    BY TypeWheel, Zenon DEF IInv, Create
  <2>. QED BY <2>1, <2>2, <2>3, <2>4, <2>5, <2>6
<1>2. /\ hash' = [k \in Keys |-> IF k \in {c, s} THEN i ELSE hash[k]]
      /\ client' = [client EXCEPT ![i] = c]
      /\ server' = [server EXCEPT ![i] = s]
      /\ expire_tick' = [expire_tick EXCEPT ![i] = d]
      /\ wheel' = wheel_link(wheel, i, d)
      /\ free_stack' = SubSeq(free_stack, 1, Len(free_stack) - 1)
      /\ UNCHANGED <<cur_tick, now, pc, budget, head>>
  BY Zenon DEF Create, loopVars
<1> HIDE DEF i, d
<1>3. Unlinked(wheel, i)
  <2>1. wheel.prev[i] = kFree
    BY <1>1 DEF Live
  <2>2. wheel.next[i] = kNil
    BY <1>1, <2>1, Zenon DEF ListsOK, Follows
  <2>3. \A k \in Idx : wheel.next[k] # i
    BY <1>1, <2>1, SessionConstants DEF ListsOK, Follows
  <2>4. \A k \in Idx : wheel.prev[k] # i
    BY <1>1, <2>2, SessionConstants DEF ListsOK
  <2>5. wheel.pending # i /\ \A x \in Slots : wheel.slots[x] # i
    BY <1>1, <2>1, SessionConstants DEF ListsOK
  <2>. QED BY <2>1, <2>2, <2>3, <2>4, <2>5 DEF Unlinked
<1>4. /\ wheel' \in WheelType
      /\ ListsOK(wheel', kNil)
      /\ LiveIn(wheel') = LiveIn(wheel) \cup {i}
  BY <1>1, <1>2, <1>3, LinkOK, LinkLive, Zenon
<1>5. Live' = Live \cup {i}
  BY <1>4, Zenon DEF Live, LiveIn
<1>6. TypeOK'
  <2>1. hash' \in [Keys -> Idx \cup {kNil}]
    BY <1>1, <1>2, Zenon DEF IInv, TypeOK
  <2>2. /\ client' \in [Idx -> Clients \cup {NoKey}]
        /\ server' \in [Idx -> Servers \cup {NoKey}]
        /\ expire_tick' \in [Idx -> Nat]
    BY <1>1, <1>2, Zenon DEF IInv, TypeOK
  <2>3. free_stack' \in Seq(Idx)
    BY <1>1, <1>2
  <2>4. wheel' \in WheelType /\ UNCHANGED <<cur_tick, now, pc, budget, head>>
    BY <1>2, <1>4, Zenon
  <2>. QED BY <2>1, <2>2, <2>3, <2>4, Zenon DEF IInv, TypeOK
<1>7. ListsOK(wheel', head') /\ ChainOK(wheel', head')
  BY <1>1, <1>2, <1>4, Zenon DEF ChainOK
<1>8. FreeExact'
  <2>1. /\ Len(free_stack') = Len(free_stack) - 1
        /\ \A n \in 1 .. Len(free_stack') : free_stack'[n] = free_stack[n]
    BY <1>1, <1>2, PopLast, Zenon
  <2>2. \A m, n \in 1 .. Len(free_stack') :
          free_stack'[m] = free_stack'[n] => m = n
    BY <1>1, <2>1, SMTT(60) DEF IInv, FreeExact
  <2>3. ASSUME NEW k \in Idx
        PROVE  k \in Live' <=>
                 \A n \in 1 .. Len(free_stack') : free_stack'[n] # k
    <3>1. CASE k = i
      BY <1>1, <1>5, <2>1, <3>1, SMTT(60) DEF IInv, FreeExact, i
    <3>2. CASE k # i
      <4>1. k \in Live <=> \A n \in 1 .. Len(free_stack) : free_stack[n] # k
        BY Zenon DEF IInv, FreeExact
      <4>2. \A n \in 1 .. Len(free_stack) :
              n \in 1 .. Len(free_stack') \/ free_stack[n] = i
        BY <1>1, <2>1, SMTT(60) DEF i
      <4>3. \A n \in 1 .. Len(free_stack') : n \in 1 .. Len(free_stack)
        BY <1>1, <2>1
      <4>. QED BY <1>5, <2>1, <3>2, <4>1, <4>2, <4>3, SMTT(60)
    <3>. QED BY <3>1, <3>2
  <2>. QED BY <2>2, <2>3 DEF FreeExact
<1>9. KeysExact'
  <2>0. /\ hash[c] = kNil /\ c \in Keys
        /\ s # NoKey => s \in Keys /\ hash[s] = kNil
    BY Zenon DEF Create, Keys
  <2>1. ASSUME NEW k \in Live'
        PROVE  /\ client'[k] \in Clients
               /\ hash'[client'[k]] = k
               /\ server'[k] # NoKey => hash'[server'[k]] = k
    <3>1. CASE k = i
      BY <1>1, <1>2, <2>0, <3>1, Zenon DEF IInv, TypeOK
    <3>2. CASE k # i
      <4>1. /\ k \in Live /\ k \in Idx
            /\ client'[k] = client[k] /\ server'[k] = server[k]
        BY <1>1, <1>2, <1>5, <3>2, Zenon DEF IInv, TypeOK, Live
      <4>2. /\ client[k] \in Clients /\ hash[client[k]] = k
            /\ server[k] # NoKey => server[k] \in Keys /\ hash[server[k]] = k
        BY <4>1 DEF IInv, KeysExact, TypeOK, Keys
      <4>3. k # kNil
        BY <4>1, SessionConstants, Zenon
      <4>4. /\ client[k] \notin {c, s}
            /\ server[k] # NoKey => server[k] \notin {c, s}
        BY <2>0, <4>2, <4>3, SessionConstants, Zenon DEF Keys
      <4>. QED BY <1>2, <4>1, <4>2, <4>4, Zenon DEF Keys
    <3>. QED BY <3>1, <3>2, Zenon
  <2>2. ASSUME NEW k \in Keys, hash'[k] # kNil
        PROVE  /\ hash'[k] \in Live'
               /\ k \in {client'[hash'[k]], server'[hash'[k]]}
    <3>1. CASE k \in {c, s}
      BY <1>1, <1>2, <1>5, <3>1, Zenon DEF IInv, TypeOK
    <3>2. CASE k \notin {c, s}
      <4>1. /\ hash'[k] = hash[k] /\ hash[k] \in Live /\ hash[k] \in Idx
            /\ k \in {client[hash[k]], server[hash[k]]}
        BY <1>2, <2>2, <3>2, Zenon DEF IInv, KeysExact, Live
      <4>. QED BY <1>1, <1>2, <1>5, <4>1, Zenon DEF IInv, TypeOK
    <3>. QED BY <3>1, <3>2, Zenon
  <2>. QED BY <2>1, <2>2, Zenon DEF KeysExact
<1>. QED BY <1>1, <1>2, <1>6, <1>7, <1>8, <1>9, Zenon DEF IInv

\* A step that leaves hash, stack and keys alone and keeps the same sessions
\* live keeps KeysExact and FreeExact.
LEMMA SameKeys ==
  ASSUME FreeExact, KeysExact, Live' = Live,
         UNCHANGED <<hash, free_stack, client, server>>
  PROVE  FreeExact' /\ KeysExact'
<1>1. /\ hash' = hash /\ free_stack' = free_stack
      /\ client' = client /\ server' = server /\ Live' = Live
  OBVIOUS
<1>2. FreeExact'
  <2>1. /\ \A m, n \in 1 .. Len(free_stack) : free_stack[m] = free_stack[n] => m = n
        /\ \A i \in Idx : i \in Live <=> \A n \in 1 .. Len(free_stack) : free_stack[n] # i
    BY Zenon DEF FreeExact
  <2>. QED BY <1>1, <2>1, Zenon DEF FreeExact
<1>3. KeysExact'
  BY <1>1, Zenon DEF KeysExact
<1>. QED BY <1>2, <1>3

LEMMA RemoveKeeps ==
  ASSUME IInv, NEW i \in Idx, Remove(i)
  PROVE  IInv'
<1>1. /\ i \in Live /\ head = kNil /\ wheel \in WheelType
      /\ ListsOK(wheel, kNil) /\ LiveIn(wheel) = Live
      /\ RemoveFrom(wheel, i) /\ UNCHANGED <<cur_tick, now, pc, budget, head>>
  BY TypeWheel DEF IInv, Remove, Live, LiveIn, loopVars
<1>2. /\ wheel' \in WheelType
      /\ ListsOK(wheel', kNil)
      /\ hash' \in [Keys -> Idx \cup {kNil}]
      /\ free_stack' \in Seq(Idx)
      /\ client' \in [Idx -> Clients \cup {NoKey}]
      /\ server' \in [Idx -> Servers \cup {NoKey}]
      /\ expire_tick' \in [Idx -> Nat]
      /\ FreeExact'
      /\ KeysExact'
  BY <1>1, RemoveFromKeeps, Zenon DEF IInv
<1>3. TypeOK'
  BY <1>1, <1>2, Zenon DEF IInv, TypeOK
<1>. QED BY <1>1, <1>2, <1>3, Zenon DEF IInv, ChainOK

LEMMA TouchKeeps ==
  ASSUME IInv, NEW i \in Idx, NEW t \in Timeouts, Touch(i, t)
  PROVE  IInv'
<1> DEFINE d == Deadline(t)
<1>1. /\ i \in LiveIn(wheel) /\ wheel.prev[i] # kFree
      /\ head = kNil /\ wheel \in WheelType
      /\ ListsOK(wheel, kNil) /\ d \in Nat /\ cur_tick \in Nat
  <2>1. now \in Nat
    BY DEF IInv, TypeOK
  <2>. QED BY <2>1, TypeWheel, DeadlineNat, Zenon DEF IInv, Touch, Live, LiveIn
<1> HIDE DEF d
<1>2. /\ wheel' \in WheelType /\ ListsOK(wheel', kNil)
      /\ LiveIn(wheel') = LiveIn(wheel)
  <2>1. CASE wheel' = wheel
    BY <1>1, <2>1
  <2>2. CASE wheel' = wheel_link(wheel_unlink(wheel, i), i, d)
    <3> DEFINE mid == wheel_unlink(wheel, i)
    <3>1. /\ mid \in WheelType /\ ListsOK(mid, kNil) /\ Unlinked(mid, i)
          /\ LiveIn(mid) = LiveIn(wheel)
      BY <1>1, UnlinkOK, UnlinkLive, Zenon
    <3> HIDE DEF mid
    <3>2. /\ wheel' \in WheelType /\ ListsOK(wheel', kNil)
          /\ LiveIn(wheel') = LiveIn(mid) \cup {i}
      BY <1>1, <2>2, <3>1, LinkOK, LinkLive, Zenon DEF mid
    <3>. QED BY <1>1, <3>1, <3>2
  <2>. QED BY <2>1, <2>2, Zenon DEF Touch, d
<1>3. Live' = Live
  BY <1>2, SMTT(20) DEF Live, LiveIn
<1>4. /\ UNCHANGED <<hash, free_stack, client, server>>
      /\ UNCHANGED <<cur_tick, now, pc, budget, head>>
      /\ expire_tick' = [expire_tick EXCEPT ![i] = d]
  BY Zenon DEF Touch, loopVars, d
<1>5. TypeOK'
  BY <1>1, <1>2, <1>4, Zenon DEF IInv, TypeOK
<1>6. FreeExact' /\ KeysExact'
  BY <1>3, <1>4, SameKeys DEF IInv
<1>. QED BY <1>1, <1>2, <1>4, <1>5, <1>6, Zenon DEF IInv, ChainOK

LEMMA TakeSlotKeeps ==
  ASSUME IInv, ExpireTakeSlot
  PROVE  IInv'
<1> DEFINE slot == SlotOf(cur_tick)
<1>1. /\ wheel \in WheelType /\ ListsOK(wheel, kNil) /\ slot \in Slots
      /\ UNCHANGED <<hash, free_stack, client, server, expire_tick,
                     cur_tick, now, budget>>
      /\ pc' = "take"
      /\ head' = wheel.slots[slot]
      /\ wheel' = [wheel EXCEPT !.slots[slot] = kNil]
  <2>1. cur_tick \in Nat
    BY DEF IInv, TypeOK
  <2>. QED BY <2>1, SlotRange, TypeWheel DEF IInv, ExpireTakeSlot, keyVars
<1> HIDE DEF slot
<1>2. /\ wheel' \in WheelType
      /\ wheel'.slots = [wheel.slots EXCEPT ![slot] = kNil]
      /\ wheel'.pending = wheel.pending
      /\ wheel'.prev = wheel.prev /\ wheel'.next = wheel.next
      /\ wheel'.slot_tick = wheel.slot_tick
      /\ wheel'.in_pending = wheel.in_pending
  BY <1>1 DEF WheelType
<1>3. ListsOK(wheel', head')
  BY <1>1, <1>2, Sentinels DEF ListsOK, Follows, WheelType
<1>4. ChainOK(wheel', head')
  BY <1>1, <1>2, Sentinels DEF ListsOK, Follows, ChainOK, WheelType
<1>5. head' \in Idx \cup {kNil}
  BY <1>1 DEF WheelType
<1>6. TypeOK'
  BY <1>1, <1>2, <1>5, Zenon DEF IInv, TypeOK
<1>7. Live' = Live
  BY <1>2 DEF Live
<1>8. FreeExact' /\ KeysExact'
  BY <1>1, <1>7, SameKeys, SMTT(20) DEF IInv
<1>. QED BY <1>1, <1>3, <1>4, <1>6, <1>8, Zenon DEF IInv

LEMMA ExpirePushKeeps ==
  ASSUME IInv, ExpirePush
  PROVE  IInv'
<1>1. /\ wheel \in WheelType /\ ListsOK(wheel, head) /\ ChainOK(wheel, head)
      /\ head \in Idx
      /\ UNCHANGED <<hash, free_stack, client, server, expire_tick,
                     cur_tick, now, pc, budget>>
      /\ pc = "take"
      /\ head' = wheel.next[head]
      /\ wheel' = pending_push(wheel, head)
  BY TypeWheel, Zenon DEF IInv, ExpirePush, keyVars
<1>2. /\ wheel' \in WheelType /\ LiveIn(wheel') = LiveIn(wheel)
      /\ ListsOK(wheel', head') /\ ChainOK(wheel', head')
  BY <1>1, PushOK, PushLive, Zenon
<1>3. head' \in Idx \cup {kNil}
  BY <1>1, SMTT(20) DEF WheelType
<1>4. TypeOK'
  BY <1>1, <1>2, <1>3, Zenon DEF IInv, TypeOK
<1>5. Live' = Live
  BY <1>2 DEF Live, LiveIn
<1>6. FreeExact' /\ KeysExact'
  BY <1>1, <1>5, SameKeys DEF IInv
<1>. QED BY <1>1, <1>2, <1>4, <1>6, Zenon DEF IInv

LEMMA PopDueKeeps ==
  ASSUME IInv, ExpirePopDue
  PROVE  IInv'
<1> DEFINE i == wheel.pending
           w == pending_pop(wheel)
<1>1. /\ wheel \in WheelType /\ ListsOK(wheel, kNil) /\ i # kNil
      /\ head = kNil /\ RemoveFrom(w, i)
      /\ UNCHANGED <<cur_tick, now, pc, head>>
      /\ budget > 0 /\ budget' = budget - 1
  BY TypeWheel DEF IInv, ExpirePopDue
<1>2. /\ w \in WheelType /\ ListsOK(w, kNil) /\ LiveIn(w) = LiveIn(wheel)
      /\ i \in LiveIn(wheel)
  BY <1>1, PopOK
<1>3. LiveIn(wheel) = Live
  BY DEF Live, LiveIn
<1> HIDE DEF w, i
<1>4. /\ wheel' \in WheelType
      /\ ListsOK(wheel', kNil)
      /\ hash' \in [Keys -> Idx \cup {kNil}]
      /\ free_stack' \in Seq(Idx)
      /\ client' \in [Idx -> Clients \cup {NoKey}]
      /\ server' \in [Idx -> Servers \cup {NoKey}]
      /\ expire_tick' \in [Idx -> Nat]
      /\ FreeExact'
      /\ KeysExact'
  BY <1>1, <1>2, <1>3, RemoveFromKeeps, Zenon DEF IInv
<1>5. TypeOK'
  BY <1>1, <1>4, SessionConstants, SMTT(20) DEF IInv, TypeOK
<1>. QED BY <1>1, <1>4, <1>5 DEF IInv, ChainOK

LEMMA PopLaterKeeps ==
  ASSUME IInv, ExpirePopLater
  PROVE  IInv'
<1> DEFINE i == wheel.pending
           w == pending_pop(wheel)
<1>1. /\ wheel \in WheelType /\ ListsOK(wheel, kNil) /\ i # kNil
      /\ head = kNil /\ wheel' = wheel_link(w, i, expire_tick[i])
      /\ UNCHANGED <<hash, free_stack, client, server, expire_tick,
                     cur_tick, now, pc, head>>
      /\ budget > 0 /\ budget' = budget - 1
      /\ cur_tick \in Nat /\ expire_tick \in [Idx -> Nat]
  BY TypeWheel DEF IInv, ExpirePopLater, keyVars
<1>2. /\ w \in WheelType /\ ListsOK(w, kNil) /\ LiveIn(w) = LiveIn(wheel)
      /\ Unlinked(w, i) /\ i \in LiveIn(wheel) /\ i \in Idx
  BY <1>1, PopOK, Zenon DEF LiveIn
<1> HIDE DEF w, i
<1>3. /\ wheel' \in WheelType /\ ListsOK(wheel', kNil)
      /\ LiveIn(wheel') = LiveIn(w) \cup {i}
  <2>1. expire_tick[i] \in Nat
    BY <1>1, <1>2
  <2>. QED BY <1>1, <1>2, <2>1, LinkOK, LinkLive
<1>4. Live' = Live
  BY <1>2, <1>3 DEF Live, LiveIn
<1>5. TypeOK'
  BY <1>1, <1>3, SessionConstants DEF IInv, TypeOK
<1>6. FreeExact' /\ KeysExact'
  BY <1>1, <1>4, SameKeys DEF IInv
<1>. QED BY <1>1, <1>3, <1>5, <1>6 DEF IInv, ChainOK

\* Steps that touch neither the keys nor the lists.
LEMMA SameTableKeeps ==
  ASSUME IInv, UNCHANGED <<hash, free_stack, client, server, expire_tick,
                           wheel, head>>,
         now' \in Nat, cur_tick' \in Nat, budget' \in 0 .. ExpireBudget,
         pc' \in {"idle", "loop", "take"}, pc' # "take" => head = kNil
  PROVE  IInv'
<1>1. TypeOK'
  BY DEF IInv, TypeOK
<1>2. Live' = Live
  BY DEF Live
<1>3. FreeExact' /\ KeysExact'
  BY <1>2, SameKeys DEF IInv
<1>. QED BY <1>1, <1>3 DEF IInv

LEMMA NextIInv == IInv /\ [Next]_vars => IInv'
<1> SUFFICES ASSUME IInv, [Next]_vars PROVE IInv'
  OBVIOUS
<1>1. ASSUME NEW c \in Clients, NEW s \in Servers \cup {NoKey},
             NEW t \in Timeouts, Create(c, s, t)
      PROVE  IInv'
  BY <1>1, CreateKeeps
<1>2. ASSUME NEW i \in Idx, Remove(i) PROVE IInv'
  BY <1>2, RemoveKeeps
<1>3. ASSUME NEW i \in Idx, NEW t \in Timeouts, Touch(i, t) PROVE IInv'
  BY <1>3, TouchKeeps
<1>4. ASSUME NEW t \in 1 .. MaxTick, ExpireCall(t) PROVE IInv'
  BY <1>4, SameTableKeeps, SessionConstants, SMTT(60)
     DEF ExpireCall, IInv, TypeOK, keyVars
<1>5. CASE ExpireTakeSlot
  BY <1>5, TakeSlotKeeps
<1>6. CASE ExpirePush
  BY <1>6, ExpirePushKeeps
<1>7. CASE ExpireTaken
  BY <1>7, SameTableKeeps, SMTT(60) DEF ExpireTaken, IInv, TypeOK, keyVars
<1>8. CASE ExpirePopDue
  BY <1>8, PopDueKeeps
<1>9. CASE ExpirePopLater
  BY <1>9, PopLaterKeeps
<1>10. CASE ExpireReturn
  BY <1>10, SameTableKeeps, SessionConstants, SMTT(60)
     DEF ExpireReturn, IInv, TypeOK, keyVars
<1>11. CASE UNCHANGED vars
  BY <1>11, SameTableKeeps, Zenon DEF vars, keyVars, loopVars, IInv, TypeOK
<1>. QED
  BY <1>1, <1>2, <1>3, <1>4, <1>5, <1>6, <1>7, <1>8, <1>9, <1>10, <1>11
     DEF Next, ExpireStep

\* Whatever the capacity, the wheel size, the timeouts and the lag, the session
\* table keeps its types: every index it follows is inside the session array.
THEOREM TypeCorrect == Spec => []TypeOK
<1>1. IInv => TypeOK
  BY DEF IInv
<1>. QED BY InitIInv, NextIInv, <1>1, PTL DEF Spec

\* lookup finds a live session under exactly its own keys, at every moment of
\* create, touch, remove and expire.
THEOREM KeysAreExact == Spec => []KeysExact
<1>1. IInv => KeysExact
  BY DEF IInv
<1>. QED BY InitIInv, NextIInv, <1>1, PTL DEF Spec

\* The free stack holds exactly the sessions not in use, each once: create
\* never hands out a session in use, and remove and expire lose none.
THEOREM FreeIsExact == Spec => []FreeExact
<1>1. IInv => FreeExact
  BY SMTT(20) DEF IInv
<1>. QED BY InitIInv, NextIInv, <1>1, PTL DEF Spec

-----------------------------------------------------------------------------
(* The refinement.  A step of the table is, seen through lookup, the step   *)
(* of SessionStore of the same name; the wheel's own steps are stutters.    *)

\* A session's keys, and no others, lead to it.
LEMMA KeysOfLive ==
  ASSUME IInv, NEW i \in Live
  PROVE  /\ i \in Idx /\ i # kNil
         /\ client[i] \in Clients /\ client[i] \in Keys
         /\ server[i] \in Servers \cup {NoKey}
         /\ expire_tick[i] \in Nat
         /\ \A k \in Keys : hash[k] = i <=> k \in {client[i], server[i]}
<1>1. i \in Idx /\ i # kNil
  BY SessionConstants DEF Live
<1>2. /\ client[i] \in Clients /\ client[i] \in Keys
      /\ server[i] \in Servers \cup {NoKey} /\ expire_tick[i] \in Nat
  BY <1>1, Zenon DEF IInv, TypeOK, KeysExact, Keys
<1>3. \A k \in Keys : hash[k] = i => k \in {client[i], server[i]}
  BY <1>1 DEF IInv, KeysExact
<1>4. \A k \in Keys : k \in {client[i], server[i]} => hash[k] = i
  BY SessionConstants DEF IInv, KeysExact
<1>. QED BY <1>1, <1>2, <1>3, <1>4, Zenon

\* What lookup sees is a session, which is not the absent value.
LEMMA FoundIsEntry ==
  ASSUME IInv, NEW i \in Live
  PROVE  /\ Found(client[i]) = [client |-> client[i], server |-> server[i],
                                deadline |-> expire_tick[i]]
         /\ Found(client[i]) # NoKey
<1>1. /\ client[i] \in Clients /\ server[i] \in Servers \cup {NoKey}
      /\ expire_tick[i] \in Nat /\ hash[client[i]] = i /\ i # kNil
  BY KeysOfLive
<1>2. Found(client[i]) = [client |-> client[i], server |-> server[i],
                          deadline |-> expire_tick[i]]
  BY <1>1 DEF Found
<1>3. Found(client[i]) \in [client : Clients, server : Servers \cup {NoKey},
                            deadline : Nat]
  BY <1>1, <1>2
<1>. QED BY <1>2, <1>3, NoKeyIsNoSession

LEMMA CreateStores ==
  ASSUME IInv, NEW c \in Clients, NEW s \in Servers \cup {NoKey},
         NEW t \in Timeouts, Create(c, s, t)
  PROVE  Store!Create(c, s, t)
<1> DEFINE i == free_stack[Len(free_stack)]
           d == Deadline(t)
<1>1. /\ hash' = [k \in Keys |-> IF k \in {c, s} THEN i ELSE hash[k]]
      /\ client' = [client EXCEPT ![i] = c]
      /\ server' = [server EXCEPT ![i] = s]
      /\ expire_tick' = [expire_tick EXCEPT ![i] = d]
      /\ pc' = pc /\ now' = now /\ pc = "idle"
      /\ hash[c] = kNil /\ (s # NoKey => hash[s] = kNil)
  BY Zenon DEF Create, loopVars
<1>2. i \in Idx /\ i \notin Live /\ i # kNil
  <2>1. Len(free_stack) \in 1 .. Len(free_stack) /\ free_stack \in Seq(Idx)
    BY DEF Create, IInv, TypeOK
  <2>. QED BY <2>1, SessionConstants DEF IInv, FreeExact
<1>3. d = Store!Deadline(t)
  BY DEF Deadline, Store!Deadline
<1> HIDE DEF i, d
<1>4. ASSUME NEW k \in Keys
      PROVE  Found(k)' = IF k \in {c, s}
                         THEN [client |-> c, server |-> s, deadline |-> d]
                         ELSE Found(k)
  <2>1. CASE k \in {c, s}
    <3>1. hash'[k] = i /\ client'[i] = c /\ server'[i] = s /\ expire_tick'[i] = d
      BY <1>1, <1>2, <2>1, Zenon DEF IInv, TypeOK
    <3>. QED BY <1>2, <2>1, <3>1, Zenon DEF Found
  <2>2. CASE k \notin {c, s}
    <3>1. hash'[k] = hash[k]
      BY <1>1, <2>2
    <3>2. ASSUME hash[k] # kNil
          PROVE  /\ client'[hash[k]] = client[hash[k]]
                 /\ server'[hash[k]] = server[hash[k]]
                 /\ expire_tick'[hash[k]] = expire_tick[hash[k]]
      <4>1. hash[k] # i /\ hash[k] \in Idx
        BY <1>2, <3>2, Zenon DEF IInv, KeysExact, Live
      <4>. QED BY <1>1, <4>1, Zenon DEF IInv, TypeOK
    <3>. QED BY <2>2, <3>1, <3>2, Zenon DEF Found
  <2>. QED BY <2>1, <2>2, SMTT(20)
<1>5. Found(c) = NoKey /\ (s # NoKey => Found(s) = NoKey) /\ c \in Keys
      /\ (s # NoKey => s \in Keys)
  BY <1>1, Zenon DEF Found, Keys
<1>. QED BY <1>1, <1>3, <1>4, <1>5, Zenon DEF Store!Create, Store!Put, Store!Keys, Keys

LEMMA TouchStores ==
  ASSUME IInv, NEW i \in Idx, NEW t \in Timeouts, Touch(i, t)
  PROVE  Store!Touch(client[i], t)
<1> DEFINE d == Deadline(t)
           e == [client |-> client[i], server |-> server[i], deadline |-> d]
<1>1. /\ i \in Live /\ pc = "idle" /\ pc' = pc /\ now' = now
      /\ hash' = hash /\ client' = client /\ server' = server
      /\ expire_tick' = [expire_tick EXCEPT ![i] = d]
  BY TouchFacts, Zenon
<1>2. d = Store!Deadline(t)
  BY DEF Deadline, Store!Deadline
<1> HIDE DEF d
<1>3. ASSUME NEW k \in Keys
      PROVE  Found(k)' = IF k \in {client[i], server[i]} THEN e ELSE Found(k)
  <2>1. hash[k] = i <=> k \in {client[i], server[i]}
    BY <1>1, KeysOfLive
  <2>2. hash[k] # kNil => hash[k] \in Idx
    BY DEF IInv, TypeOK
  <2>3. i # kNil /\ expire_tick \in [Idx -> Nat]
    BY SessionConstants, Zenon DEF IInv, TypeOK
  <2>. QED BY <1>1, <2>1, <2>2, <2>3, Zenon DEF Found
<1>4. /\ Found(client[i]) = [client |-> client[i], server |-> server[i],
                             deadline |-> expire_tick[i]]
      /\ Found(client[i]) # NoKey /\ client[i] \in Keys
  BY <1>1, FoundIsEntry, KeysOfLive, Zenon
<1>5. [Found(client[i]) EXCEPT !.deadline = d] = e
  BY <1>4
<1>6. Found(client[i]).server = server[i]
  BY <1>4, SMTT(20)
<1> HIDE DEF e
<1>. QED BY <1>1, <1>2, <1>3, <1>4, <1>5, <1>6, Zenon DEF Store!Touch, Store!Put, Store!Keys, Keys

LEMMA RemoveStores ==
  ASSUME IInv, NEW w, NEW i \in Live, RemoveFrom(w, i), now' = now, pc' = pc
  PROVE  /\ pc = "idle" => Store!Close(client[i])
         /\ pc # "idle" /\ expire_tick[i] <= now => Store!Expire(client[i])
<1>1. /\ hash' = [k \in Keys |-> IF k \in {client[i], server[i]}
                                 THEN kNil ELSE hash[k]]
      /\ client' = [client EXCEPT ![i] = NoKey]
      /\ server' = [server EXCEPT ![i] = NoKey]
      /\ expire_tick' = [expire_tick EXCEPT ![i] = 0]
  BY SMTT(20) DEF RemoveFrom
<1>2. ASSUME NEW k \in Keys
      PROVE  Found(k)' = IF k \in {client[i], server[i]} THEN NoKey ELSE Found(k)
  <2>1. hash[k] = i <=> k \in {client[i], server[i]}
    BY KeysOfLive, Zenon
  <2>2. hash[k] # kNil => hash[k] \in Idx
    BY Zenon DEF IInv, TypeOK
  <2>. QED BY <1>1, <2>1, <2>2, Zenon DEF Found, IInv, TypeOK
<1>3. /\ Found(client[i]) = [client |-> client[i], server |-> server[i],
                             deadline |-> expire_tick[i]]
      /\ Found(client[i]) # NoKey /\ client[i] \in Keys
  BY FoundIsEntry, KeysOfLive, Zenon
<1>4. Found(client[i]).server = server[i] /\ Found(client[i]).deadline = expire_tick[i]
  BY <1>3
<1>. QED BY <1>2, <1>3, <1>4, Zenon DEF Store!Close, Store!Expire, Store!Put, Store!Keys, Keys

LEMMA SameStore ==
  ASSUME UNCHANGED <<hash, client, server, expire_tick>>
  PROVE  [k \in Keys |-> Found(k)]' = [k \in Keys |-> Found(k)]
BY DEF Found

LEMMA StepStores == IInv /\ [Next]_vars => [Store!Next]_Store!vars
<1> SUFFICES ASSUME IInv, [Next]_vars PROVE [Store!Next]_Store!vars
  OBVIOUS
<1>1. ASSUME NEW c \in Clients, NEW s \in Servers \cup {NoKey},
             NEW t \in Timeouts, Create(c, s, t)
      PROVE  Store!Next
  BY <1>1, CreateStores DEF Store!Next
<1>2. ASSUME NEW i \in Idx, Remove(i) PROVE Store!Next
  <2>1. i \in Live /\ pc = "idle" /\ RemoveFrom(wheel, i) /\ now' = now /\ pc' = pc
    BY <1>2 DEF Remove, loopVars
  <2>2. client[i] \in Clients
    BY <2>1, KeysOfLive
  <2>. QED BY <2>1, <2>2, RemoveStores DEF Store!Next
<1>3. ASSUME NEW i \in Idx, NEW t \in Timeouts, Touch(i, t) PROVE Store!Next
  <2>1. client[i] \in Clients
    BY <1>3, KeysOfLive DEF Touch
  <2>. QED BY <1>3, <2>1, TouchStores DEF Store!Next
<1>4. ASSUME NEW t \in 1 .. MaxTick, ExpireCall(t) PROVE Store!Next
  <2>1. /\ [k \in Keys |-> Found(k)]' = [k \in Keys |-> Found(k)]
        /\ pc = "idle" /\ pc' = "loop" /\ now' = t
    BY <1>4, SameStore DEF ExpireCall, keyVars
  <2>2. now' \in now .. MaxTick
    BY <1>4, <2>1, SessionConstants, SMTT(20) DEF ExpireCall, IInv, TypeOK
  <2>. QED BY <2>1, <2>2 DEF Store!Next, Store!BeginSweep
<1>5. CASE ExpirePopDue
  <2> DEFINE i == wheel.pending
  <2>1. /\ RemoveFrom(pending_pop(wheel), i) /\ now' = now /\ pc' = pc
        /\ pc = "loop" /\ expire_tick[i] <= now /\ i # kNil
    BY <1>5, PopDueFacts, Zenon
  <2>2. i \in Live
    BY <2>1, <1>5, PopOK, Zenon DEF IInv, TypeOK, Live, LiveIn, ExpirePopDue
  <2>3. client[i] \in Clients
    BY <2>2, KeysOfLive
  <2> HIDE DEF i
  <2>. QED BY <2>1, <2>2, <2>3, RemoveStores, Zenon DEF Store!Next
<1>6. CASE ExpireReturn
  <2>1. /\ [k \in Keys |-> Found(k)]' = [k \in Keys |-> Found(k)]
        /\ pc = "loop" /\ pc' = "idle" /\ now' = now
    BY <1>6, SameStore DEF ExpireReturn, keyVars
  <2>. QED BY <2>1 DEF Store!Next, Store!EndSweep
<1>7. ASSUME \/ ExpireTakeSlot \/ ExpirePush \/ ExpireTaken \/ ExpirePopLater
             \/ UNCHANGED vars
      PROVE  UNCHANGED Store!vars
  <2>1. /\ UNCHANGED <<hash, client, server, expire_tick>> /\ now' = now
        /\ (pc' # "idle") = (pc # "idle")
    BY <1>7, Zenon DEF ExpireTakeSlot, ExpirePush, ExpireTaken, ExpirePopLater, vars,
                keyVars, loopVars
  <2>. QED BY <2>1, SameStore DEF Store!vars
<1>. QED BY <1>1, <1>2, <1>3, <1>4, <1>5, <1>6, <1>7 DEF Next, ExpireStep

\* Seen through lookup by either key, the table is SessionStore, a map with
\* deadlines: create, touch, remove and expire put, refresh and take a session
\* under both its keys in one step, and expire takes only what is due.
THEOREM TableImplementsStore == Spec => ImplementsStore
<1>1. Init => Store!Init
  BY Zenon DEF Init, Store!Init, Found, Store!Keys, Keys
<1>. QED BY InitIInv, NextIInv, StepStores, <1>1, PTL
         DEF Spec, ImplementsStore, Store!Spec

-----------------------------------------------------------------------------
(* More about the lists.  IInv says that they are well formed where a        *)
(* pointer is set; that every live session is on one takes more: a session   *)
(* without a predecessor is the head of its list, and no list is a ring.     *)
(* SessionWheelProofs builds on these lemmas.                                *)

\* The head of the list that i's own fields name.
HeadOf(w, i) == IF i \in w.in_pending THEN w.pending
                ELSE w.slots[SlotOf(w.slot_tick[i])]

\* A session with no predecessor, other than h, is the head of its list.
HeadsOK(w, h) == \A i \in Idx : w.prev[i] = kNil /\ i # h => HeadOf(w, i) = i

\* Ranks that fall along every list, from below b: no list is a ring.
Ranks(w, h, r, b) ==
  \A i \in Idx : /\ r[i] <= b
                 /\ w.prev[i] \in Idx /\ i # h => r[i] < r[w.prev[i]]
RankOK(w, h) == \E r \in [Idx -> Nat], b \in Nat : Ranks(w, h, r, b)

LEMMA LinkHeads ==
  ASSUME NEW w \in WheelType, NEW i \in Idx, NEW t \in Nat, cur_tick \in Nat,
         ListsOK(w, kNil), Unlinked(w, i), HeadsOK(w, i), RankOK(w, kNil)
  PROVE  HeadsOK(wheel_link(w, i, t), kNil) /\ RankOK(wheel_link(w, i, t), kNil)
<1> DEFINE u == IF t < cur_tick THEN cur_tick ELSE t
           new == wheel_link(w, i, t)
           old == w.slots[SlotOf(u)]
<1>0. /\ u \in Nat
      /\ SlotOf(u) \in Slots
      /\ new.slots = [w.slots EXCEPT ![SlotOf(u)] = i]
      /\ new.pending = w.pending
      /\ new.prev = [k \in Idx |-> IF k = i THEN kNil
                                   ELSE IF k = old THEN i ELSE w.prev[k]]
      /\ new.next = [w.next EXCEPT ![i] = old]
      /\ new.slot_tick = [w.slot_tick EXCEPT ![i] = u]
      /\ new.in_pending = w.in_pending \ {i}
      /\ new \in WheelType
  BY LinkFields, ZenonT(40)
<1> HIDE DEF new
<1>1. HeadsOK(new, kNil)
  <2> SUFFICES ASSUME NEW k \in Idx, new.prev[k] = kNil
               PROVE  HeadOf(new, k) = k
    BY DEF HeadsOK
  <2>1. CASE k = i
    <3>1. new.slot_tick[i] = u /\ i \notin new.in_pending /\ new.slots[SlotOf(u)] = i
      BY <1>0, Zenon DEF WheelType
    <3>. QED BY <2>1, <3>1 DEF HeadOf
  <2>2. CASE k # i
    <3>1. k # old /\ w.prev[k] = kNil /\ HeadOf(w, k) = k
      BY <1>0, <2>2, Sentinels, Zenon DEF HeadsOK
    <3>2. /\ k \in new.in_pending <=> k \in w.in_pending
          /\ new.slot_tick[k] = w.slot_tick[k]
          /\ SlotOf(w.slot_tick[k]) \in Slots
      BY <1>0, <2>2, SlotRange, Zenon DEF WheelType
    <3>3. k \notin w.in_pending => SlotOf(w.slot_tick[k]) # SlotOf(u)
      BY <3>1, Zenon DEF HeadOf
    <3>4. \A s \in Slots : s # SlotOf(u) => new.slots[s] = w.slots[s]
      BY <1>0, Zenon DEF WheelType
    <3>5. new.pending = w.pending
      BY <1>0, Zenon
    <3>. QED BY <3>1, <3>2, <3>3, <3>4, <3>5, Zenon DEF HeadOf
  <2>. QED BY <2>1, <2>2
<1>2. RankOK(new, kNil)
  <2>1. PICK r \in [Idx -> Nat], b \in Nat : Ranks(w, kNil, r, b)
    BY DEF RankOK
  <2>2. old \in Idx \cup {kNil}
    BY <1>0, Zenon DEF WheelType
  <2> DEFINE x == IF old \in Idx THEN r[old] + 1 ELSE 0
             q == [r EXCEPT ![i] = x]
  <2>3. x \in Nat /\ x <= b + 1 /\ b + 1 \in Nat
    <3>1. CASE old \in Idx
      <4>1. r[old] \in Nat /\ r[old] <= b /\ x = r[old] + 1
        BY <2>1, <3>1, Zenon DEF Ranks
      <4> HIDE DEF x
      <4>. QED BY <4>1
    <3>2. CASE old \notin Idx
      BY <3>2
    <3>. QED BY <3>1, <3>2, Zenon
  <2>4. old # i /\ \A k \in Idx : w.prev[k] # i
    BY <1>0, Zenon DEF Unlinked
  <2> HIDE DEF old
  <2>5. old \in Idx => x = r[old] + 1
    OBVIOUS
  <2> HIDE DEF x
  <2>6. q \in [Idx -> Nat]
    BY <2>1, <2>3
  <2>7. q[i] = x /\ \A k \in Idx : k # i => q[k] = r[k]
    BY <2>1, SMTT(20)
  <2> HIDE DEF q
  <2>8. ASSUME NEW k \in Idx
        PROVE  /\ q[k] <= b + 1
               /\ new.prev[k] \in Idx => q[k] < q[new.prev[k]]
    <3>1. CASE k = i
      BY <1>0, <2>3, <2>7, <3>1, Sentinels, Zenon
    <3>2. CASE k = old
      <4>1. new.prev[k] = i /\ k # i
        BY <1>0, <2>4, <3>2, Zenon
      <4>2. q[k] = r[k] /\ q[i] = r[k] + 1 /\ r[k] \in Nat /\ r[k] <= b
        BY <2>1, <2>5, <2>7, <3>2, <4>1, Zenon DEF Ranks
      <4>. QED BY <4>1, <4>2, OneMore, Zenon
    <3>3. CASE k # i /\ k # old
      <4>1. new.prev[k] = w.prev[k] /\ w.prev[k] # i
        BY <1>0, <2>4, <3>3, Zenon
      <4>2. /\ q[k] = r[k] /\ r[k] \in Nat /\ r[k] <= b
            /\ w.prev[k] \in Idx => q[w.prev[k]] = r[w.prev[k]] /\ r[k] < r[w.prev[k]]
        BY <2>1, <2>7, <3>3, <4>1, Sentinels, Zenon DEF Ranks
      <4>. QED BY <4>1, <4>2, OneMore, Zenon
    <3>. QED BY <3>1, <3>2, <3>3, Zenon
  <2>9. Ranks(new, kNil, q, b + 1)
    BY <2>8, Zenon DEF Ranks
  <2>. QED BY <2>3, <2>6, <2>9 DEF RankOK
<1>. QED BY <1>1, <1>2, SMTT(20) DEF new

LEMMA UnlinkHeads ==
  ASSUME NEW w \in WheelType, NEW i \in Idx, ListsOK(w, kNil), w.prev[i] # kFree,
         HeadsOK(w, kNil), RankOK(w, kNil)
  PROVE  HeadsOK(wheel_unlink(w, i), i) /\ RankOK(wheel_unlink(w, i), kNil)
<1> DEFINE slot == SlotOf(w.slot_tick[i])
           new  == wheel_unlink(w, i)
<1>0. /\ slot \in Slots
      /\ new.slots = [w.slots EXCEPT ![slot] =
                        IF w.prev[i] = kNil /\ i \notin w.in_pending
                        THEN w.next[i] ELSE w.slots[slot]]
      /\ new.pending = IF w.prev[i] = kNil /\ i \in w.in_pending
                       THEN w.next[i] ELSE w.pending
      /\ new.prev = [k \in Idx |-> IF k = i THEN kNil
                                   ELSE IF k = w.next[i] THEN w.prev[i]
                                   ELSE w.prev[k]]
      /\ new.next = [k \in Idx |-> IF k = i THEN kNil
                                   ELSE IF k = w.prev[i] THEN w.next[i]
                                   ELSE w.next[k]]
      /\ new.slot_tick = w.slot_tick
      /\ new.in_pending = w.in_pending
      /\ new \in WheelType
  BY UnlinkFields, Zenon
<1> HIDE DEF new
<1>1. HeadsOK(new, i)
  <2> SUFFICES ASSUME NEW k \in Idx, new.prev[k] = kNil, k # i
               PROVE  HeadOf(new, k) = k
    BY DEF HeadsOK
  <2>0. /\ SlotOf(w.slot_tick[k]) \in Slots
        /\ \A s \in Slots : s # slot => new.slots[s] = w.slots[s]
    BY <1>0, SlotRange, Zenon DEF WheelType
  <2>1. CASE k = w.next[i]
    <3>1. w.prev[i] = kNil /\ HeadOf(w, i) = i
      BY <1>0, <2>1, Sentinels, Zenon DEF HeadsOK
    <3>2. Follows(w, i, k)
      BY <2>1, Sentinels, Zenon DEF ListsOK
    <3>3. CASE i \in w.in_pending
      BY <1>0, <2>1, <3>1, <3>2, <3>3, Zenon DEF HeadOf, Follows
    <3>4. CASE i \notin w.in_pending
      <4>1. k \notin new.in_pending /\ SlotOf(new.slot_tick[k]) = slot
        BY <1>0, <3>2, <3>4, Zenon DEF Follows
      <4>2. new.slots[slot] = k
        BY <1>0, <2>1, <3>1, <3>4, Zenon DEF WheelType
      <4>. QED BY <4>1, <4>2, Zenon DEF HeadOf
    <3>. QED BY <3>3, <3>4, SMTT(20)
  <2>2. CASE k # w.next[i]
    <3>1. w.prev[k] = kNil /\ HeadOf(w, k) = k
      BY <1>0, <2>2, Sentinels, Zenon DEF HeadsOK
    <3>2. w.prev[i] = kNil => HeadOf(w, i) = i
      BY Sentinels, Zenon DEF HeadsOK
    <3>3. CASE k \in w.in_pending
      BY <1>0, <3>1, <3>2, <3>3, Zenon DEF HeadOf
    <3>4. CASE k \notin w.in_pending
      <4>1. new.slots[SlotOf(w.slot_tick[k])] = w.slots[SlotOf(w.slot_tick[k])]
        <5>1. CASE SlotOf(w.slot_tick[k]) = slot
          <6>1. ~(w.prev[i] = kNil /\ i \notin w.in_pending)
            BY <3>1, <3>2, <3>4, <5>1, Zenon DEF HeadOf
          <6>. QED BY <1>0, <5>1, <6>1, Zenon DEF WheelType
        <5>2. CASE SlotOf(w.slot_tick[k]) # slot
          BY <2>0, <5>2, Zenon
        <5>. QED BY <5>1, <5>2, Zenon
      <4>. QED BY <1>0, <3>1, <3>4, <4>1, Zenon DEF HeadOf
    <3>. QED BY <3>3, <3>4, Zenon
  <2>. QED BY <2>1, <2>2
<1>2. RankOK(new, kNil)
  <2>1. PICK r \in [Idx -> Nat], b \in Nat : Ranks(w, kNil, r, b)
    BY DEF RankOK
  <2>2. ASSUME NEW k \in Idx, new.prev[k] \in Idx
        PROVE  r[k] < r[new.prev[k]]
    <3>1. k # i
      BY <1>0, <2>2, Sentinels, Zenon
    <3>2. CASE k = w.next[i]
      <4>1. new.prev[k] = w.prev[i] /\ w.prev[k] = i
        <5>1. new.prev[k] = w.prev[i]
          BY <1>0, <3>1, <3>2, Zenon
        <5>2. w.prev[k] = i
          BY <3>2, Sentinels, Zenon DEF ListsOK, Follows
        <5>. QED BY <5>1, <5>2
      <4>2. r[k] < r[i] /\ r[i] < r[w.prev[i]]
        BY <2>1, <2>2, <4>1, Sentinels, Zenon DEF Ranks
      <4>3. r[k] \in Nat /\ r[i] \in Nat /\ r[w.prev[i]] \in Nat
        BY <2>1, <2>2, <4>1, Zenon
      <4>. QED BY <4>1, <4>2, <4>3, Between, Zenon
    <3>3. CASE k # w.next[i]
      <4>1. new.prev[k] = w.prev[k]
        BY <1>0, <3>1, <3>3, Zenon
      <4>. QED BY <2>1, <2>2, <4>1, Sentinels, Zenon DEF Ranks
    <3>. QED BY <3>2, <3>3, Zenon
  <2>3. Ranks(new, kNil, r, b)
    BY <2>1, <2>2, Zenon DEF Ranks
  <2>. QED BY <2>1, <2>3 DEF RankOK
<1>. QED BY <1>1, <1>2, SMTT(20) DEF new

\* The same lists, but for session i, which is in none of them.
LEMMA SameHeads ==
  ASSUME NEW w \in WheelType, NEW new \in WheelType, NEW i \in Idx, NEW h,
         h \in {i, kNil}, h = kNil => new.prev[i] # kNil,
         HeadsOK(w, i), RankOK(w, kNil), new.prev[i] \notin Idx,
         new.slots = w.slots, new.pending = w.pending,
         \A k \in Idx : k # i => /\ new.prev[k] = w.prev[k]
                                 /\ new.slot_tick[k] = w.slot_tick[k]
                                 /\ k \in new.in_pending <=> k \in w.in_pending
  PROVE  HeadsOK(new, h) /\ RankOK(new, kNil)
<1>1. HeadsOK(new, h)
  <2> SUFFICES ASSUME NEW k \in Idx, new.prev[k] = kNil, k # h
               PROVE  HeadOf(new, k) = k
    BY Zenon DEF HeadsOK
  <2>1. k # i
    BY Zenon
  <2>2. HeadOf(w, k) = k
    BY <2>1, Zenon DEF HeadsOK
  <2>. QED BY <2>1, <2>2, Zenon DEF HeadOf
<1>2. RankOK(new, kNil)
  <2>1. PICK r \in [Idx -> Nat], b \in Nat : Ranks(w, kNil, r, b)
    BY Zenon DEF RankOK
  <2>2. Ranks(new, kNil, r, b)
    BY <2>1, Zenon DEF Ranks
  <2>. QED BY <2>1, <2>2, Zenon DEF RankOK
<1>. QED BY <1>1, <1>2

\* pending_pop touches no slot.
LEMMA PopHeads ==
  ASSUME NEW w \in WheelType, ListsOK(w, kNil), w.pending # kNil,
         HeadsOK(w, kNil), RankOK(w, kNil)
  PROVE  /\ HeadsOK(pending_pop(w), w.pending) /\ RankOK(pending_pop(w), kNil)
         /\ pending_pop(w).slots = w.slots
         /\ pending_pop(w).slot_tick = w.slot_tick
         /\ pending_pop(w).in_pending = w.in_pending \ {w.pending}
<1> DEFINE i   == w.pending
           mid == wheel_unlink(w, i)
           new == pending_pop(w)
<1>1. i \in Idx /\ w.prev[i] # kFree /\ i \in w.in_pending
  BY Sentinels, Zenon DEF ListsOK, WheelType
<1>2. HeadsOK(mid, i) /\ RankOK(mid, kNil) /\ mid \in WheelType
  BY <1>1, UnlinkHeads, UnlinkFields, Zenon
<1>3. Unlinked(mid, i)
  BY <1>1, UnlinkOK
<1>4. mid.slots = w.slots /\ mid.slot_tick = w.slot_tick /\ mid.in_pending = w.in_pending
  <2> DEFINE slot == SlotOf(w.slot_tick[i])
  <2>1. /\ mid.slots = [w.slots EXCEPT ![slot] =
                        IF w.prev[i] = kNil /\ i \notin w.in_pending
                        THEN w.next[i] ELSE w.slots[slot]]
        /\ mid.slot_tick = w.slot_tick /\ mid.in_pending = w.in_pending
    BY <1>1, UnlinkFields, ZenonT(40)
  <2> HIDE DEF mid, i, slot
  <2>2. mid.slots = [w.slots EXCEPT ![slot] = w.slots[slot]]
    BY <1>1, <2>1, Zenon
  <2>. QED BY <2>1, <2>2, Zenon DEF WheelType
<1> HIDE DEF mid, i
<1>5. new = [mid EXCEPT !.in_pending = @ \ {i}]
  BY DEF pending_pop, mid, i
<1> HIDE DEF new
<1>6. /\ new \in WheelType
      /\ new.slots = mid.slots /\ new.pending = mid.pending
      /\ new.prev = mid.prev /\ new.slot_tick = mid.slot_tick
      /\ new.in_pending = mid.in_pending \ {i}
  BY <1>2, <1>5, Zenon DEF WheelType
<1>7. mid.prev[i] \in {kNil, kFree}
  BY <1>3, Zenon DEF Unlinked
<1>8. HeadsOK(new, i) /\ RankOK(new, kNil)
  <2>1. new.prev[i] \notin Idx /\ i # kNil
    BY <1>1, <1>6, <1>7, Sentinels, SMTT(20)
  <2>. QED BY <1>1, <1>2, <1>6, <2>1, SameHeads, Zenon
<1>. QED BY <1>4, <1>6, <1>8 DEF new, i

\* The wheel after remove(i).
Freed(w, i) == [wheel_unlink(w, i) EXCEPT !.prev[i] = kFree,
                                          !.slot_tick[i] = 0,
                                          !.in_pending = @ \ {i}]

\* remove of a session on a list.
LEMMA FreeHeads ==
  ASSUME NEW w \in WheelType, NEW i \in LiveIn(w), ListsOK(w, kNil),
         HeadsOK(w, kNil), RankOK(w, kNil)
  PROVE  /\ HeadsOK(Freed(w, i), kNil) /\ RankOK(Freed(w, i), kNil)
         /\ Freed(w, i).in_pending = w.in_pending \ {i}
         /\ \A k \in Idx : k # i => Freed(w, i).slot_tick[k] = w.slot_tick[k]
<1> DEFINE mid == wheel_unlink(w, i)
           new == Freed(w, i)
<1>1. i \in Idx /\ w.prev[i] # kFree
  BY DEF LiveIn
<1>2. /\ HeadsOK(mid, i) /\ RankOK(mid, kNil) /\ mid \in WheelType
      /\ mid.slot_tick = w.slot_tick /\ mid.in_pending = w.in_pending
  <2>1. HeadsOK(mid, i) /\ RankOK(mid, kNil)
    BY <1>1, UnlinkHeads, SMTT(20)
  <2>2. mid \in WheelType
    BY <1>1, UnlinkFields, ZenonT(40)
  <2>3. mid.slot_tick = w.slot_tick /\ mid.in_pending = w.in_pending
    BY <1>1, UnlinkFields, ZenonT(40)
  <2>. QED BY <2>1, <2>2, <2>3
<1>3. new \in WheelType
  BY FreeOK, Zenon DEF Freed
<1> HIDE DEF mid, new
<1>4. new = [mid EXCEPT !.prev[i] = kFree, !.slot_tick[i] = 0,
                        !.in_pending = @ \ {i}]
  BY DEF mid, new, Freed
<1>5. /\ new.slots = mid.slots /\ new.pending = mid.pending
      /\ new.prev[i] = kFree
      /\ new.in_pending = mid.in_pending \ {i}
      /\ \A k \in Idx : k # i => /\ new.prev[k] = mid.prev[k]
                                 /\ new.slot_tick[k] = mid.slot_tick[k]
  <2>1. i \in Idx /\ mid \in WheelType
    BY <1>1, <1>2
  <2>2. /\ new.slots = mid.slots /\ new.pending = mid.pending
        /\ new.prev = [mid.prev EXCEPT ![i] = kFree]
        /\ new.slot_tick = [mid.slot_tick EXCEPT ![i] = 0]
        /\ new.in_pending = mid.in_pending \ {i}
    BY ONLY <2>1, <1>4, SMTT(20) DEF WheelType
  <2>. QED BY ONLY <2>1, <2>2, Zenon DEF WheelType
<1>6. HeadsOK(new, kNil) /\ RankOK(new, kNil)
  BY <1>1, <1>2, <1>3, <1>5, SameHeads, Sentinels, Zenon
<1>. QED BY <1>2, <1>5, <1>6, Zenon DEF new

\* remove of a session that expire has popped: its second unlink writes kNil to
\* the slot of the session's old tick, so that slot has to be empty.
LEMMA FreePopped ==
  ASSUME NEW w \in WheelType, NEW i \in LiveIn(w), ListsOK(w, kNil),
         Unlinked(w, i), HeadsOK(w, i), RankOK(w, kNil), i \notin w.in_pending,
         w.slots[SlotOf(w.slot_tick[i])] = kNil
  PROVE  /\ HeadsOK(Freed(w, i), kNil) /\ RankOK(Freed(w, i), kNil)
         /\ Freed(w, i).in_pending = w.in_pending
         /\ Freed(w, i).slots = w.slots
         /\ \A k \in Idx : k # i => Freed(w, i).slot_tick[k] = w.slot_tick[k]
<1> DEFINE mid  == wheel_unlink(w, i)
           new  == Freed(w, i)
           slot == SlotOf(w.slot_tick[i])
<1>1. i \in Idx /\ w.prev[i] # kFree /\ w.next[i] = kNil
  BY Zenon DEF LiveIn, Unlinked
<1>2. /\ mid \in WheelType /\ slot \in Slots
      /\ mid.slots = [w.slots EXCEPT ![slot] =
                        IF w.prev[i] = kNil /\ i \notin w.in_pending
                        THEN w.next[i] ELSE w.slots[slot]]
      /\ mid.pending = IF w.prev[i] = kNil /\ i \in w.in_pending
                       THEN w.next[i] ELSE w.pending
      /\ mid.prev = [k \in Idx |-> IF k = i THEN kNil
                                   ELSE IF k = w.next[i] THEN w.prev[i]
                                   ELSE w.prev[k]]
      /\ mid.slot_tick = w.slot_tick /\ mid.in_pending = w.in_pending
  <2>1. mid \in WheelType /\ slot \in Slots
    BY <1>1, UnlinkFields, ZenonT(40)
  <2>2. /\ mid.slots = [w.slots EXCEPT ![slot] =
                          IF w.prev[i] = kNil /\ i \notin w.in_pending
                          THEN w.next[i] ELSE w.slots[slot]]
        /\ mid.pending = IF w.prev[i] = kNil /\ i \in w.in_pending
                         THEN w.next[i] ELSE w.pending
    BY <1>1, UnlinkFields, Zenon
  <2>3. /\ mid.prev = [k \in Idx |-> IF k = i THEN kNil
                                     ELSE IF k = w.next[i] THEN w.prev[i]
                                     ELSE w.prev[k]]
        /\ mid.slot_tick = w.slot_tick /\ mid.in_pending = w.in_pending
    BY <1>1, UnlinkFields, ZenonT(40)
  <2>. QED BY <2>1, <2>2, <2>3, ZenonT(40)
<1>3. new \in WheelType
  BY FreeOK, Zenon DEF Freed
<1> HIDE DEF mid, new
<1>4. new = [mid EXCEPT !.prev[i] = kFree, !.slot_tick[i] = 0,
                        !.in_pending = @ \ {i}]
  BY DEF mid, new, Freed
<1> HIDE DEF slot
<1>5. mid.slots = w.slots /\ mid.pending = w.pending
  BY <1>1, <1>2, SMTT(20) DEF WheelType, slot
<1>6. \A k \in Idx : k # i => mid.prev[k] = w.prev[k]
  BY <1>1, <1>2, Sentinels, Zenon
<1>7. /\ new.slots = mid.slots /\ new.pending = mid.pending
      /\ new.prev[i] = kFree
      /\ new.in_pending = mid.in_pending \ {i}
      /\ \A k \in Idx : k # i => /\ new.prev[k] = mid.prev[k]
                                 /\ new.slot_tick[k] = mid.slot_tick[k]
  <2>1. i \in Idx /\ mid \in WheelType
    BY <1>1, <1>2, Zenon
  <2>2. /\ new.slots = mid.slots /\ new.pending = mid.pending
        /\ new.prev = [mid.prev EXCEPT ![i] = kFree]
        /\ new.slot_tick = [mid.slot_tick EXCEPT ![i] = 0]
        /\ new.in_pending = mid.in_pending \ {i}
    BY ONLY <2>1, <1>4 DEF WheelType
  <2>. QED BY ONLY <2>1, <2>2, Zenon DEF WheelType
<1>8. HeadsOK(new, kNil) /\ RankOK(new, kNil)
  <2>1. /\ new.slots = w.slots /\ new.pending = w.pending
        /\ \A k \in Idx : k # i => /\ new.prev[k] = w.prev[k]
                                   /\ new.slot_tick[k] = w.slot_tick[k]
                                   /\ k \in new.in_pending <=> k \in w.in_pending
    BY <1>2, <1>5, <1>6, <1>7, ZenonT(40)
  <2>2. new.prev[i] # kNil /\ new.prev[i] \notin Idx
    BY <1>7, Sentinels, Zenon
  <2>. QED BY <1>1, <1>3, <2>1, <2>2, SameHeads, Zenon
<1>9. new.in_pending = w.in_pending
  BY <1>2, <1>7, Zenon
<1>. QED BY <1>2, <1>5, <1>7, <1>8, <1>9, ZenonT(40) DEF new

LEMMA PushHeads ==
  ASSUME NEW w \in WheelType, NEW h \in Idx, ListsOK(w, h), ChainOK(w, h),
         HeadsOK(w, h), RankOK(w, h)
  PROVE  /\ HeadsOK(pending_push(w, h), w.next[h])
         /\ RankOK(pending_push(w, h), w.next[h])
<1> DEFINE new == pending_push(w, h)
           nxt == w.next[h]
           old == w.pending
<1>0. /\ new.slots = w.slots
      /\ new.pending = h
      /\ new.prev = [k \in Idx |-> IF k = h THEN kNil
                                   ELSE IF k = w.pending THEN h ELSE w.prev[k]]
      /\ new.next = [w.next EXCEPT ![h] = w.pending]
      /\ new.slot_tick = w.slot_tick
      /\ new.in_pending = w.in_pending \cup {h}
      /\ new \in WheelType
  BY PushFields, Zenon
<1> HIDE DEF new
<1>1. HeadsOK(new, nxt)
  <2> SUFFICES ASSUME NEW k \in Idx, new.prev[k] = kNil
               PROVE  HeadOf(new, k) = k
    BY DEF HeadsOK
  <2>1. CASE k = h
    BY <1>0, <2>1, SMTT(20) DEF HeadOf
  <2>2. CASE k # h
    <3>1. k # old /\ w.prev[k] = kNil /\ HeadOf(w, k) = k
      BY <1>0, <2>2, Sentinels, Zenon DEF HeadsOK
    <3>. QED BY <1>0, <2>2, <3>1, Zenon DEF HeadOf
  <2>. QED BY <2>1, <2>2
<1>2. RankOK(new, nxt)
  <2>1. PICK r \in [Idx -> Nat], b \in Nat : Ranks(w, h, r, b)
    BY DEF RankOK
  <2>2. old \in Idx \cup {kNil} /\ old # h
    BY Sentinels, SMTT(20) DEF WheelType, ListsOK, ChainOK
  <2> DEFINE x == IF old \in Idx THEN r[old] + 1 ELSE 0
             q == [r EXCEPT ![h] = x]
  <2>3. x \in Nat /\ x <= b + 1 /\ b + 1 \in Nat
    BY <2>1, <2>2, SMTT(20) DEF Ranks
  <2>4. \A k \in Idx : k # h /\ k # nxt => w.prev[k] # h
    BY Zenon DEF ListsOK
  <2>5. old \in Idx => x = r[old] + 1
    OBVIOUS
  <2> HIDE DEF x
  <2>6. q \in [Idx -> Nat]
    BY <2>1, <2>3
  <2>7. q[h] = x /\ \A k \in Idx : k # h => q[k] = r[k]
    BY <2>1, SMTT(20)
  <2> HIDE DEF q, nxt
  <2>8. ASSUME NEW k \in Idx
        PROVE  /\ q[k] <= b + 1
               /\ new.prev[k] \in Idx /\ k # nxt => q[k] < q[new.prev[k]]
    <3>1. CASE k = h
      BY <1>0, <2>3, <2>7, <3>1, Sentinels, Zenon
    <3>2. CASE k = old
      <4>1. new.prev[k] = h /\ k # h
        BY <1>0, <2>2, <3>2, Zenon
      <4>2. q[k] = r[k] /\ q[h] = r[k] + 1 /\ r[k] \in Nat /\ r[k] <= b
        BY <2>1, <2>5, <2>7, <3>2, <4>1, Zenon DEF Ranks
      <4>. QED BY <4>1, <4>2, <2>1, SMTT(20)
    <3>3. CASE k # h /\ k # old
      <4>1. new.prev[k] = w.prev[k] /\ (k # nxt => w.prev[k] # h)
        BY <1>0, <2>4, <3>3, Zenon
      <4>2. /\ q[k] = r[k] /\ r[k] \in Nat /\ r[k] <= b
            /\ w.prev[k] \in Idx /\ k # nxt =>
                 q[w.prev[k]] = r[w.prev[k]] /\ r[k] < r[w.prev[k]]
        BY <2>1, <2>7, <3>3, <4>1, Zenon DEF Ranks
      <4>. QED BY <4>1, <4>2, <2>1, SMTT(20)
    <3>. QED BY <3>1, <3>2, <3>3, Zenon
  <2>9. Ranks(new, nxt, q, b + 1)
    BY <2>8, Zenon DEF Ranks
  <2>. QED BY <2>3, <2>6, <2>9 DEF RankOK
<1>. QED BY <1>1, <1>2, SMTT(20) DEF new
=============================================================================
