---------------------------- MODULE SessionTable ----------------------------
(***************************************************************************)
(* The per-worker session table of src/lb/session.cpp: a hash from         *)
(* five-tuples to session indices, a stack of free indices, and a timing   *)
(* wheel of doubly linked lists threaded through the session array.  The   *)
(* lists are modelled pointer by pointer, because what can go wrong here   *)
(* goes wrong in the pointers.                                             *)
(*                                                                         *)
(* One worker thread owns the table (worker.cpp), so create, touch and     *)
(* remove are single steps.  expire is a loop; each iteration is a step,   *)
(* and pc keeps every other operation out until the loop has returned.     *)
(***************************************************************************)
EXTENDS Integers, Sequences, FiniteSets

CONSTANTS
  Clients,       \* five-tuples client -> VIP
  Servers,       \* five-tuples RS -> LIP (the FULLNAT return direction)
  NoKey,         \* Session::server without SF_FULLNAT (DR mode)
  Timeouts,      \* the timeouts, in seconds, that create and touch are given
  Capacity,      \* capacity_
  WheelSlots,    \* kWheelSlots
  ExpireBudget,  \* kExpireBudget
  MaxLag,        \* bound: seconds the wheel may be behind the clock
  MaxTick,       \* bound: last value of the clock
  kNil,          \* the null index
  kFree          \* wheel_prev of a free session

Idx  == 0 .. Capacity - 1
Keys == Clients \cup Servers

ASSUME SessionConstants ==
  /\ Capacity \in Nat \ {0}
  /\ WheelSlots \in Nat \ {0}
  /\ ExpireBudget \in Nat \ {0}
  /\ Timeouts \subseteq Nat
  /\ MaxLag \in Nat
  /\ MaxTick \in Nat \ {0}
  /\ NoKey \notin Keys
  /\ Clients \cap Servers = {}
  /\ kNil \notin Idx
  /\ kFree \notin Idx
  /\ kNil # kFree

\* The absent key is no session either: SessionStore's map uses it for "none".
ASSUME NoKeyIsNoSession ==
  NoKey \notin [client : Clients, server : Servers \cup {NoKey}, deadline : Nat]

VARIABLES
  hash,         \* hash_: five-tuple -> session index, kNil when absent
  free_stack,   \* free_stack_[0 .. free_top_ - 1], top last
  client,       \* Session::client
  server,       \* Session::server
  expire_tick,  \* Session::expire_tick
  wheel,        \* slots_, pending_ and the Session fields of the lists
  cur_tick,     \* cur_tick_: the next tick the wheel will process
  now,          \* WorkerCtx::now_tick
  pc,           \* where expire is: "idle" when it is not running
  budget,       \* expire's local budget
  head          \* expire's local head: rest of the slot being taken down

keyVars  == <<hash, free_stack, client, server, expire_tick>>
loopVars == <<pc, budget, head>>
vars     == <<keyVars, wheel, cur_tick, now, loopVars>>

(***************************************************************************)
(* Timing wheel lists.  Each operator maps the wheel to the wheel after    *)
(* the C++ function of the same name.                                      *)
(***************************************************************************)

\* The slot for tick t: t & (kWheelSlots - 1), kWheelSlots a power of two.
SlotOf(t) == t % WheelSlots

wheel_link(w, i, tick) ==
  LET t    == IF tick < cur_tick THEN cur_tick ELSE tick
      slot == SlotOf(t)
      old  == w.slots[slot]
  IN  [w EXCEPT !.slot_tick[i]  = t,
                !.in_pending = @ \ {i},
                !.next[i]       = old,
                !.prev          = [k \in Idx |-> IF k = i THEN kNil
                                                 ELSE IF k = old THEN i
                                                 ELSE w.prev[k]],
                !.slots[slot]   = i]

\* Mutant: the head is always a slot, even for a session on the pending list.
wheel_unlinkSlotOnly(w, i) ==
  LET p    == w.prev[i]
      n    == w.next[i]
      slot == SlotOf(w.slot_tick[i])
  IN  [w EXCEPT !.next        = [k \in Idx |-> IF k = i THEN kNil
                                               ELSE IF k = p THEN n
                                               ELSE w.next[k]],
                !.prev        = [k \in Idx |-> IF k = i THEN kNil
                                               ELSE IF k = n THEN p
                                               ELSE w.prev[k]],
                !.slots[slot] = IF p = kNil THEN n ELSE @]

wheel_unlink(w, i) ==
  LET p    == w.prev[i]
      n    == w.next[i]
      slot == SlotOf(w.slot_tick[i])
  IN  [w EXCEPT !.next        = [k \in Idx |-> IF k = i THEN kNil
                                               ELSE IF k = p THEN n
                                               ELSE w.next[k]],
                !.prev        = [k \in Idx |-> IF k = i THEN kNil
                                               ELSE IF k = n THEN p
                                               ELSE w.prev[k]],
                !.pending     = IF p = kNil /\ i \in w.in_pending THEN n ELSE @,
                !.slots[slot] = IF p = kNil /\ i \notin w.in_pending THEN n ELSE @]

pending_push(w, i) ==
  [w EXCEPT !.in_pending = @ \cup {i},
            !.next[i]       = w.pending,
            !.prev          = [k \in Idx |-> IF k = i THEN kNil
                                             ELSE IF k = w.pending THEN i
                                             ELSE w.prev[k]],
            !.pending       = i]

pending_pop(w) ==
  [wheel_unlink(w, w.pending) EXCEPT !.in_pending = @ \ {w.pending}]

(***************************************************************************)
(* Operations                                                              *)
(***************************************************************************)

\* A session is in use when its wheel_prev is not kFree (for_each).
Live == {i \in Idx : wheel.prev[i] # kFree}

\* deadline(now_tick, timeout)
Deadline(timeout) == now + (IF timeout = 0 THEN 1 ELSE timeout) + 1

\* rte_hash_create's params.entries: inserting a new key fails beyond it.
HashEntries == 2 * Capacity + Capacity \div 2
UsedKeys    == {k \in Keys : hash[k] # kNil}

Init ==
  /\ hash        = [k \in Keys |-> kNil]
  /\ free_stack  = [n \in 1 .. Capacity |-> Capacity - n]
  /\ client      = [i \in Idx |-> NoKey]
  /\ server      = [i \in Idx |-> NoKey]
  /\ expire_tick = [i \in Idx |-> 0]
  /\ wheel       = [slots      |-> [s \in 0 .. WheelSlots - 1 |-> kNil],
                    pending    |-> kNil,
                    prev       |-> [i \in Idx |-> kFree],
                    next       |-> [i \in Idx |-> kNil],
                    slot_tick  |-> [i \in Idx |-> 0],
                    in_pending |-> {}]
  /\ cur_tick = 1
  /\ now      = 1
  /\ pc       = "idle"
  /\ budget   = 0
  /\ head     = kNil

\* create.  The caller looked the client key up and found nothing, and chose
\* a return key that key_in_use denies (processor.cpp).  A full table or a
\* refused insertion changes nothing, so only the successful call is a step.
Create(c, s, timeout) ==
  /\ pc = "idle"
  /\ hash[c] = kNil
  /\ s # NoKey => hash[s] = kNil
  /\ free_stack # <<>>
  /\ Cardinality(UsedKeys \cup ({c, s} \ {NoKey})) <= HashEntries
  /\ LET i == free_stack[Len(free_stack)]
         d == Deadline(timeout)
     IN  /\ hash' = [k \in Keys |-> IF k \in {c, s} THEN i ELSE hash[k]]
         /\ client'      = [client EXCEPT ![i] = c]
         /\ server'      = [server EXCEPT ![i] = s]
         /\ expire_tick' = [expire_tick EXCEPT ![i] = d]
         /\ wheel'       = wheel_link(wheel, i, d)
  /\ free_stack' = SubSeq(free_stack, 1, Len(free_stack) - 1)
  /\ UNCHANGED <<cur_tick, now, loopVars>>

\* Mutant: the return key is left in the hash.
RemoveFromOneKey(w, i) ==
  /\ hash' = [hash EXCEPT ![client[i]] = kNil]
  /\ wheel' = [wheel_unlink(w, i) EXCEPT !.prev[i] = kFree,
                                         !.slot_tick[i] = 0,
                                         !.in_pending = @ \ {i}]
  /\ free_stack'  = Append(free_stack, i)
  /\ client'      = [client EXCEPT ![i] = NoKey]
  /\ server'      = [server EXCEPT ![i] = NoKey]
  /\ expire_tick' = [expire_tick EXCEPT ![i] = 0]

\* Mutant: the session is marked free before it is unlinked.
RemoveFromMarkFirst(w, i) ==
  /\ hash' = [k \in Keys |-> IF k \in {client[i], server[i]}
                             THEN kNil ELSE hash[k]]
  /\ wheel' = [wheel_unlink([w EXCEPT !.prev[i] = kFree], i)
                 EXCEPT !.slot_tick[i] = 0, !.in_pending = @ \ {i}]
  /\ free_stack'  = Append(free_stack, i)
  /\ client'      = [client EXCEPT ![i] = NoKey]
  /\ server'      = [server EXCEPT ![i] = NoKey]
  /\ expire_tick' = [expire_tick EXCEPT ![i] = 0]

\* remove(s) on the wheel w.  The fields of a free session are dead: create
\* overwrites them, so the model clears them.
RemoveFrom(w, i) ==
  /\ hash' = [k \in Keys |-> IF k \in {client[i], server[i]}
                             THEN kNil ELSE hash[k]]
  /\ wheel' = [wheel_unlink(w, i) EXCEPT !.prev[i] = kFree,
                                         !.slot_tick[i] = 0,
                                         !.in_pending = @ \ {i}]
  /\ free_stack'  = Append(free_stack, i)
  /\ client'      = [client EXCEPT ![i] = NoKey]
  /\ server'      = [server EXCEPT ![i] = NoKey]
  /\ expire_tick' = [expire_tick EXCEPT ![i] = 0]

\* close_session: the worker drops a session it looked up.
Remove(i) ==
  /\ pc = "idle"
  /\ i \in Live
  /\ RemoveFrom(wheel, i)
  /\ UNCHANGED <<cur_tick, now, loopVars>>

\* Mutant: a session stays in its slot when its timeout shrinks.
TouchInPlace(i, timeout) ==
  /\ pc = "idle"
  /\ i \in Live
  /\ expire_tick' = [expire_tick EXCEPT ![i] = Deadline(timeout)]
  /\ UNCHANGED <<hash, free_stack, client, server, wheel, cur_tick, now,
                 loopVars>>

\* touch: a later deadline waits for the wheel to reach the old slot; an
\* earlier one is moved at once.
Touch(i, timeout) ==
  LET d == Deadline(timeout) IN
  /\ pc = "idle"
  /\ i \in Live
  /\ wheel' = IF d < wheel.slot_tick[i] /\ i \notin wheel.in_pending
              THEN wheel_link(wheel_unlink(wheel, i), i, d)
              ELSE wheel
  /\ expire_tick' = [expire_tick EXCEPT ![i] = d]
  /\ UNCHANGED <<hash, free_stack, client, server, cur_tick, now, loopVars>>

(***************************************************************************)
(* expire                                                                  *)
(***************************************************************************)

\* Every 1024 rounds worker_loop reads the clock and calls expire.
ExpireCall(t) ==
  /\ pc = "idle"
  /\ t >= now
  /\ t - cur_tick <= MaxLag
  /\ now'    = t
  /\ pc'     = "loop"
  /\ budget' = ExpireBudget
  /\ UNCHANGED <<keyVars, wheel, cur_tick, head>>

\* Nothing pending and the current tick is due: take its slot down.
ExpireTakeSlot ==
  /\ pc = "loop"
  /\ budget > 0
  /\ wheel.pending = kNil
  /\ cur_tick <= now
  /\ head'  = wheel.slots[SlotOf(cur_tick)]
  /\ wheel' = [wheel EXCEPT !.slots[SlotOf(cur_tick)] = kNil]
  /\ pc'    = "take"
  /\ UNCHANGED <<keyVars, cur_tick, now, budget>>

ExpirePush ==
  /\ pc = "take"
  /\ head # kNil
  /\ wheel' = pending_push(wheel, head)
  /\ head'  = wheel.next[head]
  /\ UNCHANGED <<keyVars, cur_tick, now, pc, budget>>

ExpireTaken ==
  /\ pc = "take"
  /\ head = kNil
  /\ cur_tick' = cur_tick + 1
  /\ pc' = "loop"
  /\ UNCHANGED <<keyVars, wheel, now, budget, head>>

\* Mutant: due is judged by the slot and not by the refreshed deadline.
ExpirePopDueBySlot ==
  /\ pc = "loop"
  /\ budget > 0
  /\ wheel.pending # kNil
  /\ wheel.slot_tick[wheel.pending] <= now
  /\ RemoveFrom(pending_pop(wheel), wheel.pending)
  /\ budget' = budget - 1
  /\ UNCHANGED <<cur_tick, now, pc, head>>

\* Pop one pending session: remove it if it is due, else put it back.
ExpirePopDue ==
  /\ pc = "loop"
  /\ budget > 0
  /\ wheel.pending # kNil
  /\ expire_tick[wheel.pending] <= now
  /\ RemoveFrom(pending_pop(wheel), wheel.pending)
  /\ budget' = budget - 1
  /\ UNCHANGED <<cur_tick, now, pc, head>>

ExpirePopLater ==
  /\ pc = "loop"
  /\ budget > 0
  /\ wheel.pending # kNil
  /\ expire_tick[wheel.pending] > now
  /\ wheel' = wheel_link(pending_pop(wheel), wheel.pending,
                         expire_tick[wheel.pending])
  /\ budget' = budget - 1
  /\ UNCHANGED <<keyVars, cur_tick, now, pc, head>>

\* Mutant: the pending list does not survive the call.
ExpireReturnForgets ==
  /\ pc = "loop"
  /\ budget = 0 \/ (wheel.pending = kNil /\ cur_tick > now)
  /\ wheel'  = [wheel EXCEPT !.pending = kNil]
  /\ pc'     = "idle"
  /\ budget' = 0
  /\ UNCHANGED <<keyVars, cur_tick, now, head>>

\* The budget is spent, or the wheel has caught up with the clock.
ExpireReturn ==
  /\ pc = "loop"
  /\ budget = 0 \/ (wheel.pending = kNil /\ cur_tick > now)
  /\ pc'     = "idle"
  /\ budget' = 0
  /\ UNCHANGED <<keyVars, wheel, cur_tick, now, head>>

ExpireStep ==
  \/ ExpireTakeSlot
  \/ ExpirePush
  \/ ExpireTaken
  \/ ExpirePopDue
  \/ ExpirePopLater
  \/ ExpireReturn

Next ==
  \/ \E c \in Clients, s \in Servers \cup {NoKey}, t \in Timeouts :
       Create(c, s, t)
  \/ \E i \in Idx : Remove(i)
  \/ \E i \in Idx, t \in Timeouts : Touch(i, t)
  \/ \E t \in 1 .. MaxTick : ExpireCall(t)
  \/ ExpireStep

Spec == Init /\ [][Next]_vars

(***************************************************************************)
(* Properties                                                              *)
(***************************************************************************)

Slots == 0 .. WheelSlots - 1

WheelType ==
  [slots      : [Slots -> Idx \cup {kNil}],
   pending    : Idx \cup {kNil},
   prev       : [Idx -> Idx \cup {kNil, kFree}],
   next       : [Idx -> Idx \cup {kNil}],
   slot_tick  : [Idx -> Nat],
   in_pending : SUBSET Idx]

\* Every variable has its type: indices stay inside the session array or are
\* one of the two sentinels, and expire's locals are those of its loop.
TypeOK ==
  /\ hash \in [Keys -> Idx \cup {kNil}]
  /\ free_stack \in Seq(Idx)
  /\ client \in [Idx -> Clients \cup {NoKey}]
  /\ server \in [Idx -> Servers \cup {NoKey}]
  /\ expire_tick \in [Idx -> Nat]
  /\ wheel \in WheelType
  /\ cur_tick \in Nat
  /\ now \in Nat
  /\ pc \in {"idle", "loop", "take"}
  /\ budget \in 0 .. ExpireBudget
  /\ head \in Idx \cup {kNil}

\* lookup finds a live session under each of its keys, and under no other key:
\* no key outlives its session (remove) and no two sessions share one (create).
KeysExact ==
  /\ \A i \in Live : /\ client[i] \in Clients
                     /\ hash[client[i]] = i
                     /\ server[i] # NoKey => hash[server[i]] = i
  /\ \A k \in Keys : hash[k] # kNil =>
                     /\ hash[k] \in Live
                     /\ k \in {client[hash[k]], server[hash[k]]}

\* free_stack_ holds exactly the indices that are not in use, each once: no
\* index is handed out twice by create and none is lost by remove.
FreeExact ==
  /\ \A m, n \in 1 .. Len(free_stack) : free_stack[m] = free_stack[n] => m = n
  /\ \A i \in Idx : i \in Live <=>
                   \A n \in 1 .. Len(free_stack) : free_stack[n] # i

\* create never loses an insertion to a full rte_hash: two keys per session
\* always fit beside those in use (session.cpp: "EXT_TABLE ... does not fail").
HashNeverRefuses ==
  free_stack # <<>> => Cardinality(UsedKeys) + 2 <= HashEntries

\* The sessions on the list that starts at h.
ListFrom(h) ==
  LET upto[n \in 0 .. Capacity] ==
        IF n = 0 THEN {h} \ {kNil}
        ELSE upto[n - 1] \cup ({wheel.next[k] : k \in upto[n - 1]} \ {kNil})
  IN  upto[Capacity]

\* Every live session is on the list its own fields name (its slot, the pending
\* list, or the chain expire is taking down), so the wheel will reach it.
NoOrphan ==
  \A i \in Live :
    \/ i \in ListFrom(IF i \in wheel.in_pending THEN wheel.pending
                      ELSE wheel.slots[SlotOf(wheel.slot_tick[i])])
    \/ pc = "take" /\ i \in ListFrom(head)

\* A session waits in a slot the wheel has not passed, and no later than its
\* deadline: what lets touch leave a session where it is when its timeout grows.
SlotInTime ==
  \A i \in Live :
    \/ i \in wheel.in_pending
    \/ /\ cur_tick <= wheel.slot_tick[i]
       /\ wheel.slot_tick[i] <= expire_tick[i]

\* No deadline lies a whole turn of the wheel ahead: the longest timeout, set
\* while the wheel is MaxLag behind, ends short of the slot processed last.
WheelFits ==
  \A t \in Timeouts : MaxLag + (IF t = 0 THEN 1 ELSE t) + 3 <= WheelSlots

\* The wheel will reach every live session, and before its deadline.
WheelExact == NoOrphan /\ SlotInTime

\* When expire has returned with the wheel caught up, no session is left whose
\* expire_tick has been reached (session.h: "advance the wheel, delete the
\* sessions that have expired").
ExpiredAreRemoved ==
  pc = "idle" /\ wheel.pending = kNil /\ cur_tick > now =>
    \A i \in Live : expire_tick[i] > now

\* The worker keeps calling expire and expire keeps looping (worker_loop).
Fairness ==
  /\ WF_vars(\E t \in 1 .. MaxTick : ExpireCall(t))
  /\ WF_vars(ExpireStep)

FairSpec == Spec /\ Fairness

\* However small expire's budget, a session whose deadline has been reached is
\* eventually removed, unless a packet refreshes it first.
OverdueGoes ==
  \A i \in Idx :
    (i \in Live /\ expire_tick[i] <= now) ~>
      (i \notin Live \/ expire_tick[i] > now)

(***************************************************************************)
(* The table is a map with deadlines.                                      *)
(***************************************************************************)

\* What lookup(k) returns, as SessionStore sees it.
Found(k) ==
  IF hash[k] = kNil THEN NoKey
  ELSE [client   |-> client[hash[k]],
        server   |-> server[hash[k]],
        deadline |-> expire_tick[hash[k]]]

Store == INSTANCE SessionStore WITH
           store <- [k \in Keys |-> Found(k)],
           sweeping <- pc # "idle"

\* Seen through lookup by either key, the table behaves as SessionStore: a
\* session appears and disappears under both keys at once, keeps the deadline
\* of its last touch, and expire takes only sessions whose deadline is reached.
ImplementsStore == Store!Spec
=============================================================================
