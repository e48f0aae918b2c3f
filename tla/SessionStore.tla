---------------------------- MODULE SessionStore ----------------------------
(***************************************************************************)
(* What the session table promises its worker (include/lb/session.h): a    *)
(* map from five-tuples to sessions with a deadline.  It has no hash, no   *)
(* free list, no wheel; SessionTable implements it.                        *)
(***************************************************************************)
EXTENDS Integers

CONSTANTS Clients, Servers, NoKey, Timeouts, MaxTick

VARIABLES
  store,    \* five-tuple -> the session found under it, NoKey if none
  now,      \* the worker's second counter
  sweeping  \* whether the worker is inside expire

vars == <<store, now, sweeping>>

Keys == Clients \cup Servers

\* A session outlives its timeout: ticks are whole seconds, hence the + 1.
Deadline(timeout) == now + (IF timeout = 0 THEN 1 ELSE timeout) + 1

\* The store with entry e (or NoKey) under both keys of session c / s.
Put(c, s, e) == [k \in Keys |-> IF k \in {c, s} THEN e ELSE store[k]]

Init ==
  /\ store = [k \in Keys |-> NoKey]
  /\ now = 1
  /\ sweeping = FALSE

Create(c, s, timeout) ==
  /\ ~sweeping
  /\ store[c] = NoKey
  /\ s # NoKey => store[s] = NoKey
  /\ store' = Put(c, s, [client |-> c, server |-> s,
                         deadline |-> Deadline(timeout)])
  /\ UNCHANGED <<now, sweeping>>

Touch(c, timeout) ==
  /\ ~sweeping
  /\ store[c] # NoKey
  /\ store' = Put(c, store[c].server,
                  [store[c] EXCEPT !.deadline = Deadline(timeout)])
  /\ UNCHANGED <<now, sweeping>>

Close(c) ==
  /\ ~sweeping
  /\ store[c] # NoKey
  /\ store' = Put(c, store[c].server, NoKey)
  /\ UNCHANGED <<now, sweeping>>

\* Only a sweep lets time pass, and it takes nothing but what is due.
BeginSweep ==
  /\ ~sweeping
  /\ now' \in now .. MaxTick
  /\ sweeping' = TRUE
  /\ UNCHANGED store

Expire(c) ==
  /\ sweeping
  /\ store[c] # NoKey
  /\ store[c].deadline <= now
  /\ store' = Put(c, store[c].server, NoKey)
  /\ UNCHANGED <<now, sweeping>>

EndSweep ==
  /\ sweeping
  /\ sweeping' = FALSE
  /\ UNCHANGED <<store, now>>

Next ==
  \/ \E c \in Clients, s \in Servers \cup {NoKey}, t \in Timeouts :
       Create(c, s, t)
  \/ \E c \in Clients, t \in Timeouts : Touch(c, t)
  \/ \E c \in Clients : Close(c) \/ Expire(c)
  \/ BeginSweep
  \/ EndSweep

Spec == Init /\ [][Next]_vars
=============================================================================
