---------------------------- MODULE LoggerProofs ----------------------------
(***************************************************************************)
(* Proofs about Logger, for any number of logging threads, any queue and   *)
(* file size and any number of lines.                                      *)
(***************************************************************************)
EXTENDS Logger, FiniteSetTheorems, TLAPS

\* The fields the argument is about, and where they may be together.  Lines are
\* queued while active only, so that the queue the writer swaps after stop is the
\* last one: this is what makes stopping safe to act upon a whole round later.
StopInv ==
  /\ wpc \in {"none", "wait", "files", "write", "done"}
  /\ apc \in {"closed", "starting", "open", "joining"}
  /\ active \in BOOLEAN /\ stop \in BOOLEAN /\ stopping \in BOOLEAN
  /\ wpc = "none" <=> apc = "closed"
  /\ active <=> apc = "open"
  /\ stop => apc \in {"joining", "closed"}
  /\ stopping => stop /\ queue = <<>> /\ wpc \in {"files", "write"}
  /\ stopping /\ wpc = "write" => unreported = 0
  /\ wpc \in {"none", "wait", "done"} => batch = <<>>
  /\ wpc \in {"none", "done"} => queue = <<>> /\ unreported = 0
  /\ wpc = "done" => apc = "joining"

LEMMA StopInit == Init => StopInv
BY ZenonT(40) DEF Init, StopInv

LEMMA StopStep == StopInv /\ [Next]_vars => StopInv'
<1> SUFFICES ASSUME StopInv, [Next]_vars PROVE StopInv'
  OBVIOUS
<1> USE DEF StopInv
<1>1. ASSUME NEW t \in Threads, Emit(t) PROVE StopInv'
  BY <1>1 DEF Emit, sinkvars, dropvars, wrtvars
<1>2. ASSUME NEW t \in Threads, Push(t) PROVE StopInv'
  <2>1. CASE ~active
    BY <1>2, <2>1 DEF Push, wrtvars, dropvars
  <2>2. CASE active
    <3>1. apc = "open" /\ wpc # "none" /\ wpc # "done" /\ ~stopping
      BY <2>2
    <3>2. UNCHANGED <<active, stop, wpc, batch, stopping, apc>>
      BY <1>2 DEF Push, wrtvars
    <3>. QED BY <3>1, <3>2
  <2>. QED BY <2>1, <2>2
<1>3. CASE Take
  <2>1. stop => ~active
    OBVIOUS
  <2>. QED BY <1>3, <2>1 DEF Take, QueueSwapped, dropvars
<1>4. CASE Files
  <2>1. /\ wpc = "files" /\ wpc' = "write" /\ unreported' = 0
        /\ UNCHANGED <<queue, active, stop, batch, stopping, apc>>
    BY <1>4 DEF Files, sinkvars
  <2>. QED BY <2>1
<1>5. ASSUME NEW ok \in BOOLEAN, Write(ok) PROVE StopInv'
  <2>1. /\ wpc = "write"
        /\ UNCHANGED <<queue, active, stop, wpc, stopping, apc, unreported>>
    BY <1>5 DEF Write, sinkvars, dropvars
  <2>. QED BY <2>1
<1>6. CASE RoundDone
  BY <1>6, Zenon DEF RoundDone, Leaves, sinkvars, dropvars
<1>7. ASSUME NEW ok \in BOOLEAN, OpenFile(ok) PROVE StopInv'
  BY <1>7, Zenon DEF OpenFile, dropvars
<1>8. CASE Activate
  BY <1>8 DEF Activate, dropvars, wrtvars
<1>9. CASE Shutdown
  BY <1>9, Zenon DEF Shutdown, dropvars, wrtvars
<1>10. CASE Join
  BY <1>10 DEF Join, sinkvars, dropvars
<1>11. CASE RequestReopen
  BY <1>11 DEF RequestReopen, sinkvars, dropvars, wrtvars
<1>12. CASE UNCHANGED vars
  BY <1>12 DEF vars, sinkvars, dropvars, wrtvars
<1>. QED
  BY <1>1, <1>2, <1>3, <1>4, <1>5, <1>6, <1>7, <1>8, <1>9, <1>10, <1>11, <1>12, Zenon
     DEF Next, Writer

\* Once shutdown() has returned nothing is left behind: no line in the queue or
\* in the writer's batch, no drop unreported (Sink::run and shutdown), whatever
\* threads logged, and however often the logger was opened, before.
THEOREM NothingIsLeft == Spec => []ShutdownComplete
<1>1. StopInv => ShutdownComplete
  BY DEF StopInv, ShutdownComplete
<1>. QED BY <1>1, StopInit, StopStep, PTL DEF Spec

-----------------------------------------------------------------------------
(* Sequences without repetition.                                           *)

LEMMA AppendSet ==
  ASSUME NEW s \in Seq(Nat), NEW x \in Nat
  PROVE  /\ ToSet(Append(s, x)) = ToSet(s) \cup {x}
         /\ IsInjective(s) /\ x \notin ToSet(s) => IsInjective(Append(s, x))
<1> DEFINE a == Append(s, x)
<1>1. DOMAIN a = 1 .. Len(s) + 1 /\ DOMAIN s = 1 .. Len(s) /\ Len(s) \in Nat
  OBVIOUS
<1>2. a[Len(s) + 1] = x /\ \A i \in 1 .. Len(s) : a[i] = s[i]
  OBVIOUS
<1> HIDE DEF a
<1>3. ToSet(a) = ToSet(s) \cup {x}
  BY <1>1, <1>2 DEF ToSet
<1>4. IsInjective(s) /\ x \notin ToSet(s) => IsInjective(a)
  BY <1>1, <1>2, SMTT(20) DEF ToSet, IsInjective
<1>. QED BY <1>3, <1>4 DEF a

LEMMA TailSet ==
  ASSUME NEW s \in Seq(Nat), s # <<>>
  PROVE  /\ ToSet(s) = {Head(s)} \cup ToSet(Tail(s)) /\ Head(s) \in Nat
         /\ IsInjective(s) => IsInjective(Tail(s)) /\ Head(s) \notin ToSet(Tail(s))
<1> DEFINE t == Tail(s)
<1>1. DOMAIN t = 1 .. Len(s) - 1 /\ DOMAIN s = 1 .. Len(s) /\ Len(s) \in Nat \ {0}
  OBVIOUS
<1>2. Head(s) = s[1] /\ \A i \in 1 .. Len(s) - 1 : t[i] = s[i + 1]
  OBVIOUS
<1>3. Head(s) \in Nat
  OBVIOUS
<1> HIDE DEF t
<1>4. ToSet(s) = {Head(s)} \cup ToSet(t)
  <2>1. ASSUME NEW i \in 1 .. Len(s) PROVE s[i] \in {Head(s)} \cup ToSet(t)
    <3>1. CASE i = 1
      BY <1>2, <3>1
    <3>2. CASE i # 1
      <4>1. i - 1 \in 1 .. Len(s) - 1 /\ (i - 1) + 1 = i
        BY <1>1, <3>2
      <4>2. t[i - 1] = s[i]
        BY <1>2, <4>1
      <4>. QED BY <1>1, <4>1, <4>2 DEF ToSet
    <3>. QED BY <3>1, <3>2
  <2>2. ASSUME NEW i \in 1 .. Len(s) - 1 PROVE t[i] \in ToSet(s)
    BY <1>1, <1>2 DEF ToSet
  <2>3. Head(s) \in ToSet(s)
    BY <1>1, <1>2 DEF ToSet
  <2>. QED BY <1>1, <2>1, <2>2, <2>3, Zenon DEF ToSet
<1>5. ASSUME IsInjective(s) PROVE IsInjective(t) /\ Head(s) \notin ToSet(t)
  <2>1. \A i, j \in 1 .. Len(s) : s[i] = s[j] => i = j
    BY <1>1, <1>5, Zenon DEF IsInjective
  <2>2. \A i \in 1 .. Len(s) - 1 : i + 1 \in 1 .. Len(s) /\ i + 1 # 1
    BY <1>1
  <2>3. \A i, j \in 1 .. Len(s) - 1 : t[i] = t[j] => i = j
    BY <1>2, <2>1, <2>2
  <2>4. \A i \in 1 .. Len(s) - 1 : t[i] # s[1]
    BY <1>1, <1>2, <2>1, <2>2
  <2>. QED BY <1>1, <1>2, <2>3, <2>4, ZenonT(40) DEF ToSet, IsInjective
<1>. QED BY <1>3, <1>4, <1>5 DEF t

LEMMA ConcatSet ==
  ASSUME NEW s \in Seq(Nat), NEW t \in Seq(Nat)
  PROVE  /\ s \o t \in Seq(Nat)
         /\ ToSet(s \o t) = ToSet(s) \cup ToSet(t)
         /\ IsInjective(s) /\ IsInjective(t) /\ ToSet(s) \cap ToSet(t) = {}
              => IsInjective(s \o t)
<1> DEFINE u == s \o t
           m == Len(s)
           n == Len(t)
<1>1. /\ u \in Seq(Nat) /\ DOMAIN u = 1 .. m + n /\ m \in Nat /\ n \in Nat
      /\ DOMAIN s = 1 .. m /\ DOMAIN t = 1 .. n
  OBVIOUS
<1>2. (\A i \in 1 .. m : u[i] = s[i]) /\ (\A i \in 1 .. n : u[m + i] = t[i])
  OBVIOUS
<1> HIDE DEF u, m, n
<1>3. ASSUME NEW i \in 1 .. m + n
      PROVE  \/ i \in 1 .. m /\ u[i] = s[i]
             \/ i - m \in 1 .. n /\ u[i] = t[i - m]
  <2>1. CASE i <= m
    BY <1>1, <1>2, <2>1
  <2>2. CASE i > m
    <3>1. i - m \in 1 .. n /\ m + (i - m) = i
      BY <1>1, <2>2
    <3>. QED BY <1>2, <3>1
  <2>. QED BY <1>1, <2>1, <2>2
<1>4. \A i \in 1 .. n : m + i \in 1 .. m + n
  BY <1>1
<1>5. \A i \in 1 .. m : i \in 1 .. m + n
  BY <1>1
<1>6. ToSet(u) = ToSet(s) \cup ToSet(t)
  <2>1. \A i \in 1 .. m + n : u[i] \in ToSet(s) \cup ToSet(t)
    BY <1>1, <1>3, Zenon DEF ToSet
  <2>2. \A i \in 1 .. m : s[i] \in ToSet(u)
    BY <1>1, <1>2, <1>5, Zenon DEF ToSet
  <2>3. \A i \in 1 .. n : t[i] \in ToSet(u)
    BY <1>1, <1>2, <1>4, ZenonT(40) DEF ToSet
  <2>. QED BY <1>1, <2>1, <2>2, <2>3, Zenon DEF ToSet
<1>7. ASSUME IsInjective(s), IsInjective(t), ToSet(s) \cap ToSet(t) = {}
      PROVE  IsInjective(u)
  <2> SUFFICES ASSUME NEW i \in 1 .. m + n, NEW j \in 1 .. m + n, u[i] = u[j] PROVE i = j
    BY <1>1 DEF IsInjective
  <2>1. \A k \in 1 .. m : s[k] \notin ToSet(t)
    BY <1>1, <1>7, Zenon DEF ToSet
  <2>2. \A k \in 1 .. n : t[k] \in ToSet(t)
    BY <1>1, Zenon DEF ToSet
  <2>3. \/ i \in 1 .. m /\ j \in 1 .. m /\ s[i] = s[j]
        \/ i - m \in 1 .. n /\ j - m \in 1 .. n /\ t[i - m] = t[j - m]
    BY <1>3, <2>1, <2>2, Zenon
  <2>4. i \in 1 .. m /\ j \in 1 .. m /\ s[i] = s[j] => i = j
    BY <1>1, <1>7, Zenon DEF IsInjective
  <2>5. i - m \in 1 .. n /\ j - m \in 1 .. n /\ t[i - m] = t[j - m] => i - m = j - m
    BY <1>1, <1>7, Zenon DEF IsInjective
  <2>. QED BY <1>1, <2>3, <2>4, <2>5
<1>. QED BY <1>1, <1>6, <1>7 DEF u

-----------------------------------------------------------------------------
(* Where the lines are.                                                    *)

LineType ==
  /\ issued \in Nat /\ dropped \in Nat
  /\ tpc \in [Threads -> {"idle", "lock"}] /\ line \in [Threads -> Nat]
  /\ queue \in Seq(Nat) /\ batch \in Seq(Nat) /\ written \in Seq(Nat)

Lines == InPush \cup ToSet(queue) \cup ToSet(batch) \cup ToSet(written) \cup err

\* No line is in two places, or twice in one.
Apart ==
  /\ \A t, u \in Threads : tpc[t] = "lock" /\ tpc[u] = "lock" /\ line[t] = line[u] => t = u
  /\ IsInjective(queue) /\ IsInjective(batch) /\ IsInjective(written)
  /\ ToSet(queue) \cap ToSet(batch) = {} /\ ToSet(queue) \cap ToSet(written) = {}
  /\ ToSet(batch) \cap ToSet(written) = {}
  /\ err \cap (ToSet(queue) \cup ToSet(batch) \cup ToSet(written)) = {}
  /\ InPush \cap (ToSet(queue) \cup ToSet(batch) \cup ToSet(written) \cup err) = {}

LineInv ==
  /\ LineType
  /\ Apart
  /\ Lines \subseteq 1 .. issued
  /\ issued = Cardinality(Lines) + dropped

LEMMA LinesFinite ==
  ASSUME LineInv
  PROVE  IsFiniteSet(Lines) /\ Cardinality(Lines) \in Nat
<1>1. Lines \in SUBSET (1 .. issued) /\ issued \in Int
  BY DEF LineInv, LineType
<1>2. IsFiniteSet(1 .. issued)
  BY <1>1, FS_Interval
<1>3. IsFiniteSet(Lines)
  BY <1>1, <1>2, FS_Subset, Zenon
<1>. QED BY <1>3, FS_CardinalityType

LEMMA LinesInit == Init => LineInv
<1> SUFFICES ASSUME Init PROVE LineInv
  OBVIOUS
<1>1. InPush = {}
  BY DEF Init, InPush
<1>2. ToSet(<<>>) = {} /\ IsInjective(<<>>)
  BY DEF ToSet, IsInjective
<1>3. LineType
  BY DEF Init, LineType
<1>4. Lines = {}
  BY <1>1, <1>2 DEF Init, Lines
<1>5. Apart
  BY <1>1, <1>2 DEF Init, Apart
<1>. QED BY <1>3, <1>4, <1>5, FS_EmptySet DEF Init, LineInv

\* A thread enters push() with a line, and leaves it.
LEMMA EntersPush ==
  ASSUME LineInv, NEW t \in Threads, tpc[t] = "idle", NEW l \in Nat, l \notin InPush,
         tpc' = [tpc EXCEPT ![t] = "lock"], line' = [line EXCEPT ![t] = l]
  PROVE  /\ InPush' = InPush \cup {l}
         /\ \A u, v \in Threads :
              tpc'[u] = "lock" /\ tpc'[v] = "lock" /\ line'[u] = line'[v] => u = v
<1>1. \A u \in Threads : u # t => tpc'[u] = tpc[u] /\ line'[u] = line[u]
  BY DEF LineInv, LineType
<1>2. tpc'[t] = "lock" /\ line'[t] = l
  BY DEF LineInv, LineType
<1>3. \A u \in Threads : tpc[u] = "lock" => u # t /\ line[u] # l
  BY DEF InPush
<1>4. InPush' = InPush \cup {l}
  BY <1>1, <1>2, <1>3 DEF InPush
<1>. QED BY <1>1, <1>2, <1>3, <1>4 DEF LineInv, Apart

LEMMA LeavesPush ==
  ASSUME LineInv, NEW t \in Threads, tpc[t] = "lock",
         tpc' = [tpc EXCEPT ![t] = "idle"], line' = [line EXCEPT ![t] = 0]
  PROVE  /\ InPush' = InPush \ {line[t]} /\ line[t] \in InPush
         /\ \A u, v \in Threads :
              tpc'[u] = "lock" /\ tpc'[v] = "lock" /\ line'[u] = line'[v] => u = v
<1>1. \A u \in Threads : u # t => tpc'[u] = tpc[u] /\ line'[u] = line[u]
  BY DEF LineInv, LineType
<1>2. tpc'[t] # "lock" /\ line[t] \in InPush
  BY DEF LineInv, LineType, InPush
<1>3. \A u \in Threads : tpc[u] = "lock" /\ u # t => line[u] # line[t]
  BY DEF LineInv, Apart
<1>4. InPush' = InPush \ {line[t]}
  BY <1>1, <1>2, <1>3 DEF InPush
<1>. QED BY <1>1, <1>2, <1>4 DEF LineInv, Apart

LEMMA EmitLines ==
  ASSUME LineInv, NEW t \in Threads, Emit(t)
  PROVE  LineInv'
<1> DEFINE l == issued + 1
<1>1. /\ issued' = l /\ tpc[t] = "idle"
      /\ UNCHANGED <<queue, batch, written, dropped>>
  BY DEF Emit, sinkvars, dropvars, wrtvars
<1>2. l \in Nat /\ l \notin Lines /\ Lines \cup {l} \subseteq 1 .. l
  <2>1. issued \in Nat /\ Lines \subseteq 1 .. issued
    BY DEF LineInv, LineType
  <2>2. l \notin 1 .. issued /\ l \in 1 .. l /\ 1 .. issued \subseteq 1 .. l
    BY <2>1
  <2>. QED BY <2>1, <2>2
<1>3. /\ l \notin InPush /\ l \notin err
      /\ l \notin ToSet(queue) /\ l \notin ToSet(batch) /\ l \notin ToSet(written)
  BY <1>2 DEF Lines
<1>4. Lines' = Lines \cup {l} /\ LineType' /\ Apart'
  <2>1. CASE active
    <3>1. /\ tpc' = [tpc EXCEPT ![t] = "lock"] /\ line' = [line EXCEPT ![t] = l]
          /\ err' = err
      BY <2>1 DEF Emit
    <3>2. /\ InPush' = InPush \cup {l}
          /\ \A u, v \in Threads :
               tpc'[u] = "lock" /\ tpc'[v] = "lock" /\ line'[u] = line'[v] => u = v
      BY <1>1, <1>2, <1>3, <3>1, EntersPush, ZenonT(40)
    <3>3. LineType'
      BY <1>1, <1>2, <3>1 DEF LineInv, LineType
    <3>4. Lines' = Lines \cup {l}
      BY <1>1, <3>1, <3>2 DEF Lines
    <3>5. Apart'
      BY <1>1, <1>3, <3>1, <3>2, SMTT(20) DEF LineInv, Apart
    <3>. QED BY <3>3, <3>4, <3>5
  <2>2. CASE ~active
    <3>1. UNCHANGED <<tpc, line>> /\ err' = err \cup {l}
      BY <2>2 DEF Emit
    <3>2. InPush' = InPush
      BY <3>1 DEF InPush
    <3>3. LineType'
      BY <1>1, <1>2, <3>1 DEF LineInv, LineType
    <3>4. Lines' = Lines \cup {l}
      BY <1>1, <3>1, <3>2, SMTT(20) DEF Lines
    <3>5. Apart'
      BY <1>1, <1>3, <3>1, <3>2 DEF LineInv, Apart
    <3>. QED BY <3>3, <3>4, <3>5
  <2>. QED BY <2>1, <2>2
<1>5. Cardinality(Lines') = Cardinality(Lines) + 1
  BY <1>2, <1>4, LinesFinite, FS_AddElement, Zenon
<1>. QED BY <1>1, <1>2, <1>4, <1>5, LinesFinite, SMTT(20) DEF LineInv, LineType

LEMMA PushLines ==
  ASSUME LineInv, NEW t \in Threads, Push(t)
  PROVE  LineInv'
<1> DEFINE l == line[t]
<1>1. /\ tpc[t] = "lock"
      /\ tpc' = [tpc EXCEPT ![t] = "idle"] /\ line' = [line EXCEPT ![t] = 0]
      /\ UNCHANGED <<batch, written, issued>>
  BY DEF Push, wrtvars
<1>2. /\ InPush' = InPush \ {l} /\ l \in InPush /\ l \in Lines /\ l \in Nat
      /\ \A u, v \in Threads :
           tpc'[u] = "lock" /\ tpc'[v] = "lock" /\ line'[u] = line'[v] => u = v
  BY <1>1, LeavesPush, ZenonT(40) DEF Lines, LineInv, LineType
<1>3. /\ l \notin ToSet(queue) /\ l \notin ToSet(batch) /\ l \notin ToSet(written)
      /\ l \notin err
  BY <1>2 DEF LineInv, Apart
<1>4. tpc' \in [Threads -> {"idle", "lock"}] /\ line' \in [Threads -> Nat]
  BY <1>1 DEF LineInv, LineType
<1> HIDE DEF l
<1>5. CASE ~active
  <2>1. UNCHANGED <<queue, dropped>> /\ err' = err \cup {l}
    BY <1>5 DEF Push, dropvars, l
  <2>2. Lines' = Lines
    BY <1>1, <1>2, <2>1, SMTT(20) DEF Lines
  <2>3. Apart'
    BY <1>1, <1>2, <1>3, <2>1, SMTT(20) DEF LineInv, Apart
  <2>. QED BY <1>1, <1>4, <2>1, <2>2, <2>3 DEF LineInv, LineType
<1>6. CASE active /\ Len(queue) >= Cap
  <2>1. UNCHANGED <<queue, err>> /\ dropped' = dropped + 1
    BY <1>6 DEF Push
  <2>2. Lines' = Lines \ {l}
    BY <1>1, <1>2, <1>3, <2>1, SMTT(20) DEF Lines
  <2>3. Apart'
    BY <1>1, <1>2, <2>1 DEF LineInv, Apart
  <2>4. Cardinality(Lines') = Cardinality(Lines) - 1
    BY <1>2, <2>2, LinesFinite, FS_RemoveElement, Zenon
  <2>5. LineType' /\ Lines' \subseteq 1 .. issued'
    <3>1. LineType'
      BY <1>1, <1>4, <2>1 DEF LineInv, LineType
    <3>2. Lines \subseteq 1 .. issued
      BY DEF LineInv
    <3>. QED BY <1>1, <2>2, <3>1, <3>2, Zenon
  <2>6. issued' = Cardinality(Lines') + dropped'
    BY <1>1, <2>1, <2>4, LinesFinite, SMTT(20) DEF LineInv, LineType
  <2>. QED BY <2>3, <2>5, <2>6 DEF LineInv
<1>7. CASE active /\ ~(Len(queue) >= Cap)
  <2>1. queue' = Append(queue, l) /\ UNCHANGED <<dropped, err>>
    BY <1>7 DEF Push, dropvars, l
  <2>2. /\ ToSet(queue') = ToSet(queue) \cup {l} /\ IsInjective(queue')
        /\ queue' \in Seq(Nat)
    BY <1>2, <1>3, <2>1, AppendSet, SMTT(20) DEF LineInv, LineType, Apart
  <2>3. Lines' = Lines
    BY <1>1, <1>2, <2>1, <2>2, SMTT(20) DEF Lines
  <2>4. Apart'
    BY <1>1, <1>2, <1>3, <2>1, <2>2, SMTT(20) DEF LineInv, Apart
  <2>. QED BY <1>1, <1>4, <2>1, <2>2, <2>3, <2>4, SMTT(20) DEF LineInv, LineType
<1>. QED BY <1>5, <1>6, <1>7

LEMMA TakeLines ==
  ASSUME StopInv, LineInv, Take
  PROVE  LineInv'
<1>1. /\ batch = <<>> /\ batch' = queue /\ queue' = <<>>
      /\ UNCHANGED <<tpc, line, written, err, issued, dropped>>
  BY DEF Take, StopInv, QueueSwapped, outvars, dropvars, thrvars
<1>2. ToSet(<<>>) = {} /\ IsInjective(<<>>)
  BY DEF ToSet, IsInjective
<1>3. InPush' = InPush
  BY <1>1 DEF InPush
<1>4. Lines' = Lines
  BY <1>1, <1>2, <1>3 DEF Lines
<1>5. Apart'
  BY <1>1, <1>2, <1>3 DEF LineInv, Apart
<1>. QED BY <1>1, <1>4, <1>5 DEF LineInv, LineType

LEMMA WriteLines ==
  ASSUME LineInv, NEW ok, Write(ok)
  PROVE  LineInv'
<1> DEFINE l == Head(batch)
<1>1. /\ batch # <<>> /\ batch' = Tail(batch)
      /\ UNCHANGED <<tpc, line, queue, issued, dropped>>
  BY DEF Write, sinkvars, dropvars, thrvars
<1>2. InPush' = InPush
  BY <1>1 DEF InPush
<1>3. /\ ToSet(batch) = {l} \cup ToSet(batch') /\ l \in Nat
      /\ IsInjective(batch') /\ l \notin ToSet(batch')
  BY <1>1, TailSet DEF LineInv, LineType, Apart
<1>4. batch' \in Seq(Nat)
  BY <1>1 DEF LineInv, LineType
<1>5. l \notin ToSet(queue) /\ l \notin ToSet(written) /\ l \notin err /\ l \notin InPush
  BY <1>3 DEF LineInv, Apart
<1>6. CASE file.open
  <2>1. written' = Append(written, l) /\ err' = err
    BY <1>6 DEF Write
  <2> HIDE DEF l
  <2>2. /\ ToSet(written') = ToSet(written) \cup {l} /\ IsInjective(written')
        /\ written' \in Seq(Nat)
    BY <1>3, <1>5, <2>1, AppendSet, SMTT(20) DEF LineInv, LineType, Apart
  <2>3. Lines' = Lines
    BY <1>1, <1>2, <1>3, <2>1, <2>2, SMTT(20) DEF Lines
  <2>4. Apart'
    BY <1>1, <1>2, <1>3, <1>5, <2>1, <2>2, SMTT(20) DEF LineInv, Apart
  <2>. QED BY <1>1, <1>4, <2>1, <2>2, <2>3, <2>4, SMTT(20) DEF LineInv, LineType
<1>7. CASE ~file.open
  <2>1. written' = written /\ err' = err \cup {l}
    BY <1>7 DEF Write
  <2> HIDE DEF l
  <2>2. Lines' = Lines
    BY <1>1, <1>2, <1>3, <2>1, SMTT(20) DEF Lines
  <2>3. Apart'
    BY <1>1, <1>2, <1>3, <1>5, <2>1, SMTT(20) DEF LineInv, Apart
  <2>. QED BY <1>1, <1>4, <2>1, <2>2, <2>3 DEF LineInv, LineType
<1>. QED BY <1>6, <1>7

LEMMA SameLines ==
  ASSUME LineInv, UNCHANGED <<queue, batch, written, err, tpc, line, issued, dropped>>
  PROVE  LineInv'
<1>1. InPush' = InPush /\ LineType'
  BY DEF InPush, LineInv, LineType
<1>2. Lines' = Lines /\ Apart'
  BY <1>1 DEF Lines, LineInv, Apart
<1>. QED BY <1>1, <1>2 DEF LineInv

LEMMA LinesStep == StopInv /\ LineInv /\ [Next]_vars => LineInv'
<1> SUFFICES ASSUME StopInv, LineInv, [Next]_vars PROVE LineInv'
  OBVIOUS
<1>1. CASE \E t \in Threads : Emit(t) \/ Push(t)
  BY <1>1, EmitLines, PushLines
<1>2. CASE Writer
  <2>1. CASE Files \/ RoundDone
    BY <2>1, SameLines DEF Files, RoundDone, sinkvars, dropvars, outvars, thrvars
  <2>. QED BY <1>2, <2>1, TakeLines, WriteLines, SMTT(20) DEF Writer
<1>3. CASE (\E ok \in BOOLEAN : OpenFile(ok)) \/ Activate \/ Shutdown \/ Join \/ RequestReopen
  BY <1>3, SameLines
     DEF OpenFile, Activate, Shutdown, Join, RequestReopen,
         sinkvars, dropvars, outvars, wrtvars, thrvars
<1>4. CASE UNCHANGED vars
  BY <1>4, SameLines DEF vars, sinkvars, dropvars, outvars, wrtvars, thrvars
<1>. QED BY <1>1, <1>2, <1>3, <1>4 DEF Next

\* No line is lost or written twice: wherever threads are inside push(), and
\* whatever the writer, open_file() and shutdown() do meanwhile, a line is in
\* exactly one place, and the lines in none are those counted in dropped.
THEOREM NoLineIsLost == Spec => []NoLineLost
<1>1. LineInv => NoLineLost
  <2> SUFFICES ASSUME LineInv PROVE NoLineLost
    OBVIOUS
  <2> DEFINE q == queue \o batch
             all == queue \o batch \o written
  <2>1. /\ q \in Seq(Nat) /\ ToSet(q) = ToSet(queue) \cup ToSet(batch) /\ IsInjective(q)
    BY ConcatSet DEF LineInv, LineType, Apart
  <2>2. all = q \o written
    OBVIOUS
  <2> HIDE DEF q
  <2>3. ToSet(all) = ToSet(q) \cup ToSet(written) /\ IsInjective(all)
    <3>1. ToSet(q) \cap ToSet(written) = {} /\ IsInjective(written) /\ written \in Seq(Nat)
      BY <2>1 DEF LineInv, LineType, Apart
    <3>. QED BY <2>1, <2>2, <3>1, ConcatSet
  <2>4. InPush \cup ToSet(all) \cup err = Lines
    BY <2>1, <2>3 DEF Lines
  <2>5. InPush \cap (ToSet(all) \cup err) = {} /\ ToSet(all) \cap err = {}
    BY <2>1, <2>3 DEF LineInv, Apart
  <2>. QED BY <2>3, <2>4, <2>5 DEF LineInv, NoLineLost
<1>. QED BY <1>1, LinesInit, LinesStep, StopInit, StopStep, PTL DEF Spec

=============================================================================
