------------------------- MODULE SnapshotRcuProofs -------------------------
(***************************************************************************)
(* Proofs about SnapshotRcu, for any set of readers and any number of      *)
(* published versions.                                                     *)
(***************************************************************************)
EXTENDS SnapshotRcu, TLAPS

(***************************************************************************)
(* The inductive invariant.  The heart of it is GraceOK: a reader that     *)
(* still holds the snapshot being retired loaded it before the swap, hence *)
(* before the token moved, so its count is below the grace token and the   *)
(* writer cannot drop it from the scan.                                    *)
(***************************************************************************)

\* A reader that may hold a snapshot is registered and online.
ReadersOK ==
  \A r \in Readers :
    /\ cnt[r] <= token
    /\ tok[r] <= token
    /\ rpc[r] = "onlining" => tok[r] # 0
    /\ rpc[r] = "quiescent" => tok[r] # 0
    /\ rpc[r] \in {"loop", "round", "hold", "quiescent", "leave"} => cnt[r] # 0
    /\ rpc[r] \notin {"start", "gone"} => r \in registered
    /\ snap[r] # 0 => rpc[r] = "hold"

\* What a reader holds is current or being retired.
SnapOK ==
  /\ \A r \in Readers : snap[r] \in {0, cur, old}
  /\ cur <= version /\ old <= version
  /\ ppc # "idle" => old # cur
  /\ ppc = "idle" => old = 0
  /\ mpc # "exit" => cur # 0

GraceOK ==
  \A r \in Readers : snap[r] = old /\ old # 0 =>
    /\ ppc \in {"bitmap", "scan"} => cnt[r] < grace
    /\ ppc = "scan" => r \in scan

\* main destroys the last snapshot after every other thread has ended.
EndOK ==
  /\ mpc # "wait" => \A r \in Readers : rpc[r] = "gone"
  /\ mpc = "exit" => cpc = "stopped" /\ cur = 0
  /\ cpc \in {"top", "stopped"} => ppc = "idle"

IInv == TypeOK /\ ReadersOK /\ SnapOK /\ GraceOK /\ EndOK /\ HeapExact

LEMMA InitIInv == Init => IInv
<1> SUFFICES ASSUME Init PROVE IInv
  OBVIOUS
<1>1. TypeOK
  <2>1. g_running \in BOOLEAN /\ stop \in BOOLEAN
    BY Zenon DEF Init
  <2>. QED BY <2>1 DEF Init, TypeOK
<1>2. ReadersOK /\ SnapOK /\ GraceOK /\ EndOK
  BY DEF Init, ReadersOK, SnapOK, GraceOK, EndOK
<1>3. HeapExact
  BY SMTT(20) DEF Init, HeapExact
<1>. QED BY <1>1, <1>2, <1>3 DEF IInv

LEMMA ReaderStepIInv ==
  ASSUME IInv, NEW r \in Readers, ReaderStep(r)
  PROVE  IInv'
<1> USE DEF IInv, TypeOK, ReadersOK, SnapOK, GraceOK, EndOK, HeapExact, Goto,
            snapVars, qsbrVars, pubVars, endVars
<1>1. CASE Register(r)
  BY <1>1, Zenon DEF Register
<1>2. CASE OnlineLoad(r)
  BY <1>2 DEF OnlineLoad
<1>3. CASE OnlineStore(r)
  BY <1>3, Zenon DEF OnlineStore
<1>4. CASE LoopTest(r)
  BY <1>4, Zenon DEF LoopTest
<1>5. CASE LoadCurrent(r)
  BY <1>5, Zenon DEF LoadCurrent
<1>6. CASE QuiescentLoad(r)
  BY <1>6 DEF QuiescentLoad
<1>7. CASE QuiescentStore(r)
  BY <1>7, Zenon DEF QuiescentStore
<1>8. CASE Offline(r)
  BY <1>8 DEF Offline
<1>9. CASE Unregister(r)
  BY <1>9, Zenon DEF Unregister
<1>. QED
  BY <1>1, <1>2, <1>3, <1>4, <1>5, <1>6, <1>7, <1>8, <1>9, Zenon DEF ReaderStep

LEMMA ControlStepIInv ==
  ASSUME IInv, ControlStep
  PROVE  IInv'
<1> USE DEF IInv, TypeOK, ReadersOK, SnapOK, GraceOK, EndOK, HeapExact,
            AfterStage, snapVars, qsbrVars, readVars, pubVars, endVars
<1>1. CASE RunTop
  BY <1>1, Zenon DEF RunTop
<1>2. CASE RunSkip
  BY <1>2, Zenon DEF RunSkip
<1>3. CASE PublishSwap
  BY <1>3 DEF PublishSwap
<1>4. CASE SyncStart
  BY <1>4 DEF SyncStart
<1>5. CASE SyncBitmap
  BY <1>5, Zenon DEF SyncBitmap
<1>6. ASSUME NEW r \in Readers, SyncCheck(r) PROVE IInv'
  BY <1>6 DEF SyncCheck, Passed
<1>7. CASE PublishFree
  BY <1>7, SMTT(20) DEF PublishFree
<1>. QED BY <1>1, <1>2, <1>3, <1>4, <1>5, <1>6, <1>7, Zenon DEF ControlStep

LEMMA NextIInv == IInv /\ [Next]_vars => IInv'
<1> SUFFICES ASSUME IInv, [Next]_vars PROVE IInv'
  OBVIOUS
<1>1. ASSUME NEW r \in Readers, ReaderStep(r) PROVE IInv'
  BY <1>1, ReaderStepIInv
<1>2. CASE ControlStep
  BY <1>2, ControlStepIInv
<1> USE DEF IInv, TypeOK, ReadersOK, SnapOK, GraceOK, EndOK, HeapExact,
            snapVars, qsbrVars, readVars, pubVars, endVars
<1>3. CASE NeighDefer
  BY <1>3 DEF NeighDefer
<1>4. CASE Shutdown
  BY <1>4, Zenon DEF Shutdown
<1>5. CASE MainStop
  BY <1>5, Zenon DEF MainStop
<1>6. CASE MainDestroy
  BY <1>6, Zenon DEF MainDestroy
<1>7. CASE UNCHANGED vars
  BY <1>7, Zenon DEF vars
<1>. QED BY <1>1, <1>2, <1>3, <1>4, <1>5, <1>6, <1>7, Zenon DEF Next, Exited

\* The state of publication, reclamation and shutdown is always well typed.
THEOREM TypeCorrect == Spec => []TypeOK
<1>1. IInv => TypeOK
  BY DEF IInv
<1>. QED BY InitIInv, NextIInv, <1>1, PTL DEF Spec

\* No worker and no master thread ever follows a snapshot that publish or
\* destroy has freed, however many readers there are and however they start,
\* loop and leave.
THEOREM ReadersAreSafe == Spec => []NoUseAfterFree
<1>1. IInv => NoUseAfterFree
  BY DEF IInv, TypeOK, SnapOK, HeapExact, NoUseAfterFree
<1>. QED BY InitIInv, NextIInv, <1>1, PTL DEF Spec

\* When publish has returned, every reader that holds a snapshot holds the one
\* just published.
THEOREM PublishedIsSeen == Spec => []OkMeansEveryReader
<1>1. IInv => OkMeansEveryReader
  BY DEF IInv, SnapOK, OkMeansEveryReader
<1>. QED BY InitIInv, NextIInv, <1>1, PTL DEF Spec

\* At most two snapshots are allocated, and none is leaked at exit.
THEOREM NothingLeaks == Spec => []HeapExact
<1>1. IInv => HeapExact
  BY DEF IInv
<1>. QED BY InitIInv, NextIInv, <1>1, PTL DEF Spec
=============================================================================
