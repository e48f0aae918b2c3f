------------------------------- MODULE Logger -------------------------------
(***************************************************************************)
(* The asynchronous logger (src/common/logger.cpp).  Any thread hands its  *)
(* lines to push(); the thread l4lb-log takes all of them at once and      *)
(* writes them to a file, which it rotates by size.  open_file() and       *)
(* shutdown() start and stop that thread; before and after, and whenever   *)
(* the file cannot be opened, lines go to stderr.                          *)
(*                                                                         *)
(* A line is a number, 0 for one of the writer's own (notice).             *)
(* The writer wakes up on a timeout of a second, or earlier for an urgent  *)
(* line or a long queue: it may wake up at any time.  Sizes are in lines.  *)
(***************************************************************************)
EXTENDS Integers, Sequences, FiniteSets, SequencesExt

CONSTANTS
  Threads,    \* threads that log
  Cap,        \* queue_cap
  MaxSize,    \* max_size; a file that has reached it is rotated
  MaxFiles,   \* max_files
  MaxLines,   \* bound: lines logged
  MaxOpens    \* bound: calls of open_file

ASSUME LoggerConstants ==
  /\ Cap \in Nat \ {0} /\ MaxSize \in Nat \ {0} /\ MaxFiles \in Nat
  /\ MaxLines \in Nat /\ MaxOpens \in Nat

VARIABLES
  queue, active, stop,   \* Sink's fields under mu
  dropped, unreported,   \* dropped, drop_unreported
  reopen,                \* g_reopen
  file,                  \* the open log file: [open, cur, old], see below
  wpc, batch, stopping,  \* the writer, and run()'s locals
  apc,                   \* the thread that opens and shuts down
  tpc, line,             \* a logging thread, and the line it is logging
  issued, opens,         \* history: lines logged, calls of open_file
  err,                   \* history: lines that went to stderr only
  written                \* history: lines that went to the file, in order

sinkvars == <<queue, active, stop>>
dropvars == <<dropped, unreported>>
wrtvars == <<wpc, batch, stopping>>
thrvars == <<tpc, line, issued>>
outvars == <<file, err, written>>
vars == <<sinkvars, dropvars, reopen, outvars, wrtvars, apc, thrvars, opens>>

\* file.cur is the content of the current file, file.old[i] that of number i.
Init ==
  /\ queue = <<>> /\ active = FALSE /\ stop = FALSE
  /\ dropped = 0 /\ unreported = 0 /\ reopen = FALSE
  /\ file = [open |-> FALSE, cur |-> <<>>, old |-> <<>>]
  /\ wpc = "none" /\ batch = <<>> /\ stopping = FALSE
  /\ apc = "closed" /\ opens = 0
  /\ tpc = [t \in Threads |-> "idle"] /\ line = [t \in Threads |-> 0]
  /\ issued = 0 /\ err = {} /\ written = <<>>

-----------------------------------------------------------------------------
(* The threads that log.                                                   *)

\* emit() and push() up to the lock.
Emit(t) ==
  /\ tpc[t] = "idle" /\ issued < MaxLines
  /\ issued' = issued + 1
  /\ IF active
     THEN /\ tpc' = [tpc EXCEPT ![t] = "lock"]
          /\ line' = [line EXCEPT ![t] = issued + 1]
          /\ UNCHANGED err
     ELSE err' = err \cup {issued + 1} /\ UNCHANGED <<tpc, line>>
  /\ UNCHANGED <<sinkvars, dropvars, reopen, file, written, wrtvars, apc, opens>>

\* push() under the lock; when the writer has been stopped meanwhile, stderr.
Push(t) ==
  /\ tpc[t] = "lock"
  /\ tpc' = [tpc EXCEPT ![t] = "idle"] /\ line' = [line EXCEPT ![t] = 0]
  /\ IF ~active
     THEN err' = err \cup {line[t]} /\ UNCHANGED <<queue, dropvars>>
     ELSE IF Len(queue) >= Cap
     THEN /\ dropped' = dropped + 1 /\ unreported' = unreported + 1
          /\ UNCHANGED <<queue, err>>
     ELSE queue' = Append(queue, line[t]) /\ UNCHANGED <<dropvars, err>>
  /\ UNCHANGED <<active, stop, reopen, file, written, wrtvars, apc, issued, opens>>

-----------------------------------------------------------------------------
(* The writer.                                                             *)

\* Mutant: the current file is renamed first, and number 1 is overwritten.
RenamedFirst(f) == <<f.cur>> \o (IF f.old = <<>> THEN <<>> ELSE Tail(f.old))

\* rotate()'s renaming: the current file becomes number 1, the oldest is removed.
Renamed(f) ==
  SubSeq(<<f.cur>> \o f.old, 1, IF Len(f.old) < MaxFiles THEN Len(f.old) + 1
                                                         ELSE MaxFiles)

\* write_line() of l by state f; ok: a file that rotate() creates can be opened.
WriteLine(f, l, ok) ==
  LET cur == Append(f.cur, l)
      full == [f EXCEPT !.cur = cur]
  IN  IF ~f.open THEN f
      ELSE IF Len(cur) < MaxSize THEN full
      ELSE [open |-> ok, cur |-> <<>>, old |-> Renamed(full)]

\* Mutant: the wait has no timeout, and is for lines only.
WakesForLines == queue # <<>>

\* wait_for ends on stop, an urgent line or a long queue, or after a second.
Wakes == TRUE

\* Mutant: the queue is copied and not swapped.
QueueCopied == queue

QueueSwapped == <<>>

\* The wait, and the swap of the queue with the batch.
Take ==
  /\ wpc = "wait" /\ Wakes
  /\ wpc' = "files"
  /\ batch' = queue /\ queue' = QueueSwapped
  /\ stopping' = stop
  /\ UNCHANGED <<active, stop, dropvars, reopen, outvars, apc, thrvars, opens>>

\* The outcomes of open_current() and of the notice about it, which may rotate
Opened(f) == {WriteLine([f EXCEPT !.open = ok], 0, again) : ok, again \in BOOLEAN}

\* What run() does before the batch: reopen when asked to, try (again) to open a
\* file that is not open, report drops.
Files ==
  /\ wpc = "files"
  /\ wpc' = "write"
  /\ reopen' = FALSE
  /\ unreported' = 0
  /\ \E f1 \in IF reopen THEN Opened(file) ELSE {file} :
     \E f2 \in IF f1.open THEN {f1} ELSE Opened(f1) :
       file' \in IF unreported > 0 THEN {WriteLine(f2, 0, ok) : ok \in BOOLEAN} ELSE {f2}
  /\ UNCHANGED <<sinkvars, dropped, err, written, batch, stopping, apc, thrvars, opens>>

\* One line of the batch.
Write(ok) ==
  /\ wpc = "write" /\ batch # <<>>
  /\ batch' = Tail(batch)
  /\ file' = WriteLine(file, Head(batch), ok)
  /\ IF file.open
     THEN written' = Append(written, Head(batch)) /\ UNCHANGED err
     ELSE err' = err \cup {Head(batch)} /\ UNCHANGED written
  /\ UNCHANGED <<sinkvars, dropvars, reopen, wpc, stopping, apc, thrvars, opens>>

\* Mutant: the writer looks at stop itself, not at what it was at the swap.
LeavesOnStop == stop

Leaves == stopping

\* The end of a round, or of the writer (its local stopping ends as well).
RoundDone ==
  /\ wpc = "write" /\ batch = <<>>
  /\ wpc' = IF Leaves THEN "done" ELSE "wait"
  /\ stopping' = FALSE
  /\ UNCHANGED <<sinkvars, dropvars, reopen, outvars, batch, apc, thrvars, opens>>

Writer == Take \/ Files \/ (\E ok \in BOOLEAN : Write(ok)) \/ RoundDone

-----------------------------------------------------------------------------
(* open_file, shutdown, SIGHUP.                                            *)

\* open_file, up to the writer's start; ok: the directory and the file are there.
OpenFile(ok) ==
  /\ apc = "closed" /\ opens < MaxOpens
  /\ opens' = opens + 1
  /\ IF ok
     THEN /\ apc' = "starting" /\ wpc' = "wait"
          /\ file' = [file EXCEPT !.open = TRUE]
          /\ stop' = FALSE /\ reopen' = FALSE
     ELSE UNCHANGED <<apc, wpc, file, stop, reopen>>
  /\ UNCHANGED <<queue, active, dropvars, err, written, batch, stopping, thrvars>>

Activate ==
  /\ apc = "starting"
  /\ apc' = "open"
  /\ active' = TRUE
  /\ UNCHANGED <<queue, stop, dropvars, reopen, outvars, wrtvars, thrvars, opens>>

Shutdown ==
  /\ apc = "open"
  /\ apc' = "joining"
  /\ active' = FALSE /\ stop' = TRUE
  /\ UNCHANGED <<queue, dropvars, reopen, outvars, wrtvars, thrvars, opens>>

Join ==
  /\ apc = "joining" /\ wpc = "done"
  /\ apc' = "closed" /\ wpc' = "none"
  /\ file' = [file EXCEPT !.open = FALSE]
  /\ UNCHANGED <<sinkvars, dropvars, reopen, err, written, batch, stopping, thrvars, opens>>

\* request_reopen, from the signal handler
RequestReopen ==
  /\ ~reopen
  /\ reopen' = TRUE
  /\ UNCHANGED <<sinkvars, dropvars, outvars, wrtvars, apc, thrvars, opens>>

Next ==
  \/ \E t \in Threads : Emit(t) \/ Push(t)
  \/ Writer
  \/ \E ok \in BOOLEAN : OpenFile(ok)
  \/ Activate \/ Shutdown \/ Join \/ RequestReopen

Spec == Init /\ [][Next]_vars

\* The writer runs; a thread inside push(), open_file() or shutdown() goes on.
FairSpec ==
  /\ Spec
  /\ WF_vars(Writer)
  /\ WF_vars(Activate) /\ WF_vars(Join)
  /\ \A t \in Threads : WF_vars(Push(t))

-----------------------------------------------------------------------------
(* Properties.                                                             *)

InPush == {line[t] : t \in {u \in Threads : tpc[u] = "lock"}}

\* A logged line is in one place: inside push(), queued, in the writer's batch,
\* in the file or on stderr; the only lines missing are the ones counted as dropped.
NoLineLost ==
  /\ issued = Cardinality(InPush \cup ToSet(queue \o batch \o written) \cup err) + dropped
  /\ IsInjective(queue \o batch \o written)
  /\ InPush \cap (ToSet(queue \o batch \o written) \cup err) = {}
  /\ ToSet(queue \o batch \o written) \cap err = {}

\* Once shutdown() has returned, every line that was queued has been written and
\* every drop reported: the comment in run() says that the batch taken after stop
\* was set is the last one.
ShutdownComplete ==
  wpc = "none" => queue = <<>> /\ batch = <<>> /\ unreported = 0

\* The numbered files and the current one, read from the oldest on, are the end of
\* what was written, in the order it was queued, and all of it as long as there are
\* fewer than max_files of them; there are never more.
FilesInOrder ==
  LET lines == SelectSeq(FlattenSeq(Reverse(file.old)) \o file.cur,
                         LAMBDA l : l # 0)
  IN  /\ Len(file.old) <= MaxFiles
      /\ IsSuffix(lines, written)
      /\ Len(file.old) < MaxFiles => lines = written

\* A queued line gets out, to the file or to stderr, and shutdown() returns.
LinesGetOut ==
  /\ \A l \in 1 .. MaxLines :
       l \in ToSet(queue) ~> l \in ToSet(written) \cup err
  /\ apc = "joining" ~> apc = "closed"

=============================================================================
