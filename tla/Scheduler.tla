----------------------------- MODULE Scheduler -----------------------------
(***************************************************************************)
(* The scheduler of a service (src/lb/scheduler.cpp): build() makes a table *)
(* of backends, by smooth weighted round-robin or by Maglev hashing, and   *)
(* pick() reads it for every new connection.  A table is built one entry   *)
(* at a time here, and never changed afterwards.                           *)
(*                                                                         *)
(* Maglev's credits are doubles.  They are kept as multiples of 1 / max_w; *)
(* a sum that should be exactly 1 may have been rounded below it, so that  *)
(* the backend waits one more round.  No other comparison can go wrong: a  *)
(* rounding error is far less than 1 / max_w.                              *)
(***************************************************************************)
EXTENDS Integers, Sequences, FiniteSets, Functions

CONSTANTS
  N,          \* number of backends
  Weights,    \* weights a backend may have; 0 is not scheduled
  MaxSeq,     \* kWrrMaxSeq
  M,          \* kMaglevSize, a prime
  Hashes,     \* pairs <<offset, skip>> that the two hashes of a backend give
  Workers,    \* worker indices
  CursorMod   \* 2^32: the cursor's width

ASSUME SchedulerConstants ==
  /\ N \in Nat \ {0} /\ MaxSeq \in Nat \ {0} /\ M \in Nat \ {0}
  /\ Weights \subseteq Nat /\ IsFiniteSet(Weights)
  /\ Hashes \subseteq (0 .. M - 1) \X (1 .. M - 1)
  /\ Workers \subseteq Nat /\ CursorMod \in Nat \ {0}

\* kMaglevSize is 65537, a prime: whatever its skip, a backend's permutation
\* comes to every slot.
ASSUME MaglevSizeIsPrime == \A d \in 2 .. M - 1 : M % d # 0

\* A WRR table is far shorter than the 2^32 values of a cursor.
ASSUME CursorIsWide == MaxSeq + N <= CursorMod

Backends == 1 .. N

\* The sums of f's first values.
Sums(f) ==
  LET upto[n \in 0 .. N] == IF n = 0 THEN 0 ELSE upto[n - 1] + f[n] IN upto

Total(f) == Sums(f)[N]

VARIABLES
  type,      \* type_
  weight,    \* SchedBackend::weight
  hash,      \* what the hashes of the backends' addresses give
  table,     \* table_; 0 is kEmpty
  pc,        \* "build", then "wrr" or "maglev", then "ready"
  w, cur,    \* build_wrr's w and cur
  total,     \* and its total, the length the table will have
  turn,      \* build_maglev's i
  next, credit,  \* its next and credit
  cursor,    \* the workers' cursors
  share      \* history: how many entries of table each backend has

buildvars == <<w, cur, total, turn, next, credit>>
vars == <<type, weight, hash, table, pc, buildvars, cursor, share>>

\* gcd of all the weights (gcd(x, 0) = x), when one is positive
Gcd(f) ==
  CHOOSE d \in 1 .. Total(f) :
    /\ \A i \in Backends : f[i] % d = 0
    /\ \A e \in d + 1 .. Total(f) : \E i \in Backends : f[i] % e # 0

\* Mutant: the scaled weights are not kept at 1 or more.
ScaledToZero(f) == [i \in Backends |-> (f[i] * MaxSeq) \div Total(f)]

\* Weights whose table would be too long are scaled down, none to 0.
Scaled(f) ==
  IF Total(f) <= MaxSeq THEN f
  ELSE [i \in Backends |->
          LET x == (f[i] * MaxSeq) \div Total(f)
          IN  IF f[i] > 0 /\ x = 0 THEN 1 ELSE x]

WrrWeights(f) == Scaled([i \in Backends |-> f[i] \div Gcd(f)])

Init ==
  /\ type \in {"WRR", "MAGLEV"}
  /\ weight \in [Backends -> Weights]
  /\ hash \in IF type = "MAGLEV" THEN [Backends -> Hashes]
              ELSE {[i \in Backends |-> <<0, 1>>]}
  /\ table = <<>> /\ pc = "build"
  /\ w = [i \in Backends |-> 0] /\ cur = [i \in Backends |-> 0]
  /\ total = 0 /\ turn = 1
  /\ next = [i \in Backends |-> 0] /\ credit = [i \in Backends |-> 0]
  /\ cursor = [k \in Workers |-> 0]
  /\ share = [i \in Backends |-> 0]

\* build(), up to the first table entry
Build ==
  /\ pc = "build"
  /\ IF \A i \in Backends : weight[i] = 0
     THEN pc' = "ready" /\ UNCHANGED <<table, w, total, cursor>>
     ELSE /\ IF type = "WRR"
             THEN /\ pc' = "wrr"
                  /\ w' = WrrWeights(weight) /\ total' = Total(w')
                  /\ UNCHANGED table
             ELSE /\ pc' = "maglev"
                  /\ table' = [c \in 1 .. M |-> 0] /\ total' = M
                  /\ UNCHANGED w
          /\ cursor' = [k \in Workers |-> (k * 7919) % CursorMod]
  /\ UNCHANGED <<type, weight, hash, cur, turn, next, credit, share>>

\* Mutant: the heaviest backend is the best.
BestHeaviest(c) ==
  CHOOSE i \in Backends :
    /\ \A j \in Backends : w[j] <= w[i]
    /\ \A j \in 1 .. i - 1 : w[j] < w[i]

\* The first of the scheduled backends with the largest current weight.
Best(c) ==
  CHOOSE i \in Backends :
    /\ w[i] > 0
    /\ \A j \in Backends : w[j] > 0 => c[j] <= c[i]
    /\ \A j \in 1 .. i - 1 : w[j] > 0 => c[j] < c[i]

\* One entry of build_wrr's table.
WrrEntry ==
  LET c == [i \in Backends |-> cur[i] + w[i]]
      b == Best(c)
  IN  /\ pc = "wrr"
      /\ cur' = [c EXCEPT ![b] = c[b] - total]
      /\ table' = Append(table, b)
      /\ share' = [share EXCEPT ![b] = share[b] + 1]
      /\ pc' = IF Len(table) + 1 = total THEN "ready" ELSE "wrr"
      /\ UNCHANGED <<type, weight, hash, w, total, turn, next, credit, cursor>>

max_w == CHOOSE x \in Range(weight) : \A i \in Backends : weight[i] <= x

\* Mutant: the skip may be 0.
SlotSkip0(i, j) == ((hash[i][1] + j * (hash[i][2] - 1)) % M) + 1

\* Slot number j of a backend's permutation
Slot(i, j) == ((hash[i][1] + j * hash[i][2]) % M) + 1

\* Mutant: the credit is not used up.
CreditLeftAll(sum) == sum

CreditLeft(sum) == sum - max_w

\* One backend's turn in build_maglev: with a credit of 1 it takes the first free
\* slot of its permutation, from next[i] on.  Were there none, it would search for ever.
MaglevTurn ==
  LET i == turn
      sum == credit[i] + weight[i]
      free == {j \in next[i] .. next[i] + M - 1 : table[Slot(i, j)] = 0}
      j == CHOOSE x \in free : \A y \in free : x <= y
  IN  /\ pc = "maglev"
      /\ \/ /\ weight[i] = 0
            /\ turn' = (i % N) + 1
            /\ UNCHANGED <<table, pc, next, credit, share>>
         \/ /\ weight[i] > 0
            /\ sum < max_w \/ (sum = max_w /\ weight[i] < max_w)
            /\ turn' = (i % N) + 1
            /\ credit' = [credit EXCEPT ![i] = sum]
            /\ UNCHANGED <<table, pc, next, share>>
         \/ /\ weight[i] > 0 /\ sum >= max_w
            /\ IF free = {}
               THEN UNCHANGED <<turn, table, pc, next, credit, share>>
               ELSE /\ turn' = (i % N) + 1
                    /\ credit' = [credit EXCEPT ![i] = CreditLeft(sum)]
                    /\ table' = [table EXCEPT ![Slot(i, j)] = i]
                    /\ next' = [next EXCEPT ![i] = j + 1]
                    /\ share' = [share EXCEPT ![i] = share[i] + 1]
                    /\ pc' = IF \A c \in 1 .. M : table'[c] # 0
                             THEN "ready" ELSE "maglev"
      /\ UNCHANGED <<type, weight, hash, w, cur, total, cursor>>

\* Where cursor value c points in the table.
Position(c) == (c % Len(table)) + 1

\* pick() for a new connection of worker k.  With WRR it is table[Position(cursor)]
\* and the cursor moves on; an empty table has no pick, and Maglev's, the entry the
\* tuple hashes to, changes nothing.
Pick(k) ==
  /\ pc = "ready"
  /\ cursor' = IF type = "WRR" /\ table # <<>>
               THEN [cursor EXCEPT ![k] = (cursor[k] + 1) % CursorMod]
               ELSE cursor
  /\ UNCHANGED <<type, weight, hash, table, pc, buildvars, share>>

Next ==
  \/ Build \/ WrrEntry \/ MaglevTurn
  \/ \E k \in Workers : Pick(k)

Spec == Init /\ [][Next]_vars

\* build() runs to its end.
FairSpec == Spec /\ WF_vars(Build \/ WrrEntry \/ MaglevTurn)

-----------------------------------------------------------------------------
(* Properties.                                                             *)

\* Backends of equal weight alternate: in every beginning of the WRR table their
\* numbers of entries differ by at most one (the comment at build_wrr says that
\* they are never hit in a row).
EqualWeightsAlternate ==
  type = "WRR" =>
    \A i, j \in Backends : w[i] = w[j] => share[i] <= share[j] + 1

\* A complete WRR table has exactly as many entries of a backend as its scaled
\* weight, the current weights are back at 0, and a backend has entries if and
\* only if it is scheduled.
SharesExact ==
  type = "WRR" /\ pc = "ready" =>
    \A i \in Backends : /\ share[i] = w[i] /\ cur[i] = 0
                        /\ share[i] > 0 <=> weight[i] > 0

\* The positions that worker k's next picks read, one round of them.
NextRound(k) == [n \in 1 .. Len(table) |-> Position((cursor[k] + n - 1) % CursorMod)]

\* A complete WRR table is exact, and too long by less than one entry for each
\* backend.  So a round of a worker's picks, wherever it starts, gives every
\* backend its weight; a round in which the 32-bit cursor wraps, at most twice that.
WrrExact ==
  /\ SharesExact
  /\ type = "WRR" /\ pc = "ready" =>
       /\ Len(table) < MaxSeq + N
       /\ \A i \in Backends, k \in Workers :
            LET got == Cardinality({n \in DOMAIN table : table[NextRound(k)[n]] = i})
            IN  /\ cursor[k] + Len(table) <= CursorMod => got = w[i]
                /\ got <= 2 * w[i]

\* A complete Maglev table has only scheduled backends, no backend went round its
\* permutation more than once, and their numbers of slots are in the ratio of
\* their weights but for the last round and one rounded credit.
MaglevFair ==
  /\ \A i \in Backends : next[i] <= M
  /\ type = "MAGLEV" /\ pc = "ready" /\ table # <<>> =>
       /\ \A c \in 1 .. M : table[c] \in Backends /\ weight[table[c]] > 0
       /\ \A i, m \in Backends : weight[m] = max_w =>
            /\ share[i] * max_w <= (share[m] + 1) * weight[i]
            /\ share[i] * max_w + max_w >= (share[m] - 1) * weight[i]

\* build() ends: the search for a free slot and the rounds of credit do not go on
\* for ever.
BuildEnds == <>(pc = "ready")

=============================================================================
