--------------------------- MODULE SchedulerProofs ---------------------------
(***************************************************************************)
(* Proofs about Scheduler's build_wrr, pick and build_maglev, for any      *)
(* number of backends and any weights and hashes.                          *)
(***************************************************************************)
EXTENDS Scheduler, FiniteSetTheorems, WellFoundedInduction, TLAPS

-----------------------------------------------------------------------------
(* Arithmetic and induction.                                               *)

LEMMA MulSign ==
  ASSUME NEW n \in Nat \ {0}, NEW z \in Int
  PROVE  (z >= 1 => n * z >= n) /\ (z <= -1 => n * z <= -n)
OBVIOUS

LEMMA MulNext ==
  ASSUME NEW a \in Nat, NEW b \in Nat
  PROVE  /\ a * b \in Nat
         /\ (a + 1) * b = a * b + b /\ a * (b + 1) = a * b + a
OBVIOUS

LEMMA BuildBranches ==
  ASSUME Build
  PROVE  /\ pc = "build"
         /\ UNCHANGED <<type, weight, hash, turn, next, credit, share>>
         /\ (\A i \in Backends : weight[i] = 0) => pc' = "ready" /\ table' = table
         /\ ~(\A i \in Backends : weight[i] = 0) =>
              IF type = "WRR" THEN pc' = "wrr"
              ELSE pc' = "maglev" /\ table' = [c \in 1 .. M |-> 0]
BY DEF Build

LEMMA LeastOf ==
  ASSUME NEW S \in SUBSET Nat, S # {}
  PROVE  \E n \in S : \A m \in S : n <= m
<1> DEFINE R == OpToRel(<, Nat)
<1>1. \E n \in S : \A m \in S : ~(<<m, n>> \in R)
  BY NatLessThanWellFounded, WFMin, Zenon
<1>2. R = {p \in Nat \X Nat : p[1] < p[2]}
  BY DEF OpToRel
<1> HIDE DEF R
<1>3. ASSUME NEW m \in Nat, NEW n \in Nat, m < n PROVE <<m, n>> \in R
  BY <1>2, <1>3
<1>4. PICK n \in S : \A m \in S : ~(<<m, n>> \in R)
  BY <1>1
<1>5. \A m \in S : ~(m < n)
  BY <1>3, <1>4, Zenon
<1>6. \A m \in S : n <= m
  BY <1>5
<1>. QED BY <1>6

LEMMA NIsNat == N \in Nat \ {0}
BY SchedulerConstants

\* Induction along the loops over the backends, with a set for the predicate.
LEMMA Along ==
  ASSUME NEW S, 0 \in S, \A n \in 0 .. N - 1 : n \in S => n + 1 \in S
  PROVE  \A n \in 0 .. N : n \in S
<1> DEFINE T == (0 .. N) \ S
<1> SUFFICES ASSUME T # {} PROVE FALSE
  OBVIOUS
<1>1. PICK n \in T : \A m \in T : n <= m
  <2>1. T \in SUBSET Nat
    BY NIsNat
  <2> HIDE DEF T
  <2>. QED BY <2>1, LeastOf
<1>2. n - 1 \in 0 .. N - 1 /\ n - 1 \in S
  BY <1>1, NIsNat
<1>. QED BY <1>1, <1>2, NIsNat

-----------------------------------------------------------------------------
(* Sums over the backends.                                                 *)

LEMMA SumsRec ==
  ASSUME NEW f \in [Backends -> Int]
  PROVE  /\ Sums(f) \in [0 .. N -> Int] /\ Sums(f)[0] = 0
         /\ \A n \in 1 .. N : Sums(f)[n] = Sums(f)[n - 1] + f[n]
<1> DEFINE Good(u, k) == u[0] = 0 /\ \A n \in 1 .. k : u[n] = u[n - 1] + f[n]
           S == {k \in 0 .. N : \E u \in [0 .. k -> Int] : Good(u, k)}
<1>1. 0 \in S
  <2> DEFINE u == [x \in 0 .. 0 |-> 0]
  <2>1. u \in [0 .. 0 -> Int] /\ u[0] = 0 /\ 0 \in 0 .. N
    BY NIsNat
  <2>2. Good(u, 0)
    BY <2>1
  <2> HIDE DEF u
  <2>. QED BY <2>1, <2>2
<1>2. ASSUME NEW k \in 0 .. N - 1, k \in S PROVE k + 1 \in S
  <2>1. PICK u \in [0 .. k -> Int] : Good(u, k)
    BY <1>2
  <2> DEFINE v == [n \in 0 .. k + 1 |-> IF n <= k THEN u[n] ELSE u[k] + f[k + 1]]
  <2>2. v \in [0 .. k + 1 -> Int]
    <3>1. k \in 0 .. k /\ u[k] \in Int /\ f[k + 1] \in Int
      BY <2>1, NIsNat DEF Backends
    <3>2. ASSUME NEW n \in 0 .. k + 1, n <= k PROVE u[n] \in Int
      BY <3>2, <2>1
    <3>. QED BY <3>1, <3>2
  <2>3. Good(v, k + 1)
    <3>1. v[0] = 0
      BY <2>1
    <3>2. ASSUME NEW n \in 1 .. k + 1 PROVE v[n] = v[n - 1] + f[n]
      <4>1. CASE n \in 1 .. k
        BY <2>1, <4>1
      <4>2. CASE n = k + 1
        BY <4>2
      <4>. QED BY <4>1, <4>2
    <3>. QED BY <3>1, <3>2, Zenon
  <2>4. k + 1 \in 0 .. N
    BY NIsNat
  <2>. QED BY <2>2, <2>3, <2>4, Zenon
<1>3. N \in S
  <2> HIDE DEF S
  <2>. QED BY <1>1, <1>2, Along, NIsNat
<1>4. PICK u \in [0 .. N -> Int] : Good(u, N)
  BY <1>3
<1> DEFINE Rec(x) == [n \in 0 .. N |-> IF n = 0 THEN 0 ELSE x[n - 1] + f[n]]
<1>5. u = Rec(u)
  <2>1. \A n \in 0 .. N : u[n] = Rec(u)[n]
    BY <1>4
  <2>2. u = [n \in 0 .. N |-> u[n]]
    BY <1>4
  <2>. QED BY <2>1, <2>2
<1>6. Sums(f) = CHOOSE x : x = Rec(x)
  BY DEF Sums
<1>7. Sums(f) = Rec(Sums(f))
  BY <1>5, <1>6, Zenon
<1> DEFINE s == Sums(f)
<1> HIDE DEF s
<1>8. s = Rec(s)
  BY <1>7, Zenon DEF s
<1>9. s[0] = 0 /\ \A n \in 1 .. N : s[n] = s[n - 1] + f[n]
  BY <1>8, NIsNat
<1> DEFINE V == {n \in 0 .. N : s[n] \in Int}
<1>10. 0 \in V
  BY <1>9, NIsNat
<1>11. ASSUME NEW n \in 0 .. N - 1, n \in V PROVE n + 1 \in V
  <2>1. n + 1 \in 1 .. N /\ s[n + 1] = s[n] + f[n + 1] /\ f[n + 1] \in Int
    BY <1>9, NIsNat DEF Backends
  <2>. QED BY <1>11, <2>1
<1>12. \A n \in 0 .. N : n \in V
  <2> HIDE DEF V
  <2>. QED BY <1>10, <1>11, Along
<1>13. s \in [0 .. N -> Int]
  BY <1>8, <1>12
<1>. QED BY <1>9, <1>13 DEF s

LEMMA TotalType ==
  ASSUME NEW f \in [Backends -> Int]
  PROVE  Total(f) \in Int
BY SumsRec, NIsNat DEF Total

LEMMA TotalAdd ==
  ASSUME NEW f \in [Backends -> Int], NEW g \in [Backends -> Int],
         NEW h \in [Backends -> Int], \A i \in Backends : h[i] = f[i] + g[i]
  PROVE  Total(h) = Total(f) + Total(g)
<1> DEFINE a == Sums(f)
           b == Sums(g)
           c == Sums(h)
           S == {n \in 0 .. N : c[n] = a[n] + b[n]}
<1>1. /\ a \in [0 .. N -> Int] /\ a[0] = 0
      /\ \A n \in 1 .. N : a[n] = a[n - 1] + f[n]
  BY SumsRec
<1>2. /\ b \in [0 .. N -> Int] /\ b[0] = 0
      /\ \A n \in 1 .. N : b[n] = b[n - 1] + g[n]
  BY SumsRec
<1>3. /\ c \in [0 .. N -> Int] /\ c[0] = 0
      /\ \A n \in 1 .. N : c[n] = c[n - 1] + h[n]
  BY SumsRec
<1> HIDE DEF a, b, c
<1>4. 0 \in S
  BY <1>1, <1>2, <1>3, NIsNat
<1>5. ASSUME NEW n \in 0 .. N - 1, n \in S PROVE n + 1 \in S
  <2>1. n + 1 \in 1 .. N /\ n + 1 \in Backends /\ n \in 0 .. N
    BY NIsNat DEF Backends
  <2>2. /\ a[n + 1] = a[n] + f[n + 1] /\ b[n + 1] = b[n] + g[n + 1]
        /\ c[n + 1] = c[n] + h[n + 1]
    BY <1>1, <1>2, <1>3, <2>1
  <2>3. /\ a[n] \in Int /\ b[n] \in Int /\ c[n] = a[n] + b[n]
        /\ f[n + 1] \in Int /\ g[n + 1] \in Int /\ h[n + 1] = f[n + 1] + g[n + 1]
    BY <1>1, <1>2, <1>5, <2>1, Zenon
  <2>4. c[n + 1] = a[n + 1] + b[n + 1]
    BY <2>2, <2>3
  <2>. QED BY <2>1, <2>4
<1>6. N \in S
  <2> HIDE DEF S
  <2>. QED BY <1>4, <1>5, Along, NIsNat
<1>. QED BY <1>6, Zenon DEF Total, a, b, c

LEMMA TotalUpdate ==
  ASSUME NEW f \in [Backends -> Int], NEW b \in Backends, NEW d \in Int
  PROVE  Total([f EXCEPT ![b] = f[b] + d]) = Total(f) + d
<1> DEFINE h == [f EXCEPT ![b] = f[b] + d]
           a == Sums(f)
           c == Sums(h)
           S == {n \in 0 .. N : c[n] = a[n] + (IF n >= b THEN d ELSE 0)}
<1>1. /\ a \in [0 .. N -> Int] /\ a[0] = 0
      /\ \A n \in 1 .. N : a[n] = a[n - 1] + f[n]
  BY SumsRec
<1>2. h \in [Backends -> Int]
  OBVIOUS
<1>3. h[b] = f[b] + d /\ \A n \in Backends : n # b => h[n] = f[n]
  OBVIOUS
<1> HIDE DEF h
<1>4. /\ c \in [0 .. N -> Int] /\ c[0] = 0
      /\ \A n \in 1 .. N : c[n] = c[n - 1] + h[n]
  BY <1>2, SumsRec
<1> HIDE DEF a, c
<1>5. 0 \in S
  BY <1>1, <1>4, NIsNat DEF Backends
<1>6. ASSUME NEW n \in 0 .. N - 1, n \in S PROVE n + 1 \in S
  <2>1. n + 1 \in 1 .. N /\ n + 1 \in Backends /\ n \in 0 .. N
    BY NIsNat DEF Backends
  <2>2. a[n + 1] = a[n] + f[n + 1] /\ c[n + 1] = c[n] + h[n + 1]
    BY <1>1, <1>4, <2>1
  <2>3. a[n] \in Int /\ c[n] \in Int /\ f[n + 1] \in Int /\ b \in Nat
    BY <1>1, <1>4, <2>1 DEF Backends
  <2>4. CASE b = n + 1
    BY <1>3, <1>6, <2>1, <2>2, <2>3, <2>4
  <2>5. CASE b # n + 1
    BY <1>3, <1>6, <2>1, <2>2, <2>3, <2>5
  <2>. QED BY <2>4, <2>5
<1>7. N \in S
  <2> HIDE DEF S
  <2>. QED BY <1>5, <1>6, Along, NIsNat
<1>. QED BY <1>7, NIsNat DEF Total, a, c, h, Backends

LEMMA TotalBound ==
  ASSUME NEW f \in [Backends -> Nat]
  PROVE  Total(f) \in Nat /\ \A i \in Backends : f[i] <= Total(f)
<1> DEFINE a == Sums(f)
           S == {n \in 0 .. N : a[n] >= 0 /\ \A i \in 1 .. n : f[i] <= a[n]}
<1>1. /\ a \in [0 .. N -> Int] /\ a[0] = 0
      /\ \A n \in 1 .. N : a[n] = a[n - 1] + f[n]
  BY SumsRec
<1> HIDE DEF a
<1>2. 0 \in S
  BY <1>1, NIsNat
<1>3. ASSUME NEW n \in 0 .. N - 1, n \in S PROVE n + 1 \in S
  <2>1. n + 1 \in 1 .. N /\ n + 1 \in Backends /\ n \in 0 .. N
    BY NIsNat DEF Backends
  <2>2. a[n + 1] = a[n] + f[n + 1] /\ f[n + 1] \in Nat /\ a[n] \in Int
    BY <1>1, <2>1
  <2>3. a[n] >= 0 /\ \A i \in 1 .. n : f[i] <= a[n]
    BY <1>3
  <2>4. ASSUME NEW i \in 1 .. n + 1 PROVE f[i] <= a[n + 1]
    <3>1. i \in Backends /\ f[i] \in Nat /\ (i \in 1 .. n \/ i = n + 1)
      BY <2>1, NIsNat DEF Backends
    <3>. QED BY <2>2, <2>3, <3>1
  <2>. QED BY <2>1, <2>2, <2>3, <2>4
<1>4. N \in S
  <2> HIDE DEF S
  <2>. QED BY <1>2, <1>3, Along, NIsNat
<1>. QED BY <1>1, <1>4, NIsNat DEF Total, a, Backends

LEMMA TotalNotPositive ==
  ASSUME NEW f \in [Backends -> Int], \A i \in Backends : f[i] <= 0
  PROVE  Total(f) <= 0
<1> DEFINE a == Sums(f)
           S == {n \in 0 .. N : a[n] <= 0}
<1>1. /\ a \in [0 .. N -> Int] /\ a[0] = 0
      /\ \A n \in 1 .. N : a[n] = a[n - 1] + f[n]
  BY SumsRec
<1> HIDE DEF a
<1>2. 0 \in S
  BY <1>1, NIsNat
<1>3. ASSUME NEW n \in 0 .. N - 1, n \in S PROVE n + 1 \in S
  <2>1. n + 1 \in 1 .. N /\ n + 1 \in Backends /\ n \in 0 .. N
    BY NIsNat DEF Backends
  <2>2. a[n + 1] = a[n] + f[n + 1] /\ f[n + 1] \in Int /\ a[n] \in Int
    BY <1>1, <2>1
  <2>. QED BY <1>3, <2>1, <2>2
<1>4. N \in S
  <2> HIDE DEF S
  <2>. QED BY <1>2, <1>3, Along, NIsNat
<1>. QED BY <1>4 DEF Total, a

-----------------------------------------------------------------------------
(* The weights build_wrr works with, and the backend it picks.             *)

LEMMA DivMod ==
  ASSUME NEW a \in Int, NEW n \in Nat \ {0}
  PROVE  a % n \in 0 .. n - 1 /\ a \div n \in Int
         /\ a = n * (a \div n) + (a % n)
OBVIOUS

LEMMA DivNat ==
  ASSUME NEW a \in Nat, NEW n \in Nat \ {0}
  PROVE  a \div n \in Nat
<1> DEFINE q == a \div n
<1>1. q \in Int /\ a % n \in 0 .. n - 1 /\ a = n * q + (a % n)
  BY DivMod
<1> DEFINE r == a % n
<1>2. r \in 0 .. n - 1 /\ a = n * q + r
  BY <1>1
<1> HIDE DEF q, r
<1>3. q >= 0
  BY <1>1, <1>2, MulSign
<1>. QED BY <1>1, <1>3 DEF q

LEMMA GcdDivides ==
  ASSUME NEW f \in [Backends -> Nat], \E i \in Backends : f[i] > 0
  PROVE  Gcd(f) \in Nat \ {0} /\ \A i \in Backends : f[i] % Gcd(f) = 0
<1> DEFINE t == Total(f)
           D == {d \in 1 .. t : \A i \in Backends : f[i] % d = 0}
           S == {t - d : d \in D}
<1>1. t \in Nat /\ t >= 1
  BY TotalBound
<1> HIDE DEF t
<1>2. 1 \in D
  <2>1. ASSUME NEW i \in Backends PROVE f[i] % 1 = 0
    OBVIOUS
  <2>. QED BY <1>1, <2>1
<1>3. S \in SUBSET Nat /\ S # {}
  BY <1>1, <1>2
<1>4. PICK m \in S : \A k \in S : m <= k
  BY <1>3, LeastOf, Zenon
<1>5. PICK d \in D : m = t - d
  BY <1>4
<1>6. ASSUME NEW e \in D PROVE e <= d
  <2>1. m <= t - e
    BY <1>4
  <2>2. d \in Int /\ e \in Int
    OBVIOUS
  <2>. QED BY <1>1, <1>5, <2>1, <2>2
<1>7. /\ d \in 1 .. t
      /\ \A i \in Backends : f[i] % d = 0
      /\ \A e \in d + 1 .. t : \E i \in Backends : f[i] % e # 0
  BY <1>1, <1>6
<1>8. /\ Gcd(f) \in 1 .. t
      /\ \A i \in Backends : f[i] % Gcd(f) = 0
  BY <1>7, Zenon DEF Gcd, t
<1>. QED BY <1>1, <1>8

\* build_wrr's weights are positive where the configured ones are.
LEMMA WrrWeightsOK ==
  ASSUME NEW f \in [Backends -> Nat], \E i \in Backends : f[i] > 0
  PROVE  /\ WrrWeights(f) \in [Backends -> Nat]
         /\ \A i \in Backends : WrrWeights(f)[i] > 0 <=> f[i] > 0
<1> DEFINE d == Gcd(f)
           g == [i \in Backends |-> f[i] \div d]
           t == Total(g)
           x(i) == (g[i] * MaxSeq) \div t
           s == Scaled(g)
<1>1. d \in Nat \ {0} /\ \A i \in Backends : f[i] % d = 0
  BY GcdDivides
<1> HIDE DEF d
<1>2. ASSUME NEW i \in Backends PROVE f[i] \div d \in Nat /\ (f[i] \div d > 0 <=> f[i] > 0)
  <2> DEFINE q == f[i] \div d
  <2>1. q \in Nat
    BY <1>1, DivNat
  <2>2. f[i] = d * q + (f[i] % d) /\ f[i] % d = 0
    <3>1. f[i] \in Int /\ f[i] % d = 0
      BY <1>1
    <3>. QED BY <1>1, <3>1, DivMod, Zenon
  <2>3. f[i] = d * q
    BY <1>1, <2>1, <2>2
  <2> HIDE DEF q
  <2>4. q >= 1 => f[i] >= d
    BY <1>1, <2>1, <2>3, MulSign
  <2>5. q = 0 => f[i] = 0
    BY <1>1, <2>3
  <2>6. q > 0 <=> f[i] > 0
    BY <1>1, <2>1, <2>4, <2>5
  <2>. QED BY <2>1, <2>6 DEF q
<1>3. g \in [Backends -> Nat] /\ \A i \in Backends : g[i] > 0 <=> f[i] > 0
  BY <1>2
<1>4. WrrWeights(f) = s
  BY DEF WrrWeights, d
<1> HIDE DEF g
<1>5. t \in Nat /\ \A i \in Backends : g[i] <= t
  BY <1>3, TotalBound
<1>6. t \in Nat \ {0}
  <2>1. PICK i \in Backends : f[i] > 0
    OBVIOUS
  <2>2. g[i] > 0 /\ g[i] \in Nat
    BY <1>3, <2>1
  <2>. QED BY <1>5, <2>2
<1>7. CASE t <= MaxSeq
  BY <1>3, <1>4, <1>7 DEF Scaled
<1>8. CASE ~(t <= MaxSeq)
  <2>1. s = [i \in Backends |-> IF g[i] > 0 /\ x(i) = 0 THEN 1 ELSE x(i)]
    BY <1>8 DEF Scaled
  <2>2. ASSUME NEW i \in Backends
        PROVE  s[i] \in Nat /\ (s[i] > 0 <=> g[i] > 0)
    <3>1. g[i] \in Nat /\ g[i] * MaxSeq \in Nat
      BY <1>3, SchedulerConstants
    <3>2. x(i) \in Nat
      BY <1>6, <3>1, DivNat
    <3>3. g[i] = 0 => x(i) = 0
      <4>1. ASSUME g[i] = 0 PROVE x(i) = 0
        <5>1. g[i] * MaxSeq = 0
          BY <4>1, SchedulerConstants
        <5>2. 0 \div t = 0
          BY <1>6
        <5>. QED BY <5>1, <5>2
      <4>. QED BY <4>1
    <3> HIDE DEF x
    <3>. QED BY <2>1, <3>1, <3>2, <3>3
  <2>3. s \in [Backends -> Nat]
    BY <2>1, <2>2, Zenon
  <2>. QED BY <1>3, <1>4, <2>2, <2>3
<1>. QED BY <1>7, <1>8, Zenon

\* The loop that looks for the best backend finds one, when one is scheduled.
LEMMA BestOK ==
  ASSUME w \in [Backends -> Nat], NEW c \in [Backends -> Int],
         \E i \in Backends : w[i] > 0
  PROVE  /\ Best(c) \in Backends /\ w[Best(c)] > 0
         /\ \A j \in Backends : w[j] > 0 => c[j] <= c[Best(c)]
<1> DEFINE First(i, n) ==
             /\ i \in 1 .. n /\ w[i] > 0
             /\ \A j \in 1 .. n : w[j] > 0 => c[j] <= c[i]
             /\ \A j \in 1 .. i - 1 : w[j] > 0 => c[j] < c[i]
           S == {n \in 0 .. N : \/ \A i \in 1 .. n : w[i] = 0
                                \/ \E i \in 1 .. n : First(i, n)}
<1>1. 0 \in S
  BY NIsNat
<1>2. ASSUME NEW n \in 0 .. N - 1, n \in S PROVE n + 1 \in S
  <2>1. n + 1 \in 0 .. N /\ n + 1 \in Backends /\ w[n + 1] \in Nat /\ c[n + 1] \in Int
    BY NIsNat DEF Backends
  <2>2. \A i \in 1 .. n : i \in Backends /\ w[i] \in Nat /\ c[i] \in Int
    BY NIsNat DEF Backends
  <2>3. \A i \in 1 .. n + 1 : i \in 1 .. n \/ i = n + 1
    OBVIOUS
  <2>4. CASE w[n + 1] = 0
    <3>1. CASE \A i \in 1 .. n : w[i] = 0
      BY <2>1, <2>3, <2>4, <3>1
    <3>2. ASSUME NEW i \in 1 .. n, First(i, n) PROVE n + 1 \in S
      <4>1. First(i, n + 1)
        BY <2>2, <2>3, <2>4, <3>2
      <4>. QED BY <2>1, <4>1, Zenon
    <3>. QED BY <1>2, <3>1, <3>2, Zenon
  <2>5. CASE w[n + 1] > 0 /\ \A i \in 1 .. n : w[i] = 0
    <3>1. First(n + 1, n + 1)
      BY <2>1, <2>2, <2>3, <2>5
    <3>. QED BY <2>1, <3>1, Zenon
  <2>6. ASSUME w[n + 1] > 0, NEW i \in 1 .. n, First(i, n) PROVE n + 1 \in S
    <3>1. CASE c[n + 1] <= c[i]
      <4>1. First(i, n + 1)
        BY <2>1, <2>2, <2>3, <2>6, <3>1
      <4>. QED BY <2>1, <4>1
    <3>2. CASE c[n + 1] > c[i]
      <4>1. First(n + 1, n + 1)
        BY <2>1, <2>2, <2>3, <2>6, <3>2
      <4>. QED BY <2>1, <4>1, Zenon
    <3>. QED BY <2>1, <2>2, <3>1, <3>2
  <2>. QED BY <1>2, <2>1, <2>4, <2>5, <2>6
<1>3. N \in S
  <2> HIDE DEF S
  <2>. QED BY <1>1, <1>2, Along, NIsNat
<1>4. \E i \in Backends : First(i, N)
  BY <1>3 DEF Backends
<1>. QED BY <1>4, Zenon DEF Best, Backends

-----------------------------------------------------------------------------
(* The invariant of build_wrr.                                             *)

\* n entries into the table, a backend's current weight is what n rounds of adding
\* its weight gave it, less total for each of its entries; the current weights
\* add up to 0 and none is as low as -total.
Balanced ==
  LET n == Len(table)
  IN  /\ \A i \in Backends : cur[i] + total * share[i] = n * w[i]
      /\ \A i \in Backends : cur[i] > -total
      /\ Total(cur) = 0 /\ Total(share) = n /\ Total(w) = total

WrrType ==
  /\ weight \in [Backends -> Nat]
  /\ table \in Seq(Backends)
  /\ w \in [Backends -> Nat] /\ cur \in [Backends -> Int]
  /\ total \in Nat /\ share \in [Backends -> Nat]

WrrInv ==
  /\ pc \in {"build", "wrr", "maglev", "ready"}
  /\ pc = "wrr" => type = "WRR"
  /\ pc = "maglev" => type # "WRR"
  /\ type = "WRR" =>
       /\ WrrType
       /\ EqualWeightsAlternate
       /\ pc = "build" => \A i \in Backends : cur[i] = 0 /\ share[i] = 0 /\ w[i] = 0
       /\ pc = "build" => table = <<>>
       /\ pc \in {"wrr", "ready"} => \A i \in Backends : w[i] > 0 <=> weight[i] > 0
       /\ pc = "wrr" => Balanced /\ Len(table) < total
       /\ pc = "ready" => \/ Balanced /\ Len(table) = total /\ total > 0
                          \/ \A i \in Backends : cur[i] = 0 /\ share[i] = 0 /\ w[i] = 0

LEMMA ZeroTotal ==
  ASSUME NEW f \in [Backends -> Int], \A i \in Backends : f[i] = 0
  PROVE  Total(f) = 0
<1>1. f \in [Backends -> Nat]
  OBVIOUS
<1>. QED BY <1>1, TotalBound, TotalNotPositive

LEMMA WrrInit == Init => WrrInv
<1> SUFFICES ASSUME Init PROVE WrrInv
  OBVIOUS
<1>1. weight \in [Backends -> Nat]
  BY SchedulerConstants, Zenon DEF Init
<1>2. WrrType
  BY <1>1 DEF Init, WrrType
<1>3. EqualWeightsAlternate
  BY DEF Init, EqualWeightsAlternate
<1>. QED BY <1>2, <1>3 DEF Init, WrrInv

LEMMA BuildStep ==
  ASSUME WrrInv, type = "WRR", Build
  PROVE  WrrInv'
<1>1. /\ pc = "build" /\ table = <<>> /\ WrrType
      /\ \A i \in Backends : cur[i] = 0 /\ share[i] = 0 /\ w[i] = 0
      /\ UNCHANGED <<type, weight, cur, share, table>>
  BY DEF Build, WrrInv
<1>2. CASE \A i \in Backends : weight[i] = 0
  <2>1. pc' = "ready" /\ UNCHANGED <<w, total>>
    BY <1>2 DEF Build
  <2>2. WrrType' /\ EqualWeightsAlternate'
    BY <1>1, <2>1, Zenon DEF WrrInv, WrrType, EqualWeightsAlternate
  <2>. QED BY <1>1, <1>2, <2>1, <2>2, Zenon DEF WrrInv
<1>3. CASE ~\A i \in Backends : weight[i] = 0
  <2>1. pc' = "wrr" /\ w' = WrrWeights(weight) /\ total' = Total(w')
    BY <1>3 DEF Build
  <2>2. weight \in [Backends -> Nat] /\ \E i \in Backends : weight[i] > 0
    BY <1>1, <1>3 DEF WrrType
  <2>3. w' \in [Backends -> Nat] /\ \A i \in Backends : w'[i] > 0 <=> weight[i] > 0
    BY <2>1, <2>2, WrrWeightsOK
  <2>4. total' \in Nat /\ total' > 0
    BY <2>1, <2>2, <2>3, TotalBound
  <2>5. WrrType'
    BY <1>1, <2>3, <2>4, Zenon DEF WrrType
  <2>6. EqualWeightsAlternate'
    BY <1>1 DEF EqualWeightsAlternate
  <2>7. Len(table') = 0
    BY <1>1
  <2>8. cur' \in [Backends -> Int] /\ share' \in [Backends -> Int]
    BY <2>5 DEF WrrType
  <2>9. Total(cur') = 0 /\ Total(share') = 0
    BY <1>1, <2>8, ZeroTotal
  <2>10. \A i \in Backends : /\ cur'[i] + total' * share'[i] = 0 * w'[i]
                             /\ cur'[i] > -total'
    BY <1>1, <2>3, <2>4
  <2>11. Balanced'
    BY <2>1, <2>7, <2>9, <2>10 DEF Balanced
  <2>. QED BY <1>1, <2>1, <2>3, <2>4, <2>5, <2>6, <2>7, <2>11, Zenon DEF WrrInv
<1>. QED BY <1>2, <1>3

LEMMA EntryStep ==
  ASSUME WrrInv, WrrEntry
  PROVE  WrrInv'
<1> DEFINE c == [i \in Backends |-> cur[i] + w[i]]
           b == Best(c)
           n == Len(table)
<1>1. /\ type = "WRR" /\ WrrType /\ Balanced /\ n < total /\ EqualWeightsAlternate
      /\ \A i \in Backends : w[i] > 0 <=> weight[i] > 0
  BY Zenon DEF WrrEntry, WrrInv
<1>2. c \in [Backends -> Int] /\ total \in Nat \ {0} /\ n \in Nat
  BY <1>1 DEF WrrType
<1>3. Total(c) = total
  <2>1. cur \in [Backends -> Int] /\ w \in [Backends -> Int]
    BY <1>1 DEF WrrType
  <2>2. \A i \in Backends : c[i] = cur[i] + w[i]
    OBVIOUS
  <2> HIDE DEF c
  <2>3. Total(c) = Total(cur) + Total(w)
    BY <1>2, <2>1, <2>2, TotalAdd, Zenon
  <2>. QED BY <1>1, <1>2, <2>3 DEF Balanced
<1>4. \A i \in Backends : /\ c[i] = cur[i] + w[i] /\ cur[i] \in Int /\ w[i] \in Nat
                          /\ share[i] \in Nat /\ cur[i] + total * share[i] = n * w[i]
                          /\ cur[i] > -total
  BY <1>1, Zenon DEF WrrType, Balanced
<1> HIDE DEF c, n
<1>5. PICK k \in Backends : c[k] > 0
  BY <1>2, <1>3, TotalNotPositive
<1>6. w[k] > 0
  <2> SUFFICES ASSUME w[k] = 0 PROVE FALSE
    BY <1>4
  <2>1. c[k] + total * share[k] = 0
    BY <1>2, <1>4
  <2>2. total * share[k] \in Nat /\ c[k] \in Int
    BY <1>2, <1>4, MulNext
  <2>. QED BY <1>5, <2>1, <2>2
<1>7. /\ b \in Backends /\ w[b] > 0
      /\ \A j \in Backends : w[j] > 0 => c[j] <= c[b]
  BY <1>1, <1>2, <1>6, BestOK, Zenon DEF WrrType
<1> HIDE DEF b
<1>8. c[b] > 0
  BY <1>2, <1>5, <1>6, <1>7
<1>9. /\ cur' = [c EXCEPT ![b] = c[b] - total]
      /\ table' = Append(table, b)
      /\ share' = [share EXCEPT ![b] = share[b] + 1]
      /\ pc' = (IF n + 1 = total THEN "ready" ELSE "wrr")
      /\ UNCHANGED <<type, weight, w, total>>
  BY Zenon DEF WrrEntry, b, c, n
<1>10. WrrType' /\ Len(table') = n + 1
  <2>1. cur' \in [Backends -> Int]
    <3>1. c[b] - total \in Int
      BY <1>2, <1>7
    <3>. QED BY <1>2, <1>9, <3>1, Zenon
  <2>2. share' \in [Backends -> Nat]
    <3>1. share \in [Backends -> Nat]
      BY <1>1, Zenon DEF WrrType
    <3>2. share[b] + 1 \in Nat
      BY <1>7, <3>1
    <3>. QED BY <1>9, <3>1, <3>2, Zenon
  <2>3. table' \in Seq(Backends) /\ Len(table') = n + 1
    BY <1>1, <1>7, <1>9 DEF WrrType, n
  <2>. QED BY <1>1, <1>9, <2>1, <2>2, <2>3, Zenon DEF WrrType
<1>11. Total(cur') = 0
  <2>1. cur' = [c EXCEPT ![b] = c[b] + (-total)] /\ -total \in Int
    <3>1. c[b] - total = c[b] + (-total) /\ -total \in Int
      BY <1>2, <1>7
    <3>. QED BY <1>9, <3>1, Zenon
  <2>2. Total(cur') = Total(c) + (-total)
    BY <1>2, <1>7, <2>1, TotalUpdate, Zenon
  <2>. QED BY <1>2, <1>3, <2>2
<1>12. Total(share') = n + 1
  <2>1. share \in [Backends -> Int] /\ Total(share) = n
    BY <1>1 DEF WrrType, Balanced, n
  <2>2. 1 \in Int
    OBVIOUS
  <2>3. Total(share') = Total(share) + 1
    BY <1>7, <1>9, <2>1, <2>2, TotalUpdate, Zenon
  <2>. QED BY <2>1, <2>3
<1>13. ASSUME NEW i \in Backends
       PROVE  cur'[i] + total * share'[i] = (n + 1) * w[i] /\ cur'[i] > -total
  <2>1. CASE i = b
    <3>0. n \in Nat /\ w[b] \in Nat /\ total \in Nat /\ share[b] \in Nat
      BY <1>2, <1>4, <1>7, Zenon
    <3>1. cur'[b] = cur[b] + w[b] - total /\ share'[b] = share[b] + 1
      <4>1. cur'[b] = c[b] - total
        BY <1>2, <1>7, <1>9, Zenon
      <4>2. share \in [Backends -> Nat]
        BY <1>1, Zenon DEF WrrType
      <4>3. share'[b] = share[b] + 1
        BY <1>7, <1>9, <4>2, Zenon
      <4>4. c[b] = cur[b] + w[b]
        BY <1>4, <1>7, Zenon
      <4>5. cur[b] \in Int /\ w[b] \in Int /\ total \in Int
        BY <1>2, <1>4, <1>7
      <4>. QED BY ONLY <4>1, <4>3, <4>4, <4>5
    <3>2. total * (share[b] + 1) = total * share[b] + total /\ (n + 1) * w[b] = n * w[b] + w[b]
      BY ONLY <3>0, MulNext, Zenon
    <3>3. total * share[b] \in Int /\ n * w[b] \in Int
      <4>1. total * share[b] \in Nat /\ n * w[b] \in Nat
        BY ONLY <3>0, MulNext, Zenon
      <4>. QED BY ONLY <4>1
    <3>4. cur'[b] > -total
      BY <1>2, <1>4, <1>7, <1>8, <3>1
    <3>. QED BY <1>2, <1>4, <1>7, <2>1, <3>1, <3>2, <3>3, <3>4
  <2>2. CASE i # b
    <3>1. cur'[i] = cur[i] + w[i] /\ share'[i] = share[i]
      <4>1. cur'[i] = c[i]
        BY <1>2, <1>7, <1>9, <2>2, Zenon
      <4>2. share \in [Backends -> Nat]
        BY <1>1 DEF WrrType
      <4>3. share'[i] = share[i]
        BY <1>7, <1>9, <2>2, <4>2, Zenon
      <4>. QED BY <1>4, <4>1, <4>3, Zenon
    <3>2. n \in Nat /\ w[i] \in Nat /\ total \in Nat /\ share[i] \in Nat
      BY <1>2, <1>4, Zenon
    <3>3. /\ (n + 1) * w[i] = n * w[i] + w[i]
          /\ total * share[i] \in Nat /\ n * w[i] \in Nat
      BY ONLY <3>2, MulNext, Zenon
    <3>4. cur[i] \in Int /\ cur[i] + total * share[i] = n * w[i] /\ cur[i] > -total
      BY <1>4, Zenon
    <3>5. cur'[i] + total * share'[i] = (n + 1) * w[i]
      <4>1. cur'[i] + total * share'[i] = (cur[i] + w[i]) + total * share[i]
        BY ONLY <3>1
      <4>. QED BY ONLY <4>1, <3>2, <3>3, <3>4
    <3>. QED BY ONLY <3>1, <3>2, <3>4, <3>5
  <2>. QED BY <2>1, <2>2, Zenon
<1>14. Balanced'
  BY <1>1, <1>9, <1>10, <1>11, <1>12, <1>13, Zenon DEF Balanced
<1>15. ASSUME NEW j \in Backends, w[j] = w[b] PROVE share[b] <= share[j]
  <2>1. cur[j] <= cur[b]
    <3>1. c[j] <= c[b]
      BY <1>7, <1>15
    <3>. QED BY <1>4, <1>7, <1>15, <3>1
  <2>2. n * w[j] = n * w[b]
    BY <1>15
  <2>3. cur[b] - cur[j] = total * share[j] - total * share[b]
    <3>1. total * share[j] \in Int /\ total * share[b] \in Int
      BY <1>2, <1>4, <1>7
    <3>. QED BY <1>4, <1>7, <2>2, <3>1
  <2>4. total * (share[j] - share[b]) = total * share[j] - total * share[b]
    BY <1>2, <1>4, <1>7
  <2>5. total * (share[j] - share[b]) >= 0
    BY <1>4, <1>7, <2>1, <2>3, <2>4
  <2>6. share[j] - share[b] \in Int
    BY <1>4, <1>7
  <2>7. share[j] - share[b] >= 0
    BY <1>2, <2>5, <2>6, MulSign
  <2>. QED BY <1>4, <1>7, <2>7
<1>16. EqualWeightsAlternate'
  <2> SUFFICES ASSUME NEW i \in Backends, NEW j \in Backends, w[i] = w[j]
               PROVE  share'[i] <= share'[j] + 1
    BY <1>9, Zenon DEF EqualWeightsAlternate
  <2>1. share[i] <= share[j] + 1
    BY <1>1, Zenon DEF EqualWeightsAlternate
  <2>2. i = b => share[i] <= share[j]
    BY <1>15, Zenon
  <2>3. share \in [Backends -> Nat]
    BY <1>1 DEF WrrType
  <2>. QED BY <1>7, <1>9, <2>1, <2>2, <2>3
<1>17. Len(table') = total' \/ (pc' = "wrr" /\ Len(table') < total')
  BY <1>1, <1>2, <1>9, <1>10
<1>. QED BY <1>1, <1>2, <1>9, <1>10, <1>14, <1>16, <1>17 DEF WrrInv

LEMMA WrrStep == WrrInv /\ [Next]_vars => WrrInv'
<1> SUFFICES ASSUME WrrInv, [Next]_vars PROVE WrrInv'
  OBVIOUS
<1>1. CASE Build /\ type # "WRR"
  BY <1>1 DEF Build, WrrInv
<1>2. CASE MaglevTurn
  <2>1. pc = "maglev" /\ type # "WRR" /\ type' = type /\ pc' \in {"maglev", "ready"}
    BY <1>2, Zenon DEF MaglevTurn, WrrInv
  <2>. QED BY <2>1 DEF WrrInv
<1>3. CASE UNCHANGED <<type, weight, table, pc, w, cur, total, share>>
  BY <1>3, Zenon DEF WrrInv, WrrType, Balanced, EqualWeightsAlternate
<1>4. ASSUME NEW k \in Workers, Pick(k)
      PROVE  UNCHANGED <<type, weight, table, pc, w, cur, total, share>>
  BY <1>4 DEF Pick, buildvars
<1>5. CASE UNCHANGED vars
  BY <1>3, <1>5 DEF vars, buildvars
<1>. QED BY <1>1, <1>2, <1>3, <1>4, <1>5, BuildStep, EntryStep DEF Next

\* In every beginning of a WRR table, backends of equal weight have numbers of
\* entries that differ by at most one (build_wrr), for any backends and weights.
THEOREM EqualWeightsDoAlternate == Spec => []EqualWeightsAlternate
<1>1. WrrInv => EqualWeightsAlternate
  BY Zenon DEF WrrInv, EqualWeightsAlternate
<1>. QED BY <1>1, WrrInit, WrrStep, PTL DEF Spec

LEMMA ExactShares == WrrInv => SharesExact
<1> SUFFICES ASSUME WrrInv, type = "WRR", pc = "ready", NEW i \in Backends
             PROVE  /\ share[i] = w[i] /\ cur[i] = 0
                    /\ share[i] > 0 <=> weight[i] > 0
  BY DEF SharesExact
<1>1. WrrType /\ (w[i] > 0 <=> weight[i] > 0)
  BY DEF WrrInv
<1>2. CASE \A j \in Backends : cur[j] = 0 /\ share[j] = 0 /\ w[j] = 0
  BY <1>1, <1>2
<1>3. CASE Balanced /\ Len(table) = total /\ total > 0
  <2> DEFINE h == [j \in Backends |-> w[j] - share[j]]
  <2>1. total \in Nat \ {0}
    BY <1>1, <1>3 DEF WrrType
  <2>2. ASSUME NEW j \in Backends
        PROVE  h[j] \in Nat /\ cur[j] = total * h[j]
    <3>1. w[j] \in Nat /\ share[j] \in Nat /\ cur[j] \in Int /\ h[j] = w[j] - share[j]
      BY <1>1 DEF WrrType
    <3>2. cur[j] + total * share[j] = total * w[j] /\ cur[j] > -total
      BY <1>3 DEF Balanced
    <3>3. cur[j] = total * h[j]
      BY <2>1, <3>1, <3>2
    <3>4. h[j] >= 0
      BY <2>1, <3>1, <3>2, <3>3, MulSign
    <3>. QED BY <3>1, <3>3, <3>4
  <2>3. h \in [Backends -> Nat] /\ \A j \in Backends : w[j] = h[j] + share[j]
    <3>1. ASSUME NEW j \in Backends PROVE w[j] = h[j] + share[j]
      BY <1>1 DEF WrrType
    <3>2. h = [j \in Backends |-> h[j]]
      OBVIOUS
    <3> HIDE DEF h
    <3>. QED BY <2>2, <3>1, <3>2
  <2> HIDE DEF h
  <2>4. Total(w) = Total(h) + Total(share)
    <3>1. h \in [Backends -> Int] /\ w \in [Backends -> Int] /\ share \in [Backends -> Int]
      BY <1>1, <2>3 DEF WrrType
    <3>. QED BY <2>3, <3>1, TotalAdd
  <2>5. Total(h) = 0
    BY <1>3, <2>1, <2>3, <2>4, TotalBound DEF Balanced
  <2>6. h[i] = 0
    BY <2>3, <2>5, TotalBound
  <2>7. cur[i] = 0 /\ share[i] = w[i]
    BY <1>1, <2>1, <2>2, <2>3, <2>6 DEF WrrType
  <2>. QED BY <1>1, <2>7
<1>. QED BY <1>2, <1>3, Zenon DEF WrrInv

\* A complete WRR table gives every backend exactly its scaled weight, and brings
\* the current weights back to where they started (build_wrr).
THEOREM SharesAreExact == Spec => []SharesExact
BY ExactShares, WrrInit, WrrStep, PTL DEF Spec

-----------------------------------------------------------------------------
(* The length of the WRR table.                                            *)

\* A scaled weight is too large by less than one entry.
LEMMA ScaledWeight ==
  ASSUME NEW g \in Nat, NEW t \in Nat \ {0}, NEW x,
         LET y == (g * MaxSeq) \div t IN x = IF g > 0 /\ y = 0 THEN 1 ELSE y
  PROVE  x \in Nat /\ t * x <= g * MaxSeq + (t - 1)
<1> DEFINE a == g * MaxSeq
           y == a \div t
<1>1. MaxSeq \in Nat \ {0} /\ a \in Nat
  BY SchedulerConstants
<1>2. g > 0 => a >= 1
  BY <1>1, MulSign
<1>3. x = IF g > 0 /\ y = 0 THEN 1 ELSE y
  OBVIOUS
<1> HIDE DEF a
<1>4. y \in Nat /\ a % t \in 0 .. t - 1 /\ a = t * y + (a % t)
  <2>1. y \in Nat
    BY <1>1, DivNat
  <2>2. a \in Int
    BY <1>1
  <2>3. a % t \in 0 .. t - 1 /\ a = t * y + (a % t)
    BY <2>2, DivMod, Zenon
  <2>. QED BY <2>1, <2>3
<1> DEFINE r == a % t
           z == t * y
<1>5. r \in 0 .. t - 1 /\ a = z + r /\ z \in Nat
  BY <1>4, MulNext, Zenon
<1> HIDE DEF y, r
<1>6. CASE g > 0 /\ y = 0
  <2>1. x = 1 /\ t * x = t
    BY <1>3, <1>6
  <2>. QED BY <1>1, <1>2, <1>6, <2>1 DEF a
<1>7. CASE ~(g > 0 /\ y = 0)
  <2>1. x = y /\ t * x = z
    BY <1>3, <1>7
  <2> HIDE DEF z
  <2>2. z <= a + (t - 1)
    BY <1>1, <1>5
  <2>. QED BY <1>4, <2>1, <2>2 DEF a
<1>. QED BY <1>6, <1>7, Zenon

LEMMA ScaledLength ==
  ASSUME NEW g \in [Backends -> Nat]
  PROVE  Total(Scaled(g)) < MaxSeq + N
<1> DEFINE t == Total(g)
           s == Scaled(g)
<1>1. t \in Nat /\ MaxSeq \in Nat \ {0} /\ N \in Nat \ {0}
  BY TotalBound, SchedulerConstants
<1>2. CASE t <= MaxSeq
  <2>1. s = g
    BY <1>2 DEF Scaled
  <2>. QED BY <1>1, <1>2, <2>1
<1>3. CASE ~(t <= MaxSeq)
  <2>1. t \in Nat \ {0}
    BY <1>1, <1>3
  <2>2. s = [i \in Backends |-> LET y == (g[i] * MaxSeq) \div t
                                IN  IF g[i] > 0 /\ y = 0 THEN 1 ELSE y]
    BY <1>3 DEF Scaled
  <2>3. ASSUME NEW i \in Backends
        PROVE  s[i] \in Nat /\ t * s[i] <= g[i] * MaxSeq + (t - 1)
    <3>1. LET y == (g[i] * MaxSeq) \div t IN s[i] = IF g[i] > 0 /\ y = 0 THEN 1 ELSE y
      BY <2>2
    <3> HIDE DEF s, t
    <3>. QED BY <2>1, <3>1, ScaledWeight, SMTT(20)
  <2>4. s \in [Backends -> Nat]
    <3>1. \A i \in Backends : s[i] \in Nat
      BY <2>3
    <3>2. s = [i \in Backends |-> s[i]]
      BY <2>2
    <3> HIDE DEF s
    <3>. QED BY <3>1, <3>2
  <2> HIDE DEF s, t
  <2> DEFINE a == Sums(s)
             b == Sums(g)
             D == {n \in 0 .. N : t * a[n] <= b[n] * MaxSeq + n * (t - 1)}
  <2>5. /\ a \in [0 .. N -> Int] /\ a[0] = 0
        /\ \A n \in 1 .. N : a[n] = a[n - 1] + s[n]
    BY <2>4, SumsRec
  <2>6. /\ b \in [0 .. N -> Int] /\ b[0] = 0
        /\ \A n \in 1 .. N : b[n] = b[n - 1] + g[n]
    BY SumsRec
  <2> HIDE DEF a, b
  <2>7. 0 \in D
    <3>1. t * 0 = 0 /\ 0 * MaxSeq = 0 /\ 0 * (t - 1) = 0
      BY <1>1
    <3>. QED BY <1>1, <2>5, <2>6, <3>1
  <2>8. ASSUME NEW n \in 0 .. N - 1, n \in D PROVE n + 1 \in D
    <3>1. n + 1 \in 1 .. N /\ n + 1 \in Backends /\ n \in 0 .. N
      BY <1>1 DEF Backends
    <3>2. a[n + 1] = a[n] + s[n + 1] /\ b[n + 1] = b[n] + g[n + 1]
      BY <2>5, <2>6, <3>1
    <3>3. a[n] \in Int /\ b[n] \in Int /\ s[n + 1] \in Int /\ g[n + 1] \in Int
      BY <2>4, <2>5, <2>6, <3>1, SMTT(20)
    <3>4. t * a[n + 1] = t * a[n] + t * s[n + 1]
      BY <2>1, <3>2, <3>3
    <3>5. b[n + 1] * MaxSeq = b[n] * MaxSeq + g[n + 1] * MaxSeq
      BY <1>1, <3>2, <3>3
    <3>6. (n + 1) * (t - 1) = n * (t - 1) + (t - 1)
      BY <2>1
    <3>7. t * a[n] <= b[n] * MaxSeq + n * (t - 1)
      BY <2>8
    <3>8. t * s[n + 1] <= g[n + 1] * MaxSeq + (t - 1)
      BY <2>3, <3>1, Zenon
    <3>9. /\ t * a[n] \in Int /\ t * s[n + 1] \in Int /\ b[n] * MaxSeq \in Int
          /\ g[n + 1] * MaxSeq \in Int /\ n * (t - 1) \in Int /\ t - 1 \in Int
      BY <1>1, <3>3
    <3>10. t * a[n] + t * s[n + 1]
             <= (b[n] * MaxSeq + g[n + 1] * MaxSeq) + (n * (t - 1) + (t - 1))
      <4> DEFINE p1 == t * a[n]
                 p2 == t * s[n + 1]
                 p3 == b[n] * MaxSeq
                 p4 == g[n + 1] * MaxSeq
                 p5 == n * (t - 1)
                 p6 == t - 1
      <4>1. /\ p1 \in Int /\ p2 \in Int /\ p3 \in Int /\ p4 \in Int /\ p5 \in Int /\ p6 \in Int
            /\ p1 <= p3 + p5 /\ p2 <= p4 + p6
        BY <3>7, <3>8, <3>9, Zenon
      <4> HIDE DEF p1, p2, p3, p4, p5, p6
      <4>2. p1 + p2 <= (p3 + p4) + (p5 + p6)
        BY <4>1
      <4>. QED BY <4>2 DEF p1, p2, p3, p4, p5, p6
    <3>. QED BY <3>1, <3>4, <3>5, <3>6, <3>10
  <2>9. N \in D
    <3> HIDE DEF D
    <3>. QED BY <1>1, <2>7, <2>8, Along
  <2>10. t * Total(s) <= t * MaxSeq + N * (t - 1)
    BY <2>9 DEF a, b, Total, t
  <2>11. Total(s) \in Int
    BY <2>4, TotalType
  <2> DEFINE z == Total(s) - (MaxSeq + N)
             u == Total(s)
  <2>12. u \in Int /\ z \in Int /\ z = u - (MaxSeq + N) /\ t * u <= t * MaxSeq + N * (t - 1)
    BY <1>1, <2>10, <2>11
  <2> HIDE DEF z, u
  <2>13. t * z = t * u - (t * MaxSeq + t * N) /\ N * (t - 1) = t * N - N
    BY <1>1, <2>12
  <2>14. t * z < 0
    <3>1. t * u \in Int /\ t * MaxSeq \in Int /\ t * N \in Int
      BY <1>1, <2>12
    <3>. QED BY <1>1, <2>12, <2>13, <3>1
  <2>15. z < 0
    <3>1. z = 0 => t * z = 0
      BY <1>1
    <3>. QED BY <2>1, <2>12, <2>14, <3>1, MulSign
  <2>. QED BY <1>1, <2>12, <2>15 DEF u, s
<1>. QED BY <1>2, <1>3

LEMMA WrrLength ==
  ASSUME NEW f \in [Backends -> Nat], \E i \in Backends : f[i] > 0
  PROVE  Total(WrrWeights(f)) < MaxSeq + N
<1> DEFINE g == [i \in Backends |-> f[i] \div Gcd(f)]
<1>1. g \in [Backends -> Nat]
  <2>1. Gcd(f) \in Nat \ {0}
    BY GcdDivides
  <2>2. \A i \in Backends : f[i] \div Gcd(f) \in Nat
    BY <2>1, DivNat
  <2>. QED BY <2>2
<1>2. WrrWeights(f) = Scaled(g)
  BY DEF WrrWeights
<1> HIDE DEF g
<1>. QED BY <1>1, <1>2, ScaledLength

-----------------------------------------------------------------------------
(* What a round of picks gives.                                            *)

\* Two numbers less than a table's length apart are at different positions.
LEMMA RestsDiffer ==
  ASSUME NEW l \in Nat \ {0}, NEW a \in Int, NEW b \in Int, a < b, b - a < l
  PROVE  a % l # b % l
<1> SUFFICES ASSUME a % l = b % l PROVE FALSE
  OBVIOUS
<1> DEFINE x == a \div l
           y == b \div l
           r == a % l
<1>1. x \in Int /\ r \in Int /\ a = l * x + r
  BY DivMod
<1>2. y \in Int /\ b = l * y + (b % l)
  BY DivMod
<1>3. b = l * y + r
  BY <1>2
<1> HIDE DEF x, y, r
<1>4. b - a = l * (y - x) /\ y - x \in Int
  <2>1. l * y \in Int /\ l * x \in Int /\ l * (y - x) = l * y - l * x
    BY <1>1, <1>2
  <2>. QED BY <1>1, <1>2, <1>3, <2>1
<1>5. y - x >= 1 \/ y - x <= -1 \/ y - x = 0
  BY <1>1, <1>2
<1>6. y - x = 0 => l * (y - x) = 0
  OBVIOUS
<1>. QED BY <1>4, <1>5, <1>6, MulSign

\* A function that takes different arguments to different positions reads no more
\* entries from E than E has,
LEMMA ReadsAtMost ==
  ASSUME NEW l \in Nat, NEW S \in SUBSET (1 .. l), NEW f \in [S -> 1 .. l],
         \A n, m \in S : n < m => f[n] # f[m], NEW E \in SUBSET (1 .. l)
  PROVE  LET R == {n \in S : f[n] \in E}
         IN  IsFiniteSet(R) /\ Cardinality(R) <= Cardinality(E)
<1> DEFINE R == {n \in S : f[n] \in E}
           h == [n \in R |-> f[n]]
<1>1. IsFiniteSet(E)
  <2>1. IsFiniteSet(1 .. l)
    BY FS_Interval
  <2>. QED BY <2>1, FS_Subset, Zenon
<1>2. \A n, m \in R : f[n] = f[m] => n = m
  <2> SUFFICES ASSUME NEW n \in R, NEW m \in R, n # m PROVE f[n] # f[m]
    OBVIOUS
  <2>1. n < m \/ m < n
    OBVIOUS
  <2>. QED BY <2>1
<1>3. h \in [R -> E] /\ \A n \in R : h[n] = f[n]
  OBVIOUS
<1> HIDE DEF h, R
<1>4. h \in Injection(R, E)
  BY <1>2, <1>3 DEF Injection, IsInjective
<1>. QED BY <1>1, <1>4, FS_Injection DEF R

\* and, over a whole round, exactly as many.
LEMMA ReadsExactly ==
  ASSUME NEW l \in Nat, NEW f \in [1 .. l -> 1 .. l],
         \A n, m \in 1 .. l : n < m => f[n] # f[m], NEW E \in SUBSET (1 .. l)
  PROVE  Cardinality({n \in 1 .. l : f[n] \in E}) = Cardinality(E)
<1> DEFINE D == 1 .. l
           R == {n \in D : f[n] \in E}
           h == [n \in R |-> f[n]]
<1>1. IsFiniteSet(D)
  BY FS_Interval
<1>2. \A n, m \in D : f[n] = f[m] => n = m
  <2> SUFFICES ASSUME NEW n \in D, NEW m \in D, n # m PROVE f[n] # f[m]
    OBVIOUS
  <2>1. n < m \/ m < n
    OBVIOUS
  <2>. QED BY <2>1
<1>3. h \in [R -> E] /\ \A n \in R : h[n] = f[n]
  OBVIOUS
<1>4. R \in SUBSET D /\ \A n \in D : f[n] \in E => n \in R
  OBVIOUS
<1> HIDE DEF h, R, D
<1>5. f \in Injection(D, D)
  BY <1>2 DEF Injection, IsInjective, D
<1>6. f \in Surjection(D, D)
  BY <1>1, <1>5, FS_Injection
<1>7. \A e \in E : \E n \in D : f[n] = e
  BY <1>6 DEF Surjection, D
<1>8. h \in Bijection(R, E)
  BY <1>2, <1>3, <1>4, <1>7, Zenon DEF Bijection, Injection, Surjection, IsInjective
<1>9. IsFiniteSet(R)
  BY <1>1, <1>4, FS_Subset
<1>10. ExistsBijection(R, E)
  BY <1>8 DEF ExistsBijection
<1>11. Cardinality(E) = Cardinality(R)
  BY <1>9, <1>10, FS_Bijection
<1>. QED BY <1>11 DEF R, D

\* The entries of a backend.
Entries(i) == {n \in DOMAIN table : table[n] = i}

\* The history variable counts the entries; the table gets no longer than planned,
\* and the cursors keep to their width.
RoundInv ==
  /\ cursor \in [Workers -> 0 .. CursorMod - 1]
  /\ type = "WRR" =>
       /\ total < MaxSeq + N /\ Len(table) <= total
       /\ \A i \in Backends : share[i] = Cardinality(Entries(i))

LEMMA RoundInit == Init => RoundInv
<1> SUFFICES ASSUME Init PROVE RoundInv
  OBVIOUS
<1>1. cursor \in [Workers -> 0 .. CursorMod - 1]
  BY SchedulerConstants DEF Init
<1>2. total = 0 /\ table = <<>> /\ \A i \in Backends : share[i] = 0
  BY DEF Init
<1>3. total < MaxSeq + N /\ Len(table) <= total
  BY <1>2, SchedulerConstants
<1>4. \A i \in Backends : Entries(i) = {}
  BY <1>2 DEF Entries
<1>. QED BY <1>1, <1>2, <1>3, <1>4, FS_EmptySet, ZenonT(40) DEF RoundInv

LEMMA EntryCounts ==
  ASSUME WrrInv, RoundInv, WrrEntry
  PROVE  RoundInv'
<1> DEFINE n == Len(table)
<1>1. /\ type = "WRR" /\ table \in Seq(Backends) /\ share \in [Backends -> Nat]
      /\ total \in Nat /\ n < total
  BY Zenon DEF WrrInv, WrrType, WrrEntry
<1>2. PICK b : /\ table' = Append(table, b)
               /\ share' = [share EXCEPT ![b] = share[b] + 1]
  BY Zenon DEF WrrEntry
<1>3. UNCHANGED <<type, total, cursor>>
  BY Zenon DEF WrrEntry
<1>4. b \in Backends
  <2>1. table' \in Seq(Backends)
    BY <1>1, <1>3, EntryStep, Zenon DEF WrrInv, WrrType
  <2>2. table'[n + 1] = b /\ n + 1 \in 1 .. Len(table')
    BY <1>1, <1>2
  <2>. QED BY <2>1, <2>2
<1>5. /\ Len(table') = n + 1 /\ DOMAIN table' = 1 .. n + 1 /\ DOMAIN table = 1 .. n
      /\ n \in Nat /\ table'[n + 1] = b /\ \A m \in 1 .. n : table'[m] = table[m]
  BY <1>1, <1>2, <1>4
<1>6. ASSUME NEW i \in Backends PROVE share'[i] = Cardinality(Entries(i)')
  <2>1. IsFiniteSet(Entries(i)) /\ n + 1 \notin Entries(i)
    <3>1. IsFiniteSet(1 .. n)
      BY <1>5, FS_Interval
    <3>2. Entries(i) \in SUBSET (1 .. n) /\ n + 1 \notin 1 .. n
      BY <1>5 DEF Entries
    <3>. QED BY <3>1, <3>2, FS_Subset
  <2>2. share[i] = Cardinality(Entries(i))
    BY <1>1 DEF RoundInv
  <2>3. CASE i = b
    <3>1. Entries(i)' = Entries(i) \cup {n + 1}
      BY <1>5, <2>3 DEF Entries
    <3>2. Cardinality(Entries(i)') = Cardinality(Entries(i)) + 1
      BY <2>1, <3>1, FS_AddElement, Zenon
    <3>3. share'[i] = share[i] + 1
      BY <1>1, <1>2, <2>3, Zenon
    <3>. QED BY <2>2, <3>2, <3>3
  <2>4. CASE i # b
    <3>1. Entries(i)' = Entries(i)
      BY <1>5, <2>4 DEF Entries
    <3>2. share'[i] = share[i]
      BY <1>1, <1>2, <1>4, <2>4, Zenon
    <3>. QED BY <2>2, <3>1, <3>2
  <2>. QED BY <2>3, <2>4
<1>7. total' < MaxSeq + N /\ Len(table') <= total'
  BY <1>1, <1>3, <1>5 DEF RoundInv
<1>. QED BY <1>3, <1>6, <1>7 DEF RoundInv

LEMMA BuildCounts ==
  ASSUME WrrInv, RoundInv, Build
  PROVE  RoundInv'
<1>1. pc = "build" /\ UNCHANGED <<type, weight, share>>
  BY DEF Build
<1>2. cursor' \in [Workers -> 0 .. CursorMod - 1]
  <2>1. ASSUME NEW k \in Workers PROVE (k * 7919) % CursorMod \in 0 .. CursorMod - 1
    <3> DEFINE a == k * 7919
    <3>1. a \in Int /\ CursorMod \in Nat \ {0}
      BY SchedulerConstants
    <3> HIDE DEF a
    <3>2. a % CursorMod \in 0 .. CursorMod - 1
      BY <3>1, DivMod
    <3>. QED BY <3>2 DEF a
  <2>2. [k \in Workers |-> (k * 7919) % CursorMod] \in [Workers -> 0 .. CursorMod - 1]
    BY <2>1
  <2>3. CASE \A i \in Backends : weight[i] = 0
    BY <2>3 DEF Build, RoundInv
  <2>4. CASE ~\A i \in Backends : weight[i] = 0
    BY <2>2, <2>4 DEF Build
  <2>. QED BY <2>3, <2>4
<1>3. ASSUME type = "WRR"
      PROVE  /\ total' < MaxSeq + N /\ Len(table') <= total'
             /\ \A i \in Backends : share'[i] = Cardinality(Entries(i)')
  <2>1. table = <<>> /\ weight \in [Backends -> Nat] /\ table' = table
    BY <1>1, <1>3 DEF Build, WrrInv, WrrType
  <2>2. \A i \in Backends : share'[i] = Cardinality(Entries(i)')
    BY <1>1, <1>3, <2>1 DEF RoundInv, Entries
  <2>3. CASE \A i \in Backends : weight[i] = 0
    BY <1>3, <2>1, <2>2, <2>3 DEF Build, RoundInv
  <2>4. CASE ~\A i \in Backends : weight[i] = 0
    <3>1. w' = WrrWeights(weight) /\ total' = Total(w')
      BY <1>3, <2>4 DEF Build
    <3>2. \E i \in Backends : weight[i] > 0
      BY <2>1, <2>4
    <3>3. WrrWeights(weight) \in [Backends -> Nat] /\ Total(WrrWeights(weight)) < MaxSeq + N
      BY <2>1, <3>2, WrrWeightsOK, WrrLength
    <3>4. total' \in Nat /\ Len(table') = 0
      BY <2>1, <3>1, <3>3, TotalBound
    <3>. QED BY <2>2, <3>1, <3>3, <3>4
  <2>. QED BY <2>3, <2>4
<1>. QED BY <1>1, <1>2, <1>3 DEF RoundInv

LEMMA RoundStep == WrrInv /\ RoundInv /\ [Next]_vars => RoundInv'
<1> SUFFICES ASSUME WrrInv, RoundInv, [Next]_vars PROVE RoundInv'
  OBVIOUS
<1>1. CASE MaglevTurn
  <2>1. type # "WRR" /\ UNCHANGED <<type, cursor>>
    BY <1>1, Zenon DEF MaglevTurn, WrrInv
  <2>. QED BY <2>1 DEF RoundInv
<1>2. ASSUME NEW k \in Workers, Pick(k) PROVE RoundInv'
  <2>1. UNCHANGED <<type, table, total, share>>
    BY <1>2 DEF Pick, buildvars
  <2>2. (cursor[k] + 1) % CursorMod \in 0 .. CursorMod - 1
    <3>1. cursor[k] + 1 \in Int /\ CursorMod \in Nat \ {0}
      BY SchedulerConstants DEF RoundInv
    <3>. QED BY <3>1, DivMod, Zenon
  <2>3. cursor' = cursor \/ cursor' = [cursor EXCEPT ![k] = (cursor[k] + 1) % CursorMod]
    BY <1>2, Zenon DEF Pick
  <2>4. cursor' \in [Workers -> 0 .. CursorMod - 1]
    BY <2>2, <2>3 DEF RoundInv
  <2>. QED BY <2>1, <2>4 DEF RoundInv, Entries
<1>3. CASE UNCHANGED vars
  BY <1>3, Zenon DEF vars, buildvars, RoundInv, Entries
<1>. QED BY <1>1, <1>2, <1>3, BuildCounts, EntryCounts DEF Next

\* The picks of a round before the cursor wraps, or after it, are at different
\* positions.
LEMMA RoundOf ==
  ASSUME NEW l \in Nat \ {0}, NEW d \in Int, NEW S \in SUBSET (1 .. l),
         NEW f \in [S -> 1 .. l], \A n \in S : f[n] = ((d + n) % l) + 1
  PROVE  \A n, m \in S : n < m => f[n] # f[m]
<1> SUFFICES ASSUME NEW n \in S, NEW m \in S, n < m PROVE f[n] # f[m]
  OBVIOUS
<1>1. /\ d + n \in Int /\ d + m \in Int /\ d + n < d + m /\ (d + m) - (d + n) < l
  OBVIOUS
<1>2. (d + n) % l # (d + m) % l
  BY <1>1, RestsDiffer, Zenon
<1>3. (d + n) % l \in Int /\ (d + m) % l \in Int
  BY <1>1
<1>. QED BY <1>2, <1>3

LEMMA ExactRounds == WrrInv /\ RoundInv => WrrExact
<1> SUFFICES ASSUME WrrInv, RoundInv PROVE WrrExact
  OBVIOUS
<1>1. SharesExact
  BY ExactShares
<1>2. ASSUME type = "WRR", pc = "ready" PROVE Len(table) < MaxSeq + N
  <2>1. table \in Seq(Backends) /\ total \in Nat
    BY <1>2 DEF WrrInv, WrrType
  <2>. QED BY <1>2, <2>1, SchedulerConstants DEF RoundInv
<1>3. ASSUME type = "WRR", pc = "ready", NEW i \in Backends, NEW k \in Workers
      PROVE  LET got == Cardinality({n \in DOMAIN table : table[NextRound(k)[n]] = i})
             IN  /\ cursor[k] + Len(table) <= CursorMod => got = w[i]
                 /\ got <= 2 * w[i]
  <2> DEFINE l == Len(table)
             c == cursor[k]
             E == Entries(i)
             at == NextRound(k)
             R == {n \in DOMAIN table : table[at[n]] = i}
             \* before and after the cursor wraps
             A == {n \in 1 .. l : c + (n - 1) < CursorMod}
             B == {n \in 1 .. l : ~(c + (n - 1) < CursorMod)}
  <2>1. /\ table \in Seq(Backends) /\ DOMAIN table = 1 .. l /\ l \in Nat
        /\ w[i] \in Nat /\ share[i] = w[i] /\ share[i] = Cardinality(E)
    BY <1>1, <1>3 DEF WrrInv, WrrType, SharesExact, RoundInv
  <2>2. CursorMod \in Nat \ {0} /\ c \in 0 .. CursorMod - 1 /\ l <= CursorMod
    <3>1. l < MaxSeq + N /\ MaxSeq \in Nat /\ N \in Nat
      BY <1>2, <1>3, SchedulerConstants
    <3>. QED BY <2>1, <3>1, SchedulerConstants, CursorIsWide DEF RoundInv
  <2>3. E \in SUBSET (1 .. l) /\ \A n \in 1 .. l : n \in E <=> table[n] = i
    BY <2>1 DEF Entries
  <2>4. at = [n \in 1 .. l |-> (((c + (n - 1)) % CursorMod) % l) + 1]
    BY DEF NextRound, Position
  <2> SUFFICES /\ c + l <= CursorMod => Cardinality(R) = w[i]
               /\ Cardinality(R) <= 2 * w[i]
    BY Zenon
  <2> HIDE DEF l, c, E, at
  <2>5. CASE l = 0
    <3>1. R = {} /\ E = {}
      BY <2>1, <2>3, <2>5
    <3>2. Cardinality(R) = 0 /\ Cardinality(E) = 0
      BY <3>1, FS_EmptySet
    <3>3. 0 = w[i] /\ 0 <= 2 * w[i]
      BY <2>1, <3>2
    <3>. QED BY <3>2, <3>3, Zenon
  <2>6. CASE l # 0
    <3>1. l \in Nat \ {0}
      BY <2>1, <2>6
    <3>2. ASSUME NEW n \in 1 .. l
          PROVE  /\ at[n] \in 1 .. l
                 /\ n \in A => at[n] = (((c - 1) + n) % l) + 1
                 /\ n \in B => at[n] = ((((c - 1) - CursorMod) + n) % l) + 1
      <4> DEFINE a == c + (n - 1)
      <4>1. a \in Nat /\ a < 2 * CursorMod /\ a = (c - 1) + n
        BY <2>1, <2>2
      <4>2. at[n] = ((a % CursorMod) % l) + 1
        BY <2>4
      <4>3. n \in A <=> a < CursorMod
        OBVIOUS
      <4>4. n \in B <=> ~(a < CursorMod)
        OBVIOUS
      <4> HIDE DEF a
      <4>5. a % CursorMod \in Int
        BY <2>2, <4>1
      <4>6. (a % CursorMod) % l \in 0 .. l - 1
        BY <3>1, <4>5, DivMod, SMTT(20)
      <4>7. a < CursorMod => a % CursorMod = a
        BY <2>2, <4>1
      <4>8. ~(a < CursorMod) => a % CursorMod = ((c - 1) - CursorMod) + n
        <5>1. ~(a < CursorMod) => a % CursorMod = a - CursorMod
          BY <2>2, <4>1
        <5>. QED BY <2>2, <4>1, <5>1
      <4>. QED BY <3>1, <4>1, <4>2, <4>3, <4>4, <4>6, <4>7, <4>8
    <3>3. at \in [1 .. l -> 1 .. l]
      BY <2>4, <3>2, Zenon
    <3>4. R = {n \in 1 .. l : at[n] \in E}
      BY <2>1, <2>3, <3>2, Zenon
    <3>5. A \in SUBSET (1 .. l) /\ B \in SUBSET (1 .. l) /\ 1 .. l = A \cup B /\ A \cap B = {}
      OBVIOUS
    <3> DEFINE f == [n \in A |-> at[n]]
               g == [n \in B |-> at[n]]
    <3>6. f \in [A -> 1 .. l] /\ \A n \in A : f[n] = (((c - 1) + n) % l) + 1
      BY <3>2, <3>5, Zenon
    <3>7. g \in [B -> 1 .. l] /\ \A n \in B : g[n] = ((((c - 1) - CursorMod) + n) % l) + 1
      BY <3>2, <3>5, Zenon
    <3>8. (\A n \in A : f[n] = at[n]) /\ (\A n \in B : g[n] = at[n])
      BY Zenon
    <3>9. c + l <= CursorMod => A = 1 .. l
      BY <2>2, <3>1
    <3> HIDE DEF A, B, f, g, R
    <3>10. c - 1 \in Int /\ (c - 1) - CursorMod \in Int
      BY <2>2
    <3>11. \A n, m \in A : n < m => f[n] # f[m]
      <4> DEFINE d == c - 1
      <4>1. d \in Int /\ \A n \in A : f[n] = ((d + n) % l) + 1
        BY <3>6, <3>10, Zenon
      <4> HIDE DEF d
      <4>2. f \in [A -> 1 .. l] /\ A \in SUBSET (1 .. l)
        BY <3>5, <3>6, Zenon
      <4>. QED BY <3>1, <4>1, <4>2, RoundOf, Zenon
    <3>12. \A n, m \in B : n < m => g[n] # g[m]
      <4> DEFINE d == (c - 1) - CursorMod
      <4>1. d \in Int /\ \A n \in B : g[n] = ((d + n) % l) + 1
        BY <3>7, <3>10, Zenon
      <4> HIDE DEF d
      <4>2. g \in [B -> 1 .. l] /\ B \in SUBSET (1 .. l)
        BY <3>5, <3>7, Zenon
      <4>. QED BY <3>1, <4>1, <4>2, RoundOf, Zenon
    <3>13. ASSUME c + l <= CursorMod PROVE Cardinality(R) = Cardinality(E)
      <4>1. A = 1 .. l
        BY <3>9, <3>13
      <4>2. \A n, m \in 1 .. l : n < m => at[n] # at[m]
        BY <3>8, <3>11, <4>1
      <4>3. Cardinality({n \in 1 .. l : at[n] \in E}) = Cardinality(E)
        <5>1. l \in Nat /\ E \in SUBSET (1 .. l)
          BY <2>1, <2>3, Zenon
        <5>. QED BY <3>3, <4>2, <5>1, ReadsExactly, Zenon
      <4>. QED BY <3>4, <4>3
    <3> DEFINE X == {n \in A : f[n] \in E}
               Y == {n \in B : g[n] \in E}
    <3>14. IsFiniteSet(X) /\ Cardinality(X) <= Cardinality(E)
      BY <2>3, <3>1, <3>5, <3>6, <3>11, ReadsAtMost
    <3>15. IsFiniteSet(Y) /\ Cardinality(Y) <= Cardinality(E)
      BY <2>3, <3>1, <3>5, <3>7, <3>12, ReadsAtMost
    <3>16. R = X \cup Y /\ X \cap Y = {}
      BY <3>4, <3>5, <3>8, Zenon
    <3> HIDE DEF X, Y
    <3>17. Cardinality(R) = Cardinality(X) + Cardinality(Y) - 0
      <4>1. Cardinality(X \cap Y) = 0
        BY <3>16, FS_EmptySet
      <4>. QED BY <3>14, <3>15, <3>16, <4>1, FS_Union, Zenon
    <3>18. Cardinality(X) \in Nat /\ Cardinality(Y) \in Nat
      BY <3>14, <3>15, FS_CardinalityType, Zenon
    <3>19. Cardinality(R) <= 2 * w[i]
      BY <2>1, <3>14, <3>15, <3>17, <3>18
    <3>. QED BY <2>1, <3>13, <3>19, Zenon
  <2>. QED BY <2>5, <2>6
<1>. QED BY <1>1, <1>2, <1>3, Zenon DEF WrrExact

\* A complete WRR table is exact and too long by less than an entry for each
\* backend (build_wrr), and a round of any worker's picks gives every backend its
\* weight, or at most twice that when the cursor wraps in it (pick): for any
\* backends and weights, however many workers and whatever they picked before.
THEOREM WrrIsExact == Spec => []WrrExact
<1>1. Init => WrrInv /\ RoundInv
  BY WrrInit, RoundInit
<1>2. WrrInv /\ RoundInv /\ [Next]_vars => (WrrInv /\ RoundInv)'
  BY WrrStep, RoundStep
<1>. QED BY <1>1, <1>2, ExactRounds, PTL DEF Spec

-----------------------------------------------------------------------------
(* The backends' permutations of the Maglev table.                         *)

LEMMA MIsNat == M \in Nat \ {0}
BY SchedulerConstants

\* What the remainder of a division leaves of a multiple of the table's size.
LEMMA RestIsMultiple ==
  ASSUME NEW s \in Int, NEW k \in Int, NEW q \in Int, NEW r \in Int, NEW u \in Int,
         k * s = M * u, M = k * q + r
  PROVE  r * s = M * (s - q * u)
<1>1. M \in Int
  BY MIsNat
<1>2. r * s = M * s - q * (k * s)
  <2>1. r = M - k * q
    BY <1>1
  <2>. QED BY <1>1, <2>1
<1>3. q * (k * s) = M * (q * u)
  BY <1>1
<1>. QED BY <1>1, <1>2, <1>3

\* M being prime, fewer than M skips never come back to where they started.
LEMMA NoShortCycle ==
  ASSUME NEW s \in 1 .. M - 1, NEW k \in 1 .. M - 1, NEW u \in Int
  PROVE  k * s # M * u
<1> DEFINE S == {n \in 1 .. M - 1 : \E v \in Int : n * s = M * v}
<1> SUFFICES ASSUME k * s = M * u PROVE FALSE
  OBVIOUS
<1>1. PICK n \in S : \A m \in S : n <= m
  <2>1. S \in SUBSET Nat /\ k \in S
    BY MIsNat
  <2> HIDE DEF S
  <2>. QED BY <2>1, LeastOf
<1>2. PICK v \in Int : n * s = M * v
  BY <1>1
<1>3. n \in Nat \ {0} /\ n < M /\ s \in Nat \ {0} /\ s < M /\ M \in Nat \ {0}
  BY <1>1, MIsNat
<1>4. n # 1
  <2> SUFFICES ASSUME n = 1 PROVE FALSE
    OBVIOUS
  <2>1. s = M * v
    BY <1>2, <1>3
  <2>2. v >= 1 \/ v <= -1 \/ v = 0
    OBVIOUS
  <2>. QED BY <1>3, <2>1, <2>2, MulSign
<1> DEFINE r == M % n
           q == M \div n
<1>5. r \in 0 .. n - 1 /\ q \in Int /\ M = n * q + r
  BY <1>3, DivMod
<1>6. r # 0
  BY <1>3, <1>4, MaglevSizeIsPrime
<1> HIDE DEF r, q
<1>7. r * s = M * (s - q * v) /\ s - q * v \in Int
  <2>1. s \in Int /\ n \in Int /\ r \in Int
    BY <1>3, <1>5
  <2>2. r * s = M * (s - q * v)
    BY <1>2, <1>5, <2>1, RestIsMultiple
  <2>3. q * v \in Int
    BY <1>5
  <2>. QED BY <2>1, <2>2, <2>3
<1>8. r \in 1 .. M - 1
  BY <1>3, <1>5, <1>6
<1>9. r \in S
  BY <1>7, <1>8
<1>. QED BY <1>1, <1>3, <1>5, <1>9

\* Slot(i, j) with the backend's offset and skip.
LEMMA SlotType ==
  ASSUME NEW i, NEW o \in 0 .. M - 1, NEW s \in 1 .. M - 1, hash[i] = <<o, s>>,
         NEW j \in Nat
  PROVE  /\ Slot(i, j) = ((o + j * s) % M) + 1
         /\ Slot(i, j) \in 1 .. M
<1>1. Slot(i, j) = ((o + j * s) % M) + 1
  BY DEF Slot
<1>2. o + j * s \in Int
  BY MIsNat
<1>3. (o + j * s) % M \in 0 .. M - 1
  BY <1>2, MIsNat, DivMod, Zenon
<1>. QED BY <1>1, <1>3, MIsNat

LEMMA SlotsApart ==
  ASSUME NEW i, NEW o \in 0 .. M - 1, NEW s \in 1 .. M - 1, hash[i] = <<o, s>>,
         NEW j \in 0 .. M - 1, NEW k \in 0 .. M - 1, j < k
  PROVE  Slot(i, j) # Slot(i, k)
<1> SUFFICES ASSUME Slot(i, j) = Slot(i, k) PROVE FALSE
  OBVIOUS
<1> DEFINE a == o + j * s
           b == o + k * s
           x == a \div M
           y == b \div M
<1>1. j \in Nat /\ k \in Nat /\ s \in Nat /\ o \in Nat /\ M \in Nat \ {0}
  BY MIsNat
<1>2. a \in Int /\ b \in Int
  BY <1>1
<1>3. b - a = (k - j) * s
  BY <1>1
<1>4. (a % M) + 1 = (b % M) + 1
  <2>1. Slot(i, j) = (a % M) + 1
    BY <1>1, SlotType, ZenonT(40)
  <2>2. Slot(i, k) = (b % M) + 1
    BY <1>1, SlotType, ZenonT(40)
  <2>. QED BY <2>1, <2>2, Zenon
<1> HIDE DEF a, b
<1>5. /\ x \in Int /\ y \in Int /\ a % M \in Int /\ b % M \in Int
      /\ a = M * x + (a % M) /\ b = M * y + (b % M)
  BY <1>1, <1>2, DivMod
<1> HIDE DEF x, y
<1>6. b - a = M * y - M * x
  BY <1>1, <1>2, <1>4, <1>5
<1>7. b - a = M * (y - x)
  BY <1>1, <1>5, <1>6
<1>8. k - j \in 1 .. M - 1 /\ y - x \in Int
  BY <1>1, <1>5
<1>. QED BY <1>3, <1>7, <1>8, NoShortCycle

\* The first M slots of a backend's permutation are all the slots.
LEMMA EverySlot ==
  ASSUME NEW i, NEW o \in 0 .. M - 1, NEW s \in 1 .. M - 1, hash[i] = <<o, s>>,
         NEW c \in 1 .. M
  PROVE  \E j \in 0 .. M - 1 : Slot(i, j) = c
<1> DEFINE D == 0 .. M - 1
           f == [j \in D |-> Slot(i, j)]
<1>1. \A j \in D : Slot(i, j) \in 1 .. M
  BY SlotType
<1>2. f \in [D -> 1 .. M]
  BY <1>1
<1>3. \A j, k \in D : Slot(i, j) = Slot(i, k) => j = k
  <2> SUFFICES ASSUME NEW j \in D, NEW k \in D, j # k PROVE Slot(i, j) # Slot(i, k)
    OBVIOUS
  <2>1. j < k \/ k < j
    BY MIsNat
  <2>. QED BY <2>1, SlotsApart, Zenon
<1>4. \A j \in D : f[j] = Slot(i, j)
  OBVIOUS
<1> HIDE DEF f
<1>5. f \in Injection(D, 1 .. M)
  BY <1>2, <1>3, <1>4, Zenon DEF Injection, IsInjective
<1>6. IsFiniteSet(1 .. M) /\ Cardinality(1 .. M) = M
  <2>1. 1 \in Int /\ M \in Int /\ ~(1 > M) /\ M - 1 + 1 = M
    BY MIsNat
  <2>. QED BY <2>1, FS_Interval, Zenon
<1>7. Cardinality(D) = M
  <2>1. 0 \in Int /\ M - 1 \in Int /\ ~(0 > M - 1) /\ (M - 1) - 0 + 1 = M
    BY MIsNat
  <2>. QED BY <2>1, FS_Interval
<1> HIDE DEF D
<1>8. f \in Surjection(D, 1 .. M)
  BY <1>5, <1>6, <1>7, FS_Injection
<1>9. \E j \in D : f[j] = c
  BY <1>8 DEF Surjection
<1>. QED BY <1>4, <1>9 DEF D

-----------------------------------------------------------------------------
(* The invariant of build_maglev.                                          *)

\* 1 when backend i has had its turn in the round that is going on.
Gone(i) == IF i < turn THEN 1 ELSE 0

\* A heaviest backend has taken a slot in each of its turns.  What a backend has
\* got, in slots and in credit, is its weight for each of its turns.
Credits ==
  /\ \A i \in Backends : credit[i] >= 0 /\ credit[i] <= max_w
  /\ \A i, m \in Backends : weight[m] = max_w =>
       /\ credit[m] = 0
       /\ credit[i] + share[i] * max_w = (share[m] + (Gone(i) - Gone(m))) * weight[i]

\* Slots belong to scheduled backends, and those a backend has looked at are taken.
Slots ==
  /\ table \in [1 .. M -> 0 .. N]
  /\ \A c \in 1 .. M : table[c] # 0 => weight[table[c]] > 0
  /\ \A i \in Backends : \A j \in 0 .. M - 1 : j < next[i] => table[Slot(i, j)] # 0

MaglevType ==
  /\ hash \in [Backends -> Hashes]
  /\ turn \in Backends
  /\ credit \in [Backends -> Int] /\ share \in [Backends -> Nat]

MaglevInv ==
  /\ type \in {"WRR", "MAGLEV"} /\ pc \in {"build", "wrr", "maglev", "ready"}
  /\ weight \in [Backends -> Nat] /\ next \in [Backends -> 0 .. M]
  /\ pc = "wrr" => type = "WRR"
  /\ pc = "maglev" => type = "MAGLEV"
  /\ type = "MAGLEV" =>
       /\ MaglevType
       /\ pc = "build" =>
            /\ table = <<>> /\ turn = 1
            /\ \A i \in Backends : next[i] = 0 /\ credit[i] = 0 /\ share[i] = 0
       /\ pc = "maglev" => Slots /\ Credits /\ max_w > 0 /\ \E c \in 1 .. M : table[c] = 0
       /\ pc = "ready" => \/ table = <<>>
                          \/ Slots /\ Credits /\ max_w > 0 /\ \A c \in 1 .. M : table[c] # 0

LEMMA MaxWeight ==
  ASSUME weight \in [Backends -> Nat]
  PROVE  /\ max_w \in Nat /\ \A i \in Backends : weight[i] <= max_w
         /\ \E m \in Backends : weight[m] = max_w
<1> DEFINE t == Total(weight)
           S == {t - weight[i] : i \in Backends}
<1>1. t \in Nat /\ \A i \in Backends : weight[i] <= t
  BY TotalBound
<1> HIDE DEF t
<1>2. S \in SUBSET Nat /\ S # {}
  <2>1. 1 \in Backends
    BY NIsNat DEF Backends
  <2>. QED BY <1>1, <2>1
<1>3. PICK x \in S : \A y \in S : x <= y
  BY <1>2, LeastOf, Zenon
<1>4. PICK m \in Backends : x = t - weight[m]
  BY <1>3
<1>5. ASSUME NEW i \in Backends PROVE weight[i] <= weight[m]
  <2>1. x <= t - weight[i]
    BY <1>3
  <2>. QED BY <1>1, <1>4, <2>1
<1>6. weight[m] \in Range(weight) /\ \A i \in Backends : weight[i] <= weight[m]
  BY <1>5 DEF Range
<1>7. max_w \in Range(weight) /\ \A i \in Backends : weight[i] <= max_w
  BY <1>6 DEF max_w
<1>. QED BY <1>7 DEF Range

LEMMA HashType ==
  ASSUME hash \in [Backends -> Hashes], NEW i \in Backends
  PROVE  \E o \in 0 .. M - 1, s \in 1 .. M - 1 : hash[i] = <<o, s>>
<1>1. hash[i] \in (0 .. M - 1) \X (1 .. M - 1)
  BY SchedulerConstants
<1>. QED BY <1>1

LEMMA GoneStep ==
  ASSUME turn \in Backends, turn' = (turn % N) + 1,
         NEW i \in Backends, NEW m \in Backends
  PROVE  /\ Gone(i) \in Int /\ Gone(m) \in Int
         /\ (Gone(i) - Gone(m))' = (Gone(i) - Gone(m))
              + ((IF i = turn THEN 1 ELSE 0) - (IF m = turn THEN 1 ELSE 0))
<1>1. turn \in 1 .. N /\ i \in 1 .. N /\ m \in 1 .. N /\ N \in Nat \ {0}
  BY NIsNat DEF Backends
<1>2. CASE turn = N
  <2>1. N % N = 0
    BY <1>1
  <2>2. turn' = 1
    BY <1>2, <2>1
  <2>. QED BY <1>1, <1>2, <2>2 DEF Gone
<1>3. CASE turn # N
  <2>1. turn % N = turn
    BY <1>1, <1>3
  <2>2. turn' = turn + 1
    BY <1>1, <2>1
  <2>. QED BY <1>1, <2>2 DEF Gone
<1>. QED BY <1>2, <1>3

\* A turn gives the backend its weight, as credit or as a slot and what is left.
LEMMA TurnCredits ==
  ASSUME weight \in [Backends -> Nat], MaglevType, MaglevType', Credits,
         turn' = (turn % N) + 1, weight' = weight,
         \A i \in Backends : i # turn => credit'[i] = credit[i] /\ share'[i] = share[i],
         credit'[turn] + share'[turn] * max_w
           = (credit[turn] + share[turn] * max_w) + weight[turn],
         credit'[turn] >= 0, credit'[turn] <= max_w,
         weight[turn] = max_w => credit'[turn] = 0 /\ share'[turn] = share[turn] + 1
  PROVE  Credits'
<1>1. max_w' = max_w /\ max_w \in Nat
  BY MaxWeight, Zenon DEF max_w
<1> DEFINE x == max_w
<1>2. x' = x /\ x \in Nat
  BY <1>1
<1>3. \A i \in Backends : credit'[i] >= 0 /\ credit'[i] <= x
  BY Zenon DEF Credits, MaglevType
<1>4. ASSUME NEW i \in Backends, NEW m \in Backends, weight[m] = max_w
      PROVE  /\ credit'[m] = 0
             /\ credit'[i] + share'[i] * max_w = (share'[m] + (Gone(i) - Gone(m))') * weight[i]
  <2>1. /\ credit[m] = 0
        /\ credit[i] + share[i] * x = (share[m] + (Gone(i) - Gone(m))) * weight[i]
    BY <1>4, Zenon DEF Credits
  <2>2. credit'[m] = 0 /\ share'[m] = share[m] + (IF m = turn THEN 1 ELSE 0)
    <3>1. share[m] \in Nat
      BY Zenon DEF MaglevType
    <3>. QED BY <1>4, <2>1, <3>1
  <2>3. credit'[i] + share'[i] * x
          = (credit[i] + share[i] * x) + (IF i = turn THEN weight[i] ELSE 0)
    <3>1. CASE i = turn
      BY <3>1, Zenon
    <3>2. CASE i # turn
      <4>1. credit[i] + share[i] * x \in Int
        BY <1>2 DEF MaglevType
      <4>. QED BY <3>2, <4>1
    <3>. QED BY <3>1, <3>2, Zenon
  <2> DEFINE d == Gone(i) - Gone(m)
             e == IF i = turn THEN 1 ELSE 0
             f == IF m = turn THEN 1 ELSE 0
  <2>4. d \in Int /\ d' = d + (e - f)
    <3>1. turn \in Backends
      BY Zenon DEF MaglevType
    <3>. QED BY <3>1, GoneStep
  <2>5. share[m] \in Int /\ weight[i] \in Int /\ e \in Int /\ f \in Int
    BY DEF MaglevType
  <2>6. share'[m] + d' = (share[m] + d) + e
    <3> HIDE DEF d
    <3>1. share'[m] = share[m] + f
      BY <2>2, Zenon
    <3> HIDE DEF e, f
    <3>. QED BY <2>4, <2>5, <3>1
  <2>7. ((share[m] + d) + e) * weight[i] = (share[m] + d) * weight[i] + e * weight[i]
    <3> HIDE DEF d, e
    <3>. QED BY <2>4, <2>5
  <2>8. e * weight[i] = IF i = turn THEN weight[i] ELSE 0
    BY <2>5
  <2>. QED BY <2>1, <2>2, <2>3, <2>6, <2>7, <2>8, Zenon
<1>. QED BY <1>2, <1>3, <1>4, Zenon DEF Credits

\* The search finds a free slot, in the first round through the permutation.
LEMMA SlotFound ==
  ASSUME MaglevType, next \in [Backends -> 0 .. M], Slots, NEW i \in Backends,
         \E c \in 1 .. M : table[c] = 0
  PROVE  LET free == {j \in next[i] .. next[i] + M - 1 : table[Slot(i, j)] = 0}
             j == CHOOSE x \in free : \A y \in free : x <= y
         IN  /\ free # {}
             /\ j \in next[i] .. M - 1 /\ Slot(i, j) \in 1 .. M
             /\ \A k \in 0 .. M - 1 : k < j => table[Slot(i, k)] # 0
<1> DEFINE free == {j \in next[i] .. next[i] + M - 1 : table[Slot(i, j)] = 0}
           j == CHOOSE x \in free : \A y \in free : x <= y
<1>1. PICK o \in 0 .. M - 1, s \in 1 .. M - 1 : hash[i] = <<o, s>>
  BY HashType, Zenon DEF MaglevType
<1>2. PICK c \in 1 .. M : table[c] = 0
  OBVIOUS
<1>3. PICK k \in 0 .. M - 1 : Slot(i, k) = c
  BY <1>1, EverySlot, Zenon
<1>4. next[i] \in 0 .. M /\ M \in Nat
  BY MIsNat, Zenon
<1>5. k >= next[i]
  BY <1>2, <1>3, <1>4 DEF Slots
<1>6. k \in free
  BY <1>2, <1>3, <1>4, <1>5
<1>7. free \in SUBSET Nat
  BY <1>4
<1> HIDE DEF free
<1>8. \E x \in free : \A y \in free : x <= y
  BY <1>6, <1>7, LeastOf
<1>9. j \in free /\ \A y \in free : j <= y
  BY <1>8, Zenon
<1> HIDE DEF j
<1>10. j \in Nat /\ j >= next[i] /\ j <= k /\ k <= M - 1
  <2>1. j \in next[i] .. next[i] + M - 1
    BY <1>9, Zenon DEF free
  <2>. QED BY <1>4, <1>6, <1>9, <2>1
<1>11. j \in next[i] .. M - 1 /\ Slot(i, j) \in 1 .. M
  BY <1>1, <1>4, <1>10, SlotType
<1>12. ASSUME NEW n \in 0 .. M - 1, n < j PROVE table[Slot(i, n)] # 0
  <2>1. CASE n < next[i]
    BY <2>1, Zenon DEF Slots
  <2>2. CASE ~(n < next[i])
    <3>1. n \in next[i] .. next[i] + M - 1
      BY <1>4, <2>2
    <3>2. n \notin free
      BY <1>4, <1>9, <1>10, <1>12
    <3>. QED BY <3>1, <3>2, Zenon DEF free
  <2>. QED BY <2>1, <2>2, Zenon
<1>. QED BY <1>6, <1>11, <1>12, Zenon DEF free, j

\* A turn that takes no slot.
LEMMA CreditTurn ==
  ASSUME MaglevInv, pc = "maglev", turn' = (turn % N) + 1,
         UNCHANGED <<type, weight, hash, table, pc, next, share>>,
         \/ weight[turn] = 0 /\ credit' = credit
         \/ /\ weight[turn] > 0
            /\ \/ credit[turn] + weight[turn] < max_w
               \/ credit[turn] + weight[turn] = max_w /\ weight[turn] < max_w
            /\ credit' = [credit EXCEPT ![turn] = credit[turn] + weight[turn]]
  PROVE  MaglevInv'
<1>1. /\ type = "MAGLEV" /\ MaglevType /\ Slots /\ Credits /\ max_w > 0
      /\ weight \in [Backends -> Nat] /\ next \in [Backends -> 0 .. M]
      /\ \E c \in 1 .. M : table[c] = 0
  BY Zenon DEF MaglevInv
<1>2. /\ max_w \in Nat /\ max_w' = max_w /\ turn \in Backends
      /\ turn' \in Backends
  <2>1. max_w \in Nat /\ max_w' = max_w /\ turn \in Backends
    BY <1>1, MaxWeight, Zenon DEF max_w, MaglevType
  <2>2. turn % N \in 0 .. N - 1
    BY <2>1, NIsNat DEF Backends
  <2>. QED BY <2>1, <2>2, NIsNat DEF Backends
<1> DEFINE x == max_w
           t == turn
<1>3. /\ credit[t] \in Int /\ weight[t] \in Nat /\ share[t] \in Nat
      /\ credit[t] >= 0 /\ credit[t] <= x
  BY <1>1, <1>2, Zenon DEF MaglevType, Credits
<1>4. credit' \in [Backends -> Int] /\ MaglevType'
  BY <1>1, <1>2, <1>3 DEF MaglevType
<1>5. /\ \A i \in Backends : i # t => credit'[i] = credit[i]
      /\ credit'[t] = credit[t] + weight[t]
      /\ weight[t] < x /\ credit'[t] <= x
  <2>1. CASE weight[t] = 0 /\ credit' = credit
    BY <1>1, <1>2, <1>3, <2>1
  <2>2. CASE /\ weight[t] > 0
             /\ \/ credit[t] + weight[t] < x
                \/ credit[t] + weight[t] = x /\ weight[t] < x
             /\ credit' = [credit EXCEPT ![t] = credit[t] + weight[t]]
    <3>1. credit \in [Backends -> Int]
      BY <1>1, Zenon DEF MaglevType
    <3>2. /\ \A i \in Backends : i # t => credit'[i] = credit[i]
          /\ credit'[t] = credit[t] + weight[t]
      BY <1>2, <2>2, <3>1, Zenon
    <3> HIDE DEF x, t
    <3>. QED BY <1>2, <1>3, <2>2, <3>2 DEF x
  <2>. QED BY <2>1, <2>2, Zenon
<1>6. credit'[t] + share'[t] * x = (credit[t] + share[t] * x) + weight[t]
  <2>1. share[t] * x \in Int /\ share'[t] = share[t]
    BY <1>2, <1>3
  <2>. QED BY <1>3, <1>5, <2>1
<1>7. Credits'
  BY <1>1, <1>2, <1>3, <1>4, <1>5, <1>6, TurnCredits, SMTT(20)
<1>8. Slots'
  BY <1>1, Zenon DEF Slots, Slot
<1>. QED BY <1>1, <1>2, <1>4, <1>7, <1>8, Zenon DEF MaglevInv

\* A turn that takes one.
LEMMA SlotTurn ==
  ASSUME MaglevInv, pc = "maglev", turn' = (turn % N) + 1,
         UNCHANGED <<type, weight, hash>>, weight[turn] > 0,
         credit[turn] + weight[turn] >= max_w,
         credit' = [credit EXCEPT ![turn] = (credit[turn] + weight[turn]) - max_w],
         share' = [share EXCEPT ![turn] = share[turn] + 1],
         NEW j \in next[turn] .. M - 1, Slot(turn, j) \in 1 .. M,
         \A k \in 0 .. M - 1 : k < j => table[Slot(turn, k)] # 0,
         table' = [table EXCEPT ![Slot(turn, j)] = turn],
         next' = [next EXCEPT ![turn] = j + 1],
         pc' = IF \A c \in 1 .. M : table'[c] # 0 THEN "ready" ELSE "maglev"
  PROVE  MaglevInv'
<1>1. /\ type = "MAGLEV" /\ MaglevType /\ Slots /\ Credits /\ max_w > 0
      /\ weight \in [Backends -> Nat] /\ next \in [Backends -> 0 .. M]
      /\ \E c \in 1 .. M : table[c] = 0
  BY Zenon DEF MaglevInv
<1>2. /\ max_w \in Nat /\ max_w' = max_w /\ turn \in Backends
      /\ turn' \in Backends
  <2>1. max_w \in Nat /\ max_w' = max_w /\ turn \in Backends
    BY <1>1, MaxWeight, Zenon DEF max_w, MaglevType
  <2>2. turn % N \in 0 .. N - 1
    BY <2>1, NIsNat DEF Backends
  <2>. QED BY <2>1, <2>2, NIsNat DEF Backends
<1> DEFINE x == max_w
           t == turn
<1>3. /\ credit[t] \in Int /\ weight[t] \in Nat /\ share[t] \in Nat
      /\ credit[t] >= 0 /\ credit[t] <= x /\ weight[t] <= x
      /\ weight[t] = x => credit[t] = 0
  BY <1>1, <1>2, MaxWeight, Zenon DEF MaglevType, Credits
<1>4. credit' \in [Backends -> Int] /\ share' \in [Backends -> Nat] /\ MaglevType'
  <2>1. (credit[t] + weight[t]) - x \in Int /\ share[t] + 1 \in Nat
    BY <1>2, <1>3
  <2>2. credit' \in [Backends -> Int] /\ share' \in [Backends -> Nat]
    BY <1>1, <1>2, <2>1, Zenon DEF MaglevType
  <2>. QED BY <1>1, <1>2, <2>2, Zenon DEF MaglevType
<1>5. /\ \A i \in Backends : i # t => credit'[i] = credit[i] /\ share'[i] = share[i]
      /\ credit'[t] = (credit[t] + weight[t]) - x /\ share'[t] = share[t] + 1
  BY <1>1, <1>2, Zenon DEF MaglevType
<1>6. /\ credit'[t] >= 0 /\ credit'[t] <= x
      /\ weight[t] = x => credit'[t] = 0
  BY <1>2, <1>3, <1>5, SMTT(20)
<1>7. credit'[t] + share'[t] * x = (credit[t] + share[t] * x) + weight[t]
  <2>1. share[t] * x \in Int /\ (share[t] + 1) * x = share[t] * x + x
    BY <1>2, <1>3, MulNext, SMTT(20)
  <2>2. credit'[t] + share'[t] * x = ((credit[t] + weight[t]) - x) + (share[t] * x + x)
    BY <1>5, <2>1, Zenon
  <2> DEFINE z == share[t] * x
  <2>3. z \in Int /\ x \in Int
    BY <1>2, <2>1, SMTT(20)
  <2> HIDE DEF z, x, t
  <2>4. ((credit[t] + weight[t]) - x) + (z + x) = (credit[t] + z) + weight[t]
    BY <1>3, <2>3, SMTT(20)
  <2>. QED BY <2>2, <2>4, Zenon DEF z
<1>8. Credits'
  BY <1>1, <1>2, <1>3, <1>4, <1>5, <1>6, <1>7, TurnCredits, Zenon
<1>9. j \in 0 .. M - 1 /\ j + 1 \in 0 .. M
  <2>1. next[t] \in 0 .. M
    BY <1>1, <1>2, Zenon
  <2>. QED BY <2>1, MIsNat
<1>10. next' \in [Backends -> 0 .. M]
  BY <1>1, <1>2, <1>9, Zenon
<1>11. /\ table' \in [1 .. M -> 0 .. N] /\ t \in 0 .. N /\ t # 0
       /\ table'[Slot(t, j)] = t
       /\ \A c \in 1 .. M : c # Slot(t, j) => table'[c] = table[c]
  <2>1. t \in 0 .. N /\ t # 0
    BY <1>2, NIsNat DEF Backends
  <2>2. table \in [1 .. M -> 0 .. N]
    BY <1>1, Zenon DEF Slots
  <2> HIDE DEF t
  <2>. QED BY <2>1, <2>2, Zenon DEF t
<1>12. \A c \in 1 .. M : table[c] # 0 => table'[c] # 0
  BY <1>11, Zenon
<1>13. \A c \in 1 .. M : table'[c] # 0 => weight[table'[c]] > 0
  BY <1>1, <1>11, Zenon DEF Slots
<1>14. ASSUME NEW i \in Backends, NEW k \in 0 .. M - 1, k < next'[i]
       PROVE  table'[Slot(i, k)] # 0
  <2>1. Slot(i, k) \in 1 .. M
    <3>1. PICK o \in 0 .. M - 1, s \in 1 .. M - 1 : hash[i] = <<o, s>>
      BY <1>1, HashType, Zenon DEF MaglevType
    <3>2. k \in Nat
      BY MIsNat
    <3>. QED BY <3>1, <3>2, SlotType, Zenon
  <2>2. CASE i # t
    <3>1. next'[i] = next[i]
      BY <1>1, <1>2, <2>2, Zenon
    <3>. QED BY <1>1, <1>12, <1>14, <2>1, <3>1, Zenon DEF Slots
  <2>3. CASE i = t
    <3>1. next'[i] = j + 1
      BY <1>1, <1>2, <2>3, Zenon
    <3>2. k < j \/ k = j
      BY <1>9, <1>14, <3>1
    <3>3. CASE k = j
      BY <1>11, <2>3, <3>3, Zenon
    <3>4. CASE k < j
      BY <1>12, <2>1, <2>3, <3>4, Zenon
    <3>. QED BY <3>2, <3>3, <3>4, Zenon
  <2>. QED BY <2>2, <2>3, Zenon
<1>15. Slots'
  <2>1. \A i, k : Slot(i, k)' = Slot(i, k)
    BY Zenon DEF Slot
  <2>. QED BY <1>11, <1>13, <1>14, <2>1, Zenon DEF Slots
<1>16. pc' = "maglev" => \E c \in 1 .. M : table'[c] = 0
  BY Zenon
<1>17. pc' = "ready" => \A c \in 1 .. M : table'[c] # 0
  BY Zenon
<1>18. pc' \in {"maglev", "ready"}
  BY Zenon
<1>. QED BY <1>1, <1>2, <1>4, <1>8, <1>10, <1>15, <1>16, <1>17, <1>18, Zenon DEF MaglevInv

LEMMA TurnStep ==
  ASSUME MaglevInv, MaglevTurn
  PROVE  MaglevInv'
<1> DEFINE i == turn
           sum == credit[i] + weight[i]
           free == {j \in next[i] .. next[i] + M - 1 : table[Slot(i, j)] = 0}
           j == CHOOSE x \in free : \A y \in free : x <= y
<1>1. pc = "maglev" /\ UNCHANGED <<type, weight, hash>>
  BY Zenon DEF MaglevTurn
<1>2. /\ MaglevType /\ Slots /\ next \in [Backends -> 0 .. M] /\ turn \in Backends
      /\ \E c \in 1 .. M : table[c] = 0
  BY <1>1, Zenon DEF MaglevInv, MaglevType
<1>3. CASE /\ weight[i] = 0 /\ turn' = (i % N) + 1
           /\ UNCHANGED <<table, pc, next, credit, share>>
  BY <1>1, <1>3, CreditTurn, Zenon
<1>4. CASE /\ weight[i] > 0
           /\ sum < max_w \/ (sum = max_w /\ weight[i] < max_w)
           /\ turn' = (i % N) + 1
           /\ credit' = [credit EXCEPT ![i] = sum]
           /\ UNCHANGED <<table, pc, next, share>>
  BY <1>1, <1>4, CreditTurn, Zenon
<1>5. /\ free # {}
      /\ j \in next[i] .. M - 1 /\ Slot(i, j) \in 1 .. M
      /\ \A k \in 0 .. M - 1 : k < j => table[Slot(i, k)] # 0
  BY <1>2, SlotFound, Zenon
<1>6. CASE /\ weight[i] > 0 /\ sum >= max_w
           /\ turn' = (i % N) + 1
           /\ credit' = [credit EXCEPT ![i] = CreditLeft(sum)]
           /\ table' = [table EXCEPT ![Slot(i, j)] = i]
           /\ next' = [next EXCEPT ![i] = j + 1]
           /\ share' = [share EXCEPT ![i] = share[i] + 1]
           /\ pc' = (IF \A c \in 1 .. M : table'[c] # 0 THEN "ready" ELSE "maglev")
  <2>1. \A z : CreditLeft(z) = z - max_w
    BY DEF CreditLeft
  <2>2. credit' = [credit EXCEPT ![turn] = (credit[turn] + weight[turn]) - max_w]
    BY <1>6, <2>1, Zenon
  <2>3. PICK n : n = j
    BY Zenon
  <2> HIDE DEF j, free
  <2>4. /\ n \in next[turn] .. M - 1 /\ Slot(turn, n) \in 1 .. M
        /\ \A k \in 0 .. M - 1 : k < n => table[Slot(turn, k)] # 0
    BY <1>5, <2>3, Zenon
  <2>5. /\ table' = [table EXCEPT ![Slot(turn, n)] = turn]
        /\ next' = [next EXCEPT ![turn] = n + 1]
    BY <1>6, <2>3, Zenon
  <2>6. /\ turn' = (turn % N) + 1 /\ weight[turn] > 0 /\ credit[turn] + weight[turn] >= max_w
        /\ share' = [share EXCEPT ![turn] = share[turn] + 1]
        /\ pc' = IF \A c \in 1 .. M : table'[c] # 0 THEN "ready" ELSE "maglev"
    BY <1>6, Zenon
  <2>. QED BY <1>1, <2>2, <2>4, <2>5, <2>6, SlotTurn, Zenon
<1>. QED BY <1>3, <1>4, <1>5, <1>6, Zenon DEF MaglevTurn

LEMMA MaglevInit == Init => MaglevInv
<1> SUFFICES ASSUME Init PROVE MaglevInv
  OBVIOUS
<1>1. 1 \in Backends /\ 0 \in 0 .. M
  BY NIsNat, MIsNat DEF Backends
<1>2. weight \in [Backends -> Nat] /\ next \in [Backends -> 0 .. M]
  BY <1>1, SchedulerConstants, ZenonT(40) DEF Init
<1>3. type = "MAGLEV" => MaglevType
  BY <1>1 DEF Init, MaglevType
<1>4. \A i \in Backends : next[i] = 0 /\ credit[i] = 0 /\ share[i] = 0
  BY DEF Init
<1>. QED BY <1>2, <1>3, <1>4, Zenon DEF Init, MaglevInv

LEMMA MaglevBuild ==
  ASSUME MaglevInv, Build
  PROVE  MaglevInv'
<1>1. /\ pc = "build" /\ weight \in [Backends -> Nat] /\ next \in [Backends -> 0 .. M]
      /\ UNCHANGED <<type, weight, hash, turn, next, credit, share>>
  BY BuildBranches, Zenon DEF MaglevInv
<1>2. CASE type # "MAGLEV"
  <2>1. type = "WRR" /\ pc' \in {"ready", "wrr"}
    BY <1>2, BuildBranches, Zenon DEF MaglevInv
  <2>. QED BY <1>1, <1>2, <2>1, Zenon DEF MaglevInv
<1>3. CASE type = "MAGLEV" /\ \A i \in Backends : weight[i] = 0
  <2>1. pc' = "ready" /\ table' = table
    BY <1>3, BuildBranches, Zenon
  <2>2. table = <<>> /\ MaglevType
    BY <1>1, <1>3, Zenon DEF MaglevInv
  <2>. QED BY <1>1, <1>3, <2>1, <2>2, Zenon DEF MaglevInv, MaglevType
<1>4. CASE type = "MAGLEV" /\ ~\A i \in Backends : weight[i] = 0
  <2>1. /\ pc' = "maglev" /\ table' = [c \in 1 .. M |-> 0] /\ MaglevType /\ turn = 1
        /\ \A i \in Backends : next[i] = 0 /\ credit[i] = 0 /\ share[i] = 0
    <3>1. pc' = "maglev" /\ table' = [c \in 1 .. M |-> 0]
      BY <1>4, BuildBranches, Zenon
    <3>. QED BY <1>1, <1>4, <3>1, Zenon DEF MaglevInv
  <2>2. max_w \in Nat /\ max_w > 0 /\ max_w' = max_w
    BY <1>1, <1>4, MaxWeight DEF max_w
  <2>3. table' \in [1 .. M -> 0 .. N] /\ \A c \in 1 .. M : table'[c] = 0
    BY <2>1, NIsNat
  <2>4. 1 \in 1 .. M
    BY MIsNat
  <2>5. Slots'
    BY <1>1, <2>1, <2>3 DEF Slots
  <2>6. ASSUME NEW i \in Backends PROVE Gone(i)' = 0
    BY <1>1, <2>1 DEF Gone, Backends
  <2>7. ASSUME NEW i \in Backends, NEW m \in Backends
        PROVE  /\ credit'[m] = 0
               /\ credit'[i] + share'[i] * max_w
                    = (share'[m] + (Gone(i)' - Gone(m)')) * weight[i]
    <3>1. weight[i] \in Nat /\ 0 * max_w = 0 /\ 0 * weight[i] = 0
      BY <1>1, <2>2
    <3>2. credit'[m] = 0 /\ credit'[i] = 0 /\ share'[i] = 0 /\ share'[m] = 0
      BY <1>1, <2>1, Zenon
    <3>3. Gone(i)' = 0 /\ Gone(m)' = 0
      BY <2>6
    <3>4. 0 + 0 * max_w = (0 + (0 - 0)) * weight[i]
      BY <3>1
    <3>. QED BY <3>2, <3>3, <3>4, Zenon
  <2>8. Credits'
    BY <1>1, <2>1, <2>2, <2>7 DEF Credits
  <2>9. MaglevType'
    BY <1>1, <2>1, Zenon DEF MaglevType
  <2>. QED BY <1>1, <1>4, <2>1, <2>2, <2>3, <2>4, <2>5, <2>8, <2>9, Zenon DEF MaglevInv
<1>. QED BY <1>2, <1>3, <1>4

LEMMA MaglevStep == MaglevInv /\ [Next]_vars => MaglevInv'
<1> SUFFICES ASSUME MaglevInv, [Next]_vars PROVE MaglevInv'
  OBVIOUS
<1>1. CASE WrrEntry
  <2>1. /\ pc = "wrr" /\ type # "MAGLEV" /\ UNCHANGED <<type, weight, next>>
        /\ pc' \in {"wrr", "ready"} /\ type = "WRR"
    BY <1>1, Zenon DEF WrrEntry, MaglevInv
  <2>. QED BY <2>1, Zenon DEF MaglevInv
<1>2. CASE UNCHANGED <<type, weight, hash, table, pc, turn, next, credit, share>>
  <2>1. MaglevType => MaglevType'
    BY <1>2 DEF MaglevType
  <2>2. Slots => Slots'
    BY <1>2, Zenon DEF Slots, Slot
  <2>3. max_w' = max_w
    BY <1>2 DEF max_w
  <2>4. Credits => Credits'
    BY <1>2, <2>3, Zenon DEF Credits, Gone
  <2>. QED BY <1>2, <2>1, <2>2, <2>3, <2>4, Zenon DEF MaglevInv
<1>3. ASSUME NEW k \in Workers, Pick(k)
      PROVE  UNCHANGED <<type, weight, hash, table, pc, turn, next, credit, share>>
  BY <1>3, Zenon DEF Pick, buildvars
<1>4. CASE UNCHANGED vars
  BY <1>2, <1>4, Zenon DEF vars, buildvars
<1>. QED BY <1>1, <1>2, <1>3, <1>4, MaglevBuild, TurnStep, Zenon DEF Next

\* A complete Maglev table has only scheduled backends, in the ratio of their
\* weights but for the last round and one rounded credit, and the search for a
\* free slot goes through a backend's permutation at most once (build_maglev):
\* for any backends, weights and hashes, and any prime table size.
THEOREM MaglevIsFair == Spec => []MaglevFair
<1>1. MaglevInv => MaglevFair
  <2> SUFFICES ASSUME MaglevInv PROVE MaglevFair
    OBVIOUS
  <2>1. \A i \in Backends : next[i] <= M
    <3>1. next \in [Backends -> 0 .. M]
      BY Zenon DEF MaglevInv
    <3>. QED BY <3>1
  <2>2. ASSUME type = "MAGLEV", pc = "ready", table # <<>>
        PROVE  /\ \A c \in 1 .. M : table[c] \in Backends /\ weight[table[c]] > 0
               /\ \A i, m \in Backends : weight[m] = max_w =>
                    /\ share[i] * max_w <= (share[m] + 1) * weight[i]
                    /\ share[i] * max_w + max_w >= (share[m] - 1) * weight[i]
    <3>1. /\ MaglevType /\ Slots /\ Credits /\ \A c \in 1 .. M : table[c] # 0
          /\ weight \in [Backends -> Nat]
      BY <2>2, Zenon DEF MaglevInv
    <3>2. \A c \in 1 .. M : table[c] \in Backends /\ weight[table[c]] > 0
      BY <3>1, NIsNat DEF Slots, Backends
    <3>3. ASSUME NEW i \in Backends, NEW m \in Backends, weight[m] = max_w
          PROVE  /\ share[i] * max_w <= (share[m] + 1) * weight[i]
                 /\ share[i] * max_w + max_w >= (share[m] - 1) * weight[i]
      <4> DEFINE x == max_w
                 y == weight[i]
                 g == Gone(i) - Gone(m)
                 a == share[i] * x
                 b == share[m] * y
      <4>1. x \in Nat /\ y \in Nat /\ share[i] \in Nat /\ share[m] \in Nat
        BY <3>1, MaxWeight DEF MaglevType
      <4>2. a \in Nat /\ b \in Nat
        BY <4>1, MulNext, Zenon
      <4>3. g \in {-1, 0, 1}
        BY DEF Gone
      <4>4. credit[i] \in Int /\ credit[i] >= 0 /\ credit[i] <= x
        BY <3>1, Zenon DEF MaglevType, Credits
      <4>5. credit[i] + a = (share[m] + g) * y
        BY <3>1, <3>3, Zenon DEF Credits
      <4>6. (share[m] + g) * y = b + g * y
        <5> HIDE DEF g, y
        <5>1. g \in Int
          BY <4>3
        <5>. QED BY <4>1, <5>1 DEF b
      <4>7. g * y <= y /\ g * y >= -y /\ g * y \in Int
        <5> HIDE DEF g, y
        <5>. QED BY <4>1, <4>3
      <4>8. (share[m] + 1) * y = b + y /\ (share[m] - 1) * y = b - y
        <5> HIDE DEF y
        <5>. QED BY <4>1 DEF b
      <4>9. a <= b + y /\ a + x >= b - y
        <5> DEFINE z == g * y
        <5>1. credit[i] + a = b + z /\ z <= y /\ z >= -y /\ z \in Int
          BY <4>5, <4>6, <4>7, Zenon
        <5> HIDE DEF z, a, b, x, y
        <5>. QED BY <4>1, <4>2, <4>4, <5>1, SMTT(20)
      <4>. QED BY <4>8, <4>9, Zenon
    <3>. QED BY <3>2, <3>3, Zenon
  <2>. QED BY <2>1, <2>2, Zenon DEF MaglevFair
<1>. QED BY <1>1, MaglevInit, MaglevStep, PTL DEF Spec

=============================================================================
