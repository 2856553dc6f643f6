------------------------------ MODULE FoldLemmas ------------------------------
(* Facts about numbers and about folds over sequences that the proofs of the  *)
(* components share.                                                          *)
EXTENDS Integers, Sequences, SequencesExt, Arrangement, FiniteSetTheorems, SequenceTheorems, WellFoundedInduction, TLAPS

\* A set of numbers that is not empty has its least number.
LEMMA LeastOf ==
  ASSUME NEW S \in SUBSET Nat, S # {}
  PROVE  Min(S) \in S /\ \A n \in S : Min(S) <= n
<1>1. IsWellFoundedOn(OpToRel(<,Nat), Nat)
  BY NatLessThanWellFounded
<1>2. \E x \in S : \A y \in S : ~ (<<y, x>> \in OpToRel(<, Nat))
  BY <1>1, WFMin
<1>3. \E x \in S : \A y \in S : ~ (y < x)
  BY <1>2 DEF OpToRel
<1>4. \E x \in S : \A y \in S : x <= y
  BY <1>3
<1> QED
  BY <1>4 DEF Min

\* What holds of 0 and passes from each number to the next holds of every number: the
\* induction of NaturalsInduction, for a set instead of an operator.
LEMMA SetInduction ==
  ASSUME NEW S, 0 \in S, \A n \in Nat : n \in S => n + 1 \in S
  PROVE  Nat \subseteq S
<1> DEFINE T == Nat \ S
<1> SUFFICES ASSUME T # {} PROVE FALSE
  OBVIOUS
<1>1. T \subseteq Nat
  OBVIOUS
<1>2. IsWellFoundedOn(OpToRel(<,Nat), Nat)
  BY NatLessThanWellFounded
<1> HIDE DEF T
<1>3. \E x \in T : \A y \in T : ~ (<<y, x>> \in OpToRel(<, Nat))
  BY <1>1, <1>2, WFMin
<1>4. \E x \in T : \A y \in T : ~ (y < x)
  BY <1>1, <1>3 DEF OpToRel
<1> USE DEF T
<1> QED
  BY <1>4

\* How FoldLeft takes a sequence apart: by its last element.
LEMMA UpTo ==
  ASSUME NEW n \in Nat, NEW k \in 1..n
  PROVE  /\ 1..k \in SUBSET (1..n) /\ 1..k # {} /\ Max(1..k) = k
         /\ (1..k) \ {k} = 1..k - 1 /\ k - 1 \in 0..n
<1>1. \E x \in 1..k : \A y \in 1..k : x >= y
  OBVIOUS
<1>2. Max(1..k) = k
  BY <1>1 DEF Max
<1>3. (1..k) \ {k} = 1..k - 1
  OBVIOUS
<1> QED
  BY <1>2, <1>3

\* A finite set of numbers has its maximum among them.
LEMMA MaxOf ==
  ASSUME NEW n \in Nat, NEW t \in SUBSET (1..n), t # {}
  PROVE  Max(t) \in t /\ \A x \in t : x <= Max(t)
<1> DEFINE P(m) == \A u \in SUBSET (1..m) : u # {} => \E x \in u : \A y \in u : x >= y
<1>1. P(0)
  <2>1. 1..0 = {}
    OBVIOUS
  <2> QED
    BY <2>1
<1>2. ASSUME NEW m \in Nat, P(m) PROVE P(m + 1)
  <2> SUFFICES ASSUME NEW u \in SUBSET (1..m + 1), u # {}
               PROVE  \E x \in u : \A y \in u : x >= y
    OBVIOUS
  <2>1. CASE m + 1 \in u
    BY <2>1
  <2>2. CASE m + 1 \notin u
    <3>1. u \in SUBSET (1..m)
      BY <2>2
    <3> QED
      BY <1>2, <3>1
  <2> QED
    BY <2>1, <2>2
<1>3. P(n)
  <2> DEFINE T == {m \in Nat : P(m)}
  <2> HIDE DEF P
  <2>1. 0 \in T /\ \A m \in Nat : m \in T => m + 1 \in T
    BY <1>1, <1>2
  <2>2. Nat \subseteq T
    <3> HIDE DEF T
    <3> QED
      BY <2>1, SetInduction
  <2> QED
    BY <2>2
<1>4. \E x \in t : \A y \in t : x >= y
  BY <1>3
<1>5. Max(t) \in t /\ \A x \in t : Max(t) >= x
  BY <1>4 DEF Max
<1> QED
  BY <1>5

\* A fold over a sequence of length n exists, for steps that stay in a set.
IsFold(f, n, S, base, step) ==
  /\ f \in [SUBSET (1..n) -> S]
  /\ \A t \in SUBSET (1..n) : f[t] = IF t = {} THEN base ELSE step[<<Max(t), f[t \ {Max(t)}]>>]
\* What MapThenFoldSet computes over 1..n exists as a function of the subsets.
LEMMA FoldExists ==
  ASSUME NEW n \in Nat, NEW S, NEW base \in S, NEW step \in [(1..n) \X S -> S]
  PROVE  \E f : IsFold(f, n, S, base, step)
<1> DEFINE Folds(m, f) ==
      \A t \in SUBSET (1..m) : f[t] = IF t = {} THEN base ELSE step[<<Max(t), f[t \ {Max(t)}]>>]
<1> DEFINE P(m) == m <= n => \E f \in [SUBSET (1..m) -> S] : Folds(m, f)
<1>1. P(0)
  <2> DEFINE f == [t \in SUBSET (1..0) |-> base]
  <2>1. f \in [SUBSET (1..0) -> S]
    OBVIOUS
  <2>2. Folds(0, f)
    OBVIOUS
  <2> HIDE DEF Folds, f
  <2> QED
    BY <2>1, <2>2
<1>2. ASSUME NEW m \in Nat, P(m) PROVE P(m + 1)
  <2> HIDE DEF Folds
  <2> SUFFICES ASSUME m + 1 <= n PROVE \E f \in [SUBSET (1..m + 1) -> S] : Folds(m + 1, f)
    OBVIOUS
  <2>0. m <= n
    OBVIOUS
  <2>1. PICK f \in [SUBSET (1..m) -> S] : Folds(m, f)
    BY <1>2, <2>0, Zenon
  <2> USE DEF Folds
  <2> DEFINE g == [t \in SUBSET (1..m + 1) |-> IF m + 1 \in t THEN step[<<m + 1, f[t \ {m + 1}]>>] ELSE f[t]]
  <2>2. ASSUME NEW t \in SUBSET (1..m + 1), m + 1 \in t
        PROVE  Max(t) = m + 1 /\ t \ {m + 1} \in SUBSET (1..m)
    <3>1. Max(t) \in t /\ \A x \in t : x <= Max(t)
      BY <2>2, MaxOf, SMTT(30)
    <3>2. Max(t) \in 1..m + 1 /\ m + 1 <= Max(t)
      BY <2>2, <3>1
    <3>3. ASSUME NEW x \in t \ {m + 1} PROVE x \in 1..m
      BY <3>3
    <3> QED
      BY <3>2, <3>3
  <2>3. g \in [SUBSET (1..m + 1) -> S]
    <3>1. ASSUME NEW t \in SUBSET (1..m + 1) PROVE g[t] \in S
      <4>1. CASE m + 1 \in t
        <5>1. f[t \ {m + 1}] \in S
          BY <2>2, <4>1
        <5> QED
          BY <4>1, <5>1
      <4>2. CASE m + 1 \notin t
        BY <4>2
      <4> QED
        BY <4>1, <4>2
    <3> QED
      BY <3>1
  <2>4. ASSUME NEW t \in SUBSET (1..m + 1)
        PROVE  g[t] = IF t = {} THEN base ELSE step[<<Max(t), g[t \ {Max(t)}]>>]
    <3>1. CASE m + 1 \in t
      <4>1. g[t \ {m + 1}] = f[t \ {m + 1}]
        BY <2>2, <3>1
      <4> QED
        BY <2>2, <3>1, <4>1
    <3>2. CASE m + 1 \notin t
      <4>1. t \in SUBSET (1..m)
        BY <3>2
      <4>2. t # {} => t \ {Max(t)} \in SUBSET (1..m)
        BY <4>1
      <4>3. g[t] = f[t] /\ (t # {} => g[t \ {Max(t)}] = f[t \ {Max(t)}])
        BY <3>2, <4>1, <4>2
      <4> QED
        BY <2>1, <4>1, <4>3
    <3> QED
      BY <3>1, <3>2
  <2>5. Folds(m + 1, g)
    <3> HIDE DEF g
    <3> QED
      BY <2>4
  <2> HIDE DEF g, Folds
  <2> QED
    BY <2>3, <2>5
<1>3. P(n)
  <2> DEFINE T == {m \in Nat : P(m)}
  <2> HIDE DEF P
  <2>1. 0 \in T /\ \A m \in Nat : m \in T => m + 1 \in T
    BY <1>1, <1>2
  <2>2. Nat \subseteq T
    <3> HIDE DEF T
    <3> QED
      BY <2>1, SetInduction
  <2> QED
    BY <2>2
<1> HIDE DEF Folds
<1>4. n <= n
  OBVIOUS
<1>5. \E f \in [SUBSET (1..n) -> S] : Folds(n, f)
  BY <1>3, <1>4, Zenon
<1>6. PICK f \in [SUBSET (1..n) -> S] : Folds(n, f)
  BY <1>5
<1>7. IsFold(f, n, S, base, step)
  BY <1>6 DEF Folds, IsFold
<1> QED
  BY <1>7

\* A function that takes the subsets of 1..n apart by their greatest members, as long
\* as it stays in S, takes 1..n apart member by member.
TakesApart(iter, n, S, base, step) ==
  /\ iter[{}] = base
  /\ \A t \in SUBSET (1..n) : t # {} /\ iter[t \ {Max(t)}] \in S =>
       iter[t] = step[<<Max(t), iter[t \ {Max(t)}]>>]
Accumulates(a, n, S, base, step, result) ==
  /\ a \in [0..n -> S] /\ a[0] = base /\ a[n] = result
  /\ \A k \in 1..n : a[k] = step[<<k, a[k - 1]>>]
LEMMA FoldSteps ==
  ASSUME NEW n \in Nat, NEW S, NEW base \in S, NEW step \in [(1..n) \X S -> S],
         NEW iter, TakesApart(iter, n, S, base, step)
  PROVE  \E a : Accumulates(a, n, S, base, step, iter[1..n])
<1> iter[{}] = base
  BY DEF TakesApart
<1> \A t \in SUBSET (1..n) : t # {} /\ iter[t \ {Max(t)}] \in S =>
      iter[t] = step[<<Max(t), iter[t \ {Max(t)}]>>]
  BY DEF TakesApart
<1> DEFINE a == [k \in 0..n |-> iter[1..k]]
           P(k) == k <= n => iter[1..k] \in S
           T == {k \in Nat : P(k)}
<1>1. ASSUME NEW k \in 1..n, iter[1..k - 1] \in S PROVE iter[1..k] = step[<<k, iter[1..k - 1]>>]
  <2>1. /\ 1..k \in SUBSET (1..n) /\ 1..k # {} /\ Max(1..k) = k
        /\ (1..k) \ {k} = 1..k - 1
    BY UpTo
  <2> QED
    BY <1>1, <2>1
<1>2. P(0)
  <2>1. 1..0 = {}
    OBVIOUS
  <2> QED
    BY <2>1
<1>3. ASSUME NEW k \in Nat, P(k) PROVE P(k + 1)
  <2> SUFFICES ASSUME k + 1 <= n PROVE iter[1..k + 1] \in S
    OBVIOUS
  <2>1. k + 1 \in 1..n /\ (k + 1) - 1 = k /\ k <= n
    OBVIOUS
  <2>2. iter[1..k] \in S
    BY <1>3, <2>1
  <2>3. iter[1..k + 1] = step[<<k + 1, iter[1..k]>>]
    BY <1>1, <2>1, <2>2
  <2> QED
    BY <2>1, <2>2, <2>3
<1>4. Nat \subseteq T
  <2> HIDE DEF P
  <2>1. 0 \in T /\ \A k \in Nat : k \in T => k + 1 \in T
    BY <1>2, <1>3
  <2> HIDE DEF T
  <2> QED
    BY <2>1, SetInduction
<1>5. \A k \in 0..n : iter[1..k] \in S
  BY <1>4
<1>6. a \in [0..n -> S] /\ a[n] = iter[1..n]
  BY <1>5
<1>7. a[0] = base
  <2>1. 1..0 = {} /\ 0 \in 0..n
    OBVIOUS
  <2> QED
    BY <2>1
<1>8. \A k \in 1..n : a[k] = step[<<k, a[k - 1]>>]
  <2> SUFFICES ASSUME NEW k \in 1..n PROVE a[k] = step[<<k, a[k - 1]>>]
    OBVIOUS
  <2>1. k - 1 \in 0..n /\ k \in 0..n
    OBVIOUS
  <2> QED
    BY <1>1, <1>5, <2>1
<1> HIDE DEF a
<1>9. Accumulates(a, n, S, base, step, iter[1..n])
  BY <1>6, <1>7, <1>8 DEF Accumulates
<1> QED
  BY <1>9
-----------------------------------------------------------------------------
(* Sums of sequences of numbers.                                             *)
TotalOf(s) == FoldLeft(+, 0, s)
\* The sums of the prefixes.
Sums(b, s) ==
  /\ b \in [0..Len(s) -> Nat]
  /\ b[0] = 0 /\ \A k \in 1..Len(s) : b[k] = b[k - 1] + s[k]
LEMMA SumFold ==
  ASSUME NEW s \in Seq(Nat)
  PROVE  \E b : Sums(b, s) /\ TotalOf(s) = b[Len(s)]
<1> DEFINE n == Len(s)
           step == [p \in (1..n) \X Nat |-> p[2] + s[p[1]]]
           Iter(f) == f = [t \in SUBSET (1..n) |-> IF t = {} THEN 0 ELSE f[t \ {Max(t)}] + s[Max(t)]]
           iter == CHOOSE f : Iter(f)
<1>1. n \in Nat /\ DOMAIN s = 1..n /\ \A k \in 1..n : s[k] \in Nat
  OBVIOUS
<1> HIDE DEF n
<1>2. step \in [(1..n) \X Nat -> Nat]
  BY <1>1
<1>3. \A t \in SUBSET (1..n), x \in Nat : t # {} => step[<<Max(t), x>>] = x + s[Max(t)]
  <2> SUFFICES ASSUME NEW t \in SUBSET (1..n), NEW x \in Nat, t # {} PROVE step[<<Max(t), x>>] = x + s[Max(t)]
    OBVIOUS
  <2>1. Max(t) \in 1..n
    BY <1>1, MaxOf
  <2> HIDE DEF Max
  <2> QED
    BY <2>1
<1>4. Iter(iter)
  <2>1. PICK f : IsFold(f, n, Nat, 0, step)
    <3> HIDE DEF step
    <3> QED
      BY <1>1, <1>2, FoldExists
  <2>2. f \in [SUBSET (1..n) -> Nat]
    BY <2>1 DEF IsFold
  <2>3. \A t \in SUBSET (1..n) : f[t] = IF t = {} THEN 0 ELSE f[t \ {Max(t)}] + s[Max(t)]
    <3> SUFFICES ASSUME NEW t \in SUBSET (1..n) PROVE f[t] = IF t = {} THEN 0 ELSE f[t \ {Max(t)}] + s[Max(t)]
      OBVIOUS
    <3>1. f[t \ {Max(t)}] \in Nat
      BY <2>2
    <3>2. f[t] = IF t = {} THEN 0 ELSE step[<<Max(t), f[t \ {Max(t)}]>>]
      BY <2>1 DEF IsFold
    <3> HIDE DEF step
    <3> QED
      BY <1>3, <3>1, <3>2
  <2>4. Iter(f)
    BY <2>2, <2>3
  <2> HIDE DEF Iter
  <2> QED
    BY <2>4
<1>5. TotalOf(s) = iter[1..n]
  BY <1>1 DEF TotalOf, FoldLeft, MapThenFoldSet
<1>6. TakesApart(iter, n, Nat, 0, step)
  <2> HIDE DEF iter, step
  <2>1. \A t \in SUBSET (1..n) : iter[t] = IF t = {} THEN 0 ELSE iter[t \ {Max(t)}] + s[Max(t)]
    BY <1>4
  <2> QED
    BY <1>3, <2>1 DEF TakesApart
<1>7. PICK a : Accumulates(a, n, Nat, 0, step, iter[1..n])
  <2> HIDE DEF iter, step
  <2> QED
    BY <1>1, <1>2, <1>6, FoldSteps
<1>8. Sums(a, s)
  <2>1. a \in [0..n -> Nat] /\ a[0] = 0 /\ \A k \in 1..n : a[k] = step[<<k, a[k - 1]>>]
    <3> HIDE DEF step
    <3> QED
      BY <1>7 DEF Accumulates
  <2>2. ASSUME NEW k \in 1..n PROVE a[k] = a[k - 1] + s[k]
    <3>1. k - 1 \in 0..n /\ a[k - 1] \in Nat
      BY <1>1, <2>1
    <3> QED
      BY <2>1, <3>1
  <2> QED
    BY <2>1, <2>2 DEF Sums, n
<1>9. TotalOf(s) = a[Len(s)]
  <2> HIDE DEF iter, step
  <2> QED
    BY <1>5, <1>7 DEF Accumulates, n
<1> QED
  BY <1>8, <1>9

\* A sum is a number that no member exceeds.
LEMMA SumBounds ==
  ASSUME NEW s \in Seq(Nat)
  PROVE  TotalOf(s) \in Nat /\ \A k \in 1..Len(s) : s[k] <= TotalOf(s)
<1>1. PICK b : Sums(b, s) /\ TotalOf(s) = b[Len(s)]
  BY SumFold
<1> DEFINE n == Len(s)
<1>2. n \in Nat /\ \A k \in 1..n : s[k] \in Nat
  OBVIOUS
<1>3. b \in [0..n -> Nat] /\ \A k \in 1..n : b[k] = b[k - 1] + s[k]
  BY <1>1 DEF Sums
<1>4. TotalOf(s) = b[n] /\ b[n] \in Nat
  BY <1>1, <1>2, <1>3
<1> HIDE DEF n
<1> DEFINE P(m) == \A k \in 1..n : k + m <= n => s[k] <= b[k + m]
           T == {m \in Nat : P(m)}
<1>5. P(0)
  <2> SUFFICES ASSUME NEW k \in 1..n PROVE s[k] <= b[k + 0]
    OBVIOUS
  <2>1. k - 1 \in 0..n /\ k \in 0..n /\ k + 0 = k
    BY <1>2
  <2>2. b[k - 1] \in Nat /\ s[k] \in Nat /\ b[k] = b[k - 1] + s[k]
    BY <1>2, <1>3, <2>1
  <2> QED
    BY <2>1, <2>2
<1>6. ASSUME NEW m \in Nat, P(m) PROVE P(m + 1)
  <2> SUFFICES ASSUME NEW k \in 1..n, k + (m + 1) <= n PROVE s[k] <= b[k + (m + 1)]
    OBVIOUS
  <2>1. k + m \in 0..n /\ k + (m + 1) \in 1..n /\ (k + (m + 1)) - 1 = k + m
    BY <1>2
  <2>2. s[k] <= b[k + m]
    BY <1>2, <1>6, <2>1
  <2>3. b[k + (m + 1)] = b[k + m] + s[k + (m + 1)] /\ b[k + m] \in Nat /\ s[k + (m + 1)] \in Nat /\ s[k] \in Nat
    BY <1>2, <1>3, <2>1
  <2> QED
    BY <2>2, <2>3
<1>7. Nat \subseteq T
  <2> HIDE DEF P
  <2>1. 0 \in T /\ \A m \in Nat : m \in T => m + 1 \in T
    BY <1>5, <1>6
  <2> HIDE DEF T
  <2> QED
    BY <2>1, SetInduction
<1>8. ASSUME NEW k \in 1..n PROVE s[k] <= b[n]
  <2>1. n - k \in Nat /\ k + (n - k) = n /\ n <= n
    BY <1>2
  <2>2. P(n - k)
    BY <1>7, <2>1
  <2>3. k + (n - k) <= n
    BY <2>1
  <2>4. s[k] <= b[k + (n - k)]
    BY <2>2, <2>3
  <2> QED
    BY <2>1, <2>4
<1> QED
  BY <1>4, <1>8 DEF n

\* Two sequences of prefix sums over the same numbers are the same.
LEMMA SumsAgree ==
  ASSUME NEW n \in Nat, NEW a \in [0..n -> Nat], NEW b \in [0..n -> Nat], NEW x \in [1..n -> Nat],
         \A k \in 1..n : a[k] = a[k - 1] + x[k], \A k \in 1..n : b[k] = b[k - 1] + x[k]
  PROVE  b[n] + a[0] = b[0] + a[n]
<1> DEFINE P(k) == k <= n => b[k] + a[0] = b[0] + a[k]
           T == {k \in Nat : P(k)}
<1>1. P(0)
  <2>1. 0 \in 0..n
    OBVIOUS
  <2>2. a[0] \in Nat /\ b[0] \in Nat
    BY <2>1
  <2> QED
    BY <2>2
<1>2. ASSUME NEW k \in Nat, P(k) PROVE P(k + 1)
  <2> SUFFICES ASSUME k + 1 <= n PROVE b[k + 1] + a[0] = b[0] + a[k + 1]
    OBVIOUS
  <2>1. k + 1 \in 1..n /\ (k + 1) - 1 = k /\ k <= n /\ k \in 0..n /\ 0 \in 0..n /\ k + 1 \in 0..n
    OBVIOUS
  <2> DEFINE y == x[k + 1]
             a0 == a[0]
             b0 == b[0]
             ak == a[k]
             bk == b[k]
  <2>2. a[k + 1] = ak + y /\ b[k + 1] = bk + y /\ y \in Nat
    BY <2>1
  <2>3. bk + a0 = b0 + ak
    BY <1>2, <2>1
  <2>4. bk \in Nat /\ ak \in Nat /\ a0 \in Nat /\ b0 \in Nat
    BY <2>1
  <2> HIDE DEF y, a0, b0, ak, bk
  <2>5. (bk + y) + a0 = b0 + (ak + y)
    BY <2>2, <2>3, <2>4
  <2> QED
    BY <2>2, <2>5 DEF a0, b0
<1>3. Nat \subseteq T
  <2> HIDE DEF P
  <2>1. 0 \in T /\ \A k \in Nat : k \in T => k + 1 \in T
    BY <1>1, <1>2
  <2> HIDE DEF T
  <2> QED
    BY <2>1, SetInduction
<1> QED
  BY <1>3

\* A number in front adds to the sum.
LEMMA SumInFront ==
  ASSUME NEW s \in Seq(Nat), NEW m \in Nat
  PROVE  <<m>> \o s \in Seq(Nat) /\ TotalOf(<<m>> \o s) = m + TotalOf(s)
<1> DEFINE t == <<m>> \o s
           n == Len(s)
<1>1. /\ t \in Seq(Nat) /\ n \in Nat /\ Len(t) = n + 1 /\ t[1] = m
      /\ \A k \in 1..n : t[k + 1] = s[k] /\ s[k] \in Nat
  OBVIOUS
<1> HIDE DEF t
<1>2. PICK a : Sums(a, s) /\ TotalOf(s) = a[Len(s)]
  BY SumFold
<1>3. PICK b : Sums(b, t) /\ TotalOf(t) = b[Len(t)]
  BY <1>1, SumFold
<1>4. a \in [0..n -> Nat] /\ a[0] = 0 /\ \A k \in 1..n : a[k] = a[k - 1] + s[k]
  BY <1>2 DEF Sums
<1>5. b \in [0..n + 1 -> Nat] /\ b[0] = 0 /\ \A k \in 1..n + 1 : b[k] = b[k - 1] + t[k]
  BY <1>1, <1>3 DEF Sums
<1>6. TotalOf(s) = a[n] /\ TotalOf(t) = b[n + 1]
  BY <1>1, <1>2, <1>3
<1> HIDE DEF n
<1> DEFINE c == [k \in 0..n |-> b[k + 1]]
<1>7. \A k \in 0..n : a[k] \in Nat /\ c[k] \in Nat /\ c[k] = b[k + 1]
  <2> SUFFICES ASSUME NEW k \in 0..n PROVE a[k] \in Nat /\ c[k] \in Nat /\ c[k] = b[k + 1]
    OBVIOUS
  <2>1. k + 1 \in 0..n + 1
    BY <1>1
  <2> QED
    BY <1>4, <1>5, <2>1
<1>8. \A k \in 1..n : s[k] \in Nat /\ a[k] = a[k - 1] + s[k] /\ c[k] = c[k - 1] + s[k]
  <2> SUFFICES ASSUME NEW k \in 1..n PROVE s[k] \in Nat /\ a[k] = a[k - 1] + s[k] /\ c[k] = c[k - 1] + s[k]
    OBVIOUS
  <2>1. /\ k + 1 \in 1..n + 1 /\ (k + 1) - 1 = k /\ (k - 1) + 1 = k
        /\ k \in 0..n /\ k - 1 \in 0..n
    BY <1>1
  <2>2. b[k + 1] = b[(k + 1) - 1] + t[k + 1] /\ t[k + 1] = s[k]
    BY <1>1, <1>5, <2>1
  <2>3. c[k] = b[k + 1] /\ c[k - 1] = b[k]
    BY <1>7, <2>1
  <2> QED
    BY <1>1, <1>4, <2>1, <2>2, <2>3
<1> HIDE DEF c
<1>9. c[n] + a[0] = c[0] + a[n]
  <2>1. c \in [0..n -> Nat] /\ s \in [1..n -> Nat]
    BY <1>1, <1>7 DEF c, n
  <2>2. (\A k \in 1..n : a[k] = a[k - 1] + s[k]) /\ \A k \in 1..n : c[k] = c[k - 1] + s[k]
    BY <1>8
  <2> QED
    BY <1>1, <1>4, <2>1, <2>2, SumsAgree
<1>10. b[1] = m
  <2>1. 1 \in 1..n + 1 /\ 1 - 1 = 0
    BY <1>1
  <2> QED
    BY <1>1, <1>5, <2>1
<1>11. a[n] \in Nat /\ b[n + 1] \in Nat /\ c[n] = b[n + 1] /\ c[0] = b[1]
  <2>1. n \in 0..n /\ 0 \in 0..n /\ 0 + 1 = 1
    BY <1>1
  <2>2. c[0] = b[0 + 1] /\ c[n] = b[n + 1] /\ a[n] \in Nat /\ c[n] \in Nat
    BY <1>7, <2>1
  <2> QED
    BY <2>1, <2>2
<1>12. TotalOf(t) = m + TotalOf(s)
  BY <1>4, <1>6, <1>9, <1>10, <1>11
<1> QED
  BY <1>1, <1>12 DEF t
-----------------------------------------------------------------------------
(* What is arranged.                                                         *)

\* A set of pairs that tells any two members of S apart, and is transitive.
Tells(before, S) ==
  /\ \A x, y \in S : <<x, y>> \in before => <<y, x>> \notin before
  /\ \A x, y \in S : x # y => <<x, y>> \in before \/ <<y, x>> \in before
  /\ \A x, y, z \in S : <<x, y>> \in before /\ <<y, z>> \in before => <<x, z>> \in before

\* How many members come before one.
CountBefore(S, before, x) == Cardinality({y \in S : <<y, x>> \in before})

\* A sequence listed is the sequence.
LEMMA TupleIs ==
  ASSUME NEW T, NEW n \in Nat, NEW f \in [1..n -> T]
  PROVE  AsTuple(f) = f /\ f \in Seq(T) /\ Len(f) = n
<1>1. f \in Seq(T) /\ Len(f) = n
  OBVIOUS
<1>2. AsTuple(f) \in Seq(T) /\ Len(AsTuple(f)) = n /\ \A i \in 1..n : AsTuple(f)[i] = f[i]
  BY <1>1 DEF AsTuple
<1> QED
  BY <1>1, <1>2

\* The place of each member is its own, and every place is taken: one more than the
\* number before it is a bijection.
LEMMA PlacesFill ==
  ASSUME NEW S, IsFiniteSet(S), NEW before, Tells(before, S)
  PROVE  /\ Cardinality(S) \in Nat
         /\ \A x \in S : CountBefore(S, before, x) \in 0..Cardinality(S) - 1
         /\ \A x, y \in S : <<x, y>> \in before => CountBefore(S, before, x) < CountBefore(S, before, y)
         /\ \A k \in 1..Cardinality(S) : \E x \in S : CountBefore(S, before, x) = k - 1
<1> DEFINE c(x) == CountBefore(S, before, x)
           B(x) == {y \in S : <<y, x>> \in before}
           n == Cardinality(S)
           place == [x \in S |-> c(x) + 1]
<1>1. n \in Nat
  BY FS_CardinalityType
<1>2. ASSUME NEW x \in S
      PROVE  IsFiniteSet(B(x)) /\ c(x) = Cardinality(B(x)) /\ c(x) \in Nat /\ c(x) <= n - 1
  <2>1. B(x) \subseteq S \ {x}
    BY DEF Tells
  <2>2. IsFiniteSet(S \ {x}) /\ Cardinality(S \ {x}) = n - 1
    BY FS_RemoveElement
  <2>3. IsFiniteSet(B(x)) /\ Cardinality(B(x)) <= Cardinality(S \ {x})
    BY <2>1, <2>2, FS_Subset
  <2> QED
    BY <2>2, <2>3, FS_CardinalityType DEF CountBefore
<1>3. ASSUME NEW x \in S, NEW y \in S, <<x, y>> \in before
      PROVE  c(x) < c(y)
  <2>1. B(x) \subseteq B(y) /\ x \in B(y) /\ x \notin B(x)
    BY <1>3 DEF Tells
  <2>2. B(x) # B(y)
    BY <2>1
  <2>3. IsFiniteSet(B(y)) /\ c(x) \in Nat /\ c(y) \in Nat /\ c(x) = Cardinality(B(x)) /\ c(y) = Cardinality(B(y))
    BY <1>2
  <2>4. Cardinality(B(x)) <= Cardinality(B(y)) /\ (Cardinality(B(y)) = Cardinality(B(x)) => B(x) = B(y))
    BY <2>1, <2>3, FS_Subset
  <2> HIDE DEF B, c
  <2> QED
    BY <2>2, <2>3, <2>4
<1> HIDE DEF c, n
<1>4. place \in Injection(S, 1..n)
  <2>1. ASSUME NEW x \in S PROVE place[x] \in 1..n
    <3>1. c(x) \in Nat /\ c(x) <= n - 1
      BY <1>2
    <3> QED
      BY <1>1, <3>1
  <2>2. ASSUME NEW x \in S, NEW y \in S, place[x] = place[y] PROVE x = y
    <3>1. c(x) \in Nat /\ c(y) \in Nat
      BY <1>2
    <3>2. place[x] = c(x) + 1 /\ place[y] = c(y) + 1
      OBVIOUS
    <3>3. c(x) = c(y)
      BY <2>2, <3>1, <3>2
    <3>4. ~(c(x) < c(y)) /\ ~(c(y) < c(x))
      BY <3>1, <3>3
    <3>5. <<x, y>> \notin before /\ <<y, x>> \notin before
      BY <1>3, <3>4
    <3> QED
      BY <3>5 DEF Tells
  <2>3. place \in [S -> 1..n]
    BY <2>1
  <2> QED
    BY <2>2, <2>3 DEF Injection, IsInjective
<1>5. IsFiniteSet(1..n) /\ Cardinality(1..n) = n
  BY <1>1, FS_Interval
<1>6. place \in Surjection(S, 1..n)
  BY <1>4, <1>5, FS_Injection DEF n
<1>7. ASSUME NEW k \in 1..n PROVE \E x \in S : c(x) = k - 1
  <2>1. PICK x \in S : place[x] = k
    BY <1>6 DEF Surjection
  <2>2. c(x) \in Nat /\ k = c(x) + 1
    BY <1>2, <2>1
  <2> QED
    BY <1>1, <2>2
<1>8. \A x \in S : c(x) \in 0..n - 1
  <2> SUFFICES ASSUME NEW x \in S PROVE c(x) \in 0..n - 1
    OBVIOUS
  <2>1. c(x) \in Nat /\ c(x) <= n - 1
    BY <1>2
  <2> QED
    BY <1>1, <2>1
<1> QED
  BY <1>1, <1>3, <1>7, <1>8 DEF c, n

\* What is arranged are the members of S, each once, in the order.
LEMMA ArrangedIs ==
  ASSUME NEW S, IsFiniteSet(S), NEW before, Tells(before, S)
  PROVE  /\ Arranged(S, before) \in [1..Cardinality(S) -> S] /\ Cardinality(S) \in Nat
         /\ \A j, k \in 1..Cardinality(S) : j < k => <<Arranged(S, before)[j], Arranged(S, before)[k]>> \in before
         /\ \A k \in 1..Cardinality(S) : CountBefore(S, before, Arranged(S, before)[k]) = k - 1
         /\ \A j, k \in 1..Cardinality(S) : Arranged(S, before)[j] = Arranged(S, before)[k] => j = k
         /\ \A x \in S : \E k \in 1..Cardinality(S) : Arranged(S, before)[k] = x
<1> DEFINE n == Cardinality(S)
           c(x) == CountBefore(S, before, x)
           f == [k \in 1..n |-> CHOOSE x \in S : c(x) = k - 1]
<1>1. /\ n \in Nat /\ \A x \in S : c(x) \in 0..n - 1
      /\ \A x, y \in S : <<x, y>> \in before => c(x) < c(y)
      /\ \A k \in 1..n : \E x \in S : c(x) = k - 1
  BY PlacesFill
<1>2. Arranged(S, before) = AsTuple(f)
  BY DEF Arranged, CountBefore
<1>3. \A k \in 1..n : f[k] \in S /\ c(f[k]) = k - 1
  <2> SUFFICES ASSUME NEW k \in 1..n PROVE f[k] \in S /\ c(f[k]) = k - 1
    OBVIOUS
  <2>1. \E x \in S : c(x) = k - 1
    BY <1>1
  <2>2. f[k] = CHOOSE x \in S : c(x) = k - 1
    OBVIOUS
  <2> HIDE DEF f, c, n
  <2> QED
    BY <2>1, <2>2
<1>4. f \in [1..n -> S] /\ f = [k \in 1..n |-> f[k]]
  BY <1>3
<1>5. Arranged(S, before) = f
  <2>1. n \in Nat /\ f \in [1..n -> S]
    BY <1>1, <1>4
  <2> HIDE DEF f, n, c
  <2>2. AsTuple(f) = f
    BY <2>1, TupleIs
  <2> QED
    BY <1>2, <2>2
<1>6. \A x, y \in S : c(x) = c(y) => x = y
  <2> SUFFICES ASSUME NEW x \in S, NEW y \in S, c(x) = c(y) PROVE x = y
    OBVIOUS
  <2>1. ~(c(x) < c(y)) /\ ~(c(y) < c(x))
    <3> HIDE DEF c, n
    <3> QED
      BY <1>1
  <2> QED
    BY <1>1, <2>1 DEF Tells
<1> HIDE DEF f, c, n
<1>7. \A j, k \in 1..n : j < k => <<f[j], f[k]>> \in before
  <2> SUFFICES ASSUME NEW j \in 1..n, NEW k \in 1..n, j < k PROVE <<f[j], f[k]>> \in before
    OBVIOUS
  <2>1. f[j] \in S /\ f[k] \in S /\ c(f[j]) = j - 1 /\ c(f[k]) = k - 1
    BY <1>3
  <2>2. c(f[j]) < c(f[k]) /\ f[j] # f[k]
    BY <1>1, <2>1
  <2>3. ~(c(f[k]) < c(f[j]))
    BY <1>1, <2>1
  <2> QED
    BY <1>1, <2>1, <2>2, <2>3 DEF Tells
<1>8. \A j, k \in 1..n : f[j] = f[k] => j = k
  <2> SUFFICES ASSUME NEW j \in 1..n, NEW k \in 1..n, f[j] = f[k] PROVE j = k
    OBVIOUS
  <2>1. c(f[j]) = j - 1 /\ c(f[k]) = k - 1
    BY <1>3
  <2> QED
    BY <1>1, <2>1
<1>9. \A x \in S : \E k \in 1..n : f[k] = x
  <2> SUFFICES ASSUME NEW x \in S PROVE \E k \in 1..n : f[k] = x
    OBVIOUS
  <2>1. c(x) + 1 \in 1..n /\ c(x) \in Nat
    BY <1>1
  <2>2. f[c(x) + 1] \in S /\ c(f[c(x) + 1]) = c(x) + 1 - 1
    BY <1>3, <2>1
  <2>3. c(f[c(x) + 1]) = c(x)
    BY <2>1, <2>2
  <2> QED
    BY <1>6, <2>1, <2>2, <2>3
<1> QED
  BY <1>1, <1>3, <1>4, <1>5, <1>7, <1>8, <1>9 DEF n, c
\* The elements at some places of a sequence.
LEMMA AtIs ==
  ASSUME NEW T, NEW s \in Seq(T), NEW n \in Nat, NEW places \in [1..n -> DOMAIN s]
  PROVE  At(s, places) \in Seq(T) /\ Len(At(s, places)) = n /\ \A k \in 1..n : At(s, places)[k] = s[places[k]]
<1> DEFINE f == [k \in 1..n |-> s[places[k]]]
<1>1. f \in [1..n -> T] /\ At(s, places) = AsTuple(f)
  BY DEF At
<1>2. \A k \in 1..n : f[k] = s[places[k]]
  OBVIOUS
<1> HIDE DEF f
<1>3. AsTuple(f) = f /\ f \in Seq(T) /\ Len(f) = n
  BY <1>1, TupleIs
<1> QED
  BY <1>1, <1>2, <1>3

\* Numbers are told apart by which is less.
LEMMA UpwardIs ==
  ASSUME NEW n \in Nat, NEW S \in SUBSET (1..n)
  PROVE  /\ Cardinality(S) \in Nat /\ Upward(S) \in [1..Cardinality(S) -> S]
         /\ \A j, k \in 1..Cardinality(S) : Upward(S)[j] = Upward(S)[k] => j = k
<1> DEFINE less == {p \in S \X S : p[1] < p[2]}
<1>1. IsFiniteSet(S)
  <2>1. IsFiniteSet(1..n)
    BY FS_Interval
  <2> QED
    BY <2>1, FS_Subset
<1>2. Tells(less, S)
  BY DEF Tells
<1>3. Upward(S) = Arranged(S, less)
  BY DEF Upward
<1> HIDE DEF less
<1> QED
  BY <1>1, <1>2, <1>3, ArrangedIs

\* What is among a set are elements of the sequence and of the set, each once if the
\* sequence has it once.
LEMMA AmongIs ==
  ASSUME NEW T, NEW s \in Seq(T), NEW S
  PROVE  /\ Among(s, S) \in Seq(T) /\ \A k \in 1..Len(Among(s, S)) : Among(s, S)[k] \in S
         /\ \A k \in 1..Len(Among(s, S)) : \E i \in 1..Len(s) : Among(s, S)[k] = s[i]
         /\ (\A i, j \in 1..Len(s) : s[i] = s[j] => i = j) =>
              \A j, k \in 1..Len(Among(s, S)) : Among(s, S)[j] = Among(s, S)[k] => j = k
<1> DEFINE P == {n \in DOMAIN s : s[n] \in S}
           u == Upward(P)
           m == Cardinality(P)
<1>1. Len(s) \in Nat /\ P \in SUBSET (1..Len(s)) /\ DOMAIN s = 1..Len(s)
  OBVIOUS
<1>2. \A n \in P : s[n] \in S
  OBVIOUS
<1>3. Among(s, S) = At(s, u)
  BY DEF Among
<1> HIDE DEF P
<1>4. m \in Nat /\ u \in [1..m -> P] /\ \A j, k \in 1..m : u[j] = u[k] => j = k
  BY <1>1, UpwardIs
<1>5. u \in [1..m -> DOMAIN s]
  BY <1>1, <1>4
<1> HIDE DEF u, m
<1>6. At(s, u) \in Seq(T) /\ Len(At(s, u)) = m /\ \A k \in 1..m : At(s, u)[k] = s[u[k]]
  BY <1>4, <1>5, AtIs
<1>7. \A k \in 1..m : u[k] \in P /\ u[k] \in 1..Len(s)
  BY <1>1, <1>4
<1> DEFINE r == Among(s, S)
<1>8. Len(r) = m /\ DOMAIN r = 1..m /\ r \in Seq(T) /\ \A k \in 1..m : r[k] = s[u[k]]
  BY <1>3, <1>6
<1> HIDE DEF r
<1>9. \A k \in 1..m : r[k] \in S /\ \E i \in 1..Len(s) : r[k] = s[i]
  BY <1>2, <1>7, <1>8
<1>10. ASSUME \A i, j \in 1..Len(s) : s[i] = s[j] => i = j
       PROVE  \A j, k \in 1..m : r[j] = r[k] => j = k
  BY <1>4, <1>7, <1>8, <1>10
<1> QED
  BY <1>8, <1>9, <1>10 DEF r

\* The elements of a sequence in another order, each at the place p gives it.
Permutes(r, s, before) ==
  \E p \in [1..Len(s) -> 1..Len(s)] :
    /\ \A k \in 1..Len(s) : r[k] = s[p[k]]
    /\ \A j, k \in 1..Len(s) : p[j] = p[k] => j = k
    /\ \A j, k \in 1..Len(s) : j < k => <<p[j], p[k]>> \in before
    /\ \A i \in 1..Len(s) : \E k \in 1..Len(s) : p[k] = i

\* What is sorted by a set of pairs that tells its places apart is the sequence, moved.
LEMMA SortedIs ==
  ASSUME NEW T, NEW s \in Seq(T), NEW before, Tells(before, 1..Len(s))
  PROVE  /\ At(s, Arranged(DOMAIN s, before)) \in Seq(T)
         /\ Len(At(s, Arranged(DOMAIN s, before))) = Len(s)
         /\ Permutes(At(s, Arranged(DOMAIN s, before)), s, before)
<1> DEFINE n == Len(s)
           a == Arranged(DOMAIN s, before)
<1>1. n \in Nat /\ DOMAIN s = 1..n
  OBVIOUS
<1>2. IsFiniteSet(1..n) /\ Cardinality(1..n) = n
  BY <1>1, FS_Interval
<1>3. /\ a \in [1..n -> 1..n]
      /\ \A j, k \in 1..n : j < k => <<a[j], a[k]>> \in before
      /\ \A j, k \in 1..n : a[j] = a[k] => j = k
      /\ \A i \in 1..n : \E k \in 1..n : a[k] = i
  <2>1. a = Arranged(1..n, before) /\ Tells(before, 1..n)
    BY <1>1
  <2> HIDE DEF a, n
  <2> QED
    <3> DEFINE S == 1..n
               m == Cardinality(S)
    <3>1. IsFiniteSet(S) /\ Tells(before, S) /\ m = n
      BY <1>2, <2>1
    <3> HIDE DEF S
    <3>2. /\ Arranged(S, before) \in [1..m -> S]
          /\ \A j, k \in 1..m : j < k => <<Arranged(S, before)[j], Arranged(S, before)[k]>> \in before
          /\ \A j, k \in 1..m : Arranged(S, before)[j] = Arranged(S, before)[k] => j = k
          /\ \A x \in S : \E k \in 1..m : Arranged(S, before)[k] = x
      BY <3>1, ArrangedIs
    <3>3. a = Arranged(S, before)
      BY <2>1 DEF S
    <3> HIDE DEF m
    <3>4. /\ a \in [1..n -> S] /\ \A x \in S : \E k \in 1..n : a[k] = x
          /\ \A j, k \in 1..n : j < k => <<a[j], a[k]>> \in before
          /\ \A j, k \in 1..n : a[j] = a[k] => j = k
      BY <3>1, <3>2, <3>3
    <3> QED
      BY <3>4 DEF S
<1> HIDE DEF a
<1>4. At(s, a) \in Seq(T) /\ Len(At(s, a)) = n /\ \A k \in 1..n : At(s, a)[k] = s[a[k]]
  <2>1. a \in [1..n -> DOMAIN s]
    BY <1>1, <1>3
  <2> HIDE DEF n
  <2> QED
    BY <1>1, <2>1, AtIs
<1>5. Permutes(At(s, a), s, before)
  BY <1>3, <1>4 DEF Permutes
<1> QED
  BY <1>4, <1>5 DEF a

\* What is sorted stays as it is when it is sorted again.
LEMMA SortedAgain ==
  ASSUME NEW T, NEW s \in Seq(T), NEW before, Tells(before, 1..Len(s)),
         \A j, k \in 1..Len(s) : j < k => <<j, k>> \in before
  PROVE  At(s, Arranged(DOMAIN s, before)) = s
<1> DEFINE n == Len(s)
           a == Arranged(DOMAIN s, before)
           c(x) == CountBefore(1..n, before, x)
<1>1. n \in Nat /\ DOMAIN s = 1..n
  OBVIOUS
<1>2. IsFiniteSet(1..n) /\ Cardinality(1..n) = n
  BY <1>1, FS_Interval
<1>3. a \in [1..n -> 1..n] /\ \A k \in 1..n : c(a[k]) = k - 1
  BY <1>1, <1>2, ArrangedIs
<1>4. ASSUME NEW k \in 1..n PROVE c(k) = k - 1
  <2>1. {y \in 1..n : <<y, k>> \in before} = 1..k - 1
    <3>1. ASSUME NEW y \in 1..n, <<y, k>> \in before PROVE y \in 1..k - 1
      <4>1. ~(k < y) /\ k # y
        BY <3>1 DEF Tells
      <4> QED
        BY <1>1, <4>1
    <3>2. \A y \in 1..k - 1 : y \in 1..n /\ y < k
      BY <1>1
    <3> QED
      BY <3>1, <3>2
  <2>2. Cardinality(1..k - 1) = k - 1
    BY FS_Interval
  <2> QED
    BY <2>1, <2>2 DEF CountBefore
<1> HIDE DEF a, c
<1>5. \A k \in 1..n : a[k] = k
  <2> SUFFICES ASSUME NEW k \in 1..n PROVE a[k] = k
    OBVIOUS
  <2>1. a[k] \in 1..n /\ c(a[k]) = k - 1 /\ c(a[k]) = a[k] - 1
    BY <1>3, <1>4
  <2> QED
    BY <1>1, <2>1
<1>6. At(s, a) \in Seq(T) /\ Len(At(s, a)) = n /\ \A k \in 1..n : At(s, a)[k] = s[a[k]]
  <2>1. a \in [1..n -> DOMAIN s]
    BY <1>1, <1>3
  <2> HIDE DEF n
  <2> QED
    BY <1>1, <2>1, AtIs
<1>7. At(s, a) = s
  BY <1>1, <1>5, <1>6
<1> QED
  BY <1>7 DEF a
=============================================================================
