----------------------------- MODULE Induction -----------------------------
(***************************************************************************)
(* Induction over the natural numbers, stated with a set instead of a      *)
(* predicate, and what follows from it: a recursive definition that counts *)
(* upwards has a meaning.                                                  *)
(***************************************************************************)
EXTENDS Integers, WellFoundedInduction, TLAPS

\* A set of natural numbers has a least element.
LEMMA LeastNatural ==
  ASSUME NEW S, S \subseteq Nat, S # {}
  PROVE  \E m \in S : \A n \in S : m <= n
<1>1. PICK m \in S : \A n \in S : <<n, m>> \notin OpToRel(<, Nat)
  BY WFMin, NatLessThanWellFounded
<1>2. \A n \in S : ~(n < m)
  BY <1>1 DEF OpToRel
<1> QED
  BY <1>2

\* A set with 0 and the successor of each of its elements holds all.
LEMMA Induct ==
  ASSUME NEW S, 0 \in S, \A n \in Nat : n \in S => n + 1 \in S
  PROVE  \A n \in Nat : n \in S
<1> SUFFICES ASSUME NEW n \in Nat, n \notin S PROVE FALSE
  OBVIOUS
<1> DEFINE T == Nat \ S
<1>1. PICK m \in T : \A k \in T : m <= k
  BY LeastNatural
<1>2. m # 0 /\ m - 1 \in Nat
  BY <1>1
<1>3. m - 1 \in S
  BY <1>1, <1>2
<1>4. m \in S
  BY <1>2, <1>3
<1> QED
  BY <1>4

\* There is a sequence of values with a first one and each of the others got
\* from the one before it.
Steps(n, T) == [1..n -> [T -> T]]
Counted(f, n, T, a, step) ==
  /\ f \in [0..n -> T] /\ f[0] = a
  /\ \A k \in 1..n : f[k] = step[k][f[k - 1]]

LEMMA CountUp ==
  ASSUME NEW n \in Nat, NEW T, NEW a \in T, NEW step \in Steps(n, T)
  PROVE  \E f : Counted(f, n, T, a, step)
<1>0. step \in [1..n -> [T -> T]]
  BY DEF Steps
<1> USE <1>0
<1> DEFINE Good(m, f) == f[0] = a /\ \A k \in 1..m : f[k] = step[k][f[k - 1]]
           S == {m \in Nat : m <= n => \E f \in [0..m -> T] : Good(m, f)}
<1>1. 0 \in S
  <2>1. [k \in 0..0 |-> a] \in [0..0 -> T] /\ Good(0, [k \in 0..0 |-> a])
    OBVIOUS
  <2> QED
    BY <2>1
<1>2. ASSUME NEW m \in Nat, m \in S PROVE m + 1 \in S
  <2> SUFFICES ASSUME m + 1 <= n PROVE \E f \in [0..(m + 1) -> T] : Good(m + 1, f)
    OBVIOUS
  <2>1. PICK f \in [0..m -> T] : Good(m, f)
    BY <1>2
  <2> DEFINE g == [k \in 0..(m + 1) |-> IF k <= m THEN f[k] ELSE step[m + 1][f[m]]]
  <2>2. m + 1 \in 1..n /\ m \in 0..m
    OBVIOUS
  <2>3. step[m + 1][f[m]] \in T
    BY <2>2
  <2>4. \A k \in 0..(m + 1) : k <= m => k \in 0..m
    OBVIOUS
  <2>5. g \in [0..(m + 1) -> T]
    BY <2>3, <2>4
  <2>6. g[0] = a
    BY <2>1
  <2>7. ASSUME NEW k \in 1..(m + 1) PROVE g[k] = step[k][g[k - 1]]
    <3>1. k \in 0..(m + 1) /\ k - 1 \in 0..(m + 1) /\ k - 1 <= m
      OBVIOUS
    <3>2. g[k - 1] = f[k - 1]
      BY <3>1
    <3>3. CASE k <= m
      <4>1. k \in 1..m
        BY <3>3
      <4> QED
        BY <2>1, <3>1, <3>2, <3>3, <4>1
    <3>4. CASE k = m + 1
      <4>1. g[k] = step[m + 1][f[m]] /\ k - 1 = m
        BY <3>1, <3>4
      <4> QED
        BY <3>2, <3>4, <4>1
    <3> QED
      BY <3>3, <3>4
  <2> QED
    BY <2>5, <2>6, <2>7
<1> HIDE DEF S
<1>3. n \in S
  BY <1>1, <1>2, Induct
<1> QED
  BY <1>3 DEF S, Counted

=============================================================================
