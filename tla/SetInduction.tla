---------------------------- MODULE SetInduction ----------------------------
(***************************************************************************)
(* Induction over the natural numbers, stated with sets instead of         *)
(* operators so that it can be cited for any property: the set of the      *)
(* numbers that have it.  With it, what a recursive function computes.     *)
(***************************************************************************)
EXTENDS Naturals, Sequences, FiniteSetTheorems, WellFoundedInduction, TLAPS

\* A set that has 0 and with every number the next has all.
LEMMA NatSetInduction ==
    ASSUME NEW S, 0 \in S, \A n \in Nat : n \in S => n + 1 \in S
    PROVE  \A n \in Nat : n \in S
<1> SUFFICES ASSUME NEW bad \in Nat, bad \notin S PROVE FALSE
  OBVIOUS
<1> DEFINE T == {1 .. n : n \in Nat \ S}
<1>1. T \subseteq FiniteSubsetsOf(Nat) /\ T # {}
  <2>1. \A n \in Nat : IsFiniteSet(1 .. n)
    BY FS_Interval
  <2> QED
    BY <2>1 DEF FiniteSubsetsOf
<1>2. PICK x \in T : \A y \in T : ~ (<<y, x>> \in StrictSubsetOrdering(Nat))
  BY <1>1, FS_StrictSubsetOrderingWellFounded, WFMin
<1>3. PICK n \in Nat \ S : x = 1 .. n
  OBVIOUS
<1>4. n # 0 /\ n - 1 \in Nat \ S
  <2>1. n # 0
    OBVIOUS
  <2>2. n - 1 \in Nat /\ (n - 1) + 1 = n
    BY <2>1
  <2> QED
    BY <2>1, <2>2
<1>5. 1 .. (n - 1) \in T
  BY <1>4
<1>6. <<1 .. (n - 1), x>> \in StrictSubsetOrdering(Nat)
  <2>1. 1 .. (n - 1) \subseteq 1 .. n /\ n \in 1 .. n /\ n \notin 1 .. (n - 1)
    BY <1>4
  <2>2. 1 .. (n - 1) \in SUBSET Nat /\ 1 .. n \in SUBSET Nat
    OBVIOUS
  <2> QED
    BY <1>3, <2>1, <2>2 DEF StrictSubsetOrdering
<1> QED
  BY <1>2, <1>5, <1>6

\* The same up to a bound.
LEMMA BoundedInduction ==
    ASSUME NEW m \in Nat, NEW S, 0 \in S, \A n \in 0 .. m - 1 : n \in S => n + 1 \in S
    PROVE  \A n \in 0 .. m : n \in S
<1> DEFINE T == {n \in Nat : n <= m => n \in S}
<1>1. 0 \in T
  OBVIOUS
<1>2. \A n \in Nat : n \in T => n + 1 \in T
  OBVIOUS
<1>3. \A n \in Nat : n \in T
  <2> HIDE DEF T
  <2> QED
    BY <1>1, <1>2, NatSetInduction
<1> QED
  BY <1>3

\* f[0], f[1], ... f[m] are what m steps make of v0.
Iterates(f, m, v0, step) == f[0] = v0 /\ \A i \in 1 .. m : f[i] = step[i][f[i - 1]]

\* A value to start with and a step for each number determine such a sequence.
LEMMA IterationExists ==
    ASSUME NEW m \in Nat, NEW V, NEW v0 \in V, NEW step \in [1 .. m -> [V -> V]]
    PROVE  \E f \in [0 .. m -> V] : Iterates(f, m, v0, step)
<1> DEFINE Upto(k, f) == f[0] = v0 /\ \A i \in 1 .. k : f[i] = step[i][f[i - 1]]
           S == {k \in Nat : \E f \in [0 .. k -> V] : Upto(k, f)}
<1>1. 0 \in S
  <2>1. [i \in 0 .. 0 |-> v0] \in [0 .. 0 -> V] /\ Upto(0, [i \in 0 .. 0 |-> v0])
    OBVIOUS
  <2> QED
    BY <2>1
<1>2. ASSUME NEW k \in 0 .. m - 1, k \in S
      PROVE  k + 1 \in S
  <2>1. PICK f \in [0 .. k -> V] : Upto(k, f)
    BY <1>2
  <2> DEFINE g == [i \in 0 .. k + 1 |-> IF i = k + 1 THEN step[k + 1][f[k]] ELSE f[i]]
  <2>2. step[k + 1][f[k]] \in V
    BY <2>1
  <2>3. g \in [0 .. k + 1 -> V]
    BY <2>1, <2>2
  <2>4. g[0] = v0 /\ \A i \in 0 .. k : g[i] = f[i]
    BY <2>1
  <2>5. ASSUME NEW i \in 1 .. k + 1 PROVE g[i] = step[i][g[i - 1]]
    <3>1. CASE i = k + 1
      BY <2>4, <3>1
    <3>2. CASE i \in 1 .. k
      BY <2>1, <2>4, <3>2
    <3> QED
      BY <3>1, <3>2
  <2> HIDE DEF g
  <2>6. Upto(k + 1, g)
    BY <2>4, <2>5
  <2> HIDE DEF Upto
  <2>7. k + 1 \in Nat /\ \E f_1 \in [0 .. k + 1 -> V] : Upto(k + 1, f_1)
    BY <2>3, <2>6
  <2> QED
    BY <2>7
<1>3. m \in S
  <2> HIDE DEF S
  <2>1. \A n \in 0 .. m : n \in S
    BY <1>1, <1>2, BoundedInduction
  <2> QED
    BY <2>1
<1> QED
  BY <1>3 DEF Iterates
=============================================================================
