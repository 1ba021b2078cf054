------------------------------- MODULE FoldProofs -------------------------------
(***************************************************************************)
(* Lemmas about finite folds, for the modules that prove what a loop over  *)
(* a sequence computes.  A fold is a recursive function on 0..n.  The      *)
(* induction theorems take a predicate as a parameter, which the provers   *)
(* cannot instantiate: here a set of numbers takes its place, and the      *)
(* least index that would refute a statement is shown not to.              *)
(***************************************************************************)
EXTENDS Integers, WellFoundedInduction, NaturalsInduction, TLAPS

\* The order of the natural numbers, as WellFoundedInduction takes it.
Under == {p \in Nat \X Nat : p[1] < p[2]}

\* Every set of natural numbers has a least.
LEMMA Least ==
    ASSUME NEW B, B \subseteq Nat, B # {}
    PROVE  \E m \in B : \A k \in B : m <= k
<1>1. Under = OpToRel(<, Nat)
  BY Zenon DEF OpToRel, Under
<1>2. IsWellFoundedOn(Under, Nat)
  BY <1>1, NatLessThanWellFounded, Zenon
<1>3. PICK m \in B : \A k \in B : ~(<<k, m>> \in Under)
  BY <1>2, WFMin
<1>4. \A k \in B : ~(k < m)
  BY <1>3 DEF Under
<1> QED
  BY <1>4

\* What is in the first of a row of sets, and goes from each to the next, is in
\* all of them.
LEMMA FoldStays ==
    ASSUME NEW n \in Nat, NEW T, NEW f,
           f[0] \in T[0],
           \A i \in 1..n : f[i - 1] \in T[i - 1] => f[i] \in T[i]
    PROVE  \A i \in 0..n : f[i] \in T[i]
<1> DEFINE B == {i \in 0..n : f[i] \notin T[i]}
<1> SUFFICES ASSUME B # {} PROVE FALSE
  OBVIOUS
<1>1. PICK m \in B : \A k \in B : m <= k
  <2>1. B \subseteq Nat
    OBVIOUS
  <2> HIDE DEF B
  <2> QED
    BY <2>1, Least
<1>2. m \in 1..n /\ f[m] \notin T[m]
  OBVIOUS
<1>3. m - 1 \in 0..n /\ m - 1 \notin B
  <2>1. ~(m <= m - 1)
    BY <1>2
  <2> HIDE DEF B
  <2> QED
    BY <1>1, <1>2, <2>1
<1> QED
  BY <1>2, <1>3

\* The first n values of a fold that begins with b and takes steps g.
IsFold(f, n, b, g) == f = [i \in 0..n |-> IF i = 0 THEN b ELSE g[i][f[i - 1]]]

LEMMA FoldExists ==
    ASSUME NEW n \in Nat, NEW b, NEW g
    PROVE  \E f : IsFold(f, n, b, g)
<1> DEFINE B == {k \in Nat : ~ \E f : IsFold(f, k, b, g)}
<1> SUFFICES ASSUME B # {} PROVE FALSE
  OBVIOUS
<1>1. PICK m \in B : \A k \in B : m <= k
  <2> HIDE DEF B
  <2>1. B \subseteq Nat
    BY DEF B
  <2> QED
    BY <2>1, Least
<1>2. CASE m = 0
  <2>1. IsFold([i \in 0..0 |-> b], 0, b, g)
    BY DEF IsFold
  <2> QED
    BY <1>1, <1>2, <2>1
<1>3. CASE m # 0
  <2>1. m - 1 \in Nat /\ m - 1 \notin B
    BY <1>1, <1>3
  <2>2. PICK f : IsFold(f, m - 1, b, g)
    BY <2>1
  <2> DEFINE h == [i \in 0..m |-> IF i = m THEN g[m][f[m - 1]] ELSE f[i]]
  <2>3. h[m] = g[m][f[m - 1]] /\ \A i \in 0..m - 1 : h[i] = f[i]
    BY <1>1, <2>1
  <2>4. \A i \in 0..m - 1 : f[i] = IF i = 0 THEN b ELSE g[i][f[i - 1]]
    BY <2>2 DEF IsFold
  <2>5. h = [i \in 0..m |-> h[i]]
    OBVIOUS
  <2> HIDE DEF h
  <2>6. ASSUME NEW i \in 0..m PROVE h[i] = IF i = 0 THEN b ELSE g[i][h[i - 1]]
    <3>1. CASE i = m
      <4>1. h[m - 1] = f[m - 1]
        BY <2>1, <2>3
      <4> QED
        BY <1>3, <2>3, <3>1, <4>1
    <3>2. CASE i # m
      <4>1. i \in 0..m - 1 /\ (i # 0 => i - 1 \in 0..m - 1)
        BY <1>1, <3>2
      <4> QED
        BY <2>3, <2>4, <4>1
    <3> QED
      BY <3>1, <3>2
  <2>7. IsFold(h, m, b, g)
    BY <2>5, <2>6 DEF IsFold
  <2> QED
    BY <1>1, <2>7
<1> QED
  BY <1>2, <1>3

\* A fold that keeps within the row T.
Reaches(f, n, b, g, T) ==
    /\ f = [i \in 0..n |-> f[i]]
    /\ f[0] = b
    /\ \A i \in 1..n : f[i - 1] \in T[i - 1] /\ f[i] = g[i][f[i - 1]]

LEMMA FoldReaches ==
    ASSUME NEW n \in Nat, NEW b, NEW g, NEW T, b \in T[0],
           \A i \in 1..n : \A a \in T[i - 1] : g[i][a] \in T[i]
    PROVE  \E f : Reaches(f, n, b, g, T)
<1>1. PICK f : IsFold(f, n, b, g)
  BY FoldExists
<1>2. f = [i \in 0..n |-> f[i]]
  BY <1>1 DEF IsFold
<1>3. ASSUME NEW i \in 0..n PROVE f[i] = IF i = 0 THEN b ELSE g[i][f[i - 1]]
  BY <1>1 DEF IsFold
<1>4. f[0] = b
  BY <1>3
<1>5. ASSUME NEW i \in 1..n PROVE f[i] = g[i][f[i - 1]]
  BY <1>3
<1>6. \A i \in 1..n : f[i - 1] \in T[i - 1] => f[i] \in T[i]
  BY <1>5
<1>7. \A i \in 0..n : f[i] \in T[i]
  BY <1>4, <1>6, FoldStays
<1>8. \A i \in 1..n : i - 1 \in 0..n
  OBVIOUS
<1>9. Reaches(f, n, b, g, T)
  BY <1>2, <1>4, <1>5, <1>7, <1>8 DEF Reaches
<1> QED
  BY <1>9
================================================================================
