--------------------------- MODULE InductionLemmas ---------------------------
(***************************************************************************)
(* Induction and recursion over the natural numbers, for the proofs about  *)
(* functions that a module defines by recursion.  The induction theorems   *)
(* of the library take an operator; these take a set (of the numbers for   *)
(* which what is to be shown holds) and a function (one step).             *)
(***************************************************************************)
EXTENDS Integers, FiniteSetTheorems, TLAPS

\* A set of natural numbers that is not empty has a least element.
LEMMA LeastNumber ==
  ASSUME NEW T \in SUBSET Nat, T # {}
  PROVE  \E n \in T : \A m \in T : n <= m
<1>1. PICK n \in T : \A m \in T : ~(<<m, n>> \in OpToRel(<, Nat))
  BY WFMin, NatLessThanWellFounded, Zenon
<1>2. ASSUME NEW m \in T PROVE n <= m
  <2>1. ~(m < n)
    BY <1>1 DEF OpToRel
  <2> QED
    BY <2>1
<1> QED
  BY <1>2

\* A set with 0 and the successor of each of its numbers has all numbers.
LEMMA SetInduction ==
  ASSUME NEW T, 0 \in T, \A n \in Nat : n \in T => n + 1 \in T
  PROVE  \A n \in Nat : n \in T
<1> SUFFICES ASSUME {n \in Nat : n \notin T} # {} PROVE FALSE
  OBVIOUS
<1>1. PICK n \in Nat : n \notin T /\ \A m \in {k \in Nat : k \notin T} : n <= m
  BY LeastNumber
<1>2. n - 1 \in Nat /\ n - 1 \in T
  BY <1>1
<1> QED
  BY <1>1, <1>2

(* Recursion: f starts with first, and each step says what comes next.     *)
(* The two definitions stay folded where the lemma is used, so that the    *)
(* provers recognise its statement.                                        *)
AreSteps(step, n, X) == step \in [1..n -> [X -> X]]
FollowsSteps(f, first, step, n, X) ==
  /\ f \in [0..n -> X] /\ f[0] = first
  /\ \A i \in 1..n : f[i] = step[i][f[i - 1]]

\* There is a function that is defined so.
LEMMA RecursionDefines ==
  ASSUME NEW n \in Nat, NEW X, NEW first \in X, NEW step, AreSteps(step, n, X)
  PROVE  \E f : FollowsSteps(f, first, step, n, X)
<1> USE DEF AreSteps
<1> DEFINE T == {m \in Nat : m <= n => \E f : FollowsSteps(f, first, step, m, X)}
<1>1. 0 \in T
  <2>1. FollowsSteps([i \in 0..0 |-> first], first, step, 0, X)
    BY DEF FollowsSteps
  <2> QED
    BY <2>1
<1>2. ASSUME NEW m \in Nat, m \in T PROVE m + 1 \in T
  <2>1. SUFFICES ASSUME m + 1 <= n PROVE \E f : FollowsSteps(f, first, step, m + 1, X)
    BY <1>2
  <2>2. PICK f : FollowsSteps(f, first, step, m, X)
    BY <1>2, <2>1
  <2> DEFINE g == [i \in 0..(m + 1) |-> IF i = m + 1 THEN step[i][f[m]] ELSE f[i]]
  <2>3. m + 1 \in 1..n /\ step[m + 1] \in [X -> X] /\ f[m] \in X
    BY <2>1, <2>2 DEF FollowsSteps
  <2>4. g \in [0..(m + 1) -> X] /\ g[0] = first
    BY <2>2, <2>3 DEF FollowsSteps
  <2>5. ASSUME NEW i \in 1..(m + 1) PROVE g[i] = step[i][g[i - 1]]
    <3>1. CASE i = m + 1
      BY <3>1
    <3>2. CASE i # m + 1
      <4>1. i \in 1..m /\ i - 1 \in 0..m /\ i \in 0..m
        BY <3>2
      <4>2. g[i] = f[i] /\ g[i - 1] = f[i - 1]
        BY <4>1
      <4> QED
        BY <2>2, <4>1, <4>2 DEF FollowsSteps
    <3> QED
      BY <3>1, <3>2
  <2> HIDE DEF g
  <2>6. FollowsSteps(g, first, step, m + 1, X)
    BY <2>4, <2>5 DEF FollowsSteps
  <2> QED
    BY <2>6
<1> HIDE DEF T
<1>3. \A m \in Nat : m \in T
  BY <1>1, <1>2, SetInduction
<1>4. n \in T
  BY <1>3
<1> QED
  BY <1>4 DEF T

=============================================================================
