------------------------------ MODULE Induction ------------------------------
(***************************************************************************)
(* Induction over the natural numbers, and the existence of functions that *)
(* are defined by it, with sets and functions for what the library's       *)
(* theorems take as operators; and the ranks of the elements of a finite   *)
(* set of numbers, by which mail protocols name messages.                  *)
(***************************************************************************)
EXTENDS Integers, WellFoundedInduction, FiniteSetTheorems, TLAPS

\* A set of natural numbers that is not empty has a least element.
THEOREM LeastNumber ==
  ASSUME NEW T \in SUBSET Nat, T # {}
  PROVE  \E m \in T : \A k \in T : m <= k
<1> DEFINE Less == OpToRel(<, Nat)
<1>1. IsWellFoundedOn(Less, Nat)
  BY NatLessThanWellFounded
<1>2. \A x, y \in Nat : x < y => <<x, y>> \in Less
  BY DEF OpToRel
<1> HIDE DEF Less
<1>3. PICK x \in T : \A y \in T : ~ (<<y, x>> \in Less)
  BY <1>1, WFMin
<1>4. x \in Nat /\ \A y \in T : y \in Nat /\ ~ (y < x)
  BY <1>2, <1>3
<1> QED
  BY <1>4

\* Induction from 0 to n: S is the set of the numbers of which the claim holds.
THEOREM NumberInduction ==
  ASSUME NEW n \in Nat, NEW S, 0 \in S, \A k \in 1..n : k - 1 \in S => k \in S
  PROVE  0..n \subseteq S
<1> SUFFICES ASSUME NEW i \in 0..n, i \notin S
             PROVE  FALSE
  OBVIOUS
<1> DEFINE T == {k \in 0..n : k \notin S}
<1>1. T \in SUBSET Nat /\ T # {}
  OBVIOUS
<1>2. PICK m \in T : \A k \in T : m <= k
  <2> HIDE DEF T
  <2> QED
    BY <1>1, LeastNumber
<1>3. m \in 1..n /\ m - 1 \in 0..n /\ m - 1 \notin T
  BY <1>2
<1> QED
  BY <1>2, <1>3

\* f[0..n] is first, and then what step makes of the value before.
Steps(n, V) == [1..n -> [V -> V]]
Iterates(f, n, V, first, step) ==
  f \in [0..n -> V] /\ f[0] = first /\ \A k \in 1..n : f[k] = step[k][f[k - 1]]

\* A function that is defined by its first value and by a step from each value
\* to the next exists.
THEOREM Iteration ==
  ASSUME NEW n \in Nat, NEW V, NEW first \in V, NEW step \in Steps(n, V)
  PROVE  \E f : Iterates(f, n, V, first, step)
<1> DEFINE S == {m \in 0..n : \E f : Iterates(f, m, V, first, step)}
<1>1. 0 \in S
  <2>1. Iterates([k \in 0..0 |-> first], 0, V, first, step)
    BY DEF Iterates
  <2> QED
    BY <2>1
<1>2. ASSUME NEW m \in 1..n, m - 1 \in S
      PROVE  m \in S
  <2>1. PICK f : Iterates(f, m - 1, V, first, step)
    BY <1>2
  <2> DEFINE g == [k \in 0..m |-> IF k = m THEN step[m][f[m - 1]] ELSE f[k]]
  <2>2. g \in [0..m -> V]
    BY <2>1 DEF Iterates, Steps
  <2>3. g[0] = first /\ \A k \in 1..m : g[k] = step[k][g[k - 1]]
    BY <2>1 DEF Iterates
  <2>4. Iterates(g, m, V, first, step)
    BY <2>2, <2>3 DEF Iterates
  <2> QED
    BY <2>4
<1>3. n \in S
  <2> HIDE DEF S
  <2>1. 0..n \subseteq S
    BY <1>1, <1>2, NumberInduction
  <2> QED
    BY <2>1
<1> QED
  BY <1>3

-----------------------------------------------------------------------------
\* The number of elements of S that are not above u.
Rank(u, S) == Cardinality({v \in S : v <= u})

\* What is below an element of a finite set of numbers.
LEMMA BelowIsFinite ==
  ASSUME NEW S \in SUBSET Nat, IsFiniteSet(S), NEW u
  PROVE  /\ IsFiniteSet({v \in S : v <= u})
         /\ Rank(u, S) \in Nat /\ Cardinality(S) \in Nat /\ Rank(u, S) <= Cardinality(S)
<1> DEFINE B == {v \in S : v <= u}
<1>1. B \in SUBSET S
  OBVIOUS
<1> HIDE DEF B
<1>2. IsFiniteSet(B) /\ Cardinality(B) <= Cardinality(S)
  BY <1>1, FS_Subset
<1>3. Cardinality(B) \in Nat /\ Cardinality(S) \in Nat
  BY <1>2, FS_CardinalityType
<1> QED
  BY <1>2, <1>3 DEF Rank, B

\* Ranks go up with the elements.
LEMMA RanksAscend ==
  ASSUME NEW S \in SUBSET Nat, IsFiniteSet(S), NEW u \in S, NEW v \in S, u < v
  PROVE  Rank(u, S) < Rank(v, S)
<1> DEFINE B(w) == {x \in S : x <= w}
<1>1. B(u) \in SUBSET B(v) /\ v \in B(v) /\ v \notin B(u)
  <2>1. u \in Nat /\ v \in Nat
    OBVIOUS
  <2>2. \A x \in S : x <= u => x <= v
    <3> TAKE x \in S
    <3>1. x \in Nat
      OBVIOUS
    <3> QED
      BY <2>1, <3>1
  <2>3. v <= v /\ ~ (v <= u)
    BY <2>1
  <2> QED
    BY <2>2, <2>3
<1>2. IsFiniteSet(B(v))
  BY BelowIsFinite
<1>3. Rank(u, S) \in Nat /\ Rank(v, S) \in Nat
  BY BelowIsFinite
<1>4. Rank(u, S) = Cardinality(B(u)) /\ Rank(v, S) = Cardinality(B(v))
  BY DEF Rank
<1> HIDE DEF B
<1>5. Cardinality(B(u)) <= Cardinality(B(v)) /\ Cardinality(B(u)) # Cardinality(B(v))
  BY <1>1, <1>2, FS_Subset
<1> QED
  BY <1>3, <1>4, <1>5

\* The ranks of a finite set of numbers are one to its size, one for each element.
THEOREM Ranks ==
  ASSUME NEW S \in SUBSET Nat, IsFiniteSet(S)
  PROVE  /\ Cardinality(S) \in Nat
         /\ \A u \in S : Rank(u, S) \in 1..Cardinality(S)
         /\ \A u, v \in S : Rank(u, S) = Rank(v, S) => u = v
         /\ \A u, v \in S : u < v => Rank(u, S) < Rank(v, S)
         /\ \A n \in 1..Cardinality(S) : \E u \in S : Rank(u, S) = n
<1> DEFINE n == Cardinality(S)
           rank == [u \in S |-> Rank(u, S)]
<1>1. n \in Nat
  BY FS_CardinalityType
<1>2. ASSUME NEW u \in S
      PROVE  Rank(u, S) \in 1..n
  <2>1. Rank(u, S) \in Nat /\ Rank(u, S) <= n
    BY BelowIsFinite
  <2>2. Rank(u, S) # 0
    <3> DEFINE B == {v \in S : v <= u}
    <3>1. IsFiniteSet(B) /\ u \in B
      BY BelowIsFinite
    <3> HIDE DEF B
    <3>2. Cardinality(B) # 0
      BY <3>1, FS_EmptySet
    <3> QED
      BY <3>2 DEF B, Rank
  <2> HIDE DEF n
  <2> QED
    BY <1>1, <2>1, <2>2
<1>3. \A u, v \in S : u < v => Rank(u, S) < Rank(v, S)
  BY RanksAscend
<1> HIDE DEF n
<1>4. ASSUME NEW u \in S, NEW v \in S, Rank(u, S) = Rank(v, S)
      PROVE  u = v
  <2>1. u \in Nat /\ v \in Nat /\ Rank(u, S) \in Nat /\ Rank(v, S) \in Nat
    BY <1>1, <1>2
  <2>2. ~ (u < v) /\ ~ (v < u)
    BY <1>3, <1>4, <2>1
  <2> QED
    BY <2>1, <2>2
<1>5. rank \in Injection(S, 1..n)
  BY <1>2, <1>4 DEF Injection, IsInjective
<1>6. IsFiniteSet(1..n) /\ Cardinality(1..n) = n
  <2>1. 1 \in Int /\ n \in Int
    BY <1>1
  <2>2. Cardinality(1..n) = IF 1 > n THEN 0 ELSE n - 1 + 1
    BY <2>1, FS_Interval
  <2>3. Cardinality(1..n) = n
    BY <1>1, <2>2
  <2> QED
    BY <2>1, <2>3, FS_Interval
<1>7. rank \in Surjection(S, 1..n)
  BY <1>5, <1>6, FS_Injection DEF n
<1>8. \A i \in 1..n : \E u \in S : Rank(u, S) = i
  BY <1>7 DEF Surjection
<1> QED
  BY <1>1, <1>2, <1>3, <1>4, <1>8 DEF n
=============================================================================
