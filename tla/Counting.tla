------------------------------ MODULE Counting ------------------------------
(***************************************************************************)
(* Lemmas about finite sets that stand in for induction: what is counted   *)
(* off, and what is least.                                                 *)
(***************************************************************************)
EXTENDS Integers, FiniteSets, FiniteSetTheorems, TLAPS

\* If the down-sets of a finite set form a chain, its members can be counted
\* off by the sizes of their down-sets, and each count has one member.
LEMMA Ranks ==
  ASSUME NEW I, IsFiniteSet(I), NEW down \in [I -> SUBSET I],
         \A i \in I : i \in down[i],
         \A i, j \in I : i # j =>
             \/ down[i] \subseteq down[j] /\ j \notin down[i]
             \/ down[j] \subseteq down[i] /\ i \notin down[j]
  PROVE  /\ \A k \in 1 .. Cardinality(I) : \E i \in I : Cardinality(down[i]) = k
         /\ \A i, j \in I : Cardinality(down[i]) = Cardinality(down[j]) => i = j
         /\ \A i \in I : Cardinality(down[i]) \in 1 .. Cardinality(I)
<1> DEFINE n == Cardinality(I)
           rank == [i \in I |-> Cardinality(down[i])]
<1>1. n \in Nat
  BY FS_CardinalityType
<1>2. \A i \in I : IsFiniteSet(down[i]) /\ rank[i] \in 1 .. n
  <2> SUFFICES ASSUME NEW i \in I
               PROVE  IsFiniteSet(down[i]) /\ rank[i] \in 1 .. n
    OBVIOUS
  <2>1. IsFiniteSet(down[i]) /\ Cardinality(down[i]) <= n
    BY FS_Subset
  <2>2. Cardinality(down[i]) \in Nat /\ Cardinality(down[i]) # 0
    BY <2>1, FS_CardinalityType, FS_EmptySet
  <2> QED
    BY <1>1, <2>1, <2>2
<1>3. \A i, j \in I : rank[i] = rank[j] => i = j
  <2> SUFFICES ASSUME NEW i \in I, NEW j \in I, i # j
               PROVE  rank[i] # rank[j]
    OBVIOUS
  <2>1. CASE down[i] \subseteq down[j] /\ j \notin down[i]
    BY <1>2, <2>1, FS_Subset
  <2>2. CASE down[j] \subseteq down[i] /\ i \notin down[j]
    BY <1>2, <2>2, FS_Subset
  <2> QED
    BY <2>1, <2>2
<1>4. rank \in Injection(I, 1 .. n)
  BY <1>2, <1>3 DEF Injection, IsInjective
<1>5. IsFiniteSet(1 .. n) /\ Cardinality(1 .. n) = n
  BY <1>1, FS_Interval
<1>6. rank \in Surjection(I, 1 .. n)
  BY <1>4, <1>5, FS_Injection
<1>7. \A k \in 1 .. n : \E i \in I : rank[i] = k
  BY <1>6 DEF Surjection
<1> QED
  BY <1>2, <1>3, <1>7

\* A set of numbers that has a member has a least one.
LEMMA LeastNumber ==
  ASSUME NEW S \in SUBSET Nat, S # {}
  PROVE  \E least \in S : \A n \in S : least <= n
<1>1. PICK top \in S : TRUE
  OBVIOUS
<1> DEFINE T == {n \in S : n <= top}
           down == [i \in T |-> {j \in T : j <= i}]
<1>2. IsFiniteSet(T) /\ T # {}
  BY <1>1, FS_BoundedSetOfNaturals
<1>3. /\ down \in [T -> SUBSET T]
      /\ \A i \in T : i \in down[i]
      /\ \A i, j \in T : i # j =>
             \/ down[i] \subseteq down[j] /\ j \notin down[i]
             \/ down[j] \subseteq down[i] /\ i \notin down[j]
  <2>1. T \subseteq Nat
    OBVIOUS
  <2>2. \A i \in T : down[i] \subseteq T /\ \A j \in T : j \in down[i] <=> j <= i
    OBVIOUS
  <2>3. down \in [T -> SUBSET T]
    OBVIOUS
  <2> HIDE DEF T, down
  <2>4. ASSUME NEW i \in T, NEW j \in T, i < j
        PROVE  down[i] \subseteq down[j] /\ j \notin down[i]
    <3>1. i \in Nat /\ j \in Nat /\ ~(j <= i)
      BY <2>1, <2>4
    <3>2. \A k \in T : k <= i => k <= j
      <4> SUFFICES ASSUME NEW k \in T, k <= i
                   PROVE  k <= j
        OBVIOUS
      <4>1. k \in Nat
        BY <2>1
      <4> QED
        BY <2>4, <3>1, <4>1
    <3>3. j \notin down[i]
      BY <2>2, <3>1
    <3>4. ASSUME NEW k \in down[i]
          PROVE  k \in down[j]
      <4>1. k \in T /\ k <= i
        BY <2>2
      <4> QED
        BY <2>2, <3>2, <4>1
    <3> QED
      BY <3>3, <3>4
  <2>5. \A i, j \in T : i # j => i < j \/ j < i
    BY <2>1
  <2>6. \A i \in T : i \in down[i]
    <3>1. \A i \in T : i <= i
      BY <2>1
    <3> QED
      BY <2>2, <3>1
  <2>7. \A i, j \in T : i # j =>
             \/ down[i] \subseteq down[j] /\ j \notin down[i]
             \/ down[j] \subseteq down[i] /\ i \notin down[j]
    BY <2>4, <2>5
  <2> QED
    BY <2>3, <2>6, <2>7
<1>4. 1 \in 1 .. Cardinality(T)
  BY <1>2, FS_CardinalityType, FS_EmptySet
<1> HIDE DEF down
<1>5. PICK least \in T : Cardinality(down[least]) = 1
  <2> HIDE DEF T
  <2> QED
    BY <1>2, <1>3, <1>4, Ranks
<1>6. down[least] = {least}
  <2>1. IsFiniteSet(down[least])
    BY <1>2, <1>3, FS_Subset
  <2>2. PICK x : down[least] = {x}
    BY <1>5, <2>1, FS_Singleton
  <2> QED
    BY <1>3, <2>2
<1>7. \A n \in T : least <= n
  BY <1>5, <1>6 DEF down
<1> QED
  BY <1>1, <1>7

\* Induction as far as n, over the set of the numbers that have been reached.
LEMMA CountUp ==
  ASSUME NEW S, NEW n \in Nat, 0 \in S, \A i \in 1 .. n : i - 1 \in S => i \in S
  PROVE  0 .. n \subseteq S
<1> DEFINE Bad == {i \in 0 .. n : i \notin S}
<1>1. SUFFICES ASSUME Bad # {}
               PROVE  FALSE
  BY <1>1
<1>2. PICK i \in Bad : \A j \in Bad : i <= j
  <2>1. Bad \in SUBSET Nat
    OBVIOUS
  <2> HIDE DEF Bad
  <2> QED
    BY <1>1, <2>1, LeastNumber
<1>3. i \in 1 .. n /\ i - 1 \in 0 .. n /\ ~(i <= i - 1)
  BY <1>2
<1>4. i - 1 \in S
  BY <1>2, <1>3
<1> QED
  BY <1>2, <1>3, <1>4

\* The first n iterates of a step.
IsIteration(f, D, first, step, n) ==
    /\ f \in [0 .. n -> D]
    /\ f[0] = first
    /\ \A i \in 1 .. n : f[i] = step[f[i - 1]]

\* A step can be iterated from a first value as often as one likes.
LEMMA Iterates ==
  ASSUME NEW D, NEW first \in D, NEW step \in [D -> D], NEW n \in Nat
  PROVE  \E f : IsIteration(f, D, first, step, n)
<1> DEFINE Iterated(f, k) == IsIteration(f, D, first, step, k)
           Bad == {k \in Nat : ~ \E f : Iterated(f, k)}
<1>1. SUFFICES ASSUME Bad # {}
               PROVE  FALSE
  BY <1>1
<1>2. PICK k \in Bad : \A j \in Bad : k <= j
  <2>1. Bad \in SUBSET Nat
    OBVIOUS
  <2> HIDE DEF Bad
  <2> QED
    BY <1>1, <2>1, LeastNumber
<1>3. CASE k = 0
  <2>1. Iterated([i \in 0 .. 0 |-> first], 0)
    BY DEF IsIteration
  <2> QED
    BY <1>2, <1>3, <2>1
<1>4. CASE k # 0
  <2>1. k \in Nat /\ k - 1 \in Nat /\ k - 1 \notin Bad
    <3>1. k \in Nat
      BY <1>2
    <3> HIDE DEF Bad
    <3> QED
      BY <1>2, <1>4, <3>1
  <2>2. PICK f : Iterated(f, k - 1)
    BY <2>1
  <2> DEFINE g == [i \in 0 .. k |-> IF i = k THEN step[f[k - 1]] ELSE f[i]]
  <2>3. \A i \in 0 .. k : i # k => i \in 0 .. k - 1
    BY <2>1
  <2>4. k - 1 \in 0 .. k - 1 /\ 0 \in 0 .. k - 1 /\ k \in 0 .. k
    BY <2>1
  <2>5. g \in [0 .. k -> D]
    BY <2>2, <2>3, <2>4 DEF IsIteration
  <2>6. g[k] = step[f[k - 1]] /\ \A i \in 0 .. k - 1 : g[i] = f[i]
    BY <2>1, <2>4
  <2> HIDE DEF g
  <2>7. \A i \in 1 .. k : g[i] = step[g[i - 1]]
    <3> SUFFICES ASSUME NEW i \in 1 .. k
                 PROVE  g[i] = step[g[i - 1]]
      OBVIOUS
    <3>1. CASE i = k
      BY <2>4, <2>6, <3>1
    <3>2. CASE i # k
      <4>1. i \in 1 .. k - 1 /\ i \in 0 .. k - 1 /\ i - 1 \in 0 .. k - 1
        BY <2>1, <3>2
      <4> QED
        BY <2>2, <2>6, <4>1 DEF IsIteration
    <3> QED
      BY <3>1, <3>2
  <2>8. g[0] = first
    BY <2>2, <2>4, <2>6 DEF IsIteration
  <2>9. Iterated(g, k)
    BY <2>5, <2>7, <2>8 DEF IsIteration
  <2> HIDE DEF Iterated
  <2> QED
    BY <1>2, <2>9
<1> QED
  BY <1>3, <1>4
=============================================================================
