-------------------------- MODULE RadixTrieProofs --------------------------
(***************************************************************************)
(* Proofs about RadixTrie, for every width, every set of prefixes and      *)
(* every number of readers.                                                *)
(*                                                                         *)
(* The writer's stores are published one at a time, so the invariant says  *)
(* what holds between any two of them: of the memory (HeapOK), of the      *)
(* place the writer works at (PlaceOK) and of what a reader inside a guard *)
(* can still reach (HeldOK).  All that it says of the readers' walks is    *)
(* about what they may hold, never about where the tree is by now.         *)
(*                                                                         *)
(* First come lemmas about keys (`matches` orders them, the keys that      *)
(* match one key are a chain, and two keys part after the bits that they   *)
(* share) and about the tree that a function of links hangs from root_:    *)
(* what it holds, where a walk in it stops, what a store makes of it.      *)
(***************************************************************************)
EXTENDS RadixTrie, Counting, SequenceTheorems

(* Keys *)

\* A key is a sequence of bits, no longer than an address.
LEMMA KeyTypes ==
  ASSUME Width \in Nat, NEW k \in Keys
  PROVE  /\ Len(k) \in Nat /\ Len(k) \in 0 .. Width
         /\ k \in Seq(Bits)
         /\ \A n \in Nat : n < Len(k) => BitAt(k, n) \in Bits
<1>1. PICK n \in 0 .. Width : k \in [1 .. n -> Bits]
  BY DEF Keys
<1>2. n \in Nat
  OBVIOUS
<1>3. k \in Seq(Bits)
  BY <1>1, <1>2, SeqDef
<1>4. Len(k) = n
  BY <1>1, <1>2, <1>3, LenProperties
<1>5. \A i \in 1 .. n : k[i] \in Bits
  BY <1>1
<1> QED
  BY <1>2, <1>3, <1>4, <1>5 DEF BitAt

\* An address is a key of full length, and so is every prefix of a key.
LEMMA HostsAreKeys ==
  ASSUME Width \in Nat, NEW a \in Hosts
  PROVE  a \in Keys /\ Len(a) = Width
<1>1. a \in Keys /\ a \in Seq(Bits)
  BY SeqDef DEF Hosts, Keys
<1> QED
  BY <1>1, LenProperties DEF Hosts

\* The first bits of a key are a key, and cover it.
LEMMA PrefixesAreKeys ==
  ASSUME Width \in Nat, NEW k \in Keys, NEW n \in 0 .. Len(k)
  PROVE  /\ SubSeq(k, 1, n) \in Keys
         /\ Len(SubSeq(k, 1, n)) = n
         /\ Matches(SubSeq(k, 1, n), k)
<1>1. /\ Len(k) \in 0 .. Width /\ n \in Nat /\ n <= Len(k) /\ n \in 0 .. Width
      /\ \A i \in 1 .. n : k[i] \in Bits
  <2>1. Len(k) \in Nat /\ Len(k) \in 0 .. Width /\ k \in Seq(Bits)
    BY KeyTypes
  <2>2. \A i \in 1 .. Len(k) : k[i] \in Bits
    BY <2>1, ElementOfSeq
  <2> QED
    BY <2>1, <2>2
<1> DEFINE s == SubSeq(k, 1, n)
<1>2. /\ s \in Seq(Bits) /\ Len(s) = n
      /\ \A i \in 1 .. n : s[i] = k[i]
  BY <1>1, SubSeqProperties
<1>3. s \in [1 .. n -> Bits]
  BY <1>2, LenProperties
<1>4. s \in Keys
  BY <1>1, <1>3 DEF Keys
<1> QED
  BY <1>1, <1>2, <1>4 DEF Matches

-----------------------------------------------------------------------------
(* The order *)

\* Every key matches itself, and matching is transitive.
LEMMA MatchOrder ==
  ASSUME Width \in Nat, NEW a \in Keys, NEW b \in Keys, NEW c \in Keys
  PROVE  /\ Matches(a, a)
         /\ Matches(a, b) /\ Matches(b, c) => Matches(a, c)
         /\ Matches(a, b) => Len(a) <= Len(b)
         /\ Matches(a, b) /\ Len(b) <= Len(a) => a = b
         /\ Matches(a, c) /\ Matches(b, c) /\ Len(a) <= Len(b) => Matches(a, b)
<1>1. /\ Len(a) \in Nat /\ Len(b) \in Nat /\ Len(c) \in Nat
      /\ a \in Seq(Bits) /\ b \in Seq(Bits)
  BY KeyTypes
<1>2. Matches(a, b) /\ Len(b) <= Len(a) => a = b
  BY <1>1, SeqEqual DEF Matches
<1> QED
  BY <1>1, <1>2 DEF Matches

\* A key agrees with every key that it matches in each of its own bits.
LEMMA MatchBits ==
  ASSUME Width \in Nat, NEW a \in Keys, NEW b \in Keys, Matches(a, b),
         NEW n \in Nat, n < Len(a)
  PROVE  BitAt(a, n) = BitAt(b, n) /\ BitAt(a, n) \in Bits
<1>1. Len(a) \in Nat /\ BitAt(a, n) \in Bits
  BY KeyTypes
<1>2. n + 1 \in 1 .. Len(a)
  BY <1>1
<1> QED
  BY <1>1, <1>2 DEF Matches, BitAt

-----------------------------------------------------------------------------
(* common_prefix_length *)

\* Where two keys part: CHOOSE finds the bits they share, because the first
\* position at which they differ is one.
LEMMA SharedProperties ==
  ASSUME Width \in Nat, NEW a \in Keys, NEW b \in Keys
  PROVE  LET n == Shared(a, b)
         IN  /\ n \in 0 .. Shorter(a, b)
             /\ \A i \in 1 .. n : a[i] = b[i]
             /\ n < Shorter(a, b) => a[n + 1] # b[n + 1]
<1> DEFINE P(n) == /\ \A i \in 1 .. n : a[i] = b[i]
                   /\ n < Shorter(a, b) => a[n + 1] # b[n + 1]
           S == {n \in 0 .. Shorter(a, b) :
                    n = Shorter(a, b) \/ a[n + 1] # b[n + 1]}
<1>1. Shorter(a, b) \in Nat
  BY KeyTypes DEF Shorter
<1>2. S \in SUBSET Nat /\ S # {}
  BY <1>1
<1>3. PICK least \in S : \A n \in S : least <= n
  <2> HIDE DEF S
  <2> QED
    BY <1>2, LeastNumber
<1>4. least \in 0 .. Shorter(a, b) /\ least \in Nat
  BY <1>1, <1>3
<1>5. \A i \in 1 .. least : a[i] = b[i]
  <2> SUFFICES ASSUME NEW i \in 1 .. least, a[i] # b[i]
               PROVE  FALSE
    OBVIOUS
  <2>1. i - 1 \in 0 .. Shorter(a, b) /\ (i - 1) + 1 = i /\ ~(least <= i - 1)
    BY <1>1, <1>4
  <2>2. i - 1 \in S
    BY <2>1
  <2> QED
    BY <1>3, <2>1, <2>2
<1>6. least < Shorter(a, b) => a[least + 1] # b[least + 1]
  BY <1>1, <1>3, <1>4
<1>7. \E n \in 0 .. Shorter(a, b) : P(n)
  BY <1>4, <1>5, <1>6
<1>8. Shared(a, b) = CHOOSE n \in 0 .. Shorter(a, b) : P(n)
  BY DEF Shared
<1> HIDE DEF P
<1>9. Shared(a, b) \in 0 .. Shorter(a, b) /\ P(Shared(a, b))
  BY <1>7, <1>8
<1> QED
  BY <1>9 DEF P

\* The key of a branch node: it is the longest key that matches the two keys
\* below it, and if it is neither of them they leave it by different bits.
LEMMA BranchKey ==
  ASSUME Width \in Nat, NEW a \in Keys, NEW b \in Keys
  PROVE  LET n == Shared(a, b)
             k == SubSeq(b, 1, n)
         IN  /\ n \in Nat /\ n <= Len(a) /\ n <= Len(b)
             /\ k \in Keys /\ Len(k) = n
             /\ Matches(k, a) /\ Matches(k, b)
             /\ n < Shorter(a, b) =>
                    /\ n < Len(a) /\ n < Len(b)
                    /\ BitAt(a, n) # BitAt(b, n)
                    /\ BitAt(a, n) \in Bits /\ BitAt(b, n) \in Bits
             /\ n = Len(a) => Matches(a, b)
             /\ n = Len(b) => Matches(b, a)
             /\ \A c \in Keys : Matches(c, a) /\ Matches(c, b) /\ n < Shorter(a, b)
                    => Len(c) <= n
<1> DEFINE n == Shared(a, b)
           k == SubSeq(b, 1, n)
<1>1. /\ Len(a) \in Nat /\ Len(b) \in Nat
      /\ \A i \in Nat : i < Len(a) => BitAt(a, i) \in Bits
      /\ \A i \in Nat : i < Len(b) => BitAt(b, i) \in Bits
  BY KeyTypes
<1>2. /\ n \in 0 .. Shorter(a, b)
      /\ \A i \in 1 .. n : a[i] = b[i]
      /\ n < Shorter(a, b) => a[n + 1] # b[n + 1]
  BY SharedProperties
<1> HIDE DEF n
<1>3. /\ n \in Nat /\ n <= Len(a) /\ n <= Len(b) /\ n \in 0 .. Len(b)
      /\ n < Shorter(a, b) => n < Len(a) /\ n < Len(b)
  BY <1>1, <1>2 DEF Shorter
<1>4. k \in Keys /\ Len(k) = n /\ Matches(k, b)
  BY <1>3, PrefixesAreKeys
<1>5. Matches(k, a)
  BY <1>2, <1>3, <1>4 DEF Matches
<1>6. n < Shorter(a, b) => BitAt(a, n) # BitAt(b, n)
  BY <1>2 DEF BitAt
<1>7. (n = Len(a) => Matches(a, b)) /\ (n = Len(b) => Matches(b, a))
  BY <1>2, <1>3 DEF Matches
<1>8. ASSUME NEW c \in Keys, Matches(c, a), Matches(c, b), n < Shorter(a, b)
      PROVE  Len(c) <= n
  <2>1. Len(c) \in Nat
    BY KeyTypes
  <2>2. CASE n < Len(c)
    BY <1>3, <1>6, <1>8, <2>2, MatchBits
  <2> QED
    BY <1>3, <2>1, <2>2
<1> QED
  BY <1>1, <1>3, <1>4, <1>5, <1>6, <1>7, <1>8 DEF n

\* There are finitely many keys: each is the set of its ones, and its length.
LEMMA FiniteKeys ==
  ASSUME Width \in Nat
  PROVE  IsFiniteSet(Keys)
<1> DEFINE Marks == (SUBSET (1 .. Width)) \X (0 .. Width)
           code == [k \in Keys |-> <<{i \in 1 .. Width : i <= Len(k) /\ k[i] = 1}, Len(k)>>]
<1>1. IsFiniteSet(Marks)
  <2>1. IsFiniteSet(1 .. Width) /\ IsFiniteSet(0 .. Width)
    BY FS_Interval
  <2>2. IsFiniteSet(SUBSET (1 .. Width))
    BY <2>1, FS_SUBSET
  <2> QED
    BY <2>1, <2>2, FS_Product
<1>2. \A k \in Keys : Len(k) \in 0 .. Width
  BY KeyTypes
<1>3. code \in [Keys -> Marks]
  BY <1>2
<1>4. ASSUME NEW a \in Keys, NEW b \in Keys, code[a] = code[b]
      PROVE  a = b
  <2>1. /\ Len(a) = Len(b) /\ Len(a) \in 0 .. Width
        /\ \A i \in 1 .. Width : (i <= Len(a) /\ a[i] = 1) <=> (i <= Len(b) /\ b[i] = 1)
    <3>1. /\ code[a][1] = {i \in 1 .. Width : i <= Len(a) /\ a[i] = 1} /\ code[a][2] = Len(a)
          /\ code[b][1] = {i \in 1 .. Width : i <= Len(b) /\ b[i] = 1} /\ code[b][2] = Len(b)
      OBVIOUS
    <3> HIDE DEF code
    <3> QED
      BY <1>2, <1>4, <3>1
  <2>2. a \in [1 .. Len(a) -> Bits] /\ b \in [1 .. Len(b) -> Bits]
    BY KeyTypes DEF Keys
  <2>3. \A i \in 1 .. Len(a) : a[i] = b[i]
    BY <2>1, <2>2 DEF Bits
  <2> QED
    BY <2>1, <2>2, <2>3
<1>5. code \in Injection(Keys, Marks)
  <2> HIDE DEF code, Marks
  <2> QED
    BY <1>3, <1>4 DEF Injection, IsInjective
<1> HIDE DEF code, Marks
<1> QED
  BY <1>1, <1>5, FS_Injection

-----------------------------------------------------------------------------
(* The tree *)

\* Everything the slots can hold.
Links == [Slots -> Nodes \cup {Null}]

\* The slots of node n are n's own, and none of them is root_.
LEMMA SlotFacts ==
  /\ RootSlot \in Slots /\ RootSlot[1] = Null
  /\ 0 \in Bits /\ 1 \in Bits /\ Null \notin Nodes
  /\ \A n \in Nodes, d \in Bits :
        /\ <<n, d>> \in Slots /\ <<n, d>> # RootSlot
        /\ <<n, d>>[1] = n /\ <<n, d>>[2] = d
  /\ \A s \in Slots : s = RootSlot \/ \E n \in Nodes, d \in Bits : s = <<n, d>>
<1>1. Null \notin Nodes
  BY TrieAssumption
<1>2. RootSlot \in Slots /\ RootSlot[1] = Null /\ 0 \in Bits /\ 1 \in Bits
  BY DEF RootSlot, Slots, Bits
<1>3. ASSUME NEW n \in Nodes, NEW d \in Bits
      PROVE  /\ <<n, d>> \in Slots /\ <<n, d>> # RootSlot
             /\ <<n, d>>[1] = n /\ <<n, d>>[2] = d
  BY <1>1, <1>3 DEF RootSlot, Slots
<1>4. ASSUME NEW s \in Slots
      PROVE  s = RootSlot \/ \E n \in Nodes, d \in Bits : s = <<n, d>>
  BY DEF Slots
<1> QED
  BY <1>1, <1>2, <1>3, <1>4

\* The levels that Tree is the union of.
LEMMA TreeLevels ==
  ASSUME NEW lnk \in Links
  PROVE  \E L \in [0 .. Width -> SUBSET Nodes] :
            /\ L[0] = {lnk[RootSlot]} \ {Null}
            /\ \A i \in 1 .. Width :
                  L[i] = {lnk[s] : s \in L[i - 1] \X Bits} \ {Null}
            /\ Tree(lnk) = UNION {L[i] : i \in 0 .. Width}
<1> DEFINE D == SUBSET Nodes
           Down(X) == {lnk[s] : s \in X \X Bits} \ {Null}
           step == [X \in D |-> Down(X)]
           first == {lnk[RootSlot]} \ {Null}
           Body(f) == [i \in 0 .. Width |-> IF i = 0 THEN first ELSE Down(f[i - 1])]
           Level == CHOOSE f : f = Body(f)
<1>1. Width \in Nat /\ first \in D
  BY TrieAssumption, SlotFacts DEF Links
<1>2. step \in [D -> D]
  <2>1. ASSUME NEW X \in D
        PROVE  Down(X) \in D
    <3>1. \A s \in X \X Bits : lnk[s] \in Nodes \cup {Null}
      BY DEF Links, Slots
    <3>2. ASSUME NEW y \in Down(X)
          PROVE  y \in Nodes
      BY <3>1
    <3> HIDE DEF Down
    <3> QED
      BY <3>2
  <2> HIDE DEF Down, D
  <2> QED
    BY <2>1
<1>3. \A X \in D : step[X] = Down(X)
  OBVIOUS
<1>4. PICK f : IsIteration(f, D, first, step, Width)
  <2> HIDE DEF D, Down, first, step
  <2> QED
    BY <1>1, <1>2, Iterates
<1>5. \A i \in 1 .. Width : f[i] = Down(f[i - 1])
  <2> SUFFICES ASSUME NEW i \in 1 .. Width
               PROVE  f[i] = Down(f[i - 1])
    OBVIOUS
  <2>1. f[i - 1] \in D
    <3> HIDE DEF D
    <3> QED
      BY <1>1, <1>4 DEF IsIteration
  <2> HIDE DEF D, Down, step
  <2> QED
    BY <1>3, <1>4, <2>1 DEF IsIteration
<1>6. f = Body(f)
  <2> HIDE DEF first, Down
  <2>1. \A i \in 0 .. Width : f[i] = Body(f)[i]
    BY <1>1, <1>4, <1>5 DEF IsIteration
  <2>2. Body(f) = [i \in 0 .. Width |-> Body(f)[i]]
    OBVIOUS
  <2>3. f = [i \in 0 .. Width |-> f[i]]
    BY <1>4 DEF IsIteration
  <2> QED
    BY <2>1, <2>2, <2>3
<1>7. Level = Body(Level)
  <2> HIDE DEF Body
  <2> QED
    BY <1>6
<1>8. Tree(lnk) = UNION {Level[i] : i \in 0 .. Width}
  BY DEF Tree
<1> HIDE DEF Level
<1>9. Level[0] = first /\ \A i \in 1 .. Width : Level[i] = Down(Level[i - 1])
  <2>1. \A i \in 0 .. Width : Body(Level)[i] = IF i = 0 THEN first ELSE Down(Level[i - 1])
    <3> HIDE DEF first, Down
    <3> QED
      OBVIOUS
  <2> HIDE DEF first, Down, Body
  <2>2. \A i \in 0 .. Width : Level[i] = IF i = 0 THEN first ELSE Down(Level[i - 1])
    BY <1>7, <2>1
  <2> QED
    BY <1>1, <2>2
<1>10. Level = f
  <2> DEFINE Bad == {i \in 0 .. Width : Level[i] # f[i]}
  <2> HIDE DEF D, first, Down
  <2>1. CASE Bad = {}
    <3>1. Level = [i \in 0 .. Width |-> Level[i]] /\ f = [i \in 0 .. Width |-> f[i]]
      BY <1>4, <1>7 DEF IsIteration
    <3> QED
      BY <2>1, <3>1
  <2>2. CASE Bad # {}
    <3>1. Bad \in SUBSET Nat
      BY <1>1
    <3>2. PICK i \in Bad : \A j \in Bad : i <= j
      <4> HIDE DEF Bad
      <4> QED
        BY <2>2, <3>1, LeastNumber
    <3>3. i \in 1 .. Width /\ i - 1 \in 0 .. Width /\ i - 1 \notin Bad
      <4>1. i # 0
        BY <1>4, <1>9, <3>2 DEF IsIteration
      <4>2. i \in 0 .. Width /\ i \in Nat
        BY <3>1, <3>2
      <4> HIDE DEF Bad
      <4> QED
        BY <1>1, <3>2, <4>1, <4>2
    <3>4. Level[i] = Down(Level[i - 1]) /\ f[i] = Down(f[i - 1])
      BY <1>5, <1>9, <3>3
    <3>5. Level[i - 1] = f[i - 1]
      BY <3>3
    <3> QED
      BY <3>2, <3>4, <3>5
  <2> QED
    BY <2>1, <2>2
<1>11. /\ f \in [0 .. Width -> D]
       /\ f[0] = first
       /\ \A i \in 1 .. Width : f[i] = Down(f[i - 1])
       /\ Tree(lnk) = UNION {f[i] : i \in 0 .. Width}
  <2> HIDE DEF Down, first
  <2> QED
    BY <1>4, <1>5, <1>8, <1>10 DEF IsIteration
<1> QED
  BY <1>11, Zenon

-----------------------------------------------------------------------------
(* Members of the tree *)

\* Keys get longer downwards, on the side of their next bit.
Ordered(lnk) ==
    \A n \in Nodes, d \in Bits :
        lnk[<<n, d>>] # Null =>
            LET k == KeyOf[lnk[<<n, d>>]]
            IN  /\ Len(k) > Len(KeyOf[n]) /\ Matches(KeyOf[n], k)
                /\ BitAt(k, Len(KeyOf[n])) = d

\* T holds what root_ links and is closed under links.
Closed(lnk, T) ==
    /\ lnk[RootSlot] # Null => lnk[RootSlot] \in T
    /\ \A n \in T, d \in Bits : lnk[<<n, d>>] # Null => lnk[<<n, d>>] \in T

\* Each member of T hangs from root_ or from another member.
Linked(lnk, T) ==
    \A n \in T : n = lnk[RootSlot] \/ \E m \in T, d \in Bits : n = lnk[<<m, d>>]

\* Nodes have keys, and a link leads to a node or nowhere.
LEMMA NodesHaveKeys ==
  /\ Width \in Nat
  /\ \A n \in Nodes : /\ KeyOf[n] \in Keys /\ Len(KeyOf[n]) \in Nat
                      /\ Len(KeyOf[n]) <= Width
                      /\ n # Null
<1>1. Width \in Nat /\ \A n \in Nodes : KeyOf[n] \in Keys
  BY TrieAssumption
<1>2. \A n \in Nodes : n # Null
  BY TrieAssumption
<1> QED
  BY <1>1, <1>2, KeyTypes

\* The tree is the least set of nodes that holds what root_ links and is
\* closed under links.
LEMMA TreeLemma ==
  ASSUME NEW lnk \in Links, Ordered(lnk)
  PROVE  /\ Tree(lnk) \subseteq Nodes
         /\ Closed(lnk, Tree(lnk)) /\ Linked(lnk, Tree(lnk))
         /\ \A T : Closed(lnk, T) => Tree(lnk) \subseteq T
<1>1. PICK L \in [0 .. Width -> SUBSET Nodes] :
         /\ L[0] = {lnk[RootSlot]} \ {Null}
         /\ \A i \in 1 .. Width :
               L[i] = {lnk[s] : s \in L[i - 1] \X Bits} \ {Null}
         /\ Tree(lnk) = UNION {L[i] : i \in 0 .. Width}
  BY TreeLevels
<1>2. Width \in Nat /\ \A i \in 0 .. Width : L[i] \subseteq Nodes
  BY NodesHaveKeys
<1>3. \A i \in 1 .. Width : i - 1 \in 0 .. Width /\ i \in 0 .. Width
  BY <1>2
<1>4. ASSUME NEW i \in 1 .. Width
      PROVE  /\ \A n \in L[i - 1], d \in Bits :
                    lnk[<<n, d>>] # Null => lnk[<<n, d>>] \in L[i]
             /\ \A n \in L[i] : \E m \in L[i - 1], d \in Bits : n = lnk[<<m, d>>]
  <2>1. L[i] = {lnk[s] : s \in L[i - 1] \X Bits} \ {Null}
    BY <1>1
  <2>2. \A n \in L[i - 1], d \in Bits : <<n, d>> \in L[i - 1] \X Bits
    OBVIOUS
  <2>3. ASSUME NEW n \in L[i]
        PROVE  \E m \in L[i - 1], d \in Bits : n = lnk[<<m, d>>]
    <3>1. PICK s \in L[i - 1] \X Bits : n = lnk[s]
      BY <2>1
    <3>2. PICK m \in L[i - 1], d \in Bits : s = <<m, d>>
      OBVIOUS
    <3> QED
      BY <3>1, <3>2
  <2> QED
    BY <2>1, <2>2, <2>3
<1>5. \A n \in Tree(lnk) : \E i \in 0 .. Width : n \in L[i]
  BY <1>1
<1>6. \A i \in 0 .. Width : L[i] \subseteq Tree(lnk)
  BY <1>1
<1>7. Tree(lnk) \subseteq Nodes
  BY <1>2, <1>5
<1>8. \A i \in 0 .. Width : \A n \in L[i] : Len(KeyOf[n]) >= i
  <2> DEFINE S == {i \in Nat : i \in 0 .. Width => \A n \in L[i] : Len(KeyOf[n]) >= i}
  <2>1. 0 \in S
    <3>1. ASSUME NEW n \in L[0], 0 \in 0 .. Width
          PROVE  Len(KeyOf[n]) >= 0
      <4>1. n \in Nodes
        BY <1>2, <3>1
      <4> QED
        BY <4>1, NodesHaveKeys
    <3> QED
      BY <3>1
  <2>2. ASSUME NEW i \in 1 .. Width, i - 1 \in S
        PROVE  i \in S
    <3>1. ASSUME NEW n \in L[i]
          PROVE  Len(KeyOf[n]) >= i
      <4>1. PICK m \in L[i - 1], d \in Bits : n = lnk[<<m, d>>]
        BY <1>4
      <4>2. n \in Nodes /\ m \in Nodes /\ n # Null
        BY <1>2, <1>3, NodesHaveKeys
      <4>3. Len(KeyOf[n]) > Len(KeyOf[m])
        BY <4>1, <4>2 DEF Ordered
      <4>4. Len(KeyOf[m]) >= i - 1
        BY <1>3, <2>2
      <4>5. Len(KeyOf[n]) \in Nat /\ Len(KeyOf[m]) \in Nat /\ i \in Nat
        BY <1>2, <4>2, NodesHaveKeys
      <4> QED
        BY ONLY <4>3, <4>4, <4>5
    <3> QED
      BY <1>2, <3>1
  <2>3. 0 .. Width \subseteq S
    <3> HIDE DEF S
    <3> QED
      BY <1>2, <2>1, <2>2, CountUp
  <2> QED
    BY <1>2, <2>3
<1>9. Closed(lnk, Tree(lnk))
  <2>1. 0 \in 0 .. Width
    BY <1>2
  <2>2. lnk[RootSlot] # Null => lnk[RootSlot] \in Tree(lnk)
    BY <1>1, <1>6, <2>1
  <2>3. ASSUME NEW n \in Tree(lnk), NEW d \in Bits, lnk[<<n, d>>] # Null
        PROVE  lnk[<<n, d>>] \in Tree(lnk)
    <3>1. PICK i \in 0 .. Width : n \in L[i]
      BY <1>5
    <3>2. n \in Nodes /\ lnk[<<n, d>>] \in Nodes
      BY <1>7, <2>3, SlotFacts DEF Links
    <3>3. i # Width
      <4>1. Len(KeyOf[lnk[<<n, d>>]]) > Len(KeyOf[n])
        BY <2>3, <3>2 DEF Ordered
      <4>2. Len(KeyOf[n]) >= i
        BY <1>8, <3>1
      <4>3. /\ Len(KeyOf[n]) \in Nat /\ Len(KeyOf[lnk[<<n, d>>]]) \in Nat
            /\ Len(KeyOf[lnk[<<n, d>>]]) <= Width
        BY <3>2, NodesHaveKeys
      <4> QED
        BY ONLY <1>2, <4>1, <4>2, <4>3
    <3>4. i + 1 \in 1 .. Width /\ (i + 1) - 1 = i
      BY <1>2, <3>3
    <3>5. lnk[<<n, d>>] \in L[i + 1]
      BY <1>4, <2>3, <3>1, <3>4
    <3> QED
      BY <1>3, <1>6, <3>4, <3>5
  <2> QED
    BY <2>2, <2>3 DEF Closed
<1>10. Linked(lnk, Tree(lnk))
  <2> SUFFICES ASSUME NEW n \in Tree(lnk)
               PROVE  n = lnk[RootSlot] \/ \E m \in Tree(lnk), d \in Bits : n = lnk[<<m, d>>]
    BY DEF Linked
  <2>1. PICK i \in 0 .. Width : n \in L[i]
    BY <1>5
  <2>2. CASE i = 0
    BY <1>1, <2>1, <2>2
  <2>3. CASE i # 0
    <3>1. i \in 1 .. Width
      BY <1>2, <2>3
    <3> QED
      BY <1>3, <1>4, <1>6, <2>1, <3>1
  <2> QED
    BY <2>2, <2>3
<1>11. ASSUME NEW T, Closed(lnk, T)
       PROVE  Tree(lnk) \subseteq T
  <2> DEFINE S == {i \in Nat : i \in 0 .. Width => L[i] \subseteq T}
  <2>1. 0 \in S
    BY <1>1, <1>11 DEF Closed
  <2>2. ASSUME NEW i \in 1 .. Width, i - 1 \in S
        PROVE  i \in S
    <3>1. L[i - 1] \subseteq T
      BY <1>3, <2>2
    <3>2. ASSUME NEW n \in L[i]
          PROVE  n \in T
      <4>1. PICK m \in L[i - 1], d \in Bits : n = lnk[<<m, d>>]
        BY <1>4
      <4>2. n # Null
        BY <1>2, <1>3, NodesHaveKeys
      <4> QED
        BY <1>11, <3>1, <4>1, <4>2 DEF Closed
    <3> QED
      BY <1>2, <3>2
  <2>3. 0 .. Width \subseteq S
    <3> HIDE DEF S
    <3> QED
      BY <1>2, <2>1, <2>2, CountUp
  <2>4. \A i \in 0 .. Width : L[i] \subseteq T
    BY <2>3
  <2> QED
    BY <1>5, <2>4
<1> QED
  BY <1>7, <1>9, <1>10, <1>11

\* Of any nodes, one has a shortest key.
LEMMA ShortestKey ==
  ASSUME NEW S \in SUBSET Nodes, S # {}
  PROVE  \E n \in S : \A m \in S : Len(KeyOf[n]) <= Len(KeyOf[m])
<1> DEFINE lengths == {Len(KeyOf[n]) : n \in S}
<1>1. lengths \in SUBSET Nat /\ lengths # {}
  BY NodesHaveKeys
<1>2. PICK least \in lengths : \A l \in lengths : least <= l
  <2> HIDE DEF lengths
  <2> QED
    BY <1>1, LeastNumber
<1>3. PICK n \in S : Len(KeyOf[n]) = least
  OBVIOUS
<1> QED
  BY <1>2, <1>3

\* A set with these properties is the tree.
LEMMA TreeIs ==
  ASSUME NEW lnk \in Links, Ordered(lnk),
         NEW T \in SUBSET Nodes, Closed(lnk, T), Linked(lnk, T)
  PROVE  Tree(lnk) = T
<1>1. /\ Tree(lnk) \subseteq T
      /\ Closed(lnk, Tree(lnk))
  BY TreeLemma
<1>2. SUFFICES ASSUME T \ Tree(lnk) # {}
               PROVE  FALSE
  BY <1>1, <1>2
<1>3. PICK n \in T \ Tree(lnk) :
         \A m \in T \ Tree(lnk) : Len(KeyOf[n]) <= Len(KeyOf[m])
  <2>1. T \ Tree(lnk) \in SUBSET Nodes
    OBVIOUS
  <2> QED
    BY <1>2, <2>1, ShortestKey
<1>4. n # Null /\ n # lnk[RootSlot]
  BY <1>1, NodesHaveKeys DEF Closed
<1>5. PICK m \in T, d \in Bits : n = lnk[<<m, d>>]
  BY <1>4 DEF Linked
<1>6. m \notin Tree(lnk)
  BY <1>1, <1>4, <1>5 DEF Closed
<1>7. Len(KeyOf[n]) <= Len(KeyOf[m]) /\ Len(KeyOf[n]) > Len(KeyOf[m])
  BY <1>3, <1>4, <1>5, <1>6 DEF Ordered
<1>8. Len(KeyOf[n]) \in Nat /\ Len(KeyOf[m]) \in Nat
  BY NodesHaveKeys
<1> QED
  BY <1>7, <1>8

-----------------------------------------------------------------------------
(* One tree has each key once *)

\* The key at root_ matches every key in the tree.
LEMMA RootMatches ==
  ASSUME NEW lnk \in Links, Ordered(lnk), NEW n \in Tree(lnk)
  PROVE  /\ lnk[RootSlot] \in Tree(lnk)
         /\ Matches(KeyOf[lnk[RootSlot]], KeyOf[n])
<1> DEFINE root == lnk[RootSlot]
           T == {m \in Tree(lnk) : root # Null /\ Matches(KeyOf[root], KeyOf[m])}
<1>1. /\ Tree(lnk) \subseteq Nodes
      /\ Closed(lnk, Tree(lnk))
      /\ \A U : Closed(lnk, U) => Tree(lnk) \subseteq U
  BY TreeLemma
<1>2. root # Null => root \in T
  BY <1>1, NodesHaveKeys, MatchOrder DEF Closed
<1>3. ASSUME NEW m \in T, NEW d \in Bits, lnk[<<m, d>>] # Null
      PROVE  lnk[<<m, d>>] \in T
  <2>1. root \in Nodes /\ m \in Nodes /\ lnk[<<m, d>>] \in Nodes /\ lnk[<<m, d>>] \in Tree(lnk)
    BY <1>1, <1>3 DEF Closed
  <2>2. Matches(KeyOf[m], KeyOf[lnk[<<m, d>>]])
    BY <1>3, <2>1 DEF Ordered
  <2> QED
    BY <2>1, <2>2, NodesHaveKeys, MatchOrder
<1>4. Closed(lnk, T)
  <2> HIDE DEF T
  <2> QED
    BY <1>2, <1>3 DEF Closed
<1>5. n \in T
  BY <1>1, <1>4
<1> QED
  BY <1>1, <1>5 DEF Closed

\* A node and all below it: nobody else has its key, and from it a link leads
\* towards every key in the tree that its own key matches.
Placed(lnk, n) ==
    /\ \A m \in Tree(lnk) : KeyOf[m] = KeyOf[n] => m = n
    /\ \A m \in Tree(lnk) : Matches(KeyOf[n], KeyOf[m]) /\ m # n =>
          LET c == lnk[<<n, BitAt(KeyOf[m], Len(KeyOf[n]))>>]
          IN  c # Null /\ Matches(KeyOf[c], KeyOf[m])

\* A node whose parent is placed has no rival for its key, ...
LEMMA PlacedAlone ==
  ASSUME NEW lnk \in Links, Ordered(lnk), NEW n \in Tree(lnk), NEW m \in Tree(lnk),
         KeyOf[m] = KeyOf[n],
         \A o \in Tree(lnk) : Len(KeyOf[o]) < Len(KeyOf[n]) => Placed(lnk, o)
  PROVE  m = n
<1>1. Tree(lnk) \subseteq Nodes /\ Linked(lnk, Tree(lnk))
  BY TreeLemma
<1>2. ASSUME NEW o \in Tree(lnk), NEW d \in Bits, lnk[<<o, d>>] \in Tree(lnk)
      PROVE  /\ Len(KeyOf[o]) < Len(KeyOf[lnk[<<o, d>>]])
             /\ Matches(KeyOf[o], KeyOf[lnk[<<o, d>>]])
             /\ BitAt(KeyOf[lnk[<<o, d>>]], Len(KeyOf[o])) = d
             /\ lnk[<<o, d>>] # lnk[RootSlot]
  <2>1. o \in Nodes /\ lnk[<<o, d>>] \in Nodes /\ lnk[<<o, d>>] # Null
    BY <1>1, <1>2, NodesHaveKeys
  <2>2. /\ Len(KeyOf[o]) < Len(KeyOf[lnk[<<o, d>>]])
        /\ Matches(KeyOf[o], KeyOf[lnk[<<o, d>>]])
        /\ BitAt(KeyOf[lnk[<<o, d>>]], Len(KeyOf[o])) = d
    BY <2>1, NodesHaveKeys DEF Ordered
  <2>3. Matches(KeyOf[lnk[RootSlot]], KeyOf[o]) /\ lnk[RootSlot] \in Tree(lnk)
    BY RootMatches
  <2>4. Len(KeyOf[lnk[RootSlot]]) <= Len(KeyOf[o])
    BY <1>1, <2>1, <2>3, NodesHaveKeys, MatchOrder
  <2> QED
    BY <1>1, <2>1, <2>2, <2>3, <2>4, NodesHaveKeys
<1>3. CASE n = lnk[RootSlot]
  <2>1. SUFFICES ASSUME m # n
                 PROVE  FALSE
    OBVIOUS
  <2>2. PICK o \in Tree(lnk), d \in Bits : m = lnk[<<o, d>>]
    BY <1>1, <1>3, <2>1 DEF Linked
  <2>3. Len(KeyOf[o]) < Len(KeyOf[n]) /\ Matches(KeyOf[n], KeyOf[o])
    BY <1>2, <1>3, <2>2, RootMatches
  <2> QED
    BY <1>1, <2>3, NodesHaveKeys, MatchOrder
<1>4. CASE m = lnk[RootSlot]
  <2>1. SUFFICES ASSUME m # n
                 PROVE  FALSE
    OBVIOUS
  <2>2. PICK o \in Tree(lnk), d \in Bits : n = lnk[<<o, d>>]
    BY <1>1, <1>4, <2>1 DEF Linked
  <2>3. Len(KeyOf[o]) < Len(KeyOf[m]) /\ Matches(KeyOf[m], KeyOf[o])
    BY <1>2, <1>4, <2>2, RootMatches
  <2> QED
    BY <1>1, <2>3, NodesHaveKeys, MatchOrder
<1>5. CASE n # lnk[RootSlot] /\ m # lnk[RootSlot]
  <2>1. PICK o \in Tree(lnk), d \in Bits : n = lnk[<<o, d>>]
    BY <1>1, <1>5 DEF Linked
  <2>2. PICK u \in Tree(lnk), e \in Bits : m = lnk[<<u, e>>]
    BY <1>1, <1>5 DEF Linked
  <2>3. /\ Len(KeyOf[o]) < Len(KeyOf[n]) /\ Len(KeyOf[u]) < Len(KeyOf[n])
        /\ Matches(KeyOf[o], KeyOf[n]) /\ Matches(KeyOf[u], KeyOf[n])
        /\ BitAt(KeyOf[n], Len(KeyOf[o])) = d
        /\ BitAt(KeyOf[n], Len(KeyOf[u])) = e
    BY <1>2, <2>1, <2>2
  <2>4. Placed(lnk, o) /\ Placed(lnk, u)
    BY <2>3
  <2>5. /\ o \in Nodes /\ u \in Nodes /\ n \in Nodes
        /\ KeyOf[o] \in Keys /\ KeyOf[u] \in Keys /\ KeyOf[n] \in Keys
        /\ Len(KeyOf[o]) \in Nat /\ Len(KeyOf[u]) \in Nat /\ Len(KeyOf[n]) \in Nat
        /\ Width \in Nat
    BY <1>1, NodesHaveKeys
  <2>6. ASSUME Len(KeyOf[o]) < Len(KeyOf[u])
        PROVE  FALSE
    <3>1. Matches(KeyOf[o], KeyOf[u]) /\ o # u
      BY <2>3, <2>5, <2>6, MatchOrder
    <3>2. BitAt(KeyOf[u], Len(KeyOf[o])) = d
      BY <2>3, <2>5, <2>6, MatchBits
    <3>3. Matches(KeyOf[n], KeyOf[u])
      BY <2>1, <2>4, <3>1, <3>2 DEF Placed
    <3> QED
      BY <2>3, <2>5, <3>3, MatchOrder
  <2>7. ASSUME Len(KeyOf[u]) < Len(KeyOf[o])
        PROVE  FALSE
    <3>1. Matches(KeyOf[u], KeyOf[o]) /\ o # u
      BY <2>3, <2>5, <2>7, MatchOrder
    <3>2. BitAt(KeyOf[o], Len(KeyOf[u])) = e
      BY <2>3, <2>5, <2>7, MatchBits
    <3>3. Matches(KeyOf[n], KeyOf[o])
      BY <2>2, <2>4, <3>1, <3>2 DEF Placed
    <3> QED
      BY <2>3, <2>5, <3>3, MatchOrder
  <2>8. KeyOf[o] = KeyOf[u]
    <3>1. Len(KeyOf[o]) = Len(KeyOf[u])
      BY <2>5, <2>6, <2>7
    <3>2. Matches(KeyOf[o], KeyOf[u])
      BY <2>3, <2>5, <3>1, MatchOrder
    <3> QED
      BY <2>5, <3>1, <3>2, MatchOrder
  <2>9. o = u
    BY <2>4, <2>8 DEF Placed
  <2> QED
    BY <2>1, <2>2, <2>3, <2>9
<1> QED
  BY <1>3, <1>4, <1>5

\* ... so in a tree whose keys get longer downwards every node is placed.
LEMMA AllPlaced ==
  ASSUME NEW lnk \in Links, Ordered(lnk), NEW n \in Tree(lnk)
  PROVE  Placed(lnk, n)
<1> DEFINE Bad == {o \in Tree(lnk) : ~Placed(lnk, o)}
<1>1. /\ Tree(lnk) \subseteq Nodes /\ Closed(lnk, Tree(lnk))
      /\ \A U : Closed(lnk, U) => Tree(lnk) \subseteq U
  BY TreeLemma
<1>2. SUFFICES ASSUME Bad # {}
               PROVE  FALSE
  BY <1>2
<1>3. PICK o \in Bad : \A u \in Bad : Len(KeyOf[o]) <= Len(KeyOf[u])
  <2>1. Bad \in SUBSET Nodes
    BY <1>1
  <2> HIDE DEF Bad
  <2> QED
    BY <1>2, <2>1, ShortestKey
<1>4. \A u \in Tree(lnk) : Len(KeyOf[u]) < Len(KeyOf[o]) => Placed(lnk, u)
  BY <1>1, <1>3, NodesHaveKeys
<1>5. o \in Tree(lnk) /\ o \in Nodes /\ ~Placed(lnk, o)
  BY <1>1, <1>3
<1> HIDE DEF Bad
<1>6. \A m \in Tree(lnk) : KeyOf[m] = KeyOf[o] => m = o
  BY <1>4, <1>5, PlacedAlone
<1> DEFINE Towards(m) ==
             LET c == lnk[<<o, BitAt(KeyOf[m], Len(KeyOf[o]))>>]
             IN  c # Null /\ Matches(KeyOf[c], KeyOf[m])
           T == {m \in Tree(lnk) : Matches(KeyOf[o], KeyOf[m]) => m = o \/ Towards(m)}
<1>7. lnk[RootSlot] # Null => lnk[RootSlot] \in T
  <2>1. SUFFICES ASSUME lnk[RootSlot] # Null, Matches(KeyOf[o], KeyOf[lnk[RootSlot]])
                 PROVE  lnk[RootSlot] = o /\ lnk[RootSlot] \in Tree(lnk)
    BY <1>1 DEF Closed
  <2>2. lnk[RootSlot] \in Tree(lnk) /\ Matches(KeyOf[lnk[RootSlot]], KeyOf[o])
    BY <1>5, RootMatches
  <2>3. KeyOf[lnk[RootSlot]] = KeyOf[o]
    BY <1>1, <1>5, <2>1, <2>2, NodesHaveKeys, MatchOrder
  <2> QED
    BY <1>6, <2>2, <2>3
<1>8. ASSUME NEW x \in T, NEW e \in Bits, lnk[<<x, e>>] # Null
      PROVE  lnk[<<x, e>>] \in T
  <2> DEFINE y == lnk[<<x, e>>]
  <2>1. /\ x \in Nodes /\ y \in Nodes /\ y \in Tree(lnk) /\ x \in Tree(lnk)
        /\ KeyOf[x] \in Keys /\ KeyOf[y] \in Keys /\ KeyOf[o] \in Keys
        /\ Len(KeyOf[x]) \in Nat /\ Len(KeyOf[y]) \in Nat /\ Len(KeyOf[o]) \in Nat
        /\ Width \in Nat
    BY <1>1, <1>5, <1>8, NodesHaveKeys DEF Closed
  <2>2. /\ Len(KeyOf[x]) < Len(KeyOf[y]) /\ Matches(KeyOf[x], KeyOf[y])
        /\ BitAt(KeyOf[y], Len(KeyOf[x])) = e
    BY <1>8, <2>1 DEF Ordered
  <2>3. x = o \/ (Matches(KeyOf[o], KeyOf[x]) => Towards(x))
    BY <1>8
  <2> HIDE DEF y, T
  <2> SUFFICES ASSUME Matches(KeyOf[o], KeyOf[y])
               PROVE  y = o \/ Towards(y)
    BY <2>1 DEF y, T
  <2>4. CASE x = o
    BY <1>8, <2>1, <2>2, <2>4, MatchOrder DEF y
  <2>5. CASE x # o /\ Len(KeyOf[o]) <= Len(KeyOf[x])
    <3>1. Matches(KeyOf[o], KeyOf[x])
      BY <2>1, <2>2, <2>5, MatchOrder
    <3>2. Len(KeyOf[o]) < Len(KeyOf[x])
      <4>1. Len(KeyOf[o]) # Len(KeyOf[x])
        BY <1>6, <2>1, <2>5, <3>1, MatchOrder
      <4> QED
        BY <2>1, <2>5, <4>1
    <3>3. BitAt(KeyOf[x], Len(KeyOf[o])) = BitAt(KeyOf[y], Len(KeyOf[o]))
          /\ BitAt(KeyOf[x], Len(KeyOf[o])) \in Bits
      BY <2>1, <2>2, <3>2, MatchBits
    <3> DEFINE c == lnk[<<o, BitAt(KeyOf[x], Len(KeyOf[o]))>>]
    <3>4. c # Null /\ Matches(KeyOf[c], KeyOf[x])
      BY <2>3, <2>5, <3>1
    <3>5. c \in Nodes
      BY <1>5, <3>3, <3>4, SlotFacts DEF Links
    <3> HIDE DEF c
    <3>6. Matches(KeyOf[c], KeyOf[y])
      BY <2>1, <2>2, <3>4, <3>5, NodesHaveKeys, MatchOrder
    <3> QED
      BY <3>3, <3>4, <3>6 DEF c
  <2>6. CASE Len(KeyOf[x]) < Len(KeyOf[o])
    <3>1. Placed(lnk, x) /\ x # o
      BY <1>4, <2>1, <2>6
    <3>2. Matches(KeyOf[x], KeyOf[o])
      BY <2>1, <2>2, <2>6, MatchOrder
    <3>3. BitAt(KeyOf[o], Len(KeyOf[x])) = e
      BY <2>1, <2>2, <2>6, MatchBits
    <3>4. Matches(KeyOf[y], KeyOf[o])
      BY <1>5, <3>1, <3>2, <3>3 DEF Placed, y
    <3>5. KeyOf[y] = KeyOf[o]
      BY <2>1, <3>4, MatchOrder
    <3> QED
      BY <1>6, <2>1, <3>5
  <2> QED
    BY <2>1, <2>4, <2>5, <2>6
<1>9. Closed(lnk, T)
  <2> HIDE DEF T
  <2> QED
    BY <1>7, <1>8 DEF Closed
<1>10. \A m \in Tree(lnk) : Matches(KeyOf[o], KeyOf[m]) /\ m # o => Towards(m)
  <2>1. Tree(lnk) \subseteq T
    BY <1>1, <1>9
  <2> HIDE DEF Towards
  <2> QED
    BY <2>1
<1> QED
  BY <1>5, <1>6, <1>10 DEF Placed

\* The slots that the tree is made of.
TreeSlots(lnk) == {RootSlot} \cup (Tree(lnk) \X Bits)

\* Where a tree slot is, and that a node is linked by one of them at most.
LEMMA OneParent ==
  ASSUME NEW lnk \in Links, Ordered(lnk)
  PROVE  /\ TreeSlots(lnk) \subseteq Slots
         /\ \A s \in TreeSlots(lnk) :
               /\ s = RootSlot \/ (s[1] \in Tree(lnk) /\ s[2] \in Bits /\ s = <<s[1], s[2]>>)
               /\ lnk[s] # Null => lnk[s] \in Tree(lnk)
         /\ \A s, t \in TreeSlots(lnk) : lnk[s] = lnk[t] /\ lnk[s] # Null => s = t
<1>1. Tree(lnk) \subseteq Nodes /\ Closed(lnk, Tree(lnk))
  BY TreeLemma
<1>2. \A s \in TreeSlots(lnk) :
         s = RootSlot \/ (s[1] \in Tree(lnk) /\ s[2] \in Bits /\ s = <<s[1], s[2]>>)
  BY DEF TreeSlots
<1>3. TreeSlots(lnk) \subseteq Slots
  BY <1>1 DEF TreeSlots, Slots
<1>4. \A s \in TreeSlots(lnk) : lnk[s] # Null => lnk[s] \in Tree(lnk)
  BY <1>1, <1>2 DEF Closed
<1>5. ASSUME NEW m \in Tree(lnk), NEW d \in Bits, lnk[<<m, d>>] # Null
      PROVE  /\ lnk[<<m, d>>] # lnk[RootSlot]
             /\ m \in Nodes /\ lnk[<<m, d>>] \in Nodes /\ lnk[<<m, d>>] \in Tree(lnk)
             /\ Len(KeyOf[m]) < Len(KeyOf[lnk[<<m, d>>]])
             /\ Matches(KeyOf[m], KeyOf[lnk[<<m, d>>]])
             /\ BitAt(KeyOf[lnk[<<m, d>>]], Len(KeyOf[m])) = d
  <2>1. m \in Nodes /\ lnk[<<m, d>>] \in Nodes /\ lnk[<<m, d>>] \in Tree(lnk)
    BY <1>1, <1>5 DEF Closed
  <2>2. /\ Len(KeyOf[m]) < Len(KeyOf[lnk[<<m, d>>]])
        /\ Matches(KeyOf[m], KeyOf[lnk[<<m, d>>]])
        /\ BitAt(KeyOf[lnk[<<m, d>>]], Len(KeyOf[m])) = d
    BY <1>5, <2>1 DEF Ordered
  <2>3. Matches(KeyOf[lnk[RootSlot]], KeyOf[m]) /\ lnk[RootSlot] \in Nodes
    BY <1>1, RootMatches
  <2>4. Len(KeyOf[lnk[RootSlot]]) <= Len(KeyOf[m])
    BY <2>1, <2>3, NodesHaveKeys, MatchOrder
  <2> QED
    BY <2>1, <2>2, <2>3, <2>4, NodesHaveKeys
<1>6. ASSUME NEW m \in Tree(lnk), NEW d \in Bits, NEW n \in Tree(lnk), NEW e \in Bits,
             lnk[<<m, d>>] = lnk[<<n, e>>], lnk[<<m, d>>] # Null
      PROVE  ~(Len(KeyOf[m]) < Len(KeyOf[n]))
  <2>1. SUFFICES ASSUME Len(KeyOf[m]) < Len(KeyOf[n])
                 PROVE  FALSE
    OBVIOUS
  <2> DEFINE x == lnk[<<m, d>>]
  <2>2. /\ m \in Nodes /\ n \in Nodes /\ x \in Nodes
        /\ Matches(KeyOf[m], KeyOf[x]) /\ Matches(KeyOf[n], KeyOf[x])
        /\ Len(KeyOf[n]) < Len(KeyOf[x])
        /\ BitAt(KeyOf[x], Len(KeyOf[m])) = d
    BY <1>5, <1>6
  <2> HIDE DEF x
  <2>3. /\ KeyOf[m] \in Keys /\ KeyOf[n] \in Keys /\ KeyOf[x] \in Keys
        /\ Len(KeyOf[m]) \in Nat /\ Len(KeyOf[n]) \in Nat /\ Len(KeyOf[x]) \in Nat
        /\ Width \in Nat
    BY <2>2, NodesHaveKeys
  <2>4. Matches(KeyOf[m], KeyOf[n]) /\ m # n
    BY <2>1, <2>2, <2>3, MatchOrder
  <2>5. BitAt(KeyOf[n], Len(KeyOf[m])) = d
    BY <2>1, <2>2, <2>3, MatchBits
  <2>6. Matches(KeyOf[x], KeyOf[n])
    BY <2>4, <2>5, AllPlaced DEF Placed, x
  <2> QED
    BY <2>2, <2>3, <2>6, MatchOrder
<1>7. ASSUME NEW m \in Tree(lnk), NEW d \in Bits, NEW n \in Tree(lnk), NEW e \in Bits,
             lnk[<<m, d>>] = lnk[<<n, e>>], lnk[<<m, d>>] # Null
      PROVE  m = n /\ d = e
  <2> DEFINE x == lnk[<<m, d>>]
  <2>1. /\ m \in Nodes /\ n \in Nodes /\ x \in Nodes
        /\ Matches(KeyOf[m], KeyOf[x]) /\ Matches(KeyOf[n], KeyOf[x])
        /\ BitAt(KeyOf[x], Len(KeyOf[m])) = d
        /\ BitAt(KeyOf[x], Len(KeyOf[n])) = e
    BY <1>5, <1>7
  <2>2. ~(Len(KeyOf[m]) < Len(KeyOf[n])) /\ ~(Len(KeyOf[n]) < Len(KeyOf[m]))
    BY <1>6, <1>7
  <2> HIDE DEF x
  <2>3. /\ KeyOf[m] \in Keys /\ KeyOf[n] \in Keys /\ KeyOf[x] \in Keys
        /\ Len(KeyOf[m]) \in Nat /\ Len(KeyOf[n]) \in Nat /\ Len(KeyOf[x]) \in Nat
        /\ Width \in Nat
    BY <2>1, NodesHaveKeys
  <2>4. Len(KeyOf[m]) = Len(KeyOf[n])
    BY ONLY <2>2, <2>3
  <2>5. Matches(KeyOf[m], KeyOf[n])
    BY <2>1, <2>3, <2>4, MatchOrder
  <2>6. KeyOf[m] = KeyOf[n]
    BY <2>3, <2>4, <2>5, MatchOrder
  <2> QED
    BY <2>1, <2>6, AllPlaced DEF Placed
<1>8. ASSUME NEW s \in TreeSlots(lnk), NEW t \in TreeSlots(lnk),
             lnk[s] = lnk[t], lnk[s] # Null
      PROVE  s = t
  <2>1. CASE s = RootSlot /\ t = RootSlot
    BY <2>1
  <2>2. CASE s = RootSlot /\ t # RootSlot
    BY <1>2, <1>5, <1>8, <2>2
  <2>3. CASE s # RootSlot /\ t = RootSlot
    BY <1>2, <1>5, <1>8, <2>3
  <2>4. CASE s # RootSlot /\ t # RootSlot
    <3>1. /\ s[1] \in Tree(lnk) /\ s[2] \in Bits /\ s = <<s[1], s[2]>>
          /\ t[1] \in Tree(lnk) /\ t[2] \in Bits /\ t = <<t[1], t[2]>>
      BY <1>2, <2>4
    <3>2. s[1] = t[1] /\ s[2] = t[2]
      BY <1>7, <1>8, <3>1
    <3> QED
      BY <3>1, <3>2
  <2> QED
    BY <2>1, <2>2, <2>3, <2>4
<1> QED
  BY <1>2, <1>3, <1>4, <1>8

-----------------------------------------------------------------------------
(* What a store makes of the tree *)

\* Stores to slots outside the tree do not change it.
LEMMA SameTree ==
  ASSUME NEW lnk \in Links, Ordered(lnk), NEW new \in Links, Ordered(new),
         \A s \in TreeSlots(lnk) : new[s] = lnk[s]
  PROVE  Tree(new) = Tree(lnk)
<1>1. Tree(lnk) \subseteq Nodes /\ Closed(lnk, Tree(lnk)) /\ Linked(lnk, Tree(lnk))
  BY TreeLemma
<1>2. /\ new[RootSlot] = lnk[RootSlot]
      /\ \A n \in Tree(lnk), d \in Bits : new[<<n, d>>] = lnk[<<n, d>>]
  BY DEF TreeSlots
<1>3. Closed(new, Tree(lnk))
  BY <1>1, <1>2 DEF Closed
<1>4. Linked(new, Tree(lnk))
  <2> SUFFICES ASSUME NEW n \in Tree(lnk)
               PROVE  n = new[RootSlot] \/ \E m \in Tree(lnk), d \in Bits : n = new[<<m, d>>]
    BY DEF Linked
  <2> QED
    BY <1>1, <1>2 DEF Linked
<1> QED
  BY <1>1, <1>3, <1>4, TreeIs

\* A store to a tree slot hangs the nodes N there, with what it linked before
\* somewhere below them.
Graft(lnk, new, s, N) ==
    /\ s \in TreeSlots(lnk)
    /\ N \subseteq Nodes /\ N \cap Tree(lnk) = {}
    /\ \A t \in TreeSlots(lnk) : t # s => new[t] = lnk[t]
    /\ new[s] \in N
    /\ \A n \in N, d \in Bits : new[<<n, d>>] \in N \cup {lnk[s], Null}
    /\ lnk[s] # Null => \E n \in N, d \in Bits : new[<<n, d>>] = lnk[s]
    /\ \A n \in N : n = new[s] \/ \E m \in N, d \in Bits : n = new[<<m, d>>]

\* Those nodes are all that the tree gains by it.
LEMMA GraftedTree ==
  ASSUME NEW lnk \in Links, Ordered(lnk), NEW new \in Links, Ordered(new),
         NEW s, NEW N, Graft(lnk, new, s, N)
  PROVE  Tree(new) = Tree(lnk) \cup N
<1> DEFINE T == Tree(lnk) \cup N
<1>1. Tree(lnk) \subseteq Nodes /\ Closed(lnk, Tree(lnk)) /\ Linked(lnk, Tree(lnk))
  BY TreeLemma
<1> USE DEF Graft
<1>2. /\ s = RootSlot \/ (s[1] \in Tree(lnk) /\ s[2] \in Bits /\ s = <<s[1], s[2]>>)
      /\ lnk[s] # Null => lnk[s] \in Tree(lnk)
  BY OneParent
<1>3. /\ RootSlot \in TreeSlots(lnk)
      /\ \A n \in Tree(lnk), d \in Bits : <<n, d>> \in TreeSlots(lnk)
  BY DEF TreeSlots
<1>4. new[RootSlot] # Null => new[RootSlot] \in T
  BY <1>1, <1>3 DEF Closed
<1>5. ASSUME NEW n \in T, NEW d \in Bits, new[<<n, d>>] # Null
      PROVE  new[<<n, d>>] \in T
  <2>1. CASE n \in N
    BY <1>2, <1>5, <2>1
  <2>2. CASE n \in Tree(lnk)
    BY <1>1, <1>3, <1>5, <2>2 DEF Closed
  <2> QED
    BY <2>1, <2>2
<1>6. ASSUME NEW n \in T
      PROVE  n = new[RootSlot] \/ \E m \in T, d \in Bits : n = new[<<m, d>>]
  <2>1. CASE n \in N
    BY <1>2, <2>1
  <2>2. CASE n \in Tree(lnk) /\ n = lnk[s]
    <3>1. n # Null
      BY <1>1, <2>2, NodesHaveKeys
    <3> QED
      BY <2>2, <3>1
  <2>3. CASE n \in Tree(lnk) /\ n # lnk[s]
    <3>1. n = lnk[RootSlot] \/ \E m \in Tree(lnk), d \in Bits : n = lnk[<<m, d>>]
      BY <1>1, <2>3 DEF Linked
    <3> QED
      BY <1>3, <2>3, <3>1
  <2> QED
    BY <2>1, <2>2, <2>3
<1>7. Closed(new, T) /\ Linked(new, T)
  <2> HIDE DEF T
  <2> QED
    BY <1>4, <1>5, <1>6 DEF Closed, Linked
<1>8. T \in SUBSET Nodes
  BY <1>1
<1> QED
  BY <1>7, <1>8, TreeIs

\* A store to a tree slot takes the node there out, when its only child, if
\* it has one, takes its place.
Cut(lnk, new, s) ==
    /\ s \in TreeSlots(lnk) /\ lnk[s] # Null
    /\ \A t \in TreeSlots(lnk) : t # s => new[t] = lnk[t]
    /\ \A d \in Bits : lnk[<<lnk[s], d>>] \in {new[s], Null}
    /\ new[s] # Null => \E d \in Bits : lnk[<<lnk[s], d>>] = new[s]

\* That node is all that the tree loses by it.
LEMMA PrunedTree ==
  ASSUME NEW lnk \in Links, Ordered(lnk), NEW new \in Links, Ordered(new),
         NEW s, Cut(lnk, new, s)
  PROVE  lnk[s] \in Tree(lnk) /\ Tree(new) = Tree(lnk) \ {lnk[s]}
<1> DEFINE x == lnk[s]
           T == Tree(lnk) \ {x}
<1>1. Tree(lnk) \subseteq Nodes /\ Closed(lnk, Tree(lnk)) /\ Linked(lnk, Tree(lnk))
  BY TreeLemma
<1> USE DEF Cut
<1>2. /\ s = RootSlot \/ (s[1] \in Tree(lnk) /\ s[2] \in Bits /\ s = <<s[1], s[2]>>)
      /\ x \in Tree(lnk) /\ x \in Nodes
      /\ \A t \in TreeSlots(lnk) : t # s => lnk[t] # x
  BY <1>1, OneParent
<1>3. /\ RootSlot \in TreeSlots(lnk)
      /\ \A n \in Tree(lnk), d \in Bits : <<n, d>> \in TreeSlots(lnk)
  BY DEF TreeSlots
<1>4. ASSUME NEW n \in Tree(lnk), NEW d \in Bits, lnk[<<n, d>>] # Null
      PROVE  n # lnk[<<n, d>>]
  <2>1. n \in Nodes /\ lnk[<<n, d>>] \in Nodes
    BY <1>1, <1>4 DEF Closed
  <2>2. Len(KeyOf[lnk[<<n, d>>]]) > Len(KeyOf[n]) /\ Len(KeyOf[n]) \in Nat
    BY <1>4, <2>1, NodesHaveKeys DEF Ordered
  <2> QED
    BY <2>2
<1>5. new[s] # Null => new[s] \in T
  BY <1>1, <1>2, <1>4 DEF Closed
<1>6. s # RootSlot => s[1] # x
  BY <1>2, <1>4
<1>7. new[RootSlot] # Null => new[RootSlot] \in T
  BY <1>1, <1>2, <1>3, <1>5 DEF Closed
<1>8. ASSUME NEW n \in T, NEW d \in Bits, new[<<n, d>>] # Null
      PROVE  new[<<n, d>>] \in T
  BY <1>1, <1>2, <1>3, <1>5, <1>8 DEF Closed
<1>9. ASSUME NEW n \in T
      PROVE  n = new[RootSlot] \/ \E m \in T, d \in Bits : n = new[<<m, d>>]
  <2>1. CASE n = lnk[RootSlot]
    BY <1>2, <1>3, <1>9, <2>1
  <2>2. CASE \E d \in Bits : n = lnk[<<x, d>>]
    <3>1. n = new[s]
      BY <1>1, <1>9, <2>2, NodesHaveKeys
    <3> QED
      BY <1>2, <1>6, <3>1
  <2>3. CASE \E m \in T, d \in Bits : n = lnk[<<m, d>>]
    <3>1. PICK m \in T, d \in Bits : n = lnk[<<m, d>>]
      BY <2>3
    <3>2. <<m, d>> # s
      BY <1>9, <3>1
    <3> QED
      BY <1>3, <3>1, <3>2
  <2>4. n = lnk[RootSlot] \/ \E m \in Tree(lnk), d \in Bits : n = lnk[<<m, d>>]
    BY <1>1, <1>9 DEF Linked
  <2> QED
    BY <2>1, <2>2, <2>3, <2>4
<1>10. Closed(new, T) /\ Linked(new, T)
  <2> HIDE DEF T
  <2> QED
    BY <1>7, <1>8, <1>9 DEF Closed, Linked
<1>11. T \in SUBSET Nodes
  BY <1>1
<1> QED
  BY <1>2, <1>10, <1>11, TreeIs

\* A null root_ is an empty tree.
LEMMA EmptyTree ==
  ASSUME NEW lnk \in Links, Ordered(lnk), lnk[RootSlot] = Null
  PROVE  Tree(lnk) = {}
<1>1. Closed(lnk, {}) /\ Linked(lnk, {})
  BY DEF Closed, Linked
<1> QED
  BY <1>1, TreeIs

-----------------------------------------------------------------------------
(* The writer's walk *)

\* A place that the walk for p can be in: root_, or a link of a node above p
\* on the side of p.
Towards(p, s) ==
    \/ s = RootSlot
    \/ /\ s[1] \in Tree(link)
       /\ Matches(KeyOf[s[1]], p) /\ Len(KeyOf[s[1]]) < Len(p)
       /\ s[2] = BitAt(p, Len(KeyOf[s[1]]))

\* The walk goes on while the node it sees is above p.
GoesOn(p, s) ==
    link[s] # Null /\ Len(KeyOf[link[s]]) < Len(p) /\ Matches(KeyOf[link[s]], p)

\* What the walk has behind it: the slot above the one it is in.
WalkOK(p, w) ==
    /\ w \in [slot : Slots, above : Slots]
    /\ w.slot \in TreeSlots(link) /\ w.above \in TreeSlots(link)
    /\ Towards(p, w.slot) /\ Towards(p, w.above)
    /\ IF w.slot = RootSlot THEN w.above = RootSlot ELSE link[w.above] = w.slot[1]

\* One move of the walk.
Move(p, w) ==
    IF GoesOn(p, w.slot)
    THEN [slot |-> <<link[w.slot], BitAt(p, Len(KeyOf[link[w.slot]]))>>, above |-> w.slot]
    ELSE w

\* A move keeps to the way, and goes one level down or has arrived.
LEMMA MoveLemma ==
  ASSUME link \in Links, Ordered(link), NEW p \in Keys, NEW w, WalkOK(p, w)
  PROVE  /\ WalkOK(p, Move(p, w))
         /\ GoesOn(p, w.slot) =>
               /\ Move(p, w).slot # RootSlot
               /\ w.slot # RootSlot =>
                     Len(KeyOf[w.slot[1]]) < Len(KeyOf[Move(p, w).slot[1]])
<1>1. CASE ~GoesOn(p, w.slot)
  BY <1>1 DEF Move
<1>2. CASE GoesOn(p, w.slot)
  <2> DEFINE n == link[w.slot]
             b == BitAt(p, Len(KeyOf[n]))
             s == <<n, b>>
  <2>1. w.slot \in Slots /\ w.slot \in TreeSlots(link) /\ w.above \in Slots
    BY DEF WalkOK
  <2>2. n \in Tree(link) /\ n \in Nodes /\ Tree(link) \subseteq Nodes
    BY <1>2, <2>1, OneParent, TreeLemma DEF GoesOn
  <2>3. b \in Bits /\ s \in Slots /\ s # RootSlot /\ s[1] = n /\ s[2] = b
    <3>1. b \in Bits
      BY <1>2, <2>2, NodesHaveKeys, KeyTypes DEF GoesOn
    <3> HIDE DEF n, b
    <3> QED
      BY <2>2, <3>1, SlotFacts
  <2>4. s \in TreeSlots(link)
    BY <2>2, <2>3 DEF TreeSlots
  <2>5. Move(p, w) = [slot |-> s, above |-> w.slot]
    BY <1>2 DEF Move
  <2>6. Towards(p, s)
    BY <1>2, <2>2, <2>3 DEF Towards, GoesOn
  <2>7. ASSUME w.slot # RootSlot
        PROVE  Len(KeyOf[w.slot[1]]) < Len(KeyOf[n])
    <3>1. w.slot[1] \in Nodes /\ w.slot[2] \in Bits /\ w.slot = <<w.slot[1], w.slot[2]>>
      BY <2>1, <2>2, <2>7, OneParent
    <3>2. link[<<w.slot[1], w.slot[2]>>] = n /\ n # Null
      BY <2>2, <3>1, NodesHaveKeys
    <3>3. Len(KeyOf[n]) > Len(KeyOf[w.slot[1]])
      BY <3>1, <3>2 DEF Ordered
    <3>4. Len(KeyOf[n]) \in Nat /\ Len(KeyOf[w.slot[1]]) \in Nat
      BY <2>2, <3>1, NodesHaveKeys
    <3> QED
      BY <3>3, <3>4
  <2>8. Move(p, w).slot = s /\ Move(p, w).above = w.slot
    BY <2>5
  <2>9. Move(p, w) \in [slot : Slots, above : Slots]
    BY <2>1, <2>3, <2>5
  <2> HIDE DEF s
  <2>10. Towards(p, w.slot)
    BY DEF WalkOK
  <2>11. WalkOK(p, Move(p, w))
    BY <2>1, <2>3, <2>4, <2>6, <2>8, <2>9, <2>10 DEF WalkOK
  <2> QED
    BY <2>3, <2>7, <2>8, <2>11
<1> QED
  BY <1>1, <1>2

\* The walk ends in a place where it cannot go on.
LEMMA WalkLemma ==
  ASSUME link \in Links, Ordered(link), NEW p \in Keys
  PROVE  WalkOK(p, Walk(p)) /\ ~GoesOn(p, StopSlot(p))
<1> DEFINE D == [slot : Slots, above : Slots]
           first == [slot |-> RootSlot, above |-> RootSlot]
           Good == {w \in D : WalkOK(p, w)}
           step == [w \in Good |-> Move(p, w)]
           N == Width + 1
           Body(f) == [i \in 0 .. N |-> IF i = 0 THEN first ELSE Move(p, f[i - 1])]
           Step == CHOOSE f : f = Body(f)
<1>1. Width \in Nat /\ N \in Nat
  BY NodesHaveKeys
<1>2. first \in Good
  <2>1. RootSlot \in TreeSlots(link)
    BY DEF TreeSlots
  <2> QED
    BY <2>1, SlotFacts DEF WalkOK, Towards
<1>3. \A w \in Good : WalkOK(p, w) /\ Move(p, w) \in Good
  <2> SUFFICES ASSUME NEW w \in Good
               PROVE  WalkOK(p, w) /\ Move(p, w) \in Good
    OBVIOUS
  <2>1. WalkOK(p, w)
    OBVIOUS
  <2>2. WalkOK(p, Move(p, w))
    BY <2>1, MoveLemma
  <2>3. Move(p, w) \in D
    BY <2>2 DEF WalkOK
  <2> QED
    BY <2>1, <2>2, <2>3
<1> HIDE DEF Good, first, D
<1>4. step \in [Good -> Good] /\ \A w \in Good : step[w] = Move(p, w)
  BY <1>3
<1>5. PICK f : IsIteration(f, Good, first, step, N)
  <2> HIDE DEF step, N
  <2> QED
    BY <1>1, <1>2, <1>4, Iterates
<1>6. /\ f \in [0 .. N -> Good] /\ f[0] = first
      /\ \A i \in 1 .. N : f[i] = Move(p, f[i - 1])
  <2>1. f \in [0 .. N -> Good] /\ f[0] = first /\ \A i \in 1 .. N : f[i] = step[f[i - 1]]
    BY <1>5 DEF IsIteration
  <2>2. ASSUME NEW i \in 1 .. N
        PROVE  f[i] = Move(p, f[i - 1])
    <3>1. f[i - 1] \in Good
      BY <1>1, <2>1
    <3> HIDE DEF step
    <3> QED
      BY <1>4, <2>1, <3>1
  <2> QED
    BY <2>1, <2>2
<1> HIDE DEF step
<1>7. f = Body(f)
  <2>1. \A i \in 0 .. N : f[i] = Body(f)[i]
    BY <1>1, <1>6
  <2>2. Body(f) = [i \in 0 .. N |-> Body(f)[i]]
    OBVIOUS
  <2>3. f = [i \in 0 .. N |-> f[i]]
    BY <1>6
  <2> QED
    BY <2>1, <2>2, <2>3
<1>8. Step = Body(Step)
  <2> HIDE DEF Body
  <2> QED
    BY <1>7
<1>9. Walk(p) = Step[N]
  BY DEF Walk, Move, GoesOn, first
<1> HIDE DEF Step
<1>10. Step[0] = first /\ \A i \in 1 .. N : Step[i] = Move(p, Step[i - 1])
  <2>1. \A i \in 0 .. N : Body(Step)[i] = IF i = 0 THEN first ELSE Move(p, Step[i - 1])
    OBVIOUS
  <2> HIDE DEF Body
  <2>2. \A i \in 0 .. N : Step[i] = IF i = 0 THEN first ELSE Move(p, Step[i - 1])
    BY <1>8, <2>1
  <2> QED
    BY <1>1, <2>2
<1> DEFINE Behind(i) ==
             /\ Step[i] \in Good
             /\ GoesOn(p, Step[i].slot) =>
                   \/ i = 0
                   \/ /\ Step[i].slot # RootSlot
                      /\ Len(KeyOf[Step[i].slot[1]]) >= i - 1
           S == {i \in Nat : i \in 0 .. N => Behind(i)}
<1>11. 0 .. N \subseteq S
  <2>1. 0 \in S
    BY <1>2, <1>10
  <2>2. ASSUME NEW i \in 1 .. N, i - 1 \in S
        PROVE  i \in S
    <3> DEFINE v == Step[i - 1]
               w == Step[i]
    <3>1. i \in Nat /\ i - 1 \in Nat /\ i - 1 \in 0 .. N
      BY <1>1
    <3>2. /\ v \in Good
          /\ GoesOn(p, v.slot) => i - 1 = 0 \/ /\ v.slot # RootSlot
                                               /\ Len(KeyOf[v.slot[1]]) >= (i - 1) - 1
      BY <2>2, <3>1
    <3>3. w = Move(p, v)
      BY <1>10
    <3> HIDE DEF v, w
    <3>4. w \in Good /\ WalkOK(p, v) /\ WalkOK(p, w)
      BY <1>3, <3>2, <3>3
    <3>5. ASSUME GoesOn(p, w.slot)
          PROVE  w.slot # RootSlot /\ Len(KeyOf[w.slot[1]]) >= i - 1
      <4>1. GoesOn(p, v.slot)
        BY <3>3, <3>5 DEF Move
      <4>2. /\ w.slot # RootSlot
            /\ v.slot # RootSlot => Len(KeyOf[v.slot[1]]) < Len(KeyOf[w.slot[1]])
        BY <3>3, <3>4, <4>1, MoveLemma
      <4>3. Tree(link) \subseteq Nodes
        BY TreeLemma
      <4>4. w.slot[1] \in Nodes /\ (v.slot # RootSlot => v.slot[1] \in Nodes)
        BY <3>4, <4>2, <4>3, OneParent DEF WalkOK
      <4>5. /\ Len(KeyOf[w.slot[1]]) \in Nat
            /\ v.slot # RootSlot => Len(KeyOf[v.slot[1]]) \in Nat
        BY <4>4, NodesHaveKeys
      <4>6. \/ i - 1 = 0
            \/ v.slot # RootSlot /\ Len(KeyOf[v.slot[1]]) >= (i - 1) - 1
        BY <3>2, <4>1
      <4>7. ASSUME i - 1 # 0
            PROVE  Len(KeyOf[w.slot[1]]) >= i - 1
        <5>1. v.slot # RootSlot
          BY <4>6, <4>7
        <5>2. /\ Len(KeyOf[v.slot[1]]) >= (i - 1) - 1
              /\ Len(KeyOf[v.slot[1]]) < Len(KeyOf[w.slot[1]])
              /\ Len(KeyOf[v.slot[1]]) \in Nat
          BY <4>2, <4>5, <4>6, <4>7, <5>1
        <5> QED
          BY ONLY <3>1, <4>5, <5>2
      <4> QED
        BY <3>1, <4>2, <4>5, <4>7
    <3> QED
      BY <3>1, <3>4, <3>5 DEF w
  <2> HIDE DEF S
  <2> QED
    BY <1>1, <2>1, <2>2, CountUp
<1>12. Behind(N)
  BY <1>1, <1>11
<1>13. WalkOK(p, Step[N])
  BY <1>3, <1>12
<1>14. ~GoesOn(p, Step[N].slot)
  <2>1. SUFFICES ASSUME GoesOn(p, Step[N].slot)
                 PROVE  FALSE
    OBVIOUS
  <2>2. Step[N].slot # RootSlot /\ Len(KeyOf[Step[N].slot[1]]) >= Width
    BY <1>1, <1>12, <2>1
  <2>3. Step[N].slot \in TreeSlots(link) /\ Tree(link) \subseteq Nodes
    BY <1>13, TreeLemma DEF WalkOK
  <2>4. Len(KeyOf[Step[N].slot[1]]) < Len(KeyOf[link[Step[N].slot]])
    BY <1>13, <2>1, <2>2, MoveLemma DEF Move
  <2>5. Step[N].slot[1] \in Nodes /\ link[Step[N].slot] \in Nodes
    BY <2>1, <2>2, <2>3, OneParent DEF GoesOn
  <2>6. /\ Len(KeyOf[Step[N].slot[1]]) \in Nat
        /\ Len(KeyOf[link[Step[N].slot]]) \in Nat
        /\ Len(KeyOf[link[Step[N].slot]]) <= Width
    BY <2>5, NodesHaveKeys
  <2> QED
    BY ONLY <1>1, <2>2, <2>4, <2>6
<1> QED
  BY <1>9, <1>13, <1>14 DEF StopSlot

\* The node with key p is where the walk for p ends, if the tree has one.
LEMMA WalkFinds ==
  ASSUME link \in Links, Ordered(link), NEW p \in Keys, NEW m \in Tree(link),
         KeyOf[m] = p
  PROVE  StopNode(p) = m
<1> DEFINE s == StopSlot(p)
           n == link[s]
<1>1. /\ s \in TreeSlots(link) /\ Towards(p, s) /\ ~GoesOn(p, s)
  BY WalkLemma DEF WalkOK, StopSlot
<1>2. Tree(link) \subseteq Nodes
  BY TreeLemma
<1> HIDE DEF s
<1>3. n # Null /\ Matches(KeyOf[n], p)
  <2>1. CASE s = RootSlot
    BY <1>2, <2>1, RootMatches, NodesHaveKeys
  <2>2. CASE s # RootSlot
    <3>1. /\ s[1] \in Tree(link) /\ s = <<s[1], s[2]>> /\ m # s[1]
          /\ Matches(KeyOf[s[1]], KeyOf[m]) /\ s[2] = BitAt(p, Len(KeyOf[s[1]]))
      BY <1>1, <2>2, OneParent DEF Towards
    <3> QED
      BY <3>1, AllPlaced DEF Placed
  <2> QED
    BY <2>1, <2>2
<1>4. n \in Tree(link) /\ n \in Nodes
  BY <1>1, <1>2, <1>3, OneParent
<1>5. ~(Len(KeyOf[n]) < Len(p))
  BY <1>1, <1>3 DEF GoesOn
<1>6. KeyOf[n] = p
  <2>1. KeyOf[n] \in Keys /\ Len(KeyOf[n]) \in Nat /\ Len(p) \in Nat /\ Width \in Nat
    BY <1>4, NodesHaveKeys, KeyTypes
  <2>2. Len(p) <= Len(KeyOf[n])
    BY <1>5, <2>1
  <2> QED
    BY <1>3, <2>1, <2>2, MatchOrder
<1>7. n = m
  BY <1>4, <1>6, AllPlaced DEF Placed
<1> QED
  BY <1>7 DEF StopNode, s

-----------------------------------------------------------------------------
(* The table, and the allocator's choice *)

\* The table binds a prefix to the value of the node with its key.
LEMMA TableLemma ==
  ASSUME NEW lnk \in Links, Ordered(lnk), NEW val
  PROVE  /\ DOMAIN Table(lnk, val) = Prefixes
         /\ Table(lnk, val) = [p \in Prefixes |-> Table(lnk, val)[p]]
         /\ \A n \in Tree(lnk), p \in Prefixes :
               KeyOf[n] = p => Table(lnk, val)[p] = val[n]
         /\ \A p \in Prefixes :
               (\A n \in Tree(lnk) : KeyOf[n] # p) => Table(lnk, val)[p] = Null
<1>1. ASSUME NEW n \in Tree(lnk), NEW p \in Prefixes, KeyOf[n] = p
      PROVE  Table(lnk, val)[p] = val[n]
  <2>1. \A m \in Tree(lnk) : KeyOf[m] = p => m = n
    BY <1>1, AllPlaced DEF Placed
  <2>2. (CHOOSE m \in Tree(lnk) : KeyOf[m] = p) = n
    BY <1>1, <2>1
  <2> QED
    BY <1>1, <2>2 DEF Table
<1>2. ASSUME NEW p \in Prefixes, \A n \in Tree(lnk) : KeyOf[n] # p
      PROVE  Table(lnk, val)[p] = Null
  BY <1>2 DEF Table
<1> QED
  BY <1>1, <1>2 DEF Table

\* The same tree with the same values is the same table.
LEMMA SameTable ==
  ASSUME NEW lnk \in Links, Ordered(lnk), NEW new \in Links, Ordered(new),
         NEW val, NEW newVal, Tree(new) = Tree(lnk),
         \A n \in Tree(lnk) : newVal[n] = val[n]
  PROVE  Table(new, newVal) = Table(lnk, val)
<1>1. \A p \in Prefixes : Table(new, newVal)[p] = Table(lnk, val)[p]
  <2> SUFFICES ASSUME NEW p \in Prefixes
               PROVE  Table(new, newVal)[p] = Table(lnk, val)[p]
    OBVIOUS
  <2>1. CASE \E n \in Tree(lnk) : KeyOf[n] = p
    BY <2>1, TableLemma
  <2>2. CASE \A n \in Tree(lnk) : KeyOf[n] # p
    BY <2>2, TableLemma
  <2> QED
    BY <2>1, <2>2
<1>2. Table(new, newVal) = [p \in Prefixes |-> Table(new, newVal)[p]]
  BY TableLemma
<1>3. Table(lnk, val) = [p \in Prefixes |-> Table(lnk, val)[p]]
  BY TableLemma
<1> QED
  BY <1>1, <1>2, <1>3

\* The table is one of values.
LEMMA TableType ==
  ASSUME NEW lnk \in Links, Ordered(lnk), NEW val \in [Nodes -> Values \cup {Null}]
  PROVE  Table(lnk, val) \in [Prefixes -> Values \cup {Null}]
<1>1. Tree(lnk) \subseteq Nodes
  BY TreeLemma
<1>2. ASSUME NEW p \in Prefixes
      PROVE  Table(lnk, val)[p] \in Values \cup {Null}
  <2>1. CASE \E n \in Tree(lnk) : KeyOf[n] = p
    BY <1>1, <2>1, TableLemma
  <2>2. CASE \A n \in Tree(lnk) : KeyOf[n] # p
    BY <2>2, TableLemma
  <2> QED
    BY <2>1, <2>2
<1>3. Table(lnk, val) = [p \in Prefixes |-> Table(lnk, val)[p]]
  BY TableLemma
<1> HIDE DEF Null
<1> QED
  BY <1>2, <1>3

\* Among the bound prefixes that cover an address, LongestMatch picks one
\* that no other is longer than.
LEMMA LongestLemma ==
  ASSUME NEW tbl, NEW a
  PROVE  \/ Bound(tbl, a) = {} /\ LongestMatch(tbl, a) = Null
         \/ \E p \in Bound(tbl, a) :
               /\ LongestMatch(tbl, a) = tbl[p]
               /\ \A q \in Bound(tbl, a) : Len(q) <= Len(p)
<1>1. CASE Bound(tbl, a) = {}
  BY <1>1 DEF LongestMatch
<1>2. CASE Bound(tbl, a) # {}
  <2> DEFINE rest == {Width - Len(p) : p \in Bound(tbl, a)}
  <2>1. /\ Width \in Nat
        /\ \A p \in Bound(tbl, a) : Len(p) \in Nat /\ Width - Len(p) \in Nat
    BY TrieAssumption, KeyTypes DEF Bound
  <2>2. rest \in SUBSET Nat /\ rest # {}
    BY <1>2, <2>1
  <2>3. PICK least \in rest : \A n \in rest : least <= n
    <3> HIDE DEF rest
    <3> QED
      BY <2>2, LeastNumber
  <2>4. PICK p \in Bound(tbl, a) : least = Width - Len(p)
    BY <2>3
  <2>5. \A q \in Bound(tbl, a) : Len(q) <= Len(p)
    <3> SUFFICES ASSUME NEW q \in Bound(tbl, a)
                 PROVE  Len(q) <= Len(p)
      OBVIOUS
    <3>1. Width - Len(p) <= Width - Len(q)
      BY <2>3, <2>4
    <3>2. Len(p) \in Nat /\ Len(q) \in Nat
      BY <2>1
    <3> QED
      BY <2>1, <3>1, <3>2
  <2> HIDE DEF rest
  <2> DEFINE Top(r) == \A q \in Bound(tbl, a) : Len(q) <= Len(r)
             top == CHOOSE r \in Bound(tbl, a) : Top(r)
  <2>6. LongestMatch(tbl, a) = tbl[top]
    BY <1>2 DEF LongestMatch
  <2>7. \E r \in Bound(tbl, a) : Top(r)
    BY <2>5
  <2> HIDE DEF Top
  <2>8. top \in Bound(tbl, a) /\ Top(top)
    BY <2>7
  <2> HIDE DEF top
  <2> QED
    BY <2>6, <2>8 DEF Top
<1> QED
  BY <1>1, <1>2

\* operator new finds one of the free addresses.
LEMMA LowestLemma ==
  ASSUME NEW S \in SUBSET Nat, S # {}
  PROVE  Lowest(S) \in S
<1>1. \E o \in S : \A u \in S : o <= u
  BY LeastNumber
<1> QED
  BY <1>1 DEF Lowest

-----------------------------------------------------------------------------
(* The invariant *)

\* The types of the variables, with counters that may be any number.
Typed ==
    /\ link \in Links
    /\ value \in [Nodes -> Values \cup {Null}]
    /\ size \in Int /\ nodes \in Int
    /\ life \in [Allocations -> {"free", "live", "retired"}]
    /\ deferred \in BOOLEAN
    /\ wpc \in WriterSteps
    /\ doomed \in SUBSET Allocations
    /\ place \in [slot : Slots, above : Slots]
    /\ rpc \in [Readers -> {"idle", "root", "value", "child", "done"}]
    /\ addr \in [Readers -> Addresses \cup {<< >>}]
    /\ at \in [Readers -> Nodes \cup {Null}]
    /\ best \in [Readers -> Values \cup {Null}]
    /\ mayHold \in [Readers -> SUBSET Allocations]
    /\ stable \in [Readers -> SUBSET Prefixes]
    /\ changes \in [Readers -> Int]
    /\ could \in [Readers -> SUBSET (Values \cup {Null})]

\* A free address is blank: operator delete and a new node's constructor.
FreeClean ==
    \A n \in Nodes : life[n] = "free" =>
        value[n] = Null /\ \A d \in Bits : link[<<n, d>>] = Null

\* A node owns its value alone, and the value is bound to the node's prefix.
ValuesOK ==
    \A n \in Nodes : value[n] # Null =>
        /\ EntryOf[value[n]] = KeyOf[n]
        /\ life[value[n]] = "live" /\ value[n] \notin doomed
        /\ \A m \in Nodes \ {n} : value[m] # value[n]

\* What is linked is live, what the writer is about to retire is live and
\* unlinked, and nothing else is live but the values that nodes own.
Owned ==
    /\ \A n \in Tree(link) : life[n] = "live" /\ n \notin doomed
    /\ \A o \in doomed : life[o] = "live"
    /\ \A o \in Allocations :
          life[o] = "live" =>
              \/ o \in Tree(link) \cup doomed
              \/ \E n \in Nodes : value[n] = o

\* The heap and what is linked in it.
HeapOK == Ordered(link) /\ FreeClean /\ ValuesOK /\ Owned

\* The slot of the erased node, and the one that links that slot's owner.
PlaceLinked ==
    /\ place.slot \in TreeSlots(link) /\ place.above \in TreeSlots(link)
    /\ IF place.slot = RootSlot THEN place.above = RootSlot
                                ELSE link[place.above] = place.slot[1]

\* What the writer knows at each of its steps.
PlaceOK ==
    /\ wpc = "idle" => doomed = {}
    /\ wpc \in {"replaced", "erased"} => doomed \subseteq Values
    /\ wpc \in {"pruned", "collapsed"} =>
          \E x \in Nodes : doomed = {x} /\ value[x] = Null
    /\ wpc \in {"prune", "collapse"} => doomed = {}
    /\ wpc = "cleared" => Tree(link) = {} /\ doomed \subseteq Nodes
    /\ wpc \in {"erased", "prune", "pruned", "collapse"} => PlaceLinked
    /\ wpc \in {"erased", "prune"} =>
          link[place.slot] # Null /\ value[link[place.slot]] = Null

\* What a reader may hold is not free and leads to nothing but what it may
\* hold, and all that can be reached is among it.
HeldOK ==
    \A r \in Readers :
        /\ ~Guarded(r) => mayHold[r] = {}
        /\ Guarded(r) => Reachable(link, value) \subseteq mayHold[r]
        /\ \A o \in mayHold[r] : life[o] # "free"
        /\ \A n \in mayHold[r] \cap Nodes :
              /\ \A d \in Bits : link[<<n, d>>] # Null => link[<<n, d>>] \in mayHold[r]
              /\ value[n] # Null => value[n] \in mayHold[r]
        /\ \A n \in Nodes : value[n] \in mayHold[r] => n \in mayHold[r]

\* A reader stands on what it may hold.
StandsOK ==
    \A r \in Readers :
        /\ at[r] # Null => at[r] \in mayHold[r]
        /\ best[r] # Null => best[r] \in mayHold[r]
        /\ Guarded(r) => addr[r] \in Addresses
        /\ rpc[r] \in {"idle", "root"} => at[r] = Null /\ best[r] = Null
        /\ rpc[r] = "child" => at[r] # Null /\ Matches(KeyOf[at[r]], addr[r])
                               /\ Len(KeyOf[at[r]]) < Width

\* The memory of the trie: the part of the invariant that stands by itself.
SafeInv == Typed /\ HeapOK /\ PlaceOK /\ HeldOK /\ StandsOK

\* Memory is retired on the spot only while no reader is in a guard.
Alone == deferred \/ \A r \in Readers : ~Guarded(r)

-----------------------------------------------------------------------------
(* insert: the tree grows *)

\* What operator new returns.
LEMMA Fresh ==
  ASSUME Typed, NEW k
  PROVE  /\ FreeNodes(k) # {} =>
               NewNode(k) \in Nodes /\ KeyOf[NewNode(k)] = k /\ life[NewNode(k)] = "free"
         /\ FreeValues(k) # {} =>
               /\ NewValue(k) \in Values /\ EntryOf[NewValue(k)] = k
               /\ life[NewValue(k)] = "free" /\ NewValue(k) # Null
<1>1. FreeNodes(k) \in SUBSET Nat /\ FreeValues(k) \in SUBSET Nat
  BY TrieAssumption DEF FreeNodes, FreeValues
<1>2. FreeNodes(k) # {} => NewNode(k) \in FreeNodes(k)
  BY <1>1, LowestLemma DEF NewNode
<1>3. FreeValues(k) # {} => NewValue(k) \in FreeValues(k)
  BY <1>1, LowestLemma DEF NewValue
<1> QED
  BY <1>2, <1>3, TrieAssumption DEF FreeNodes, FreeValues

\* The tree gains a node n with a value for p and the nodes `more` that it
\* takes to hang n where it belongs, which branch in two, and no link is lost.
Grows(p, n, more) ==
    /\ n \in Nodes /\ more \in SUBSET Nodes /\ n \notin more /\ KeyOf[n] = p
    /\ \A m \in {n} \cup more : life[m] = "free" /\ m \notin Tree(link)
    /\ NewValue(p) \in Values /\ EntryOf[NewValue(p)] = p
    /\ life[NewValue(p)] = "free" /\ NewValue(p) # Null
    /\ link' \in Links /\ Ordered(link')
    /\ Tree(link') = Tree(link) \cup {n} \cup more
    /\ \A m \in Nodes \ Tree(link'), d \in Bits : link'[<<m, d>>] = link[<<m, d>>]
    /\ \A m \in more, d \in Bits : link'[<<m, d>>] # Null
    /\ \A m \in Tree(link), d \in Bits : link[<<m, d>>] # Null => link'[<<m, d>>] # Null
    /\ value' = [value EXCEPT ![n] = NewValue(p)]
    /\ life' = [o \in Allocations |->
                   IF o \in {n, NewValue(p)} \cup more THEN "live" ELSE life[o]]

\* What the writer's walk for p has found.
LEMMA StopLemma ==
  ASSUME Typed, HeapOK, NEW p \in Prefixes
  PROVE  /\ p \in Keys /\ Len(p) \in Nat
         /\ StopSlot(p) \in Slots /\ StopSlot(p) \in TreeSlots(link)
         /\ link[StopSlot(p)] = StopNode(p)
         /\ StopSlot(p) # RootSlot =>
               /\ StopSlot(p)[1] \in Tree(link) /\ StopSlot(p)[1] \in Nodes
               /\ StopSlot(p)[2] \in Bits
               /\ StopSlot(p) = <<StopSlot(p)[1], StopSlot(p)[2]>>
               /\ Matches(KeyOf[StopSlot(p)[1]], p)
               /\ Len(KeyOf[StopSlot(p)[1]]) < Len(p)
               /\ StopSlot(p)[2] = BitAt(p, Len(KeyOf[StopSlot(p)[1]]))
         /\ StopNode(p) # Null =>
               /\ StopNode(p) \in Tree(link) /\ StopNode(p) \in Nodes
               /\ StopSlot(p) # RootSlot =>
                     /\ Matches(KeyOf[StopSlot(p)[1]], KeyOf[StopNode(p)])
                     /\ Len(KeyOf[StopSlot(p)[1]]) < Len(KeyOf[StopNode(p)])
                     /\ StopSlot(p)[2] =
                           BitAt(KeyOf[StopNode(p)], Len(KeyOf[StopSlot(p)[1]]))
<1>1. link \in Links /\ Ordered(link)
  BY DEF Typed, HeapOK
<1>2. p \in Keys /\ Len(p) \in Nat
  <2>1. p \in Keys
    BY TrieAssumption
  <2> QED
    BY <2>1, NodesHaveKeys, KeyTypes
<1> DEFINE s == StopSlot(p)
<1>3. s \in TreeSlots(link) /\ Towards(p, s)
  BY <1>1, <1>2, WalkLemma DEF WalkOK, StopSlot
<1>4. Tree(link) \subseteq Nodes
  BY <1>1, TreeLemma
<1>5. link[s] = StopNode(p)
  BY DEF StopNode
<1> HIDE DEF s
<1>6. /\ s \in Slots
      /\ s # RootSlot => s[1] \in Tree(link) /\ s[2] \in Bits /\ s = <<s[1], s[2]>>
      /\ link[s] # Null => link[s] \in Tree(link)
  BY <1>1, <1>3, OneParent
<1>7. s # RootSlot =>
         /\ Matches(KeyOf[s[1]], p) /\ Len(KeyOf[s[1]]) < Len(p)
         /\ s[2] = BitAt(p, Len(KeyOf[s[1]]))
  BY <1>3 DEF Towards
<1>8. ASSUME s # RootSlot, link[s] # Null
      PROVE  /\ Matches(KeyOf[s[1]], KeyOf[link[s]])
             /\ Len(KeyOf[s[1]]) < Len(KeyOf[link[s]])
             /\ s[2] = BitAt(KeyOf[link[s]], Len(KeyOf[s[1]]))
  <2>1. s[1] \in Nodes /\ s[2] \in Bits /\ link[<<s[1], s[2]>>] = link[s] /\ link[s] \in Nodes
    BY <1>4, <1>6, <1>8
  <2>2. /\ Matches(KeyOf[s[1]], KeyOf[link[s]])
        /\ Len(KeyOf[link[s]]) > Len(KeyOf[s[1]])
        /\ s[2] = BitAt(KeyOf[link[s]], Len(KeyOf[s[1]]))
    BY <1>1, <1>8, <2>1 DEF Ordered
  <2> QED
    BY <2>1, <2>2, NodesHaveKeys
<1> QED
  BY <1>2, <1>3, <1>4, <1>5, <1>6, <1>7, <1>8 DEF s

\* Nodes at free addresses are no part of the tree and link nothing.
LEMMA FreeOutside ==
  ASSUME Typed, HeapOK, NEW n \in Nodes, life[n] = "free"
  PROVE  /\ n \notin Tree(link)
         /\ value[n] = Null /\ \A d \in Bits : link[<<n, d>>] = Null
BY DEF HeapOK, Owned, FreeClean

\* insert_boxed() at a null slot.
LEMMA LeafGrows ==
  ASSUME Typed, HeapOK, NEW p \in Prefixes, InsertLeaf(p)
  PROVE  Grows(p, NewNode(p), {})
<1> DEFINE n == NewNode(p)
           s == StopSlot(p)
<1>1. /\ link \in Links /\ Ordered(link) /\ Room(p, p) /\ StopNode(p) = Null
      /\ link' = [link EXCEPT ![s] = n]
      /\ value' = [value EXCEPT ![n] = NewValue(p)]
      /\ life' = [o \in Allocations |->
                     IF o \in {n, NewValue(p)} \cup {} THEN "live" ELSE life[o]]
  BY DEF Typed, HeapOK, InsertLeaf, Publish
<1>2. /\ n \in Nodes /\ KeyOf[n] = p /\ life[n] = "free"
      /\ NewValue(p) \in Values /\ EntryOf[NewValue(p)] = p
      /\ life[NewValue(p)] = "free" /\ NewValue(p) # Null
  BY <1>1, Fresh DEF Room
<1>3. n \notin Tree(link) /\ value[n] = Null /\ \A d \in Bits : link[<<n, d>>] = Null
  BY <1>2, FreeOutside
<1>4. /\ s \in Slots /\ s \in TreeSlots(link) /\ link[s] = Null
      /\ s # RootSlot =>
            /\ s[1] \in Tree(link) /\ s[1] \in Nodes /\ s = <<s[1], s[2]>>
            /\ Matches(KeyOf[s[1]], p) /\ Len(KeyOf[s[1]]) < Len(p)
            /\ s[2] = BitAt(p, Len(KeyOf[s[1]]))
  BY <1>1, StopLemma
<1> HIDE DEF n, s
<1>5. link' \in Links /\ link'[s] = n /\ \A t \in Slots : t # s => link'[t] = link[t]
  BY <1>1, <1>2, <1>4 DEF Links
<1>6. \A m \in Nodes, d \in Bits : m # s[1] => link'[<<m, d>>] = link[<<m, d>>]
  BY <1>5, SlotFacts
<1>7. Ordered(link')
  <2> SUFFICES ASSUME NEW m \in Nodes, NEW d \in Bits, link'[<<m, d>>] # Null
               PROVE  LET k == KeyOf[link'[<<m, d>>]]
                      IN  /\ Len(k) > Len(KeyOf[m]) /\ Matches(KeyOf[m], k)
                          /\ BitAt(k, Len(KeyOf[m])) = d
    BY DEF Ordered
  <2>1. CASE <<m, d>> = s
    <3>1. s # RootSlot /\ s[1] = m /\ s[2] = d
      BY <2>1, SlotFacts
    <3>2. Len(KeyOf[m]) \in Nat /\ Len(p) \in Nat
      BY <1>2, NodesHaveKeys
    <3> QED
      BY <1>2, <1>4, <1>5, <2>1, <3>1, <3>2
  <2>2. CASE <<m, d>> # s
    BY <1>1, <1>5, <2>2, SlotFacts DEF Ordered
  <2> QED
    BY <2>1, <2>2
<1>8. \A d \in Bits : link'[<<n, d>>] = Null
  <2>1. s # RootSlot => s[1] # n
    BY <1>3, <1>4
  <2> QED
    BY <1>2, <1>3, <1>5, <2>1, SlotFacts
<1>9. Tree(link') = Tree(link) \cup {n}
  <2>1. \A t \in TreeSlots(link) : t # s => link'[t] = link[t]
    BY <1>1, <1>5, OneParent
  <2> DEFINE N == {n}
  <2>2. N \in SUBSET Nodes /\ N \cap Tree(link) = {} /\ link'[s] \in N
    BY <1>2, <1>3, <1>5
  <2>3. \A m \in N, d \in Bits : link'[<<m, d>>] \in N \cup {link[s], Null}
    BY <1>8
  <2>4. \A m \in N : m = link'[s] \/ \E o \in N, d \in Bits : m = link'[<<o, d>>]
    BY <1>5
  <2>5. link[s] # Null => \E m \in N, d \in Bits : link'[<<m, d>>] = link[s]
    BY <1>4
  <2> HIDE DEF N
  <2>6. Graft(link, link', s, N)
    BY <1>4, <2>1, <2>2, <2>3, <2>4, <2>5 DEF Graft
  <2>7. Tree(link') = Tree(link) \cup N
    BY <1>1, <1>5, <1>7, <2>6, GraftedTree
  <2> QED
    BY <2>7 DEF N
<1>10. \A m \in Nodes \ Tree(link'), d \in Bits : link'[<<m, d>>] = link[<<m, d>>]
  <2> SUFFICES ASSUME NEW m \in Nodes \ Tree(link'), NEW d \in Bits
               PROVE  link'[<<m, d>>] = link[<<m, d>>]
    OBVIOUS
  <2>1. <<m, d>> # s
    BY <1>4, <1>9, SlotFacts
  <2> QED
    BY <1>5, <2>1, SlotFacts
<1>11. ASSUME NEW m \in Tree(link), NEW d \in Bits, link[<<m, d>>] # Null
       PROVE  link'[<<m, d>>] # Null
  <2>1. m \in Nodes /\ n # Null
    BY <1>1, <1>2, TreeLemma, NodesHaveKeys
  <2> QED
    BY <1>5, <1>11, <2>1, SlotFacts
<1> QED
  BY <1>1, <1>2, <1>3, <1>5, <1>7, <1>9, <1>10, <1>11 DEF Grows, n

\* The new prefix contains the node where the walk ends.
LEMMA AboveGrows ==
  ASSUME Typed, HeapOK, NEW p \in Prefixes, InsertAbove(p)
  PROVE  Grows(p, NewNode(p), {})
<1> DEFINE n == NewNode(p)
           s == StopSlot(p)
           old == StopNode(p)
           b == BitAt(KeyOf[old], Len(p))
<1>1. /\ link \in Links /\ Ordered(link) /\ Room(p, p) /\ old # Null
      /\ Len(p) < Len(KeyOf[old]) /\ Matches(p, KeyOf[old])
      /\ link' = [link EXCEPT ![<<n, b>>] = old, ![s] = n]
      /\ value' = [value EXCEPT ![n] = NewValue(p)]
      /\ life' = [o \in Allocations |->
                     IF o \in {n, NewValue(p)} \cup {} THEN "live" ELSE life[o]]
  BY DEF Typed, HeapOK, InsertAbove, Publish
<1>2. /\ n \in Nodes /\ KeyOf[n] = p /\ life[n] = "free"
      /\ NewValue(p) \in Values /\ EntryOf[NewValue(p)] = p
      /\ life[NewValue(p)] = "free" /\ NewValue(p) # Null
  BY <1>1, Fresh DEF Room
<1>3. n \notin Tree(link) /\ \A d \in Bits : link[<<n, d>>] = Null
  BY <1>2, FreeOutside
<1>4. /\ s \in Slots /\ s \in TreeSlots(link) /\ link[s] = old
      /\ old \in Tree(link) /\ old \in Nodes
      /\ s # RootSlot =>
            /\ s[1] \in Tree(link) /\ s[1] \in Nodes /\ s = <<s[1], s[2]>>
            /\ Matches(KeyOf[s[1]], p) /\ Len(KeyOf[s[1]]) < Len(p)
            /\ s[2] = BitAt(p, Len(KeyOf[s[1]]))
      /\ p \in Keys /\ Len(p) \in Nat
  BY <1>1, StopLemma
<1>5. b \in Bits /\ Len(KeyOf[old]) \in Nat
  BY <1>1, <1>4, NodesHaveKeys, KeyTypes
<1> HIDE DEF n, s, old, b
<1>6. <<n, b>> \in Slots /\ <<n, b>> # s /\ s[1] # n
  <2>1. s # RootSlot => s[1] # n
    BY <1>3, <1>4
  <2> QED
    BY <1>2, <1>5, <2>1, SlotFacts
<1>7. /\ link' \in Links /\ link'[s] = n /\ link'[<<n, b>>] = old
      /\ \A t \in Slots : t # s /\ t # <<n, b>> => link'[t] = link[t]
  BY <1>1, <1>2, <1>4, <1>6 DEF Links
<1>8. /\ \A m \in Nodes, d \in Bits : m # s[1] /\ m # n => link'[<<m, d>>] = link[<<m, d>>]
      /\ \A d \in Bits : link'[<<n, d>>] \in {old, Null}
  <2>1. ASSUME NEW m \in Nodes, NEW d \in Bits
        PROVE  /\ m # s[1] /\ m # n => link'[<<m, d>>] = link[<<m, d>>]
               /\ m = n /\ d # b => link'[<<m, d>>] = link[<<m, d>>]
    <3>1. /\ <<m, d>> \in Slots /\ <<m, d>>[1] = m /\ <<m, d>>[2] = d
          /\ <<n, b>>[1] = n /\ <<n, b>>[2] = b
      BY SlotFacts
    <3> QED
      BY <1>6, <1>7, <3>1
  <2> QED
    BY <1>2, <1>3, <1>7, <2>1
<1>9. Ordered(link')
  <2> SUFFICES ASSUME NEW m \in Nodes, NEW d \in Bits, link'[<<m, d>>] # Null
               PROVE  LET k == KeyOf[link'[<<m, d>>]]
                      IN  /\ Len(k) > Len(KeyOf[m]) /\ Matches(KeyOf[m], k)
                          /\ BitAt(k, Len(KeyOf[m])) = d
    BY DEF Ordered
  <2>1. CASE <<m, d>> = s
    <3>1. s # RootSlot /\ s[1] = m /\ s[2] = d
      BY <2>1, SlotFacts
    <3>2. Len(KeyOf[m]) \in Nat
      BY NodesHaveKeys
    <3> QED
      BY <1>2, <1>4, <1>7, <2>1, <3>1, <3>2
  <2>2. CASE <<m, d>> = <<n, b>>
    <3>1. m = n /\ d = b
      BY <2>2
    <3> QED
      BY <1>1, <1>2, <1>4, <1>5, <1>7, <3>1 DEF b
  <2>3. CASE <<m, d>> # s /\ <<m, d>> # <<n, b>>
    <3>1. link'[<<m, d>>] = link[<<m, d>>]
      BY <1>7, <2>3, SlotFacts
    <3> QED
      BY <1>1, <3>1 DEF Ordered
  <2> QED
    BY <2>1, <2>2, <2>3
<1>10. Tree(link') = Tree(link) \cup {n}
  <2>1. \A t \in TreeSlots(link) : t # s => link'[t] = link[t]
    <3> SUFFICES ASSUME NEW t \in TreeSlots(link), t # s
                 PROVE  link'[t] = link[t]
      OBVIOUS
    <3>1. t \in Slots /\ t # <<n, b>>
      BY <1>1, <1>2, <1>3, <1>5, OneParent, SlotFacts
    <3> QED
      BY <1>7, <3>1
  <2> DEFINE N == {n}
  <2>2. N \subseteq Nodes /\ N \cap Tree(link) = {} /\ link'[s] \in N
    BY <1>2, <1>3, <1>7
  <2>3. \A m \in N, d \in Bits : link'[<<m, d>>] \in N \cup {link[s], Null}
    BY <1>4, <1>8
  <2>4. \A m \in N : m = link'[s] \/ \E o \in N, d \in Bits : m = link'[<<o, d>>]
    BY <1>7
  <2>5. link[s] # Null => \E m \in N, d \in Bits : link'[<<m, d>>] = link[s]
    BY <1>4, <1>5, <1>7
  <2> HIDE DEF N
  <2>6. Graft(link, link', s, N)
    BY <1>4, <2>1, <2>2, <2>3, <2>4, <2>5 DEF Graft
  <2>7. Tree(link') = Tree(link) \cup N
    BY <1>1, <1>7, <1>9, <2>6, GraftedTree
  <2> QED
    BY <2>7 DEF N
<1>11. \A m \in Nodes \ Tree(link'), d \in Bits : link'[<<m, d>>] = link[<<m, d>>]
  <2> SUFFICES ASSUME NEW m \in Nodes \ Tree(link'), NEW d \in Bits
               PROVE  link'[<<m, d>>] = link[<<m, d>>]
    OBVIOUS
  <2>1. m # s[1] /\ m # n
    BY <1>4, <1>10, SlotFacts
  <2> QED
    BY <1>8, <2>1
<1>12. ASSUME NEW m \in Tree(link), NEW d \in Bits, link[<<m, d>>] # Null
       PROVE  link'[<<m, d>>] # Null
  <2>1. m \in Nodes /\ n # Null /\ m # n
    BY <1>1, <1>2, <1>3, TreeLemma, NodesHaveKeys
  <2> QED
    BY <1>7, <1>12, <2>1, SlotFacts
<1> QED
  BY <1>1, <1>2, <1>3, <1>7, <1>9, <1>10, <1>11, <1>12 DEF Grows, n

\* split(): the keys diverge below what they share.
LEMMA SplitGrows ==
  ASSUME Typed, HeapOK, NEW p \in Prefixes, InsertSplit(p)
  PROVE  Grows(p, NewNode(p),
               {NewNode(SubSeq(p, 1, Shared(KeyOf[StopNode(p)], p)))})
<1> DEFINE s == StopSlot(p)
           old == StopNode(p)
           shared == Shared(KeyOf[old], p)
           key == SubSeq(p, 1, shared)
           branch == NewNode(key)
           leaf == NewNode(p)
           b == BitAt(KeyOf[old], shared)
<1>1. /\ link \in Links /\ Ordered(link) /\ Room(p, p) /\ Room(key, p) /\ old # Null
      /\ shared < Shorter(KeyOf[old], p)
      /\ link' = SplitLinks(s, branch, old, b, leaf)
      /\ value' = [value EXCEPT ![leaf] = NewValue(p)]
      /\ life' = [o \in Allocations |->
                     IF o \in {leaf, NewValue(p)} \cup {branch} THEN "live" ELSE life[o]]
  BY DEF Typed, HeapOK, InsertSplit, Publish
<1>2. /\ leaf \in Nodes /\ KeyOf[leaf] = p /\ life[leaf] = "free"
      /\ branch \in Nodes /\ KeyOf[branch] = key /\ life[branch] = "free"
      /\ NewValue(p) \in Values /\ EntryOf[NewValue(p)] = p
      /\ life[NewValue(p)] = "free" /\ NewValue(p) # Null
  BY <1>1, Fresh DEF Room
<1>3. /\ leaf \notin Tree(link) /\ \A d \in Bits : link[<<leaf, d>>] = Null
      /\ branch \notin Tree(link) /\ \A d \in Bits : link[<<branch, d>>] = Null
  BY <1>2, FreeOutside
<1>4. /\ s \in Slots /\ s \in TreeSlots(link) /\ link[s] = old
      /\ old \in Tree(link) /\ old \in Nodes
      /\ s # RootSlot =>
            /\ s[1] \in Tree(link) /\ s[1] \in Nodes /\ s = <<s[1], s[2]>>
            /\ s[2] \in Bits
            /\ Matches(KeyOf[s[1]], p) /\ Len(KeyOf[s[1]]) < Len(p)
            /\ s[2] = BitAt(p, Len(KeyOf[s[1]]))
            /\ Matches(KeyOf[s[1]], KeyOf[old])
            /\ Len(KeyOf[s[1]]) < Len(KeyOf[old])
            /\ s[2] = BitAt(KeyOf[old], Len(KeyOf[s[1]]))
      /\ p \in Keys /\ Len(p) \in Nat
  BY <1>1, StopLemma
<1>5. KeyOf[old] \in Keys /\ Len(KeyOf[old]) \in Nat /\ Width \in Nat
  BY <1>4, NodesHaveKeys
<1>6. /\ shared \in Nat /\ key \in Keys /\ Len(key) = shared
      /\ Matches(key, KeyOf[old]) /\ Matches(key, p)
      /\ shared < Len(KeyOf[old]) /\ shared < Len(p)
      /\ BitAt(KeyOf[old], shared) # BitAt(p, shared)
      /\ b \in Bits /\ BitAt(p, shared) \in Bits
      /\ \A c \in Keys : Matches(c, KeyOf[old]) /\ Matches(c, p) => Len(c) <= shared
  BY <1>1, <1>4, <1>5, BranchKey
<1> DEFINE nb == 1 - b
<1>7. nb \in Bits /\ nb # b /\ BitAt(p, shared) = nb /\ Bits = {b, nb}
  BY <1>6 DEF Bits
<1>8. leaf # branch
  BY <1>2, <1>6
<1> HIDE DEF s, old, shared, key, branch, leaf, b
<1>9. s # RootSlot =>
         /\ Len(KeyOf[s[1]]) < shared
         /\ Matches(KeyOf[s[1]], key)
         /\ s[2] = BitAt(key, Len(KeyOf[s[1]]))
  <2> SUFFICES ASSUME s # RootSlot
               PROVE  /\ Len(KeyOf[s[1]]) < shared
                      /\ Matches(KeyOf[s[1]], key)
                      /\ s[2] = BitAt(key, Len(KeyOf[s[1]]))
    OBVIOUS
  <2> DEFINE q == KeyOf[s[1]]
             c == SubSeq(p, 1, Len(q) + 1)
  <2>1. q \in Keys /\ Len(q) \in Nat /\ Len(q) < Len(p) /\ Len(q) < Len(KeyOf[old])
    BY <1>4, NodesHaveKeys
  <2>2. Len(q) + 1 \in 0 .. Len(p)
    BY <1>4, <2>1
  <2>3. c \in Keys /\ Len(c) = Len(q) + 1 /\ Matches(c, p)
    BY <1>4, <1>5, <2>2, PrefixesAreKeys
  <2>4. BitAt(p, Len(q)) = BitAt(KeyOf[old], Len(q))
    BY <1>4
  <2>5. Matches(q, p) /\ Matches(q, KeyOf[old])
    BY <1>4
  <2> HIDE DEF q, c
  <2>6. Matches(c, KeyOf[old])
    <3>1. ASSUME NEW i \in 1 .. Len(c)
          PROVE  c[i] = KeyOf[old][i]
      <4>1. c[i] = p[i]
        BY <2>3 DEF Matches
      <4>2. CASE i = Len(q) + 1
        BY <2>4, <4>1, <4>2 DEF BitAt
      <4>3. CASE i # Len(q) + 1
        <5>1. i \in 1 .. Len(q)
          BY <2>1, <2>3, <4>3
        <5> QED
          BY <2>5, <4>1, <5>1 DEF Matches
      <4> QED
        BY <4>2, <4>3
    <3> QED
      BY <1>5, <2>1, <2>3, <3>1 DEF Matches
  <2>7. Len(q) + 1 <= shared
    BY <1>6, <2>3, <2>6
  <2>8. Len(q) < shared /\ Matches(q, key)
    <3>1. Len(q) < shared
      BY <1>6, <2>1, <2>7
    <3> QED
      BY <1>4, <1>5, <1>6, <2>1, <2>5, <3>1, MatchOrder
  <2>9. BitAt(key, Len(q)) = BitAt(p, Len(q))
    BY <1>4, <1>5, <1>6, <2>1, <2>8, MatchBits
  <2> QED
    BY <1>4, <2>8, <2>9 DEF q
<1>10. /\ <<branch, b>> \in Slots /\ <<branch, nb>> \in Slots
       /\ <<branch, b>> # <<branch, nb>> /\ s[1] # branch /\ s[1] # leaf
       /\ s # <<branch, b>> /\ s # <<branch, nb>>
       /\ <<branch, b>>[1] = branch /\ <<branch, nb>>[1] = branch
  <2>1. s # RootSlot => s[1] # branch /\ s[1] # leaf
    BY <1>3, <1>4
  <2>2. s[1] # branch /\ s[1] # leaf
    BY <1>2, <2>1, SlotFacts
  <2> QED
    BY <1>2, <1>6, <1>7, <2>2, SlotFacts
<1>11. /\ link' \in Links /\ link'[s] = branch
       /\ link'[<<branch, b>>] = old /\ link'[<<branch, nb>>] = leaf
       /\ \A t \in Slots : t # s /\ t # <<branch, b>> /\ t # <<branch, nb>> =>
             link'[t] = link[t]
  <2>1. link' = [link EXCEPT ![<<branch, b>>] = old, ![<<branch, nb>>] = leaf,
                             ![s] = branch]
    BY <1>1 DEF SplitLinks
  <2> HIDE DEF nb
  <2> QED
    BY <1>1, <1>2, <1>4, <1>10, <2>1 DEF Links
<1> HIDE DEF nb
<1>12. \A m \in Nodes, d \in Bits :
          m # s[1] /\ m # branch => link'[<<m, d>>] = link[<<m, d>>]
  <2> SUFFICES ASSUME NEW m \in Nodes, NEW d \in Bits, m # s[1], m # branch
               PROVE  link'[<<m, d>>] = link[<<m, d>>]
    OBVIOUS
  <2>1. <<m, d>> \in Slots /\ <<m, d>>[1] = m
    BY SlotFacts
  <2> QED
    BY <1>10, <1>11, <2>1
<1>13. Ordered(link')
  <2> SUFFICES ASSUME NEW m \in Nodes, NEW d \in Bits, link'[<<m, d>>] # Null
               PROVE  LET k == KeyOf[link'[<<m, d>>]]
                      IN  /\ Len(k) > Len(KeyOf[m]) /\ Matches(KeyOf[m], k)
                          /\ BitAt(k, Len(KeyOf[m])) = d
    BY DEF Ordered
  <2>1. CASE <<m, d>> = s
    <3>1. s # RootSlot /\ s[1] = m /\ s[2] = d
      BY <2>1, SlotFacts
    <3>2. Len(KeyOf[m]) \in Nat
      BY NodesHaveKeys
    <3> QED
      BY <1>2, <1>6, <1>9, <1>11, <2>1, <3>1, <3>2
  <2>2. CASE m = branch /\ d = b
    BY <1>2, <1>5, <1>6, <1>11, <2>2 DEF b
  <2>3. CASE m = branch /\ d = nb
    BY <1>2, <1>4, <1>6, <1>7, <1>11, <2>3
  <2>4. CASE <<m, d>> # s /\ m # branch
    <3>1. <<m, d>> # <<branch, b>> /\ <<m, d>> # <<branch, nb>>
      BY <2>4
    <3> QED
      BY <1>1, <1>11, <2>4, <3>1, SlotFacts DEF Ordered
  <2> QED
    BY <1>7, <2>1, <2>2, <2>3, <2>4
<1>14. \A d \in Bits : link'[<<leaf, d>>] = Null
  BY <1>2, <1>3, <1>8, <1>10, <1>12
<1>15. Tree(link') = Tree(link) \cup {leaf} \cup {branch}
  <2>1. \A t \in TreeSlots(link) : t # s => link'[t] = link[t]
    <3> SUFFICES ASSUME NEW t \in TreeSlots(link), t # s
                 PROVE  link'[t] = link[t]
      OBVIOUS
    <3>1. t \in Slots /\ (t = RootSlot \/ t[1] \in Tree(link))
      BY <1>1, OneParent
    <3>2. t # <<branch, b>> /\ t # <<branch, nb>>
      BY <1>2, <1>3, <1>6, <1>7, <1>10, <3>1, SlotFacts
    <3> QED
      BY <1>11, <3>1, <3>2
  <2> DEFINE N == {leaf, branch}
  <2>2. N \subseteq Nodes /\ N \cap Tree(link) = {} /\ link'[s] \in N
    BY <1>2, <1>3, <1>11
  <2>3. \A m \in N, d \in Bits : link'[<<m, d>>] \in N \cup {link[s], Null}
    BY <1>4, <1>7, <1>11, <1>14
  <2>4. \A m \in N : m = link'[s] \/ \E o \in N, d \in Bits : m = link'[<<o, d>>]
    BY <1>7, <1>11
  <2>5. link[s] # Null => \E m \in N, d \in Bits : link'[<<m, d>>] = link[s]
    BY <1>4, <1>6, <1>11
  <2> HIDE DEF N
  <2>6. Graft(link, link', s, N)
    BY <1>4, <2>1, <2>2, <2>3, <2>4, <2>5 DEF Graft
  <2>7. Tree(link') = Tree(link) \cup N
    BY <1>1, <1>11, <1>13, <2>6, GraftedTree
  <2> QED
    BY <2>7 DEF N
<1>16. \A m \in Nodes \ Tree(link'), d \in Bits : link'[<<m, d>>] = link[<<m, d>>]
  <2> SUFFICES ASSUME NEW m \in Nodes \ Tree(link'), NEW d \in Bits
               PROVE  link'[<<m, d>>] = link[<<m, d>>]
    OBVIOUS
  <2>1. m # s[1] /\ m # branch
    BY <1>4, <1>15, SlotFacts
  <2> QED
    BY <1>12, <2>1
<1>17. \A d \in Bits : link'[<<branch, d>>] # Null
  BY <1>1, <1>2, <1>7, <1>11, NodesHaveKeys
<1>18. ASSUME NEW m \in Tree(link), NEW d \in Bits, link[<<m, d>>] # Null
       PROVE  link'[<<m, d>>] # Null
  <2>1. m \in Nodes /\ branch # Null /\ m # branch
    BY <1>1, <1>2, <1>3, TreeLemma, NodesHaveKeys
  <2> QED
    BY <1>11, <1>18, <2>1, SlotFacts
<1>19. Grows(p, leaf, {branch})
  BY <1>1, <1>2, <1>3, <1>8, <1>11, <1>13, <1>15, <1>16, <1>17, <1>18 DEF Grows
<1> QED
  BY <1>19 DEF leaf, branch, key, shared, old

-----------------------------------------------------------------------------
(* What the readers of a store may hold *)

\* What can be reached is allocated.
LEMMA ReachableType ==
  ASSUME NEW lnk \in Links, Ordered(lnk), NEW val \in [Nodes -> Values \cup {Null}]
  PROVE  /\ Tree(lnk) \subseteq Nodes
         /\ Reachable(lnk, val) \subseteq Allocations
         /\ \A n \in Tree(lnk) : n \in Reachable(lnk, val)
         /\ \A n \in Tree(lnk) : val[n] # Null => val[n] \in Reachable(lnk, val)
         /\ \A o \in Reachable(lnk, val) :
               o \in Tree(lnk) \/ \E n \in Tree(lnk) : o = val[n] /\ val[n] # Null
         /\ \A n \in Nodes : n \notin Values
<1>1. Tree(lnk) \subseteq Nodes
  BY TreeLemma
<1>2. \A n \in Tree(lnk) : val[n] \in Values \cup {Null}
  BY <1>1
<1>3. \A n \in Nodes : n \notin Values
  BY TrieAssumption
<1> HIDE DEF Null
<1> QED
  BY <1>1, <1>2, <1>3 DEF Reachable, Allocations

\* The histories that Watch keeps have their types.
LEMMA WatchTyped ==
  ASSUME Typed, link' \in Links, Ordered(link'),
         value' \in [Nodes -> Values \cup {Null}], Watch
  PROVE  /\ mayHold' \in [Readers -> SUBSET Allocations]
         /\ stable' \in [Readers -> SUBSET Prefixes]
         /\ changes' \in [Readers -> Int]
         /\ could' \in [Readers -> SUBSET (Values \cup {Null})]
<1> DEFINE now == Table(link', value')
<1>1. Reachable(link', value') \subseteq Allocations
  BY ReachableType
<1>2. \A a : LongestMatch(now, a) \in Values \cup {Null}
  <2> SUFFICES ASSUME NEW a
               PROVE  LongestMatch(now, a) \in Values \cup {Null}
    OBVIOUS
  <2>1. now \in [Prefixes -> Values \cup {Null}]
    BY TableType
  <2>2. Bound(now, a) \subseteq Prefixes
    BY DEF Bound
  <2> HIDE DEF now
  <2> QED
    BY <2>1, <2>2, LongestLemma
<1> HIDE DEF now
<1>3. /\ mayHold' = [r \in Readers |->
               IF Guarded(r) THEN mayHold[r] \cup Reachable(link', value') ELSE {}]
      /\ stable' = [r \in Readers |->
               IF Guarded(r) THEN stable[r] \cap Bound(now, addr[r]) ELSE {}]
      /\ changes' = [r \in Readers |->
               IF Guarded(r) /\ now # table THEN changes[r] + 1 ELSE changes[r]]
      /\ could' = [r \in Readers |->
               IF Guarded(r) THEN could[r] \cup {LongestMatch(now, addr[r])} ELSE {}]
  BY DEF Watch, now
<1>4. /\ mayHold \in [Readers -> SUBSET Allocations]
      /\ stable \in [Readers -> SUBSET Prefixes]
      /\ changes \in [Readers -> Int]
      /\ could \in [Readers -> SUBSET (Values \cup {Null})]
  BY DEF Typed
<1>5. mayHold' \in [Readers -> SUBSET Allocations]
  BY <1>1, <1>3, <1>4
<1>6. stable' \in [Readers -> SUBSET Prefixes]
  BY <1>3, <1>4
<1>7. changes' \in [Readers -> Int]
  BY <1>3, <1>4
<1>8. could' \in [Readers -> SUBSET (Values \cup {Null})]
  BY <1>2, <1>3, <1>4
<1> QED
  BY <1>5, <1>6, <1>7, <1>8

\* A store that leaves what is outside the tree alone, and frees nothing,
\* keeps the readers' promise.
LEMMA StoreHeld ==
  ASSUME Typed, HeapOK, HeldOK, StandsOK, Typed', HeapOK',
         \A n \in Nodes \ Tree(link') :
            value'[n] = value[n] /\ \A d \in Bits : link'[<<n, d>>] = link[<<n, d>>],
         \A o \in Allocations : life[o] # "free" => life'[o] # "free",
         UNCHANGED reader, Watch
  PROVE  HeldOK' /\ StandsOK'
<1>1. /\ Tree(link') \subseteq Nodes
      /\ Reachable(link', value') \subseteq Allocations
      /\ \A n \in Tree(link') : n \in Reachable(link', value')
      /\ \A n \in Tree(link') : value'[n] # Null => value'[n] \in Reachable(link', value')
      /\ \A o \in Reachable(link', value') :
            o \in Tree(link') \/ \E n \in Tree(link') : o = value'[n] /\ value'[n] # Null
      /\ \A n \in Nodes : n \notin Values
  <2>1. link' \in Links /\ Ordered(link') /\ value' \in [Nodes -> Values \cup {Null}]
    BY DEF Typed, HeapOK
  <2> QED
    BY <2>1, ReachableType
<1>2. \A r \in Readers :
         /\ Guarded(r)' <=> Guarded(r)
         /\ Guarded(r) => mayHold'[r] = mayHold[r] \cup Reachable(link', value')
         /\ ~Guarded(r) => mayHold'[r] = {}
  BY DEF Watch, reader, Guarded
<1>3. \A n \in Tree(link') : life'[n] = "live"
  BY DEF HeapOK, Owned
<1>4. \A n \in Nodes : value'[n] # Null =>
         life'[value'[n]] = "live" /\ \A m \in Nodes \ {n} : value'[m] # value'[n]
  BY DEF HeapOK, ValuesOK
<1>5. \A n \in Tree(link'), d \in Bits :
         link'[<<n, d>>] # Null => link'[<<n, d>>] \in Tree(link')
  <2>1. Closed(link', Tree(link'))
    BY TreeLemma DEF HeapOK, Typed
  <2> QED
    BY <2>1 DEF Closed
<1>6. ASSUME NEW r \in Readers
      PROVE  /\ ~Guarded(r)' => mayHold'[r] = {}
             /\ Guarded(r)' => Reachable(link', value') \subseteq mayHold'[r]
             /\ \A o \in mayHold'[r] : life'[o] # "free"
             /\ \A n \in mayHold'[r] \cap Nodes :
                   /\ \A d \in Bits : link'[<<n, d>>] # Null => link'[<<n, d>>] \in mayHold'[r]
                   /\ value'[n] # Null => value'[n] \in mayHold'[r]
             /\ \A n \in Nodes : value'[n] \in mayHold'[r] => n \in mayHold'[r]
  <2>1. CASE ~Guarded(r)
    BY <1>2, <2>1
  <2>2. CASE Guarded(r)
    <3>1. /\ mayHold'[r] = mayHold[r] \cup Reachable(link', value')
          /\ mayHold[r] \subseteq Allocations
      BY <1>2, <2>2 DEF Typed
    <3>2. /\ \A o \in mayHold[r] : life[o] # "free"
          /\ \A n \in mayHold[r] \cap Nodes :
                /\ \A d \in Bits : link[<<n, d>>] # Null => link[<<n, d>>] \in mayHold[r]
                /\ value[n] # Null => value[n] \in mayHold[r]
          /\ \A n \in Nodes : value[n] \in mayHold[r] => n \in mayHold[r]
      BY DEF HeldOK
    <3>3. \A o \in mayHold'[r] : life'[o] # "free"
      BY <1>1, <1>3, <1>4, <3>1, <3>2
    <3>4. ASSUME NEW n \in mayHold'[r] \cap Nodes
          PROVE  /\ \A d \in Bits : link'[<<n, d>>] # Null => link'[<<n, d>>] \in mayHold'[r]
                 /\ value'[n] # Null => value'[n] \in mayHold'[r]
      <4>1. CASE n \in Tree(link')
        BY <1>1, <1>5, <3>1, <4>1
      <4>2. CASE n \notin Tree(link')
        <5>1. n \in mayHold[r]
          <6>1. \A m \in Nodes : value'[m] # Null => value'[m] \in Values
            BY DEF Typed
          <6> QED
            BY <1>1, <3>1, <3>4, <4>2, <6>1
        <5> QED
          BY <3>1, <3>2, <3>4, <4>2, <5>1
      <4> QED
        BY <4>1, <4>2
    <3>5. ASSUME NEW n \in Nodes, value'[n] \in mayHold'[r]
          PROVE  n \in mayHold'[r]
      <4>1. CASE n \in Tree(link')
        BY <1>1, <3>1, <4>1
      <4>2. CASE n \notin Tree(link')
        <5>1. value'[n] = value[n] /\ value'[n] # Null /\ value'[n] \in Values
          <6>1. Null \notin Allocations
            BY TrieAssumption DEF Allocations
          <6>2. value'[n] # Null
            BY <1>1, <3>1, <3>5, <6>1
          <6> QED
            BY <4>2, <6>2 DEF Typed
        <5>2. value'[n] \in mayHold[r]
          <6>1. CASE value'[n] \in Reachable(link', value')
            <7>1. PICK m \in Tree(link') : value'[n] = value'[m]
              BY <1>1, <5>1, <6>1
            <7> QED
              BY <1>1, <1>4, <4>2, <5>1, <7>1
          <6> QED
            BY <3>1, <3>5, <6>1
        <5> QED
          BY <3>1, <3>2, <5>1, <5>2
      <4> QED
        BY <4>1, <4>2
    <3> QED
      BY <1>2, <2>2, <3>1, <3>3, <3>4, <3>5
  <2> QED
    BY <2>1, <2>2
<1>7. HeldOK'
  BY <1>6 DEF HeldOK
<1>8. StandsOK'
  <2>1. \A r \in Readers : Guarded(r) => mayHold[r] \subseteq mayHold'[r]
    BY <1>2
  <2>2. \A r \in Readers : ~Guarded(r) => at[r] = Null /\ best[r] = Null
    BY DEF StandsOK, Guarded
  <2> QED
    BY <1>2, <2>1, <2>2 DEF StandsOK, reader
<1> QED
  BY <1>7, <1>8

-----------------------------------------------------------------------------
(* The stores of the writer *)

\* A growing tree: insert_boxed() and split().
LEMMA GrowthSafe ==
  ASSUME SafeInv, NEW p, NEW n, NEW more, Grows(p, n, more), wpc = "idle",
         size' \in Int, nodes' \in Int, UNCHANGED <<deferred, writer, reader>>, Watch
  PROVE  SafeInv'
<1>1. /\ Typed /\ HeapOK /\ PlaceOK /\ HeldOK /\ StandsOK
      /\ doomed = {} /\ doomed' = {} /\ wpc' = "idle"
  BY DEF SafeInv, PlaceOK, writer
<1>2. /\ n \in Nodes /\ more \subseteq Nodes /\ n \notin more /\ KeyOf[n] = p
      /\ \A m \in {n} \cup more : life[m] = "free" /\ m \notin Tree(link)
      /\ NewValue(p) \in Values /\ EntryOf[NewValue(p)] = p
      /\ life[NewValue(p)] = "free" /\ NewValue(p) # Null
      /\ link' \in Links /\ Ordered(link')
      /\ Tree(link') = Tree(link) \cup {n} \cup more
      /\ \A m \in Nodes \ Tree(link'), d \in Bits : link'[<<m, d>>] = link[<<m, d>>]
      /\ value' = [value EXCEPT ![n] = NewValue(p)]
      /\ life' = [o \in Allocations |->
                     IF o \in {n, NewValue(p)} \cup more THEN "live" ELSE life[o]]
  BY DEF Grows
<1> DEFINE v == NewValue(p)
<1> HIDE DEF v
<1>3. /\ value' \in [Nodes -> Values \cup {Null}]
      /\ value'[n] = v /\ \A m \in Nodes : m # n => value'[m] = value[m]
      /\ value \in [Nodes -> Values \cup {Null}]
  BY <1>1, <1>2 DEF Typed, v
<1>4. /\ life \in [Allocations -> {"free", "live", "retired"}]
      /\ life' \in [Allocations -> {"free", "live", "retired"}]
      /\ \A o \in Allocations : o = n \/ o = v \/ o \in more => life'[o] = "live"
      /\ \A o \in Allocations : ~(o = n \/ o = v \/ o \in more) => life'[o] = life[o]
  BY <1>1, <1>2 DEF Typed, v
<1>5. /\ \A m \in Nodes : m \in Allocations /\ m \notin Values
      /\ \A b \in Values : b \in Allocations
      /\ n \in Allocations /\ v \in Allocations /\ v \in Values
      /\ \A m \in more : m \in Allocations
  BY <1>2, TrieAssumption DEF Allocations, v
<1>6. Typed'
  <2>1. /\ mayHold' \in [Readers -> SUBSET Allocations]
        /\ stable' \in [Readers -> SUBSET Prefixes]
        /\ changes' \in [Readers -> Int]
        /\ could' \in [Readers -> SUBSET (Values \cup {Null})]
    BY <1>1, <1>2, <1>3, WatchTyped
  <2> QED
    BY <1>1, <1>2, <1>3, <1>4, <2>1 DEF Typed, writer, reader
<1>7. FreeClean'
  <2> SUFFICES ASSUME NEW m \in Nodes, life'[m] = "free"
               PROVE  value'[m] = Null /\ \A d \in Bits : link'[<<m, d>>] = Null
    BY DEF FreeClean
  <2>1. m # n /\ m \notin more /\ life[m] = "free"
    BY <1>4, <1>5
  <2>2. m \notin Tree(link) /\ value[m] = Null /\ \A d \in Bits : link[<<m, d>>] = Null
    BY <1>1, <2>1, FreeOutside
  <2> QED
    BY <1>2, <1>3, <2>1, <2>2
<1>8. \A m \in Nodes : value[m] # v
  BY <1>1, <1>2 DEF HeapOK, ValuesOK, v
<1>9. ValuesOK'
  <2> SUFFICES ASSUME NEW m \in Nodes, value'[m] # Null
               PROVE  /\ EntryOf[value'[m]] = KeyOf[m]
                      /\ life'[value'[m]] = "live" /\ value'[m] \notin doomed'
                      /\ \A o \in Nodes \ {m} : value'[o] # value'[m]
    BY DEF ValuesOK
  <2>1. CASE m = n
    BY <1>1, <1>2, <1>3, <1>4, <1>5, <1>8, <2>1 DEF v
  <2>2. CASE m # n
    <3>1. /\ value'[m] = value[m] /\ value[m] \in Values /\ value[m] # v
          /\ EntryOf[value[m]] = KeyOf[m] /\ life[value[m]] = "live"
          /\ \A o \in Nodes \ {m} : value[o] # value[m]
      BY <1>1, <1>3, <1>8, <2>2 DEF HeapOK, ValuesOK
    <3>2. life'[value[m]] = "live"
      BY <1>4, <1>5, <3>1
    <3> QED
      BY <1>1, <1>3, <3>1, <3>2
  <2> QED
    BY <2>1, <2>2
<1>10. Owned'
  <2>1. \A m \in Tree(link') : life'[m] = "live" /\ m \notin doomed'
    <3>1. Tree(link) \subseteq Nodes
      BY <1>1, TreeLemma DEF Typed, HeapOK
    <3>2. \A m \in Tree(link) : life[m] = "live"
      BY <1>1 DEF HeapOK, Owned
    <3> QED
      BY <1>1, <1>2, <1>4, <1>5, <3>1, <3>2
  <2>2. ASSUME NEW o \in Allocations, life'[o] = "live"
        PROVE  \/ o \in Tree(link') \cup doomed'
               \/ \E m \in Nodes : value'[m] = o
    <3>1. CASE o = n \/ o \in more
      BY <1>2, <3>1
    <3>2. CASE o = v
      BY <1>2, <1>3, <3>2
    <3>3. CASE ~(o = n \/ o = v \/ o \in more)
      <4>1. o \in Tree(link) \/ \E m \in Nodes : value[m] = o
        BY <1>1, <1>4, <2>2, <3>3 DEF HeapOK, Owned
      <4>2. ASSUME NEW m \in Nodes, value[m] = o
            PROVE  value'[m] = o
        <5>1. value[n] = Null
          BY <1>1, <1>2, FreeOutside
        <5>2. m # n
          BY <1>5, <4>2, <5>1, TrieAssumption DEF Allocations
        <5> QED
          BY <1>3, <4>2, <5>2
      <4> QED
        BY <1>2, <4>1, <4>2
    <3> QED
      BY <3>1, <3>2, <3>3
  <2> QED
    BY <1>1, <2>1, <2>2 DEF Owned
<1>11. HeapOK'
  BY <1>2, <1>7, <1>9, <1>10 DEF HeapOK
<1>12. PlaceOK'
  BY <1>1 DEF PlaceOK
<1>13. HeldOK' /\ StandsOK'
  <2>1. \A m \in Nodes \ Tree(link') :
           value'[m] = value[m] /\ \A d \in Bits : link'[<<m, d>>] = link[<<m, d>>]
    BY <1>2, <1>3
  <2>2. \A o \in Allocations : life[o] # "free" => life'[o] # "free"
    BY <1>4
  <2> QED
    BY <1>1, <1>6, <1>11, <2>1, <2>2, StoreHeld
<1> QED
  BY <1>6, <1>11, <1>12, <1>13 DEF SafeInv

\* A tree node's links are different, so it branches exactly if it has two.
LEMMA ChildrenLemma ==
  ASSUME link \in Links, Ordered(link), NEW n \in Tree(link)
  PROVE  /\ Children(n) = {link[<<n, 0>>], link[<<n, 1>>]} \ {Null}
         /\ Cardinality(Children(n)) \in 0 .. 2
         /\ Cardinality(Children(n)) = 2 <=>
               link[<<n, 0>>] # Null /\ link[<<n, 1>>] # Null
<1> DEFINE l == link[<<n, 0>>]
           r == link[<<n, 1>>]
<1>1. Children(n) = {l, r} \ {Null}
  BY DEF Children, Bits
<1>2. l = r => l = Null
  <2>1. <<n, 0>> \in TreeSlots(link) /\ <<n, 1>> \in TreeSlots(link)
    BY DEF TreeSlots, Bits
  <2>2. <<n, 0>> # <<n, 1>>
    OBVIOUS
  <2> QED
    BY <2>1, <2>2, OneParent
<1> HIDE DEF l, r
<1>3. CASE l # Null /\ r # Null
  <2>1. r \notin {l} /\ Children(n) = {l} \cup {r}
    BY <1>1, <1>2, <1>3
  <2>2. IsFiniteSet({l}) /\ Cardinality({l}) = 1
    BY FS_Singleton
  <2>3. Cardinality({l} \cup {r}) = Cardinality({l}) + 1
    BY ONLY <2>1, <2>2, FS_AddElement
  <2>4. Cardinality(Children(n)) = 2
    BY ONLY <2>1, <2>2, <2>3
  <2> QED
    BY <1>1, <1>3, <2>4 DEF l, r
<1>4. CASE l = Null /\ r = Null
  <2>1. Children(n) = {}
    BY <1>1, <1>4
  <2> QED
    BY <1>1, <1>4, <2>1, FS_EmptySet DEF l, r
<1>5. CASE (l = Null) # (r = Null)
  <2>1. \E x : Children(n) = {x}
    BY <1>1, <1>5
  <2>2. Cardinality(Children(n)) = 1
    BY <2>1, FS_Singleton
  <2> QED
    BY <1>1, <1>5, <2>2 DEF l, r
<1> QED
  BY <1>3, <1>4, <1>5

\* What unlinking the node in a slot leaves of the links.
Unhangs(slot) ==
    LET x == link[slot]
    IN  /\ x \in Tree(link) /\ x \in Nodes
        /\ link' \in Links /\ Ordered(link')
        /\ Tree(link') = Tree(link) \ {x}
        /\ slot # RootSlot => slot[1] \in Tree(link')
        /\ \A t \in Slots : t # slot => link'[t] = link[t]
        /\ \A m \in Nodes \ Tree(link'), d \in Bits : link'[<<m, d>>] = link[<<m, d>>]
        /\ link'[slot] \in Children(x) \cup {Null}
        /\ \A d \in Bits : link[<<x, d>>] # Null => link[<<x, d>>] = link'[slot]

\* The store of prune() that takes a node with one child or none out.
LEMMA UnlinkLemma ==
  ASSUME link \in Links, Ordered(link), NEW slot \in TreeSlots(link),
         link[slot] # Null, Cardinality(Children(link[slot])) < 2, Unlink(slot)
  PROVE  Unhangs(slot)
<1> DEFINE x == link[slot]
           c == Survivor(x)
<1>1. /\ Tree(link) \subseteq Nodes /\ x \in Tree(link) /\ x \in Nodes
      /\ slot \in Slots
      /\ slot # RootSlot => /\ slot[1] \in Tree(link) /\ slot[1] \in Nodes
                            /\ slot[2] \in Bits /\ slot = <<slot[1], slot[2]>>
  BY OneParent, TreeLemma
<1>2. /\ ~(link[<<x, 0>>] # Null /\ link[<<x, 1>>] # Null)
      /\ Children(x) = {link[<<x, 0>>], link[<<x, 1>>]} \ {Null}
  BY <1>1, ChildrenLemma
<1>3. link' = [link EXCEPT ![slot] = c]
  BY DEF Unlink
<1> HIDE DEF x
<1>4. /\ c \in Children(x) \cup {Null} /\ c \in Nodes \cup {Null}
      /\ \A d \in Bits : link[<<x, d>>] # Null => link[<<x, d>>] = c
      /\ c # Null => \E d \in Bits : link[<<x, d>>] = c
  <2>1. link[<<x, 0>>] \in Nodes \cup {Null} /\ link[<<x, 1>>] \in Nodes \cup {Null}
    BY <1>1, SlotFacts DEF Links
  <2> QED
    BY <1>2, <2>1 DEF Survivor, Bits
<1> HIDE DEF c
<1>5. link' \in Links /\ link'[slot] = c /\ \A t \in Slots : t # slot => link'[t] = link[t]
  BY <1>1, <1>3, <1>4 DEF Links
<1>6. ASSUME c # Null
      PROVE  /\ c \in Nodes /\ Matches(KeyOf[x], KeyOf[c])
             /\ Len(KeyOf[x]) < Len(KeyOf[c])
  <2>1. PICK d \in Bits : link[<<x, d>>] = c
    BY <1>4, <1>6
  <2>2. c \in Nodes
    BY <1>4, <1>6
  <2>3. Len(KeyOf[c]) > Len(KeyOf[x]) /\ Matches(KeyOf[x], KeyOf[c])
    BY <1>1, <1>6, <2>1 DEF Ordered
  <2> QED
    BY <1>1, <2>2, <2>3, NodesHaveKeys
<1>7. ASSUME slot # RootSlot
      PROVE  /\ Len(KeyOf[slot[1]]) < Len(KeyOf[x]) /\ Matches(KeyOf[slot[1]], KeyOf[x])
             /\ BitAt(KeyOf[x], Len(KeyOf[slot[1]])) = slot[2]
  <2>1. link[<<slot[1], slot[2]>>] = x /\ x # Null
    BY <1>1, <1>7, NodesHaveKeys DEF x
  <2>2. /\ Len(KeyOf[x]) > Len(KeyOf[slot[1]]) /\ Matches(KeyOf[slot[1]], KeyOf[x])
        /\ BitAt(KeyOf[x], Len(KeyOf[slot[1]])) = slot[2]
    BY <1>1, <1>7, <2>1 DEF Ordered
  <2> QED
    BY <1>1, <1>7, <2>2, NodesHaveKeys
<1>8. Ordered(link')
  <2> SUFFICES ASSUME NEW m \in Nodes, NEW d \in Bits, link'[<<m, d>>] # Null
               PROVE  LET k == KeyOf[link'[<<m, d>>]]
                      IN  /\ Len(k) > Len(KeyOf[m]) /\ Matches(KeyOf[m], k)
                          /\ BitAt(k, Len(KeyOf[m])) = d
    BY DEF Ordered
  <2>1. CASE <<m, d>> = slot
    <3>1. slot # RootSlot /\ slot[1] = m /\ slot[2] = d /\ c # Null /\ link'[<<m, d>>] = c
      BY <1>5, <2>1, SlotFacts
    <3>2. /\ c \in Nodes /\ Matches(KeyOf[x], KeyOf[c]) /\ Len(KeyOf[x]) < Len(KeyOf[c])
          /\ Len(KeyOf[m]) < Len(KeyOf[x]) /\ Matches(KeyOf[m], KeyOf[x])
          /\ BitAt(KeyOf[x], Len(KeyOf[m])) = d
      BY <1>6, <1>7, <3>1
    <3>3. /\ KeyOf[m] \in Keys /\ KeyOf[x] \in Keys /\ KeyOf[c] \in Keys /\ Width \in Nat
          /\ Len(KeyOf[m]) \in Nat /\ Len(KeyOf[x]) \in Nat /\ Len(KeyOf[c]) \in Nat
      BY <1>1, <3>2, NodesHaveKeys
    <3>4. Matches(KeyOf[m], KeyOf[c]) /\ Len(KeyOf[c]) > Len(KeyOf[m])
      BY <3>2, <3>3, MatchOrder
    <3>5. BitAt(KeyOf[c], Len(KeyOf[m])) = d
      BY <3>2, <3>3, MatchBits
    <3> QED
      BY <3>1, <3>4, <3>5
  <2>2. CASE <<m, d>> # slot
    BY <1>5, <2>2, SlotFacts DEF Ordered
  <2> QED
    BY <2>1, <2>2
<1>9. Tree(link') = Tree(link) \ {x}
  <2>1. \A t \in TreeSlots(link) : t # slot => link'[t] = link[t]
    BY <1>5, OneParent
  <2>2. Cut(link, link', slot)
    BY <1>1, <1>4, <1>5, <2>1 DEF Cut, x
  <2> QED
    BY <1>5, <1>8, <2>2, PrunedTree DEF x
<1>10. slot # RootSlot => slot[1] \in Tree(link')
  BY <1>1, <1>7, <1>9, NodesHaveKeys
<1>11. \A m \in Nodes \ Tree(link'), d \in Bits : link'[<<m, d>>] = link[<<m, d>>]
  <2> SUFFICES ASSUME NEW m \in Nodes \ Tree(link'), NEW d \in Bits
               PROVE  link'[<<m, d>>] = link[<<m, d>>]
    OBVIOUS
  <2>1. <<m, d>> # slot
    BY <1>10, SlotFacts
  <2> QED
    BY <1>5, <2>1, SlotFacts
<1> QED
  BY <1>1, <1>4, <1>5, <1>8, <1>9, <1>10, <1>11 DEF Unhangs, x

\* The node exists: its value is exchanged.
LEMMA ExchangeSafe ==
  ASSUME SafeInv, NEW p \in Prefixes, InsertExchange(p)
  PROVE  SafeInv'
<1> DEFINE x == StopNode(p)
           v == NewValue(p)
           old == value[x]
<1>1. /\ Typed /\ HeapOK /\ PlaceOK /\ HeldOK /\ StandsOK
      /\ wpc = "idle" /\ doomed = {} /\ FreeValues(p) # {}
      /\ x # Null /\ KeyOf[x] = p
      /\ value' = [value EXCEPT ![x] = v]
      /\ life' = [life EXCEPT ![v] = "live"]
      /\ \/ old = Null /\ UNCHANGED writer /\ size' = size + 1
         \/ old # Null /\ doomed' = {old} /\ wpc' = "replaced" /\ UNCHANGED <<size, place>>
      /\ UNCHANGED <<link, nodes, deferred, reader>> /\ Watch
  BY DEF SafeInv, PlaceOK, InsertExchange, MayBegin
<1>2. /\ x \in Tree(link) /\ x \in Nodes
      /\ v \in Values /\ EntryOf[v] = p /\ life[v] = "free" /\ v # Null
  BY <1>1, StopLemma, Fresh
<1> HIDE DEF x, v
<1>3. /\ value \in [Nodes -> Values \cup {Null}]
      /\ value' \in [Nodes -> Values \cup {Null}]
      /\ value'[x] = v /\ \A m \in Nodes : m # x => value'[m] = value[m]
  BY <1>1, <1>2 DEF Typed
<1>4. /\ \A m \in Nodes : m \in Allocations /\ m \notin Values /\ m # v
      /\ \A b \in Values : b \in Allocations /\ b # Null
      /\ v \in Allocations
  BY <1>2, TrieAssumption DEF Allocations
<1>5. /\ life' \in [Allocations -> {"free", "live", "retired"}]
      /\ life'[v] = "live" /\ \A o \in Allocations : o # v => life'[o] = life[o]
  BY <1>1, <1>4 DEF Typed
<1>6. /\ ValuesOK /\ Owned /\ FreeClean /\ Ordered(link) /\ link \in Links
      /\ Tree(link) \subseteq Nodes
  BY <1>1, TreeLemma DEF HeapOK, Typed
<1>7. \A m \in Nodes : value[m] # v
  BY <1>2, <1>6 DEF ValuesOK
<1>8. doomed' \subseteq {old} \ {Null} /\ (old # Null => old \in doomed' /\ old \in Values)
  BY <1>1, <1>2, <1>3 DEF writer
<1>9. Typed'
  <2>1. /\ mayHold' \in [Readers -> SUBSET Allocations]
        /\ stable' \in [Readers -> SUBSET Prefixes]
        /\ changes' \in [Readers -> Int]
        /\ could' \in [Readers -> SUBSET (Values \cup {Null})]
    BY <1>1, <1>3, <1>6, WatchTyped
  <2>2. doomed' \in SUBSET Allocations /\ wpc' \in WriterSteps /\ place' = place /\ size' \in Int
    BY <1>1, <1>4, <1>8 DEF writer, Typed, WriterSteps
  <2> QED
    BY <1>1, <1>3, <1>5, <2>1, <2>2 DEF Typed, reader
<1>10. FreeClean'
  <2>1. \A m \in Nodes : life'[m] = "free" => life[m] = "free" /\ m # x
    BY <1>2, <1>4, <1>5, <1>6 DEF Owned
  <2> QED
    BY <1>1, <1>3, <1>6, <2>1 DEF FreeClean
<1>11. ValuesOK'
  <2> SUFFICES ASSUME NEW m \in Nodes, value'[m] # Null
               PROVE  /\ EntryOf[value'[m]] = KeyOf[m]
                      /\ life'[value'[m]] = "live" /\ value'[m] \notin doomed'
                      /\ \A o \in Nodes \ {m} : value'[o] # value'[m]
    BY DEF ValuesOK
  <2>1. CASE m = x
    BY <1>1, <1>2, <1>3, <1>5, <1>7, <1>8, <2>1
  <2>2. CASE m # x
    <3>1. /\ value'[m] = value[m] /\ value[m] \in Values /\ value[m] # v
          /\ EntryOf[value[m]] = KeyOf[m] /\ life[value[m]] = "live"
          /\ \A o \in Nodes \ {m} : value[o] # value[m]
      BY <1>3, <1>6, <1>7, <2>2 DEF ValuesOK
    <3>2. life'[value[m]] = "live" /\ value[m] \notin doomed'
      BY <1>2, <1>4, <1>5, <1>8, <2>2, <3>1
    <3>3. \A o \in Nodes \ {m} : value'[o] # value'[m]
      BY <1>3, <3>1
    <3> QED
      BY <3>1, <3>2, <3>3
  <2> QED
    BY <2>1, <2>2
<1>12. Owned'
  <2>1. \A m \in Tree(link') : life'[m] = "live" /\ m \notin doomed'
    BY <1>1, <1>4, <1>5, <1>6, <1>8 DEF Owned
  <2>2. \A o \in doomed' : life'[o] = "live"
    BY <1>2, <1>4, <1>5, <1>6, <1>8 DEF ValuesOK
  <2>3. ASSUME NEW o \in Allocations, life'[o] = "live"
        PROVE  \/ o \in Tree(link') \cup doomed'
               \/ \E m \in Nodes : value'[m] = o
    <3>1. CASE o = v
      BY <1>2, <1>3, <3>1
    <3>2. CASE o # v
      <4>1. o \in Tree(link) \/ \E m \in Nodes : value[m] = o
        BY <1>1, <1>5, <1>6, <2>3, <3>2 DEF Owned
      <4>2. o # Null
        BY TrieAssumption DEF Allocations
      <4> QED
        BY <1>1, <1>3, <1>8, <4>1, <4>2
    <3> QED
      BY <3>1, <3>2
  <2> QED
    BY <2>1, <2>2, <2>3 DEF Owned
<1>13. HeapOK'
  BY <1>1, <1>6, <1>10, <1>11, <1>12 DEF HeapOK
<1>14. PlaceOK'
  BY <1>1, <1>8 DEF PlaceOK, writer
<1>15. HeldOK' /\ StandsOK'
  <2>1. \A m \in Nodes \ Tree(link') :
           value'[m] = value[m] /\ \A d \in Bits : link'[<<m, d>>] = link[<<m, d>>]
    BY <1>1, <1>2, <1>3
  <2>2. \A o \in Allocations : life[o] # "free" => life'[o] # "free"
    BY <1>5
  <2> QED
    BY <1>1, <1>9, <1>13, <2>1, <2>2, StoreHeld
<1> QED
  BY <1>9, <1>13, <1>14, <1>15 DEF SafeInv

\* The first store of erase(): the node loses its value.
LEMMA EraseSafe ==
  ASSUME SafeInv, NEW p \in Prefixes, Erase(p)
  PROVE  SafeInv'
<1> DEFINE x == StopNode(p)
           old == value[x]
<1>1. /\ Typed /\ HeapOK /\ PlaceOK /\ HeldOK /\ StandsOK
      /\ wpc = "idle" /\ doomed = {}
      /\ x # Null /\ KeyOf[x] = p /\ old # Null
      /\ value' = [value EXCEPT ![x] = Null]
      /\ doomed' = {old} /\ wpc' = "erased" /\ place' = Walk(p)
      /\ UNCHANGED <<link, counters, life, deferred, reader>> /\ Watch
  BY DEF SafeInv, PlaceOK, Erase, MayBegin, IsRoute
<1>2. x \in Tree(link) /\ x \in Nodes /\ p \in Keys /\ link[StopSlot(p)] = x
  BY <1>1, StopLemma
<1>3. WalkOK(p, Walk(p)) /\ Walk(p).slot = StopSlot(p)
  BY <1>1, <1>2, WalkLemma DEF HeapOK, Typed, StopSlot
<1> HIDE DEF x
<1>4. /\ value \in [Nodes -> Values \cup {Null}]
      /\ value' \in [Nodes -> Values \cup {Null}]
      /\ value'[x] = Null /\ \A m \in Nodes : m # x => value'[m] = value[m]
      /\ old \in Values
  BY <1>1, <1>2 DEF Typed
<1>5. /\ \A m \in Nodes : m \in Allocations /\ m \notin Values
      /\ \A b \in Values : b \in Allocations
  BY TrieAssumption DEF Allocations
<1>6. /\ ValuesOK /\ Owned /\ FreeClean /\ Ordered(link) /\ link \in Links
      /\ Tree(link) \subseteq Nodes
  BY <1>1, TreeLemma DEF HeapOK, Typed
<1>7. Typed'
  <2>1. /\ mayHold' \in [Readers -> SUBSET Allocations]
        /\ stable' \in [Readers -> SUBSET Prefixes]
        /\ changes' \in [Readers -> Int]
        /\ could' \in [Readers -> SUBSET (Values \cup {Null})]
    BY <1>1, <1>4, <1>6, WatchTyped
  <2>2. doomed' \in SUBSET Allocations /\ wpc' \in WriterSteps
    BY <1>1, <1>4, <1>5 DEF WriterSteps
  <2>3. place' \in [slot : Slots, above : Slots]
    BY <1>1, <1>3 DEF WalkOK
  <2> QED
    BY <1>1, <1>4, <2>1, <2>2, <2>3 DEF Typed, reader, counters
<1>8. FreeClean'
  <2>1. \A m \in Nodes : life'[m] = "free" => life[m] = "free" /\ m # x
    BY <1>1, <1>2, <1>6 DEF Owned
  <2> QED
    BY <1>1, <1>4, <1>6, <2>1 DEF FreeClean
<1>9. ValuesOK'
  <2> SUFFICES ASSUME NEW m \in Nodes, value'[m] # Null
               PROVE  /\ EntryOf[value'[m]] = KeyOf[m]
                      /\ life'[value'[m]] = "live" /\ value'[m] \notin doomed'
                      /\ \A o \in Nodes \ {m} : value'[o] # value'[m]
    BY DEF ValuesOK
  <2>1. /\ m # x /\ value'[m] = value[m]
        /\ EntryOf[value[m]] = KeyOf[m] /\ life[value[m]] = "live"
        /\ \A o \in Nodes \ {m} : value[o] # value[m]
    BY <1>4, <1>6 DEF ValuesOK
  <2>2. value[m] # old
    BY <1>2, <2>1
  <2>3. \A o \in Nodes \ {m} : value'[o] # value'[m]
    BY <1>4, <2>1
  <2> QED
    BY <1>1, <2>1, <2>2, <2>3
<1>10. Owned'
  <2>1. \A m \in Tree(link') : life'[m] = "live" /\ m \notin doomed'
    BY <1>1, <1>4, <1>5, <1>6 DEF Owned
  <2>2. \A o \in doomed' : life'[o] = "live"
    BY <1>1, <1>2, <1>6 DEF ValuesOK
  <2>3. ASSUME NEW o \in Allocations, life'[o] = "live"
        PROVE  \/ o \in Tree(link') \cup doomed'
               \/ \E m \in Nodes : value'[m] = o
    <3>1. o \in Tree(link) \/ \E m \in Nodes : value[m] = o
      BY <1>1, <1>6, <2>3 DEF Owned
    <3> QED
      BY <1>1, <1>4, <3>1
  <2> QED
    BY <2>1, <2>2, <2>3 DEF Owned
<1>11. HeapOK'
  BY <1>1, <1>6, <1>8, <1>9, <1>10 DEF HeapOK
<1>12. PlaceOK'
  <2>1. PlaceLinked'
    BY <1>1, <1>3 DEF PlaceLinked, WalkOK, TreeSlots
  <2>2. link'[place'.slot] = x /\ value'[x] = Null /\ x # Null
    BY <1>1, <1>2, <1>3, <1>4
  <2> QED
    BY <1>1, <1>4, <2>1, <2>2 DEF PlaceOK
<1>13. HeldOK' /\ StandsOK'
  <2>1. \A m \in Nodes \ Tree(link') :
           value'[m] = value[m] /\ \A d \in Bits : link'[<<m, d>>] = link[<<m, d>>]
    BY <1>1, <1>2, <1>4
  <2> QED
    BY <1>1, <1>7, <1>11, <2>1, StoreHeld
<1> QED
  BY <1>7, <1>11, <1>12, <1>13 DEF SafeInv

\* The store that unlinks a valueless node with one child or none.
LEMMA UnlinkSafe ==
  ASSUME SafeInv, NEW slot \in TreeSlots(link), link[slot] # Null,
         value[link[slot]] = Null, Cardinality(Children(link[slot])) < 2,
         Unlink(slot), doomed = {}, doomed' = {link[slot]}, wpc' \in WriterSteps,
         UNCHANGED <<value, counters, life, deferred, place, reader>>, Watch
  PROVE  /\ Typed' /\ HeapOK' /\ HeldOK' /\ StandsOK' /\ Unhangs(slot)
         /\ \E x \in Nodes : doomed' = {x} /\ value'[x] = Null
<1> DEFINE x == link[slot]
<1>1. Typed /\ HeapOK /\ PlaceOK /\ HeldOK /\ StandsOK
  BY DEF SafeInv
<1>2. Unhangs(slot)
  BY <1>1, UnlinkLemma DEF Typed, HeapOK
<1>3. /\ x \in Tree(link) /\ x \in Nodes
      /\ link' \in Links /\ Ordered(link')
      /\ Tree(link') = Tree(link) \ {x}
      /\ \A m \in Nodes \ Tree(link'), d \in Bits : link'[<<m, d>>] = link[<<m, d>>]
  BY <1>2 DEF Unhangs
<1> HIDE DEF x
<1>4. doomed' = {x} /\ value' = value /\ life' = life /\ value[x] = Null
  BY DEF x
<1>5. /\ \A m \in Nodes : m \in Allocations /\ m \notin Values
      /\ value \in [Nodes -> Values \cup {Null}]
  BY <1>1, TrieAssumption DEF Allocations, Typed
<1>6. ValuesOK /\ Owned /\ FreeClean /\ Tree(link) \subseteq Nodes
  BY <1>1, TreeLemma DEF HeapOK, Typed
<1>7. Typed'
  <2>1. /\ mayHold' \in [Readers -> SUBSET Allocations]
        /\ stable' \in [Readers -> SUBSET Prefixes]
        /\ changes' \in [Readers -> Int]
        /\ could' \in [Readers -> SUBSET (Values \cup {Null})]
    BY <1>1, <1>3, <1>4, <1>5, WatchTyped
  <2>2. doomed' \in SUBSET Allocations
    BY <1>3, <1>4, <1>5
  <2> QED
    BY <1>1, <1>3, <1>4, <2>1, <2>2 DEF Typed, reader, counters
<1>8. FreeClean'
  <2>1. \A m \in Nodes : life[m] = "free" => m \notin Tree(link')
    BY <1>3, <1>6 DEF Owned
  <2> QED
    BY <1>3, <1>4, <1>6, <2>1 DEF FreeClean
<1>9. ValuesOK'
  <2>1. \A m \in Nodes : value[m] # Null => value[m] # x
    BY <1>3, <1>5
  <2> QED
    BY <1>4, <1>6, <2>1 DEF ValuesOK
<1>10. Owned'
  <2>1. \A m \in Tree(link') : life[m] = "live" /\ m # x
    BY <1>3, <1>6 DEF Owned
  <2>2. life[x] = "live"
    BY <1>3, <1>6 DEF Owned
  <2>3. \A o \in Allocations :
           life[o] = "live" =>
               o \in Tree(link') \cup {x} \/ \E m \in Nodes : value[m] = o
    BY <1>3, <1>6 DEF Owned
  <2> QED
    BY <1>4, <2>1, <2>2, <2>3 DEF Owned
<1>11. HeapOK'
  BY <1>3, <1>8, <1>9, <1>10 DEF HeapOK
<1>12. HeldOK' /\ StandsOK'
  <2>1. \A m \in Nodes \ Tree(link') :
           value'[m] = value[m] /\ \A d \in Bits : link'[<<m, d>>] = link[<<m, d>>]
    BY <1>3, <1>4
  <2>2. \A o \in Allocations : life[o] # "free" => life'[o] # "free"
    BY <1>4
  <2> QED
    BY <1>1, <1>7, <1>11, <2>1, <2>2, StoreHeld
<1> QED
  BY <1>2, <1>3, <1>4, <1>7, <1>11, <1>12

\* prune() of the erased node.
LEMMA PruneSafe ==
  ASSUME SafeInv, Prune
  PROVE  SafeInv' /\ Unhangs(place.slot)
<1> DEFINE x == link[place.slot]
<1>1. /\ Typed /\ HeapOK /\ PlaceOK /\ wpc = "prune" /\ wpc' = "pruned"
      /\ Cardinality(Children(x)) < 2 /\ Unlink(place.slot) /\ doomed' = {x}
      /\ UNCHANGED <<value, counters, life, deferred, place, reader>> /\ Watch
  BY DEF SafeInv, Prune
<1>2. /\ PlaceLinked /\ doomed = {} /\ x # Null /\ value[x] = Null
      /\ place.slot \in TreeSlots(link) /\ place.above \in TreeSlots(link)
      /\ place' = place
  BY <1>1 DEF PlaceOK, PlaceLinked
<1>3. /\ Typed' /\ HeapOK' /\ HeldOK' /\ StandsOK' /\ Unhangs(place.slot)
      /\ \E o \in Nodes : doomed' = {o} /\ value'[o] = Null
  BY <1>1, <1>2, UnlinkSafe DEF WriterSteps
<1>4. PlaceLinked'
  <2>1. /\ place.slot = RootSlot \/ place.slot[1] \in Tree(link')
        /\ Tree(link') = Tree(link) \ {x} /\ x \in Nodes
        /\ \A t \in Slots : t # place.slot => link'[t] = link[t]
    BY <1>3 DEF Unhangs
  <2>2. /\ place.slot = RootSlot \/ (/\ place.slot[1] \in Tree(link) /\ place.slot[2] \in Bits
                                     /\ place.slot = <<place.slot[1], place.slot[2]>>)
        /\ place.above = RootSlot \/ (/\ place.above[1] \in Tree(link) /\ place.above[2] \in Bits
                                      /\ place.above = <<place.above[1], place.above[2]>>)
        /\ place.above \in Slots
    BY <1>1, <1>2, OneParent DEF HeapOK, Typed
  <2>3. place.slot \in TreeSlots(link')
    BY <2>1, <2>2 DEF TreeSlots
  <2>4. CASE place.slot = RootSlot
    BY <1>2, <2>3, <2>4 DEF PlaceLinked
  <2>5. CASE place.slot # RootSlot
    <3> DEFINE q == place.slot[1]
               u == place.above[1]
    <3>1. q \in Nodes /\ q \in Tree(link) /\ q # Null /\ link[place.above] = q
      BY <1>1, <1>2, <2>2, <2>5, TreeLemma, NodesHaveKeys DEF PlaceLinked, HeapOK, Typed
    <3>2. Len(KeyOf[q]) < Len(KeyOf[x])
      <4>1. link[<<q, place.slot[2]>>] = x
        BY <2>2, <2>5
      <4>2. Len(KeyOf[x]) > Len(KeyOf[q])
        BY <1>1, <1>2, <2>2, <2>5, <3>1, <4>1 DEF HeapOK, Ordered
      <4> QED
        BY <2>1, <3>1, <4>2, NodesHaveKeys
    <3>3. place.above # place.slot
      BY <2>1, <3>1, <3>2, NodesHaveKeys
    <3>4. place.above = RootSlot \/ u # x
      <4> SUFFICES ASSUME place.above # RootSlot, u = x
                   PROVE  FALSE
        OBVIOUS
      <4>1. link[<<x, place.above[2]>>] = q /\ place.above[2] \in Bits
        BY <2>2, <3>1
      <4>2. Len(KeyOf[q]) > Len(KeyOf[x])
        BY <1>1, <2>1, <3>1, <4>1 DEF HeapOK, Ordered
      <4> QED
        BY <2>1, <3>1, <3>2, <4>2, NodesHaveKeys
    <3>5. place.above \in TreeSlots(link')
      BY <2>1, <2>2, <3>4 DEF TreeSlots
    <3>6. link'[place.above] = q
      BY <2>1, <2>2, <3>1, <3>3
    <3> QED
      BY <1>2, <2>3, <2>5, <3>5, <3>6 DEF PlaceLinked
  <2> QED
    BY <2>4, <2>5
<1>5. PlaceOK'
  BY <1>1, <1>3, <1>4 DEF PlaceOK
<1> QED
  BY <1>3, <1>5 DEF SafeInv

\* prune() of the parent that is left with one child or none.
LEMMA CollapseSafe ==
  ASSUME SafeInv, Collapse
  PROVE  SafeInv' /\ Unhangs(place.above) /\ link[place.above] = place.slot[1]
<1> DEFINE x == link[place.above]
<1>1. /\ Typed /\ HeapOK /\ PlaceOK /\ wpc = "collapse" /\ wpc' = "collapsed"
      /\ Collapsible(place.slot[1]) /\ Unlink(place.above) /\ doomed' = {place.slot[1]}
      /\ UNCHANGED <<value, counters, life, deferred, place, reader>> /\ Watch
  BY DEF SafeInv, Collapse
<1>2. PlaceLinked /\ doomed = {} /\ place.above \in TreeSlots(link)
  BY <1>1 DEF PlaceOK, PlaceLinked
<1>3. place.slot # RootSlot
  BY <1>1, SlotFacts DEF Collapsible
<1>4. x = place.slot[1]
  BY <1>2, <1>3 DEF PlaceLinked
<1>5. x # Null /\ value[x] = Null /\ Cardinality(Children(x)) < 2 /\ doomed' = {x}
  BY <1>1, <1>4 DEF Collapsible
<1>6. /\ Typed' /\ HeapOK' /\ HeldOK' /\ StandsOK' /\ Unhangs(place.above)
      /\ \E o \in Nodes : doomed' = {o} /\ value'[o] = Null
  BY <1>1, <1>2, <1>5, UnlinkSafe DEF WriterSteps
<1>7. PlaceOK'
  BY <1>1, <1>6 DEF PlaceOK
<1> QED
  BY <1>4, <1>6, <1>7 DEF SafeInv

\* The store of clear().
LEMMA ClearSafe ==
  ASSUME SafeInv, Clear
  PROVE  SafeInv' /\ Tree(link') = {} /\ value' = value
<1>1. /\ Typed /\ HeapOK /\ PlaceOK /\ HeldOK /\ StandsOK
      /\ wpc = "idle" /\ doomed = {} /\ doomed' = Tree(link) /\ wpc' = "cleared"
      /\ link' = [link EXCEPT ![RootSlot] = Null]
      /\ UNCHANGED <<value, counters, life, deferred, place, reader>> /\ Watch
  BY DEF SafeInv, PlaceOK, Clear, MayBegin
<1>2. /\ ValuesOK /\ Owned /\ FreeClean /\ Ordered(link) /\ link \in Links
      /\ Tree(link) \subseteq Nodes
  BY <1>1, TreeLemma DEF HeapOK, Typed
<1>3. /\ link' \in Links /\ link'[RootSlot] = Null
      /\ \A n \in Nodes, d \in Bits : link'[<<n, d>>] = link[<<n, d>>]
  <2>1. link' \in Links /\ \A t \in Slots : t # RootSlot => link'[t] = link[t]
    BY <1>1, <1>2, SlotFacts DEF Links
  <2>2. link'[RootSlot] = Null
    BY <1>1, <1>2, SlotFacts DEF Links
  <2> QED
    BY <2>1, <2>2, SlotFacts
<1>4. Ordered(link')
  BY <1>2, <1>3 DEF Ordered
<1>5. Tree(link') = {}
  BY <1>3, <1>4, EmptyTree
<1>6. /\ \A m \in Nodes : m \in Allocations /\ m \notin Values
      /\ value \in [Nodes -> Values \cup {Null}] /\ value' = value /\ life' = life
  BY <1>1, TrieAssumption DEF Allocations, Typed
<1>7. Typed'
  <2>1. /\ mayHold' \in [Readers -> SUBSET Allocations]
        /\ stable' \in [Readers -> SUBSET Prefixes]
        /\ changes' \in [Readers -> Int]
        /\ could' \in [Readers -> SUBSET (Values \cup {Null})]
    BY <1>1, <1>3, <1>4, <1>6, WatchTyped
  <2>2. doomed' \in SUBSET Allocations /\ wpc' \in WriterSteps
    BY <1>1, <1>2, <1>6 DEF WriterSteps
  <2> QED
    BY <1>1, <1>3, <1>6, <2>1, <2>2 DEF Typed, reader, counters
<1>8. FreeClean'
  BY <1>2, <1>3, <1>6 DEF FreeClean
<1>9. ValuesOK'
  BY <1>1, <1>2, <1>6 DEF ValuesOK
<1>10. Owned'
  <2>1. \A o \in Tree(link) : life[o] = "live"
    BY <1>2 DEF Owned
  <2>2. \A o \in Allocations :
           life[o] = "live" => o \in Tree(link) \/ \E m \in Nodes : value[m] = o
    BY <1>1, <1>2 DEF Owned
  <2> QED
    BY <1>1, <1>5, <1>6, <2>1, <2>2 DEF Owned
<1>11. HeapOK'
  BY <1>4, <1>8, <1>9, <1>10 DEF HeapOK
<1>12. PlaceOK'
  BY <1>1, <1>2, <1>5 DEF PlaceOK
<1>13. HeldOK' /\ StandsOK'
  BY <1>1, <1>3, <1>6, <1>7, <1>11, StoreHeld
<1> QED
  BY <1>5, <1>6, <1>7, <1>11, <1>12, <1>13 DEF SafeInv

-----------------------------------------------------------------------------
(* The Reclaimer *)

\* What deleting S does to memory that the tree is no part of: the tree keeps
\* its nodes, links and values.
TreeKept ==
    /\ link' \in Links /\ Ordered(link')
    /\ value' \in [Nodes -> Values \cup {Null}]
    /\ Tree(link') = Tree(link)
    /\ \A t \in TreeSlots(link) : link'[t] = link[t]
    /\ \A n \in Tree(link) : value'[n] = value[n]
    /\ \A n \in Nodes : value'[n] \in {value[n], Null}
    /\ \A t \in Slots : link'[t] \in {link[t], Null}

\* operator delete of what nobody links and nobody owns.
LEMMA DeleteLemma ==
  ASSUME Typed, HeapOK, NEW S \in SUBSET Allocations, Delete(S),
         S \cap Tree(link) = {}, \A n \in Nodes : value[n] \notin S,
         doomed' = doomed \ S
  PROVE  /\ HeapOK' /\ TreeKept
         /\ life' \in [Allocations -> {"free", "live", "retired"}]
         /\ \A n \in Nodes : n \notin S =>
               value'[n] = value[n] /\ \A d \in Bits : link'[<<n, d>>] = link[<<n, d>>]
         /\ \A o \in Allocations : life'[o] = "free" =>
               \/ life[o] = "free" \/ o \in S
               \/ \E n \in S \cap Nodes : o = value[n]
<1> DEFINE gone == WithValues(S)
<1>1. /\ link \in Links /\ value \in [Nodes -> Values \cup {Null}]
      /\ life \in [Allocations -> {"free", "live", "retired"}]
      /\ ValuesOK /\ Owned /\ FreeClean /\ Ordered(link) /\ Tree(link) \subseteq Nodes
  BY TreeLemma DEF HeapOK, Typed
<1>2. /\ \A n \in Nodes : n \in Allocations /\ n \notin Values /\ n # Null
      /\ \A b \in Values : b \in Allocations /\ b # Null
      /\ Null \notin Allocations
  BY TrieAssumption DEF Allocations
<1>3. /\ S \subseteq gone
      /\ \A o \in gone : o \in S \/ \E n \in S \cap Nodes : o = value[n] /\ value[n] # Null
      /\ \A n \in S \cap Nodes : value[n] # Null => value[n] \in gone
  BY DEF WithValues
<1> HIDE DEF gone
<1>4. gone \subseteq Allocations
  BY <1>1, <1>2, <1>3
<1>5. \A n \in Nodes : n \in gone <=> n \in S
  BY <1>1, <1>2, <1>3
<1>6. \A n \in Nodes : n \notin S => value[n] \notin gone
  <2> SUFFICES ASSUME NEW n \in Nodes, n \notin S, value[n] \in gone
               PROVE  FALSE
    OBVIOUS
  <2>1. PICK m \in S \cap Nodes : value[n] = value[m] /\ value[m] # Null
    BY <1>3
  <2> QED
    BY <1>1, <2>1 DEF ValuesOK
<1>7. /\ life' = [o \in Allocations |-> IF o \in gone THEN "free" ELSE life[o]]
      /\ value' = [n \in Nodes |-> IF n \in gone THEN Null ELSE value[n]]
      /\ link' = [s \in Slots |-> IF s[1] \in gone THEN Null ELSE link[s]]
  BY DEF Delete, gone
<1>8. life' \in [Allocations -> {"free", "live", "retired"}]
  BY <1>1, <1>7
<1>9. /\ value' \in [Nodes -> Values \cup {Null}]
      /\ \A n \in Nodes : n \in S => value'[n] = Null
      /\ \A n \in Nodes : n \notin S => value'[n] = value[n]
  BY <1>1, <1>5, <1>7
<1>10. /\ link' \in Links
       /\ \A t \in Slots : link'[t] \in {link[t], Null}
       /\ link'[RootSlot] = link[RootSlot]
       /\ \A n \in Nodes, d \in Bits :
             /\ n \in S => link'[<<n, d>>] = Null
             /\ n \notin S => link'[<<n, d>>] = link[<<n, d>>]
  <2>1. \A t \in Slots : link[t] \in Nodes \cup {Null}
    BY <1>1 DEF Links
  <2>2. link' \in Links
    BY <1>7, <2>1 DEF Links
  <2>3. link'[RootSlot] = link[RootSlot]
    BY <1>2, <1>4, <1>7, SlotFacts
  <2>4. ASSUME NEW n \in Nodes, NEW d \in Bits
        PROVE  /\ n \in S => link'[<<n, d>>] = Null
               /\ n \notin S => link'[<<n, d>>] = link[<<n, d>>]
    <3>1. <<n, d>> \in Slots /\ <<n, d>>[1] = n
      BY SlotFacts
    <3> QED
      BY <1>5, <1>7, <3>1
  <2>5. \A t \in Slots : link'[t] \in {link[t], Null}
    BY <1>7
  <2> QED
    BY <2>2, <2>3, <2>4, <2>5
<1>11. Ordered(link')
  BY <1>1, <1>10 DEF Ordered
<1>12. \A t \in TreeSlots(link) : link'[t] = link[t]
  <2> SUFFICES ASSUME NEW t \in TreeSlots(link)
               PROVE  link'[t] = link[t]
    OBVIOUS
  <2>1. CASE t = RootSlot
    BY <1>10, <2>1
  <2>2. CASE t # RootSlot
    <3>1. t[1] \in Tree(link) /\ t[2] \in Bits /\ t = <<t[1], t[2]>>
      BY <1>1, <2>2, OneParent
    <3>2. t[1] \in Nodes /\ t[1] \notin S
      BY <1>1, <3>1
    <3> QED
      BY <1>10, <3>1, <3>2
  <2> QED
    BY <2>1, <2>2
<1>13. Tree(link') = Tree(link)
  BY <1>1, <1>10, <1>11, <1>12, SameTree
<1>14. TreeKept
  BY <1>1, <1>9, <1>10, <1>11, <1>12, <1>13 DEF TreeKept
<1>15. FreeClean'
  <2> SUFFICES ASSUME NEW n \in Nodes, life'[n] = "free"
               PROVE  value'[n] = Null /\ \A d \in Bits : link'[<<n, d>>] = Null
    BY DEF FreeClean
  <2>1. n \in S \/ life[n] = "free"
    BY <1>2, <1>5, <1>7
  <2> QED
    BY <1>1, <1>9, <1>10, <2>1 DEF FreeClean
<1>16. doomed' \subseteq doomed
  OBVIOUS
<1>17. ValuesOK'
  <2> SUFFICES ASSUME NEW n \in Nodes, value'[n] # Null
               PROVE  /\ EntryOf[value'[n]] = KeyOf[n]
                      /\ life'[value'[n]] = "live" /\ value'[n] \notin doomed'
                      /\ \A m \in Nodes \ {n} : value'[m] # value'[n]
    BY DEF ValuesOK
  <2>1. n \notin S /\ value'[n] = value[n] /\ value[n] \notin gone /\ value[n] \in Values
    BY <1>1, <1>6, <1>9
  <2>2. life'[value[n]] = life[value[n]]
    BY <1>2, <1>7, <2>1
  <2>3. \A m \in Nodes \ {n} : value'[m] # value[n]
    BY <1>1, <1>9, <2>1 DEF ValuesOK
  <2> QED
    BY <1>1, <1>16, <2>1, <2>2, <2>3 DEF ValuesOK
<1>18. Owned'
  <2>1. \A n \in Tree(link') : life'[n] = "live" /\ n \notin doomed'
    BY <1>1, <1>2, <1>5, <1>7, <1>13, <1>16 DEF Owned
  <2>2. ASSUME NEW o \in doomed'
        PROVE  life'[o] = "live"
    <3>1. o \in doomed /\ o \notin S /\ o \in Allocations /\ life[o] = "live"
      BY <1>1, <1>16, <2>2 DEF Owned, Typed
    <3>2. o \notin gone
      BY <1>1, <1>3, <3>1 DEF ValuesOK
    <3> QED
      BY <1>7, <3>1, <3>2
  <2>3. ASSUME NEW o \in Allocations, life'[o] = "live"
        PROVE  \/ o \in Tree(link') \cup doomed'
               \/ \E n \in Nodes : value'[n] = o
    <3>1. o \notin gone /\ life[o] = "live"
      BY <1>7, <2>3
    <3>2. CASE o \in Tree(link)
      BY <1>13, <3>2
    <3>3. CASE o \in doomed
      BY <1>3, <3>1, <3>3
    <3>4. CASE \E n \in Nodes : value[n] = o
      <4>1. PICK n \in Nodes : value[n] = o
        BY <3>4
      <4>2. n \notin S
        BY <1>2, <1>3, <3>1, <4>1
      <4> QED
        BY <1>9, <4>1, <4>2
    <3> QED
      BY <1>1, <3>1, <3>2, <3>3, <3>4 DEF Owned
  <2> QED
    BY <2>1, <2>2, <2>3 DEF Owned
<1>19. HeapOK'
  BY <1>11, <1>15, <1>17, <1>18 DEF HeapOK
<1>20. ASSUME NEW o \in Allocations, life'[o] = "free"
       PROVE  life[o] = "free" \/ o \in S \/ \E n \in S \cap Nodes : o = value[n]
  BY <1>3, <1>7, <1>20
<1> QED
  BY <1>8, <1>9, <1>10, <1>14, <1>19, <1>20

\* The promise to the readers outlives a deletion of what none of them holds.
LEMMA DeleteHeld ==
  ASSUME Typed, HeapOK, HeldOK, StandsOK, NEW S \in SUBSET Allocations, Delete(S),
         S \cap Tree(link) = {}, \A n \in Nodes : value[n] \notin S,
         doomed' = doomed \ S,
         \A r \in Readers : S \cap mayHold[r] = {},
         UNCHANGED <<reader, history>>
  PROVE  HeldOK' /\ StandsOK'
<1>1. /\ HeapOK' /\ TreeKept
      /\ \A n \in Nodes : n \notin S =>
            value'[n] = value[n] /\ \A d \in Bits : link'[<<n, d>>] = link[<<n, d>>]
      /\ \A o \in Allocations : life'[o] = "free" =>
            \/ life[o] = "free" \/ o \in S
            \/ \E n \in S \cap Nodes : o = value[n]
  BY DeleteLemma
<1>2. mayHold' = mayHold /\ \A r \in Readers : Guarded(r)' <=> Guarded(r)
  BY DEF history, reader, Guarded
<1>3. Reachable(link', value') = Reachable(link, value)
  BY <1>1 DEF TreeKept, Reachable
<1>4. ASSUME NEW r \in Readers
      PROVE  /\ \A o \in mayHold[r] : life'[o] # "free"
             /\ \A n \in mayHold[r] \cap Nodes :
                   /\ \A d \in Bits : link'[<<n, d>>] # Null => link'[<<n, d>>] \in mayHold[r]
                   /\ value'[n] # Null => value'[n] \in mayHold[r]
             /\ \A n \in Nodes : value'[n] \in mayHold[r] => n \in mayHold[r]
  <2>1. /\ mayHold[r] \subseteq Allocations /\ S \cap mayHold[r] = {}
        /\ \A o \in mayHold[r] : life[o] # "free"
        /\ \A n \in mayHold[r] \cap Nodes :
              /\ \A d \in Bits : link[<<n, d>>] # Null => link[<<n, d>>] \in mayHold[r]
              /\ value[n] # Null => value[n] \in mayHold[r]
        /\ \A n \in Nodes : value[n] \in mayHold[r] => n \in mayHold[r]
    BY DEF HeldOK, Typed
  <2>2. \A o \in mayHold[r] : life'[o] # "free"
    BY <1>1, <2>1
  <2>3. ASSUME NEW n \in Nodes, value'[n] \in mayHold[r]
        PROVE  n \in mayHold[r]
    <3>1. value'[n] \in {value[n], Null}
      BY <1>1 DEF TreeKept
    <3>2. value'[n] # Null
      BY <2>1, <2>3, TrieAssumption DEF Allocations
    <3> QED
      BY <2>1, <2>3, <3>1, <3>2
  <2> QED
    BY <1>1, <2>1, <2>2, <2>3
<1>5. HeldOK'
  BY <1>2, <1>3, <1>4 DEF HeldOK
<1>6. StandsOK'
  BY <1>2 DEF StandsOK, reader
<1> QED
  BY <1>5, <1>6

\* retire() of some of what the writer has unlinked.
LEMMA RetireLemma ==
  ASSUME SafeInv, Alone, NEW S \in SUBSET doomed, Retire(S), doomed' = doomed \ S,
         UNCHANGED <<reader, history>>
  PROVE  /\ HeapOK' /\ HeldOK' /\ StandsOK' /\ TreeKept
         /\ life' \in [Allocations -> {"free", "live", "retired"}]
<1>1. /\ Typed /\ HeapOK /\ HeldOK /\ StandsOK /\ ValuesOK /\ Owned
      /\ Ordered(link) /\ FreeClean /\ S \subseteq Allocations
  BY DEF SafeInv, HeapOK, Typed
<1>2. /\ S \cap Tree(link) = {} /\ \A n \in Nodes : value[n] \notin S
  <2>1. \A n \in Nodes : value[n] = Null => value[n] \notin S
    BY <1>1, TrieAssumption DEF Allocations
  <2> QED
    BY <1>1, <2>1 DEF Owned, ValuesOK
<1>3. CASE ~deferred
  <2>1. Delete(S)
    BY <1>3 DEF Retire
  <2>2. \A r \in Readers : S \cap mayHold[r] = {}
    BY <1>1, <1>3 DEF Alone, HeldOK
  <2> QED
    BY <1>1, <1>2, <2>1, <2>2, DeleteLemma, DeleteHeld
<1>4. CASE deferred
  <2>1. /\ life' = [o \in Allocations |-> IF o \in S THEN "retired" ELSE life[o]]
        /\ link' = link /\ value' = value
    BY <1>4 DEF Retire, Delete, memory
  <2>2. /\ life' \in [Allocations -> {"free", "live", "retired"}]
        /\ \A o \in Allocations : o \in S => life'[o] = "retired"
        /\ \A o \in Allocations : o \notin S => life'[o] = life[o]
    BY <1>1, <2>1 DEF Typed
  <2>3. TreeKept
    BY <1>1, <2>1 DEF TreeKept, Typed
  <2>4. /\ \A n \in Nodes : n \in Allocations
        /\ \A n \in Nodes : value[n] # Null => value[n] \in Allocations
        /\ Tree(link) \subseteq Nodes
    BY <1>1, TreeLemma DEF Allocations, Typed
  <2>5. FreeClean'
    BY <1>1, <2>1, <2>2, <2>4 DEF FreeClean
  <2>6. ValuesOK'
    BY <1>1, <1>2, <2>1, <2>2, <2>4 DEF ValuesOK
  <2>7. Owned'
    <3>1. \A n \in Tree(link') : life'[n] = "live" /\ n \notin doomed'
      BY <1>1, <1>2, <2>1, <2>2, <2>4 DEF Owned
    <3>2. \A o \in Allocations : life'[o] = "live" =>
             o \in Tree(link') \cup doomed' \/ \E n \in Nodes : value'[n] = o
      BY <1>1, <2>1, <2>2 DEF Owned
    <3>3. \A o \in doomed' : life'[o] = "live"
      BY <1>1, <2>2 DEF Owned, SafeInv, Typed
    <3> QED
      BY <3>1, <3>2, <3>3 DEF Owned
  <2>8. HeapOK'
    BY <1>1, <2>1, <2>5, <2>6, <2>7 DEF HeapOK
  <2>9. \A r \in Readers : \A o \in mayHold[r] : life'[o] # "free"
    BY <1>1, <2>2 DEF HeldOK, Typed
  <2>10. HeldOK' /\ StandsOK'
    BY <1>1, <2>1, <2>9 DEF HeldOK, StandsOK, history, reader, Guarded
  <2> QED
    BY <2>2, <2>3, <2>8, <2>10
<1> QED
  BY <1>3, <1>4

\* The tree's slots stay what they are, and so does what they link.
LEMMA KeptPlace ==
  ASSUME Typed, HeapOK, TreeKept, PlaceLinked, place' = place
  PROVE  /\ PlaceLinked'
         /\ link'[place'.slot] = link[place.slot]
<1>1. TreeSlots(link') = TreeSlots(link)
  BY DEF TreeKept, TreeSlots
<1> QED
  BY <1>1 DEF TreeKept, PlaceLinked

\* The steps of the writer that retire.
Retires ==
    \/ RetireReplaced \/ RetireErased \/ RetirePruned
    \/ RetireCollapsed \/ RetireSubtree \/ CountCleared

\* The writer hands S to the Reclaimer.
HandsOver(S) == Retire(S) /\ doomed' = doomed \ S

\* To retire nothing is to do nothing.
LEMMA RetireNothing ==
  ASSUME Typed, UNCHANGED <<memory, life>>
  PROVE  Retire({})
<1>1. /\ link \in Links /\ value \in [Nodes -> Values \cup {Null}]
      /\ life \in [Allocations -> {"free", "live", "retired"}]
      /\ link' = link /\ value' = value /\ life' = life
  BY DEF Typed, memory
<1>2. WithValues({}) = {}
  BY DEF WithValues
<1>3. Delete({})
  BY <1>1, <1>2 DEF Delete, Links
<1>4. life' = [o \in Allocations |-> IF o \in {} THEN "retired" ELSE life[o]]
  BY <1>1
<1> QED
  BY <1>1, <1>3, <1>4 DEF Retire, memory, Typed

\* What each of these steps retires.
LEMMA RetiresSome ==
  ASSUME SafeInv, Retires
  PROVE  /\ \E S \in SUBSET doomed : HandsOver(S)
         /\ UNCHANGED <<reader, history, deferred>>
         /\ ~RetireSubtree => HandsOver(doomed) /\ doomed' = {}
<1>1. UNCHANGED <<reader, history, deferred>>
  BY DEF Retires, RetireReplaced, RetireErased, RetirePruned, RetireCollapsed, RetireSubtree,
         CountCleared
<1>2. CASE RetireReplaced \/ RetireErased \/ RetirePruned \/ RetireCollapsed
  <2>1. Retire(doomed) /\ doomed' = {} /\ wpc # "cleared"
    BY <1>2 DEF RetireReplaced, RetireErased, RetirePruned, RetireCollapsed, WriterDone
  <2> QED
    BY <1>1, <2>1 DEF HandsOver
<1>3. CASE RetireSubtree
  <2>1. PICK n \in doomed : Retire({n}) /\ doomed' = doomed \ {n}
    BY <1>3 DEF RetireSubtree
  <2> QED
    BY <1>1, <1>3, <2>1 DEF HandsOver
<1>4. CASE CountCleared
  <2>1. doomed = {} /\ doomed' = {} /\ UNCHANGED <<memory, life>>
    BY <1>4 DEF CountCleared, WriterDone
  <2>2. Retire({})
    BY <2>1, RetireNothing DEF SafeInv
  <2> QED
    BY <1>1, <2>1, <2>2 DEF HandsOver
<1> QED
  BY <1>2, <1>3, <1>4 DEF Retires

\* They keep the memory and the tree, whatever comes after.
LEMMA RetireSafe ==
  ASSUME SafeInv, Alone, Retires
  PROVE  SafeInv' /\ TreeKept
<1>1. /\ Typed /\ HeapOK /\ PlaceOK /\ doomed' \in SUBSET doomed
      /\ UNCHANGED <<reader, history, deferred>>
      /\ size' \in Int /\ nodes' \in Int
  <2>1. size' \in Int /\ nodes' \in Int
    BY DEF SafeInv, Typed, Retires, RetireReplaced, RetireErased, RetirePruned,
           RetireCollapsed, RetireSubtree, CountCleared, counters
  <2> QED
    BY <2>1, RetiresSome DEF SafeInv, HandsOver
<1>2. /\ HeapOK' /\ HeldOK' /\ StandsOK' /\ TreeKept
      /\ life' \in [Allocations -> {"free", "live", "retired"}]
  <2>1. PICK S \in SUBSET doomed : HandsOver(S)
    BY RetiresSome
  <2> QED
    BY <1>1, <2>1, RetireLemma DEF HandsOver
<1>3. wpc' \in WriterSteps /\ place' \in [slot : Slots, above : Slots]
  <2>1. place \in [slot : Slots, above : Slots] /\ wpc \in WriterSteps
    BY <1>1 DEF Typed
  <2>2. CASE WriterDone
    BY <2>2, SlotFacts DEF WriterDone, WriterSteps
  <2>3. CASE RetireErased \/ RetirePruned \/ RetireSubtree
    BY <2>1, <2>3 DEF RetireErased, RetirePruned, RetireSubtree, WriterSteps
  <2> QED
    BY <2>2, <2>3 DEF Retires, RetireReplaced, RetireCollapsed, CountCleared
<1>4. Typed'
  BY <1>1, <1>2, <1>3 DEF Typed, TreeKept, reader, history
<1>5. PlaceOK'
  <2>1. CASE WriterDone
    BY <2>1 DEF WriterDone, PlaceOK
  <2>2. CASE RetireErased
    <3>1. /\ wpc = "erased" /\ wpc' = "prune" /\ place' = place /\ PlaceLinked
          /\ link[place.slot] # Null /\ value[link[place.slot]] = Null
      BY <1>1, <2>2 DEF RetireErased, PlaceOK
    <3>2. PlaceLinked' /\ link'[place'.slot] = link[place.slot]
      BY <1>1, <1>2, <3>1, KeptPlace
    <3>3. link[place.slot] \in Tree(link)
      BY <1>1, <3>1, OneParent DEF PlaceLinked, HeapOK, Typed
    <3>4. value'[link[place.slot]] = Null /\ doomed' = {}
      BY <1>2, <2>2, <3>1, <3>3 DEF TreeKept, RetireErased
    <3> QED
      BY <1>1, <3>1, <3>2, <3>4 DEF PlaceOK
  <2>3. CASE RetirePruned
    <3>1. wpc = "pruned" /\ wpc' = "collapse" /\ place' = place /\ PlaceLinked
      BY <1>1, <2>3 DEF RetirePruned, PlaceOK
    <3>2. PlaceLinked'
      BY <1>1, <1>2, <3>1, KeptPlace
    <3>3. doomed' = {}
      BY <2>3 DEF RetirePruned
    <3> QED
      BY <3>1, <3>2, <3>3 DEF PlaceOK
  <2>4. CASE RetireSubtree
    <3>1. wpc = "cleared" /\ wpc' = "cleared" /\ Tree(link) = {} /\ doomed \subseteq Nodes
      BY <1>1, <2>4 DEF RetireSubtree, PlaceOK
    <3>2. Tree(link') = {} /\ doomed' \subseteq Nodes
      BY <1>1, <1>2, <3>1 DEF TreeKept
    <3> QED
      BY <3>1, <3>2 DEF PlaceOK
  <2> QED
    BY <2>1, <2>2, <2>3, <2>4 DEF Retires, RetireReplaced, RetireCollapsed, CountCleared
<1> QED
  BY <1>2, <1>4, <1>5 DEF SafeInv

\* The steps of the writer that find nothing to unlink.
LEMMA NothingSafe ==
  ASSUME SafeInv, PruneNothing \/ CollapseNothing
  PROVE  SafeInv'
<1>1. /\ Typed /\ HeapOK /\ PlaceOK /\ HeldOK /\ StandsOK /\ WriterDone
      /\ UNCHANGED <<memory, counters, life, deferred, reader, history>>
      /\ doomed = {}
  BY DEF SafeInv, PlaceOK, PruneNothing, CollapseNothing
<1>2. Typed'
  <2>1. wpc' \in WriterSteps /\ place' \in [slot : Slots, above : Slots] /\ doomed' = {}
    BY <1>1, SlotFacts DEF WriterDone, WriterSteps
  <2> QED
    BY <1>1, <2>1 DEF Typed, memory, counters, reader, history
<1>3. HeapOK'
  BY <1>1 DEF HeapOK, FreeClean, ValuesOK, Owned, WriterDone, memory
<1>4. PlaceOK'
  BY <1>1 DEF PlaceOK, WriterDone
<1>5. HeldOK' /\ StandsOK'
  BY <1>1 DEF HeldOK, StandsOK, memory, reader, history, Guarded
<1> QED
  BY <1>2, <1>3, <1>4, <1>5 DEF SafeInv

\* The deleters that the grace period lets run.
LEMMA ReclaimSafe ==
  ASSUME SafeInv, Reclaim
  PROVE  SafeInv' /\ TreeKept
<1> DEFINE S == Unprotected
<1>1. /\ Typed /\ HeapOK /\ PlaceOK /\ HeldOK /\ StandsOK /\ Delete(S)
      /\ UNCHANGED <<counters, deferred, writer, reader, history>>
      /\ doomed' = doomed
  BY DEF SafeInv, Reclaim, writer
<1>2. /\ S \subseteq Allocations
      /\ \A o \in S : life[o] = "retired" /\ \A r \in Readers : o \notin mayHold[r]
  BY DEF Unprotected
<1> HIDE DEF S
<1>3. /\ S \cap Tree(link) = {} /\ S \cap doomed = {}
      /\ \A r \in Readers : S \cap mayHold[r] = {}
      /\ \A n \in Nodes : value[n] \notin S
  <2>1. Null \notin Allocations
    BY TrieAssumption DEF Allocations
  <2> QED
    BY <1>1, <1>2, <2>1 DEF HeapOK, Owned, ValuesOK
<1> doomed' = doomed \ S
  BY <1>1, <1>3
<1>4. /\ HeapOK' /\ TreeKept
      /\ life' \in [Allocations -> {"free", "live", "retired"}]
      /\ \A n \in Nodes : n \notin S =>
            value'[n] = value[n] /\ \A d \in Bits : link'[<<n, d>>] = link[<<n, d>>]
  BY <1>1, <1>2, <1>3, DeleteLemma
<1>5. HeldOK' /\ StandsOK'
  BY <1>1, <1>2, <1>3, DeleteHeld
<1>6. Typed'
  BY <1>1, <1>4 DEF Typed, TreeKept, counters, writer, reader, history
<1>7. PlaceOK'
  <2>1. wpc' = wpc /\ place' = place
    BY <1>1 DEF writer
  <2>2. wpc \in {"erased", "prune", "pruned", "collapse"} =>
           PlaceLinked' /\ link'[place'.slot] = link[place.slot]
    BY <1>1, <1>4, <2>1, KeptPlace DEF PlaceOK
  <2>3. wpc \in {"erased", "prune"} => link[place.slot] \in Tree(link)
    BY <1>1, OneParent DEF PlaceOK, PlaceLinked, HeapOK, Typed
  <2>4. wpc \in {"erased", "prune"} =>
           link'[place'.slot] # Null /\ value'[link'[place'.slot]] = Null
    BY <1>1, <1>4, <2>2, <2>3 DEF PlaceOK, TreeKept
  <2>5. \A x \in Nodes : value[x] = Null => value'[x] = Null
    BY <1>4 DEF TreeKept
  <2> QED
    BY <1>1, <1>4, <2>1, <2>2, <2>4, <2>5 DEF PlaceOK, TreeKept
<1> QED
  BY <1>4, <1>5, <1>6, <1>7 DEF SafeInv
-----------------------------------------------------------------------------
(* The steps of a reader *)

\* Reader r, inside its guard, goes to step l, to node n and to result b.
Moves(r, l, n, b) ==
    /\ rpc' = [rpc EXCEPT ![r] = l]
    /\ at' = [at EXCEPT ![r] = n]
    /\ best' = [best EXCEPT ![r] = b]
    /\ UNCHANGED <<memory, counters, life, deferred, writer, addr, history>>

\* A reader that moves to what it may hold still stands on what it may hold.
LEMMA MovesSafe ==
  ASSUME SafeInv, NEW r \in Readers, Guarded(r), NEW l, NEW n, NEW b, Moves(r, l, n, b),
         l \in {"root", "value", "child", "done"},
         n # Null => n \in Nodes /\ n \in mayHold[r],
         b # Null => b \in Values /\ b \in mayHold[r],
         l = "root" => n = Null /\ b = Null,
         l = "child" => /\ n # Null /\ Matches(KeyOf[n], addr[r])
                        /\ Len(KeyOf[n]) < Width
  PROVE  SafeInv'
<1>1. /\ Typed /\ HeapOK /\ PlaceOK /\ HeldOK /\ StandsOK
      /\ link' = link /\ value' = value /\ size' = size /\ nodes' = nodes
      /\ life' = life /\ deferred' = deferred /\ wpc' = wpc /\ doomed' = doomed
      /\ place' = place /\ addr' = addr
      /\ mayHold' = mayHold /\ stable' = stable /\ changes' = changes /\ could' = could
  BY DEF SafeInv, Moves, memory, counters, writer, history
<1>2. /\ rpc' = [rpc EXCEPT ![r] = l] /\ at' = [at EXCEPT ![r] = n]
      /\ best' = [best EXCEPT ![r] = b]
  BY DEF Moves
<1>3. /\ \A q \in Readers : q # r => rpc'[q] = rpc[q] /\ at'[q] = at[q] /\ best'[q] = best[q]
      /\ rpc'[r] = l /\ at'[r] = n /\ best'[r] = b
      /\ \A q \in Readers : Guarded(q)' <=> Guarded(q)
  BY <1>1, <1>2 DEF Typed, Guarded
<1>4. Typed'
  BY <1>1, <1>2 DEF Typed
<1>5. HeapOK'
  BY <1>1 DEF HeapOK, FreeClean, ValuesOK, Owned
<1>6. PlaceOK'
  BY <1>1 DEF PlaceOK, PlaceLinked
<1>7. HeldOK'
  BY <1>1, <1>3 DEF HeldOK
<1>8. StandsOK'
  BY <1>1, <1>3 DEF StandsOK, Guarded
<1> QED
  BY <1>4, <1>5, <1>6, <1>7, <1>8 DEF SafeInv

\* How each load of a lookup moves its reader.
LEMMA ReaderMoves ==
  ASSUME SafeInv, NEW r \in Readers, ReaderStep(r)
  PROVE  /\ Guarded(r)
         /\ \/ LoadRoot(r) /\ Moves(r, "value", link[RootSlot], best[r])
            \/ /\ LoadValue(r) /\ at[r] # Null
               /\ Moves(r, IF Len(KeyOf[at[r]]) >= Width THEN "done" ELSE "child",
                        at[r], Better(r))
            \/ WalkEnds(r) /\ Moves(r, "done", at[r], best[r])
            \/ /\ LoadChild(r) /\ at[r] # Null
               /\ Moves(r, "value", link[<<at[r], BitAt(addr[r], Len(KeyOf[at[r]]))>>], best[r])
<1>1. Typed /\ StandsOK
  BY DEF SafeInv
<1>2. at = [at EXCEPT ![r] = at[r]] /\ best = [best EXCEPT ![r] = best[r]]
  BY <1>1 DEF Typed
<1>3. CASE LoadRoot(r)
  BY <1>2, <1>3 DEF LoadRoot, Moves, Goto, Guarded
<1>4. CASE LoadValue(r)
  BY <1>2, <1>4 DEF LoadValue, Moves, Goto, Guarded, OnPath
<1>5. CASE WalkEnds(r)
  BY <1>2, <1>5 DEF WalkEnds, Moves, Goto, Guarded
<1>6. CASE LoadChild(r)
  BY <1>1, <1>2, <1>6 DEF LoadChild, Moves, Goto, Guarded, StandsOK
<1> QED
  BY <1>3, <1>4, <1>5, <1>6 DEF ReaderStep

\* The address that a reader looks up has the next bit that its walk goes by.
LEMMA NextBit ==
  ASSUME SafeInv, NEW r \in Readers, rpc[r] = "child"
  PROVE  /\ at[r] \in Nodes /\ at[r] \in mayHold[r]
         /\ addr[r] \in Keys /\ Len(addr[r]) = Width
         /\ KeyOf[at[r]] \in Keys /\ Len(KeyOf[at[r]]) \in Nat
         /\ Len(KeyOf[at[r]]) < Width /\ Matches(KeyOf[at[r]], addr[r])
         /\ BitAt(addr[r], Len(KeyOf[at[r]])) \in Bits
<1>1. /\ at[r] \in Nodes /\ at[r] \in mayHold[r]
      /\ addr[r] \in Addresses
      /\ Len(KeyOf[at[r]]) < Width /\ Matches(KeyOf[at[r]], addr[r])
  BY DEF SafeInv, StandsOK, Typed, Guarded
<1>2. addr[r] \in Keys /\ Len(addr[r]) = Width /\ Width \in Nat
  BY <1>1, HostsAreKeys, TrieAssumption
<1>3. KeyOf[at[r]] \in Keys /\ Len(KeyOf[at[r]]) \in Nat
  BY <1>1, NodesHaveKeys
<1> QED
  BY <1>1, <1>2, <1>3, KeyTypes

\* The loads of a lookup.
LEMMA ReaderStepSafe ==
  ASSUME SafeInv, NEW r \in Readers, ReaderStep(r)
  PROVE  SafeInv'
<1>1. /\ Typed /\ HeapOK /\ HeldOK /\ StandsOK /\ Guarded(r)
      /\ Reachable(link, value) \subseteq mayHold[r]
      /\ at[r] # Null => at[r] \in Nodes /\ at[r] \in mayHold[r]
      /\ best[r] # Null => best[r] \in Values /\ best[r] \in mayHold[r]
  BY ReaderMoves DEF SafeInv, HeldOK, StandsOK, Typed
<1>2. CASE LoadRoot(r) /\ Moves(r, "value", link[RootSlot], best[r])
  <2>1. link[RootSlot] # Null => link[RootSlot] \in Tree(link)
    BY <1>1, TreeLemma DEF Closed, Typed, HeapOK
  <2>2. \A n \in Tree(link) : n \in Reachable(link, value) /\ n \in Nodes
    BY <1>1, ReachableType DEF Typed, HeapOK
  <2> QED
    BY <1>1, <1>2, <2>1, <2>2, MovesSafe
<1>3. CASE /\ LoadValue(r) /\ at[r] # Null
           /\ Moves(r, IF Len(KeyOf[at[r]]) >= Width THEN "done" ELSE "child",
                    at[r], Better(r))
  <2> DEFINE l == IF Len(KeyOf[at[r]]) >= Width THEN "done" ELSE "child"
  <2>1. l \in {"child", "done"} /\ Matches(KeyOf[at[r]], addr[r])
    BY <1>3 DEF LoadValue, OnPath
  <2>2. l = "child" => Len(KeyOf[at[r]]) < Width
    BY <1>1, <1>3, NodesHaveKeys
  <2>3. Better(r) # Null => Better(r) \in Values /\ Better(r) \in mayHold[r]
    BY <1>1, <1>3 DEF Better, HeldOK, Typed
  <2>4. Moves(r, l, at[r], Better(r))
    BY <1>3
  <2> HIDE DEF l
  <2> QED
    BY <1>1, <1>3, <2>1, <2>2, <2>3, <2>4, MovesSafe
<1>4. CASE WalkEnds(r) /\ Moves(r, "done", at[r], best[r])
  BY <1>1, <1>4, MovesSafe
<1>5. CASE /\ LoadChild(r) /\ at[r] # Null
           /\ Moves(r, "value", link[<<at[r], BitAt(addr[r], Len(KeyOf[at[r]]))>>], best[r])
  <2>1. rpc[r] = "child"
    BY <1>5 DEF LoadChild
  <2>2. /\ at[r] \in Nodes /\ at[r] \in mayHold[r]
        /\ BitAt(addr[r], Len(KeyOf[at[r]])) \in Bits
    BY <2>1, NextBit
  <2> DEFINE c == link[<<at[r], BitAt(addr[r], Len(KeyOf[at[r]]))>>]
  <2>3. c # Null => c \in Nodes /\ c \in mayHold[r]
    BY <1>1, <2>2, SlotFacts DEF HeldOK, Typed, Links
  <2>4. Moves(r, "value", c, best[r])
    BY <1>5
  <2> HIDE DEF c
  <2> QED
    BY <1>1, <2>3, <2>4, MovesSafe
<1> QED
  BY <1>2, <1>3, <1>4, <1>5, ReaderMoves

\* A reader enters its guard.
LEMMA EnterSafe ==
  ASSUME SafeInv, NEW r \in Readers, NEW a \in Addresses, Enter(r, a)
  PROVE  SafeInv'
<1>1. /\ Typed /\ HeapOK /\ PlaceOK /\ HeldOK /\ StandsOK
      /\ link' = link /\ value' = value /\ size' = size /\ nodes' = nodes
      /\ life' = life /\ deferred' = deferred /\ wpc' = wpc /\ doomed' = doomed
      /\ place' = place /\ at' = at /\ best' = best /\ changes' = changes
  BY DEF SafeInv, Enter, memory, counters, writer
<1>2. /\ rpc[r] = "idle" /\ rpc' = [rpc EXCEPT ![r] = "root"]
      /\ addr' = [addr EXCEPT ![r] = a]
      /\ mayHold' = [mayHold EXCEPT ![r] = Reachable(link, value)]
      /\ stable' = [stable EXCEPT ![r] = Bound(table, a)]
      /\ could' = [could EXCEPT ![r] = {LongestMatch(table, a)}]
  BY DEF Enter, Goto
<1>3. /\ Tree(link) \subseteq Nodes
      /\ Reachable(link, value) \subseteq Allocations
      /\ \A n \in Tree(link) : n \in Reachable(link, value)
      /\ \A n \in Tree(link) : value[n] # Null => value[n] \in Reachable(link, value)
      /\ \A o \in Reachable(link, value) :
            o \in Tree(link) \/ \E n \in Tree(link) : o = value[n] /\ value[n] # Null
      /\ \A n \in Nodes : n \notin Values
  BY <1>1, ReachableType DEF Typed, HeapOK
<1>4. Bound(table, a) \subseteq Prefixes /\ LongestMatch(table, a) \in Values \cup {Null}
  <2>1. table \in [Prefixes -> Values \cup {Null}]
    BY <1>1, TableType DEF table, Typed, HeapOK
  <2>2. Bound(table, a) \subseteq Prefixes
    BY DEF Bound
  <2> QED
    BY <2>1, <2>2, LongestLemma
<1>5. Typed'
  BY <1>1, <1>2, <1>3, <1>4 DEF Typed
<1>6. /\ \A q \in Readers : q # r =>
             rpc'[q] = rpc[q] /\ addr'[q] = addr[q] /\ mayHold'[q] = mayHold[q]
      /\ rpc'[r] = "root" /\ addr'[r] = a /\ mayHold'[r] = Reachable(link, value)
  BY <1>1, <1>2 DEF Typed
<1>7. HeapOK'
  BY <1>1 DEF HeapOK, FreeClean, ValuesOK, Owned
<1>8. PlaceOK'
  BY <1>1 DEF PlaceOK, PlaceLinked
<1>9. HeldOK'
  <2> DEFINE R == Reachable(link, value)
  <2>1. \A o \in R : life[o] # "free"
    BY <1>1, <1>3 DEF HeapOK, Owned, ValuesOK
  <2>2. ASSUME NEW n \in R \cap Nodes
        PROVE  /\ \A d \in Bits : link[<<n, d>>] # Null => link[<<n, d>>] \in R
               /\ value[n] # Null => value[n] \in R
    <3>1. n \in Tree(link)
      BY <1>1, <1>3, <2>2 DEF Typed
    <3>2. Closed(link, Tree(link))
      BY <1>1, TreeLemma DEF Typed, HeapOK
    <3> QED
      BY <1>3, <3>1, <3>2 DEF Closed
  <2>3. ASSUME NEW n \in Nodes, value[n] \in R
        PROVE  n \in R
    <3>1. value[n] \in Values
      BY <1>1, <1>3, <2>3, TrieAssumption DEF Typed, Allocations
    <3>2. PICK m \in Tree(link) : value[m] = value[n] /\ value[m] # Null
      BY <1>3, <2>3, <3>1
    <3>3. m = n
      BY <1>1, <1>3, <3>2 DEF HeapOK, ValuesOK
    <3> QED
      BY <1>3, <3>2, <3>3
  <2> HIDE DEF R
  <2>4. mayHold'[r] = R /\ Guarded(r)' /\ Reachable(link', value') = R
    BY <1>1, <1>6 DEF R, Guarded
  <2>5. \A q \in Readers : q # r => (Guarded(q)' <=> Guarded(q))
    BY <1>6 DEF Guarded
  <2>6. \A q \in Readers : q # r =>
           /\ ~Guarded(q)' => mayHold'[q] = {}
           /\ Guarded(q)' => Reachable(link', value') \subseteq mayHold'[q]
           /\ \A o \in mayHold'[q] : life'[o] # "free"
           /\ \A n \in mayHold'[q] \cap Nodes :
                 /\ \A d \in Bits : link'[<<n, d>>] # Null => link'[<<n, d>>] \in mayHold'[q]
                 /\ value'[n] # Null => value'[n] \in mayHold'[q]
           /\ \A n \in Nodes : value'[n] \in mayHold'[q] => n \in mayHold'[q]
    BY <1>1, <1>6, <2>5 DEF HeldOK
  <2>7. /\ ~Guarded(r)' => mayHold'[r] = {}
        /\ Guarded(r)' => Reachable(link', value') \subseteq mayHold'[r]
        /\ \A o \in mayHold'[r] : life'[o] # "free"
        /\ \A n \in mayHold'[r] \cap Nodes :
              /\ \A d \in Bits : link'[<<n, d>>] # Null => link'[<<n, d>>] \in mayHold'[r]
              /\ value'[n] # Null => value'[n] \in mayHold'[r]
        /\ \A n \in Nodes : value'[n] \in mayHold'[r] => n \in mayHold'[r]
    BY <1>1, <2>1, <2>2, <2>3, <2>4
  <2> QED
    BY <2>6, <2>7 DEF HeldOK
<1>10. StandsOK'
  BY <1>1, <1>2, <1>6 DEF StandsOK, Guarded
<1> QED
  BY <1>5, <1>7, <1>8, <1>9, <1>10 DEF SafeInv

\* A reader leaves its guard.
LEMMA LeaveSafe ==
  ASSUME SafeInv, NEW r \in Readers, Leave(r)
  PROVE  SafeInv'
<1>1. /\ Typed /\ HeapOK /\ PlaceOK /\ HeldOK /\ StandsOK
      /\ link' = link /\ value' = value /\ size' = size /\ nodes' = nodes
      /\ life' = life /\ deferred' = deferred /\ wpc' = wpc /\ doomed' = doomed
      /\ place' = place
  BY DEF SafeInv, Leave, memory, counters, writer
<1>2. /\ rpc' = [rpc EXCEPT ![r] = "idle"]
      /\ addr' = [addr EXCEPT ![r] = << >>]
      /\ at' = [at EXCEPT ![r] = Null]
      /\ best' = [best EXCEPT ![r] = Null]
      /\ mayHold' = [mayHold EXCEPT ![r] = {}]
      /\ stable' = [stable EXCEPT ![r] = {}]
      /\ could' = [could EXCEPT ![r] = {}]
      /\ changes' = [changes EXCEPT ![r] = 0]
  BY DEF Leave, Goto
<1>3. Typed'
  BY <1>1, <1>2 DEF Typed
<1>4. /\ \A q \in Readers : q # r =>
            /\ rpc'[q] = rpc[q] /\ addr'[q] = addr[q] /\ at'[q] = at[q]
            /\ best'[q] = best[q] /\ mayHold'[q] = mayHold[q]
      /\ rpc'[r] = "idle" /\ at'[r] = Null /\ best'[r] = Null /\ mayHold'[r] = {}
  BY <1>1, <1>2 DEF Typed
<1>5. HeapOK'
  BY <1>1 DEF HeapOK, FreeClean, ValuesOK, Owned
<1>6. PlaceOK'
  BY <1>1 DEF PlaceOK, PlaceLinked
<1>7. HeldOK'
  BY <1>1, <1>4 DEF HeldOK, Guarded
<1>8. StandsOK'
  BY <1>1, <1>4 DEF StandsOK, Guarded
<1> QED
  BY <1>3, <1>5, <1>6, <1>7, <1>8 DEF SafeInv

-----------------------------------------------------------------------------
(* The invariant *)

\* An insert() that puts new nodes into the tree, with what it counts.
Adds(p, n, more) ==
    /\ Grows(p, n, more)
    /\ IsFiniteSet(more) /\ Cardinality(more) \in Nat
    /\ size' = size + 1 /\ nodes' = nodes + 1 + Cardinality(more)
    /\ UNCHANGED <<deferred, writer, reader>>
    /\ Watch

\* Every insert() but the exchange of a value puts nodes into the tree.
LEMMA InsertAdds ==
  ASSUME Typed, HeapOK, NEW p \in Prefixes, InsertLeaf(p) \/ InsertSplit(p) \/ InsertAbove(p)
  PROVE  \E n, more : Adds(p, n, more)
<1>0. IsFiniteSet({}) /\ Cardinality({}) = 0
  BY FS_EmptySet
<1> USE <1>0
<1>1. CASE InsertLeaf(p)
  <2>1. Grows(p, NewNode(p), {})
    BY <1>1, LeafGrows
  <2>2. /\ size' = size + 1 /\ nodes' = nodes + 1 + Cardinality({})
        /\ UNCHANGED <<deferred, writer, reader>> /\ Watch
    BY <1>1 DEF InsertLeaf, Publish
  <2>3. Adds(p, NewNode(p), {})
    BY <2>1, <2>2 DEF Adds
  <2> QED
    BY <2>3
<1>2. CASE InsertAbove(p)
  <2>1. Grows(p, NewNode(p), {})
    BY <1>2, AboveGrows
  <2>2. /\ size' = size + 1 /\ nodes' = nodes + 1 + Cardinality({})
        /\ UNCHANGED <<deferred, writer, reader>> /\ Watch
    BY <1>2 DEF InsertAbove, Publish
  <2>3. Adds(p, NewNode(p), {})
    BY <2>1, <2>2 DEF Adds
  <2> QED
    BY <2>3
<1>3. CASE InsertSplit(p)
  <2> DEFINE branch == NewNode(SubSeq(p, 1, Shared(KeyOf[StopNode(p)], p)))
  <2>1. Grows(p, NewNode(p), {branch})
    BY <1>3, SplitGrows
  <2>2. /\ size' = size + 1 /\ nodes' = nodes + 1 + Cardinality({branch})
        /\ UNCHANGED <<deferred, writer, reader>> /\ Watch
    BY <1>3 DEF InsertSplit, Publish
  <2> HIDE DEF branch
  <2>3. IsFiniteSet({branch}) /\ Cardinality({branch}) = 1
    BY FS_Singleton
  <2>4. Adds(p, NewNode(p), {branch})
    BY <2>1, <2>2, <2>3 DEF Adds
  <2> QED
    BY <2>4
<1> QED
  BY <1>1, <1>2, <1>3

\* insert(), whichever way it goes.
LEMMA InsertSafe ==
  ASSUME SafeInv, NEW p \in Prefixes, Insert(p)
  PROVE  SafeInv'
<1>1. CASE InsertExchange(p)
  BY <1>1, ExchangeSafe
<1>2. CASE InsertLeaf(p) \/ InsertSplit(p) \/ InsertAbove(p)
  <2>1. PICK n, more : Adds(p, n, more)
    BY <1>2, InsertAdds DEF SafeInv
  <2>2. wpc = "idle"
    BY <1>2 DEF InsertLeaf, InsertSplit, InsertAbove, MayBegin
  <2>3. size' \in Int /\ nodes' \in Int
    <3>1. /\ size \in Int /\ nodes \in Int /\ Cardinality(more) \in Nat
          /\ size' = size + 1 /\ nodes' = nodes + 1 + Cardinality(more)
      BY <2>1 DEF Adds, SafeInv, Typed
    <3> QED
      BY ONLY <3>1
  <2> QED
    BY <2>1, <2>2, <2>3, GrowthSafe DEF Adds
<1> QED
  BY <1>1, <1>2 DEF Insert

\* The rest of an operation of the writer.
LEMMA WriterStepSafe ==
  ASSUME SafeInv, Alone, WriterStep
  PROVE  SafeInv'
BY RetireSafe, NothingSafe, PruneSafe, CollapseSafe DEF WriterStep, Retires

\* Nothing is there at first.
LEMMA InitSafe ==
  ASSUME TrieInit, deferred \in BOOLEAN
  PROVE  SafeInv /\ Tree(link) = {}
<1>1. /\ link = [s \in Slots |-> Null] /\ value = [n \in Nodes |-> Null]
      /\ size = 0 /\ nodes = 0 /\ life = [o \in Allocations |-> "free"]
      /\ wpc = "idle" /\ doomed = {} /\ place = [slot |-> RootSlot, above |-> RootSlot]
      /\ rpc = [r \in Readers |-> "idle"] /\ addr = [r \in Readers |-> << >>]
      /\ at = [r \in Readers |-> Null] /\ best = [r \in Readers |-> Null]
      /\ mayHold = [r \in Readers |-> {}] /\ stable = [r \in Readers |-> {}]
      /\ could = [r \in Readers |-> {}] /\ changes = [r \in Readers |-> 0]
  BY DEF TrieInit
<1>2. link \in Links /\ \A s \in Slots : link[s] = Null
  BY <1>1 DEF Links
<1>3. Ordered(link)
  BY <1>2, SlotFacts DEF Ordered
<1>4. Tree(link) = {}
  BY <1>2, <1>3, SlotFacts, EmptyTree
<1>5. Typed
  BY <1>1, <1>2, SlotFacts DEF Typed, WriterSteps
<1>6. \A n \in Nodes : n \in Allocations /\ value[n] = Null
  BY <1>1 DEF Allocations
<1>7. HeapOK
  BY <1>1, <1>2, <1>3, <1>4, <1>6, SlotFacts DEF HeapOK, FreeClean, ValuesOK, Owned
<1>8. PlaceOK
  BY <1>1 DEF PlaceOK
<1>9. HeldOK
  <2>1. \A r \in Readers : ~Guarded(r) /\ mayHold[r] = {}
    BY <1>1 DEF Guarded
  <2> QED
    BY <2>1 DEF HeldOK
<1>10. StandsOK
  BY <1>1 DEF StandsOK, Guarded
<1> QED
  BY <1>4, <1>5, <1>7, <1>8, <1>9, <1>10 DEF SafeInv

\* Every step keeps the invariant, if readers may rely on the Reclaimer.
LEMMA NextSafe ==
  ASSUME SafeInv, Alone, Next
  PROVE  SafeInv' /\ deferred' = deferred
<1>1. ASSUME NEW p \in Prefixes, InsertErase(p)
      PROVE  SafeInv' /\ deferred' = deferred
  <2>1. SafeInv'
    BY <1>1, InsertSafe, EraseSafe DEF InsertErase
  <2>2. deferred' = deferred
    BY <1>1 DEF InsertErase, Insert, InsertLeaf, InsertSplit, InsertAbove, InsertExchange,
                Erase, Publish
  <2> QED
    BY <2>1, <2>2
<1>2. CASE Clear
  BY <1>2, ClearSafe DEF Clear
<1>3. CASE WriterStep
  <2>1. SafeInv'
    BY <1>3, WriterStepSafe
  <2>2. deferred' = deferred
    BY <1>3 DEF WriterStep, RetireReplaced, RetireErased, PruneNothing, Prune, RetirePruned,
                CollapseNothing, Collapse, RetireCollapsed, RetireSubtree,
                CountCleared
  <2> QED
    BY <2>1, <2>2
<1>4. ASSUME NEW r \in Readers,
             (\E a \in Addresses : Enter(r, a)) \/ ReaderStep(r) \/ Leave(r)
      PROVE  SafeInv' /\ deferred' = deferred
  <2>1. SafeInv'
    BY <1>4, EnterSafe, ReaderStepSafe, LeaveSafe
  <2>2. deferred' = deferred
    BY <1>4 DEF Enter, ReaderStep, LoadRoot, LoadValue, WalkEnds, LoadChild, Leave
  <2> QED
    BY <2>1, <2>2
<1>5. CASE Reclaim
  BY <1>5, ReclaimSafe DEF Reclaim
<1> QED
  BY <1>1, <1>2, <1>3, <1>4, <1>5 DEF Next

\* A step that changes nothing.
LEMMA StutterSafe ==
  ASSUME SafeInv, UNCHANGED trieVars
  PROVE  SafeInv'
BY DEF SafeInv, Typed, HeapOK, FreeClean, ValuesOK, Owned, PlaceOK, PlaceLinked, HeldOK,
       StandsOK, Guarded, trieVars, memory, counters, writer, reader, history

\* What a reader stands on is not deleted.
LEMMA SafeNothingDangles ==
  ASSUME SafeInv
  PROVE  NothingDangles
BY DEF SafeInv, StandsOK, HeldOK, NothingDangles

\* The ownership of the heap, as the runs check it.
LEMMA SafeOwnedOnce ==
  ASSUME SafeInv
  PROVE  OwnedOnce
<1>1. /\ \A n \in Nodes : value[n] # Null => life[n] # "free"
      /\ \A n \in Nodes : value[n] # Null => life[value[n]] = "live"
      /\ Null \notin Allocations
  BY TrieAssumption DEF SafeInv, HeapOK, FreeClean, ValuesOK, Allocations
<1>2. \A o \in Allocations :
         (life[o] = "live") <=>
             \/ o \in Tree(link) \cup doomed
             \/ \E n \in Nodes : life[n] # "free" /\ value[n] = o
  BY <1>1 DEF SafeInv, HeapOK, Owned
<1>3. \A n \in Nodes : value[n] # Null =>
         /\ life[value[n]] = "live" /\ value[n] \notin doomed
         /\ \A m \in Nodes \ {n} : value[m] # value[n]
  BY DEF SafeInv, HeapOK, ValuesOK
<1> QED
  BY <1>2, <1>3 DEF OwnedOnce

-----------------------------------------------------------------------------
(* No stable route is missed *)

\* From node n a walk goes on to route p, or finds it there.
LeadsTo(n, p) ==
    /\ Matches(KeyOf[n], p) /\ Len(KeyOf[n]) < Len(p) =>
          LET c == link[<<n, BitAt(p, Len(KeyOf[n]))>>]
          IN  c # Null /\ Matches(KeyOf[c], p)
    /\ KeyOf[n] = p => value[n] # Null

\* What a reader may hold leads on to every route that has been bound ever
\* since it entered its guard, also from a node that is out of the tree.
HeldRoutes ==
    \A r \in Readers : \A p \in stable[r] : \A n \in mayHold[r] \cap Nodes :
        LeadsTo(n, p)

\* The reader's result is at least as specific as p.
LongEnough(r, p) == best[r] # Null /\ Len(EntryOf[best[r]]) >= Len(p)

\* Every route of S is behind the reader or still ahead of it.
AheadOf(r, S) ==
    /\ best[r] # Null => Matches(EntryOf[best[r]], addr[r])
    /\ rpc[r] \in {"value", "child"} /\ best[r] # Null /\ at[r] # Null =>
          Len(EntryOf[best[r]]) <= Len(KeyOf[at[r]])
    /\ rpc[r] = "value" => \A p \in S :
          LongEnough(r, p) \/ (at[r] # Null /\ Matches(KeyOf[at[r]], p))
    /\ rpc[r] = "child" => \A p \in S :
          \/ LongEnough(r, p)
          \/ Matches(KeyOf[at[r]], p) /\ Len(KeyOf[at[r]]) < Len(p)
    /\ rpc[r] = "done" => \A p \in S : LongEnough(r, p)

\* So it is with the stable routes of a reader.
Ahead(r) ==
    /\ rpc[r] = "idle" => stable[r] = {}
    /\ stable[r] \subseteq Bound(table, addr[r])
    /\ AheadOf(r, stable[r])

\* No lookup can miss a route that it is to find.
RoutesInv == HeldRoutes /\ \A r \in Readers : Ahead(r)

\* A step of the writer that stores into the tree.
Stores ==
    \/ \E p \in Prefixes : InsertErase(p)
    \/ Clear \/ Prune \/ Collapse

\* Such a step leaves alone what is no part of the tree that it makes.
LEMMA StoresInTree ==
  ASSUME SafeInv, Stores
  PROVE  /\ UNCHANGED reader /\ Watch
         /\ \A n \in Nodes \ Tree(link') :
               value'[n] = value[n] /\ \A d \in Bits : link'[<<n, d>>] = link[<<n, d>>]
<1>1. /\ Typed /\ HeapOK /\ link \in Links /\ Ordered(link)
      /\ value \in [Nodes -> Values \cup {Null}]
  BY DEF SafeInv, Typed, HeapOK
<1>2. ASSUME NEW p \in Prefixes, InsertLeaf(p) \/ InsertSplit(p) \/ InsertAbove(p)
      PROVE  /\ UNCHANGED reader /\ Watch
             /\ \A n \in Nodes \ Tree(link') :
                   value'[n] = value[n] /\ \A d \in Bits : link'[<<n, d>>] = link[<<n, d>>]
  <2>1. PICK n, more : Adds(p, n, more)
    BY <1>1, <1>2, InsertAdds
  <2> QED
    BY <1>1, <2>1 DEF Adds, Grows
<1>3. ASSUME NEW p \in Prefixes, InsertExchange(p) \/ Erase(p)
      PROVE  /\ UNCHANGED reader /\ Watch
             /\ \A n \in Nodes \ Tree(link') :
                   value'[n] = value[n] /\ \A d \in Bits : link'[<<n, d>>] = link[<<n, d>>]
  <2>1. /\ UNCHANGED reader /\ Watch /\ link' = link /\ StopNode(p) # Null
        /\ \A n \in Nodes : n # StopNode(p) => value'[n] = value[n]
    BY <1>1, <1>3 DEF InsertExchange, Erase, IsRoute
  <2>2. StopNode(p) \in Tree(link)
    BY <1>1, <2>1, StopLemma
  <2> QED
    BY <2>1, <2>2
<1>4. CASE Clear
  <2>1. /\ UNCHANGED reader /\ Watch /\ value' = value
        /\ \A s \in Slots : s # RootSlot => link'[s] = link[s]
    BY <1>1, <1>4 DEF Clear, Links
  <2> QED
    BY <2>1, SlotFacts
<1>5. CASE Prune \/ Collapse
  <2>1. PICK s : Unhangs(s)
    BY <1>5, PruneSafe, CollapseSafe
  <2>2. UNCHANGED reader /\ Watch /\ value' = value
    BY <1>5 DEF Prune, Collapse
  <2> QED
    BY <2>1, <2>2 DEF Unhangs
<1> QED
  BY <1>2, <1>3, <1>4, <1>5 DEF Stores, InsertErase, Insert

\* In a tree that binds p, every node leads on to p whose key allows it.
LEMMA TreeLeadsOn ==
  ASSUME NEW lnk \in Links, Ordered(lnk), NEW val, NEW p \in Prefixes,
         Table(lnk, val)[p] # Null, NEW n \in Tree(lnk)
  PROVE  /\ Matches(KeyOf[n], p) /\ Len(KeyOf[n]) < Len(p) =>
               LET c == lnk[<<n, BitAt(p, Len(KeyOf[n]))>>]
               IN  c # Null /\ Matches(KeyOf[c], p)
         /\ KeyOf[n] = p => val[n] # Null
         /\ lnk[RootSlot] # Null /\ Matches(KeyOf[lnk[RootSlot]], p)
<1>1. PICK m \in Tree(lnk) : KeyOf[m] = p
  BY TableLemma
<1>2. val[m] # Null
  BY <1>1, TableLemma
<1>3. Placed(lnk, n)
  BY AllPlaced
<1>4. lnk[RootSlot] \in Tree(lnk) /\ Matches(KeyOf[lnk[RootSlot]], p)
  BY <1>1, RootMatches
<1>5. lnk[RootSlot] # Null
  BY <1>4, TreeLemma, NodesHaveKeys
<1>6. KeyOf[n] = p => m = n
  BY <1>1, <1>3 DEF Placed
<1>7. Matches(KeyOf[n], p) /\ m # n =>
         LET c == lnk[<<n, BitAt(p, Len(KeyOf[n]))>>]
         IN  c # Null /\ Matches(KeyOf[c], p)
  BY <1>1, <1>3 DEF Placed
<1>8. Len(KeyOf[n]) < Len(p) => m # n
  BY <1>1, TreeLemma, NodesHaveKeys
<1> QED
  BY <1>2, <1>4, <1>5, <1>6, <1>7, <1>8

\* The same if no node of the tree is in view yet.
LEMMA RootLeadsOn ==
  ASSUME NEW lnk \in Links, Ordered(lnk), NEW val, NEW p \in Prefixes,
         Table(lnk, val)[p] # Null
  PROVE  lnk[RootSlot] # Null /\ Matches(KeyOf[lnk[RootSlot]], p)
<1>1. PICK m \in Tree(lnk) : KeyOf[m] = p
  BY TableLemma
<1> QED
  BY <1>1, TreeLeadsOn

\* A step that stores into the tree keeps what the readers go by.
LEMMA StoresRoutes ==
  ASSUME SafeInv, SafeInv', RoutesInv, Stores
  PROVE  RoutesInv'
<1>1. /\ UNCHANGED reader /\ Watch
      /\ \A n \in Nodes \ Tree(link') :
            value'[n] = value[n] /\ \A d \in Bits : link'[<<n, d>>] = link[<<n, d>>]
  BY StoresInTree
<1>2. /\ link' \in Links /\ Ordered(link')
      /\ value' \in [Nodes -> Values \cup {Null}]
      /\ \A n \in Nodes : n \notin Values
  BY TrieAssumption DEF SafeInv, Typed, HeapOK
<1>3. table' = Table(link', value')
  BY DEF table
<1>4. \A r \in Readers :
         /\ Guarded(r) => /\ mayHold'[r] = mayHold[r] \cup Reachable(link', value')
                          /\ stable'[r] = stable[r] \cap Bound(table', addr[r])
         /\ ~Guarded(r) => mayHold'[r] = {} /\ stable'[r] = {}
  BY <1>1, <1>3 DEF Watch
<1>5. ASSUME NEW r \in Readers, NEW p \in stable'[r], NEW n \in mayHold'[r] \cap Nodes
      PROVE  /\ Matches(KeyOf[n], p) /\ Len(KeyOf[n]) < Len(p) =>
                   LET c == link'[<<n, BitAt(p, Len(KeyOf[n]))>>]
                   IN  c # Null /\ Matches(KeyOf[c], p)
             /\ KeyOf[n] = p => value'[n] # Null
  <2>1. /\ Guarded(r) /\ p \in stable[r] /\ p \in Bound(table', addr[r])
        /\ n \in mayHold[r] \cup Reachable(link', value')
    BY <1>4, <1>5
  <2>2. p \in Prefixes /\ Table(link', value')[p] # Null
    BY <1>3, <2>1 DEF Bound
  <2>3. CASE n \in Tree(link')
    BY <1>2, <2>2, <2>3, TreeLeadsOn
  <2>4. CASE n \notin Tree(link')
    <3>1. n \in mayHold[r] \cap Nodes
      BY <1>2, <1>5, <2>1, <2>4, ReachableType
    <3>2. value'[n] = value[n] /\ \A d \in Bits : link'[<<n, d>>] = link[<<n, d>>]
      BY <1>1, <2>4, <3>1
    <3>3. /\ Matches(KeyOf[n], p) /\ Len(KeyOf[n]) < Len(p) =>
                LET c == link[<<n, BitAt(p, Len(KeyOf[n]))>>]
                IN  c # Null /\ Matches(KeyOf[c], p)
          /\ KeyOf[n] = p => value[n] # Null
      BY <2>1, <3>1 DEF RoutesInv, HeldRoutes, LeadsTo
    <3>4. Len(KeyOf[n]) < Len(p) => BitAt(p, Len(KeyOf[n])) \in Bits
      BY <2>2, <3>1, NodesHaveKeys, KeyTypes, TrieAssumption
    <3> QED
      BY <3>2, <3>3, <3>4
  <2> QED
    BY <2>3, <2>4
<1>6. ASSUME NEW r \in Readers
      PROVE  Ahead(r)'
  <2>1. stable'[r] \subseteq stable[r] /\ stable'[r] \subseteq Bound(table', addr[r])
    BY <1>4
  <2>2. rpc' = rpc /\ addr' = addr /\ at' = at /\ best' = best
    BY <1>1 DEF reader
  <2>3. Ahead(r)
    BY DEF RoutesInv
  <2>4. \A p : LongEnough(r, p)' <=> LongEnough(r, p)
    BY <2>2 DEF LongEnough
  <2>5. rpc[r] = "idle" => stable'[r] = {}
    BY <2>1, <2>3 DEF Ahead, AheadOf
  <2> QED
    BY <2>1, <2>2, <2>3, <2>4, <2>5 DEF Ahead, AheadOf
<1> QED
  BY <1>5, <1>6 DEF RoutesInv, HeldRoutes, LeadsTo

\* What the readers may hold keeps its links and its values.
HeldKept ==
    \A r \in Readers : \A n \in mayHold[r] \cap Nodes :
        value'[n] = value[n] /\ \A d \in Bits : link'[<<n, d>>] = link[<<n, d>>]

\* Neither retire() nor the deleters touch what a reader may hold.
LEMMA DeletesUnheld ==
  ASSUME SafeInv,
         (Alone /\ Retires) \/ Reclaim
  PROVE  HeldKept /\ UNCHANGED <<reader, history>>
<1>1. Typed /\ HeldOK
  BY DEF SafeInv
<1>2. CASE Reclaim
  <2> DEFINE S == Unprotected
  <2>1. Delete(S) /\ \A r \in Readers : S \cap mayHold[r] = {}
    BY <1>2 DEF Reclaim, Unprotected
  <2>2. S \subseteq Allocations
    BY DEF Unprotected
  <2> HIDE DEF S
  <2>3. ASSUME NEW n \in Nodes, n \notin S
        PROVE  value'[n] = value[n] /\ \A d \in Bits : link'[<<n, d>>] = link[<<n, d>>]
    <3>1. n \notin WithValues(S)
      <4>1. n \notin Values
        BY TrieAssumption
      <4>2. \A m \in Nodes : value[m] \in Values \cup {Null}
        BY <1>1 DEF Typed
      <4> QED
        BY <2>3, <4>1, <4>2 DEF WithValues
    <3> QED
      BY <2>1, <2>3, <3>1, SlotFacts DEF Delete
  <2> QED
    BY <1>2, <2>1, <2>3 DEF Reclaim, HeldKept
<1>3. CASE Alone /\ Retires
  <2>1. PICK S \in SUBSET doomed : HandsOver(S)
    BY <1>3, RetiresSome
  <2>2. Retire(S) /\ UNCHANGED <<reader, history>>
    BY <1>3, <2>1, RetiresSome DEF HandsOver
  <2>3. CASE deferred
    BY <2>2, <2>3 DEF Retire, memory, HeldKept
  <2>4. CASE ~deferred
    <3>1. \A r \in Readers : mayHold[r] = {}
      BY <1>1, <1>3, <2>4 DEF Alone, HeldOK
    <3> QED
      BY <2>2, <3>1 DEF HeldKept
  <2> QED
    BY <2>3, <2>4
<1> QED
  BY <1>2, <1>3

\* A step that keeps the tree and what the readers may hold.
LEMMA KeptRoutes ==
  ASSUME SafeInv, RoutesInv, TreeKept, HeldKept, UNCHANGED <<reader, history>>
  PROVE  RoutesInv'
<1>1. table' = table
  BY SameTable DEF table, TreeKept, SafeInv, Typed, HeapOK
<1>2. /\ rpc' = rpc /\ addr' = addr /\ at' = at /\ best' = best
      /\ mayHold' = mayHold /\ stable' = stable
  BY DEF reader, history
<1>3. ASSUME NEW r \in Readers, NEW p \in stable[r], NEW n \in mayHold[r] \cap Nodes
      PROVE  /\ Matches(KeyOf[n], p) /\ Len(KeyOf[n]) < Len(p) =>
                   LET c == link'[<<n, BitAt(p, Len(KeyOf[n]))>>]
                   IN  c # Null /\ Matches(KeyOf[c], p)
             /\ KeyOf[n] = p => value'[n] # Null
  <2>1. value'[n] = value[n] /\ \A d \in Bits : link'[<<n, d>>] = link[<<n, d>>]
    BY <1>3 DEF HeldKept
  <2>2. /\ Matches(KeyOf[n], p) /\ Len(KeyOf[n]) < Len(p) =>
              LET c == link[<<n, BitAt(p, Len(KeyOf[n]))>>]
              IN  c # Null /\ Matches(KeyOf[c], p)
        /\ KeyOf[n] = p => value[n] # Null
    BY <1>3 DEF RoutesInv, HeldRoutes, LeadsTo
  <2>3. p \in Prefixes
    BY <1>3 DEF SafeInv, Typed
  <2>4. Len(KeyOf[n]) < Len(p) => BitAt(p, Len(KeyOf[n])) \in Bits
    BY <2>3, NodesHaveKeys, KeyTypes, TrieAssumption
  <2> QED
    BY <2>1, <2>2, <2>4
<1>4. HeldRoutes'
  BY <1>2, <1>3 DEF HeldRoutes, LeadsTo
<1>5. \A r \in Readers : Ahead(r)'
  <2>1. \A r \in Readers : Ahead(r)
    BY DEF RoutesInv
  <2> QED
    BY <1>1, <1>2, <2>1 DEF Ahead, AheadOf, LongEnough
<1> QED
  BY <1>4, <1>5 DEF RoutesInv

\* A step of the writer that finds nothing to do.
LEMMA NothingRoutes ==
  ASSUME SafeInv, RoutesInv, UNCHANGED <<memory, reader, history>>
  PROVE  RoutesInv'
BY DEF RoutesInv, HeldRoutes, LeadsTo, Ahead, AheadOf, LongEnough, table, memory, reader, history

\* A reader that moves has the routes it needs behind it or ahead of it, if it
\* has them where it goes.
LEMMA MovesRoutes ==
  ASSUME SafeInv, RoutesInv, NEW r \in Readers, NEW l, NEW n, NEW b, Moves(r, l, n, b),
         Ahead(r)'
  PROVE  RoutesInv'
<1>1. /\ link' = link /\ value' = value /\ addr' = addr
      /\ mayHold' = mayHold /\ stable' = stable /\ table' = table
      /\ \A q \in Readers : q # r => rpc'[q] = rpc[q] /\ at'[q] = at[q] /\ best'[q] = best[q]
  BY DEF SafeInv, Typed, Moves, memory, history, table
<1>2. HeldRoutes'
  BY <1>1 DEF RoutesInv, HeldRoutes, LeadsTo
<1>3. ASSUME NEW q \in Readers, q # r
      PROVE  Ahead(q)'
  <2>1. Ahead(q)
    BY DEF RoutesInv
  <2> QED
    BY <1>1, <1>3, <2>1 DEF Ahead, AheadOf, LongEnough
<1> QED
  BY <1>2, <1>3 DEF RoutesInv

\* What a stable route of a reader is.
LEMMA StableRoute ==
  ASSUME SafeInv, RoutesInv, NEW r \in Readers, Guarded(r), NEW p \in stable[r]
  PROVE  /\ p \in Prefixes /\ p \in Keys /\ Len(p) \in Nat /\ Len(p) <= Width
         /\ table[p] # Null /\ Matches(p, addr[r])
         /\ addr[r] \in Keys /\ Len(addr[r]) = Width
         /\ link[RootSlot] # Null /\ Matches(KeyOf[link[RootSlot]], p)
<1>1. p \in Prefixes /\ table[p] # Null /\ Matches(p, addr[r])
  BY DEF RoutesInv, Ahead, AheadOf, Bound
<1>2. p \in Keys /\ Len(p) \in Nat /\ Len(p) <= Width
  BY <1>1, KeyTypes, TrieAssumption
<1>3. addr[r] \in Keys /\ Len(addr[r]) = Width
  BY HostsAreKeys, TrieAssumption DEF SafeInv, StandsOK
<1>4. link[RootSlot] # Null /\ Matches(KeyOf[link[RootSlot]], p)
  BY <1>1, RootLeadsOn DEF SafeInv, Typed, HeapOK, table
<1> QED
  BY <1>1, <1>2, <1>3, <1>4

\* The walk of a reader for the routes S: they cover its address, the node it
\* is at leads on to them, and so does the root when it loads that.
WalksFor(r, S) ==
    /\ \A p \in S : /\ p \in Keys /\ Len(p) \in Nat /\ Len(p) <= Width
                    /\ Matches(p, addr[r])
    /\ at[r] # Null => \A p \in S : LeadsTo(at[r], p)
    /\ rpc[r] = "root" =>
          \A p \in S : link[RootSlot] # Null /\ Matches(KeyOf[link[RootSlot]], p)

\* The load of root_: every route is below it.
LEMMA LoadRootAhead ==
  ASSUME SafeInv, NEW r \in Readers, NEW S, WalksFor(r, S), LoadRoot(r),
         Moves(r, "value", link[RootSlot], best[r])
  PROVE  AheadOf(r, S)'
<1>1. /\ rpc'[r] = "value" /\ at'[r] = link[RootSlot] /\ best'[r] = best[r]
      /\ addr' = addr
  BY DEF SafeInv, Typed, Moves
<1>2. best[r] = Null
  BY DEF LoadRoot, SafeInv, StandsOK
<1>3. \A p \in S : at'[r] # Null /\ Matches(KeyOf[at'[r]], p)
  BY <1>1 DEF WalksFor, LoadRoot
<1> QED
  BY <1>1, <1>2, <1>3 DEF AheadOf

\* The load of a node's value: a route that the node is bound to is behind the
\* reader, and one that it leads on to is ahead.
LEMMA LoadValueAhead ==
  ASSUME SafeInv, NEW r \in Readers, NEW S, WalksFor(r, S), AheadOf(r, S), LoadValue(r),
         Moves(r, IF Len(KeyOf[at[r]]) >= Width THEN "done" ELSE "child", at[r], Better(r))
  PROVE  AheadOf(r, S)'
<1> DEFINE n == at[r]
           l == IF Len(KeyOf[n]) >= Width THEN "done" ELSE "child"
<1>1. /\ rpc'[r] = l /\ at'[r] = n /\ best'[r] = Better(r) /\ addr' = addr
  BY DEF SafeInv, Typed, Moves
<1>2. /\ rpc[r] = "value"
      /\ n # Null /\ n \in Nodes /\ Matches(KeyOf[n], addr[r])
  BY DEF LoadValue, OnPath, SafeInv, Typed
<1>3. KeyOf[n] \in Keys /\ Len(KeyOf[n]) \in Nat
  BY <1>2, NodesHaveKeys
<1>4. /\ best[r] # Null => /\ Matches(EntryOf[best[r]], addr[r])
                           /\ Len(EntryOf[best[r]]) <= Len(KeyOf[n])
      /\ \A p \in S : LongEnough(r, p) \/ Matches(KeyOf[n], p)
  BY <1>2 DEF AheadOf
<1>5. value[n] # Null => EntryOf[value[n]] = KeyOf[n]
  BY <1>2 DEF SafeInv, HeapOK, ValuesOK
<1>6. /\ Better(r) # Null => /\ Matches(EntryOf[Better(r)], addr[r])
                             /\ Len(EntryOf[Better(r)]) <= Len(KeyOf[n])
      /\ value[n] # Null => Better(r) = value[n]
      /\ value[n] = Null => Better(r) = best[r]
  BY <1>2, <1>3, <1>4, <1>5 DEF Better
<1>7. ASSUME NEW p \in S
      PROVE  \/ LongEnough(r, p)'
             \/ l = "child" /\ Matches(KeyOf[n], p) /\ Len(KeyOf[n]) < Len(p)
  <2>1. p \in Keys /\ Len(p) \in Nat /\ Len(p) <= Width /\ LeadsTo(n, p)
    BY <1>2 DEF WalksFor
  <2>2. CASE LongEnough(r, p)
    <3>1. CASE value[n] = Null
      BY <1>1, <1>6, <2>2, <3>1 DEF LongEnough
    <3>2. CASE value[n] # Null
      <4>1. /\ best[r] # Null /\ Len(EntryOf[best[r]]) >= Len(p)
            /\ Len(EntryOf[best[r]]) <= Len(KeyOf[n])
        BY <1>4, <2>2 DEF LongEnough
      <4>2. EntryOf[best[r]] \in Keys /\ Len(EntryOf[best[r]]) \in Nat
        <5>1. best[r] \in Values
          BY <4>1 DEF SafeInv, Typed
        <5> QED
          BY <5>1, KeyTypes, TrieAssumption
      <4>3. Len(KeyOf[n]) >= Len(p)
        BY <1>3, <2>1, <4>1, <4>2
      <4> QED
        BY <1>1, <1>5, <1>6, <3>2, <4>3 DEF LongEnough
    <3> QED
      BY <3>1, <3>2
  <2>3. CASE Matches(KeyOf[n], p)
    <3>1. CASE KeyOf[n] = p
      <4>1. value[n] # Null
        BY <2>1, <3>1 DEF LeadsTo
      <4> QED
        BY <1>1, <1>5, <1>6, <2>1, <3>1, <4>1 DEF LongEnough
    <3>2. CASE KeyOf[n] # p
      <4>1. Len(KeyOf[n]) < Len(p)
        BY <1>3, <2>1, <2>3, <3>2, MatchOrder, TrieAssumption
      <4>2. l = "child"
        BY <1>3, <2>1, <4>1, TrieAssumption
      <4> QED
        BY <2>3, <4>1, <4>2
    <3> QED
      BY <3>1, <3>2
  <2> QED
    BY <1>4, <2>2, <2>3
<1>8. l \in {"child", "done"}
  OBVIOUS
<1> HIDE DEF l, n
<1> QED
  BY <1>1, <1>6, <1>7, <1>8 DEF AheadOf

\* The walk ends off the path of the address: no route was ahead.
LEMMA WalkEndsAhead ==
  ASSUME SafeInv, NEW r \in Readers, NEW S, WalksFor(r, S), AheadOf(r, S), WalkEnds(r),
         Moves(r, "done", at[r], best[r])
  PROVE  AheadOf(r, S)'
<1>1. rpc'[r] = "done" /\ best'[r] = best[r] /\ addr' = addr
  BY DEF SafeInv, Typed, Moves
<1>2. /\ rpc[r] = "value" /\ Guarded(r)
      /\ ~(at[r] # Null /\ Matches(KeyOf[at[r]], addr[r]))
  BY DEF WalkEnds, OnPath, Guarded
<1>3. ASSUME NEW p \in S
      PROVE  LongEnough(r, p)
  <2>1. LongEnough(r, p) \/ (at[r] # Null /\ Matches(KeyOf[at[r]], p))
    BY <1>2 DEF AheadOf
  <2>2. p \in Keys /\ addr[r] \in Keys /\ Matches(p, addr[r])
    BY <1>2, HostsAreKeys, TrieAssumption DEF WalksFor, SafeInv, StandsOK
  <2>3. ~(at[r] # Null /\ Matches(KeyOf[at[r]], p))
    <3>1. at[r] # Null => KeyOf[at[r]] \in Keys
      BY NodesHaveKeys DEF SafeInv, Typed
    <3> QED
      BY <1>2, <2>2, <3>1, MatchOrder, TrieAssumption
  <2> QED
    BY <2>1, <2>3
<1> QED
  BY <1>1, <1>3 DEF AheadOf, LongEnough

\* The load of a child: a route below the node is below that child.
LEMMA LoadChildAhead ==
  ASSUME SafeInv, NEW r \in Readers, NEW S, WalksFor(r, S), AheadOf(r, S), LoadChild(r),
         Moves(r, "value", link[<<at[r], BitAt(addr[r], Len(KeyOf[at[r]]))>>], best[r])
  PROVE  AheadOf(r, S)'
<1> DEFINE n == at[r]
           d == BitAt(addr[r], Len(KeyOf[n]))
           c == link[<<n, d>>]
<1>1. rpc'[r] = "value" /\ at'[r] = c /\ best'[r] = best[r] /\ addr' = addr
  BY DEF SafeInv, Typed, Moves
<1>2. Guarded(r) /\ rpc[r] = "child"
  BY DEF LoadChild, Guarded
<1>3. /\ n \in Nodes /\ d \in Bits
      /\ addr[r] \in Keys /\ KeyOf[n] \in Keys /\ Len(KeyOf[n]) \in Nat
  BY <1>2, NextBit
<1>4. n # Null
  BY <1>3, NodesHaveKeys
<1>5. /\ best[r] # Null => /\ Matches(EntryOf[best[r]], addr[r])
                           /\ Len(EntryOf[best[r]]) <= Len(KeyOf[n])
      /\ \A p \in S :
            LongEnough(r, p) \/ (Matches(KeyOf[n], p) /\ Len(KeyOf[n]) < Len(p))
  BY <1>2, <1>4 DEF AheadOf
<1>9. \A p \in S : p \in Keys /\ Matches(p, addr[r]) /\ LeadsTo(n, p)
  BY <1>4 DEF WalksFor
<1> HIDE DEF n, d, c
<1>6. ASSUME NEW p \in S, Matches(KeyOf[n], p), Len(KeyOf[n]) < Len(p)
      PROVE  c # Null /\ Matches(KeyOf[c], p)
  <2>1. d = BitAt(p, Len(KeyOf[n]))
    BY <1>3, <1>6, <1>9, MatchBits, TrieAssumption DEF d
  <2> QED
    BY <1>6, <1>9, <2>1 DEF LeadsTo, c
<1>7. best[r] # Null /\ c # Null => Len(EntryOf[best[r]]) <= Len(KeyOf[c])
  <2> SUFFICES ASSUME best[r] # Null, c # Null
               PROVE  Len(EntryOf[best[r]]) <= Len(KeyOf[c])
    OBVIOUS
  <2>1. Len(KeyOf[n]) < Len(KeyOf[c])
    BY <1>3 DEF SafeInv, HeapOK, Ordered, c
  <2>2. c \in Nodes /\ Len(KeyOf[c]) \in Nat
    BY <1>3, SlotFacts, NodesHaveKeys DEF SafeInv, Typed, Links, c
  <2>3. Len(EntryOf[best[r]]) \in Nat
    <3>1. best[r] \in Values
      BY DEF SafeInv, Typed
    <3> QED
      BY <3>1, KeyTypes, TrieAssumption
  <2>4. Len(EntryOf[best[r]]) <= Len(KeyOf[n])
    BY <1>5
  <2> QED
    BY <1>3, <2>1, <2>2, <2>3, <2>4
<1>8. \A p : LongEnough(r, p)' <=> LongEnough(r, p)
  BY <1>1 DEF LongEnough
<1>10. \A p \in S : LongEnough(r, p)' \/ (c # Null /\ Matches(KeyOf[c], p))
  BY <1>5, <1>6, <1>8
<1>11. /\ best[r] # Null => Matches(EntryOf[best[r]], addr[r])
       /\ best[r] # Null /\ c # Null => Len(EntryOf[best[r]]) <= Len(KeyOf[c])
  BY <1>5, <1>7
<1> QED
  BY ONLY <1>1, <1>10, <1>11 DEF AheadOf

\* The loads of a lookup.
LEMMA ReaderStepAhead ==
  ASSUME SafeInv, NEW r \in Readers, NEW S, WalksFor(r, S), AheadOf(r, S), ReaderStep(r)
  PROVE  AheadOf(r, S)'
BY ReaderMoves, LoadRootAhead, LoadValueAhead, WalkEndsAhead, LoadChildAhead

\* The stable routes are of that kind.
LEMMA ReaderStepRoutes ==
  ASSUME SafeInv, RoutesInv, NEW r \in Readers, ReaderStep(r)
  PROVE  RoutesInv'
<1>1. Guarded(r) /\ \E l, n, b : Moves(r, l, n, b)
  BY ReaderMoves
<1>2. stable' = stable /\ addr' = addr /\ table' = table /\ rpc'[r] # "idle"
  <2>1. stable' = stable /\ addr' = addr /\ table' = table
    BY <1>1 DEF Moves, memory, history, table
  <2>2. PICK l \in {"value", "child", "done"} : rpc' = [rpc EXCEPT ![r] = l]
    <3>1. \E l \in {"value", "child", "done"} : \E n, b : Moves(r, l, n, b)
      BY ReaderMoves
    <3> QED
      BY <3>1 DEF Moves
  <2>3. rpc'[r] = l
    <3>1. rpc \in [Readers -> {"idle", "root", "value", "child", "done"}]
      BY DEF SafeInv, Typed
    <3> QED
      BY ONLY <2>2, <3>1, r \in Readers
  <2> QED
    BY <2>1, <2>2, <2>3
<1> DEFINE S == stable[r]
<1>3. \A p \in S : /\ p \in Keys /\ Len(p) \in Nat /\ Len(p) <= Width
                   /\ Matches(p, addr[r]) /\ link[RootSlot] # Null
                   /\ Matches(KeyOf[link[RootSlot]], p)
  BY <1>1, StableRoute
<1>4. at[r] # Null => \A p \in S : LeadsTo(at[r], p)
  BY DEF RoutesInv, HeldRoutes, SafeInv, StandsOK, Typed
<1>5. AheadOf(r, S) /\ S \subseteq Bound(table, addr[r])
  BY DEF RoutesInv, Ahead
<1>6. WalksFor(r, S)
  BY <1>3, <1>4 DEF WalksFor
<1>7. S' = S
  BY <1>2
<1> HIDE DEF S
<1>8. AheadOf(r, S)'
  BY <1>5, <1>6, <1>7, ReaderStepAhead DEF AheadOf, LongEnough
<1> USE DEF S
<1>9. Ahead(r)'
  BY <1>2, <1>5, <1>8 DEF Ahead, AheadOf
<1> QED
  BY <1>1, <1>9, MovesRoutes

\* A reader enters its guard: every route that covers the address is stable.
LEMMA EnterRoutes ==
  ASSUME SafeInv, SafeInv', RoutesInv, NEW r \in Readers, NEW a \in Addresses, Enter(r, a)
  PROVE  RoutesInv'
<1>1. /\ link' = link /\ value' = value /\ table' = table /\ at' = at /\ best' = best
      /\ rpc[r] = "idle" /\ rpc'[r] = "root" /\ addr'[r] = a
      /\ mayHold'[r] = Reachable(link, value) /\ stable'[r] = Bound(table, a)
      /\ \A q \in Readers : q # r => /\ rpc'[q] = rpc[q] /\ addr'[q] = addr[q]
                                     /\ mayHold'[q] = mayHold[q] /\ stable'[q] = stable[q]
  BY DEF SafeInv, Typed, Enter, Goto, memory, table
<1>2. best[r] = Null
  BY <1>1 DEF SafeInv, StandsOK
<1>3. ASSUME NEW p \in stable'[r], NEW n \in mayHold'[r] \cap Nodes
      PROVE  /\ Matches(KeyOf[n], p) /\ Len(KeyOf[n]) < Len(p) =>
                   LET c == link[<<n, BitAt(p, Len(KeyOf[n]))>>]
                   IN  c # Null /\ Matches(KeyOf[c], p)
             /\ KeyOf[n] = p => value[n] # Null
  <2>1. /\ link \in Links /\ Ordered(link) /\ value \in [Nodes -> Values \cup {Null}]
        /\ n \notin Values
    BY TrieAssumption DEF SafeInv, Typed, HeapOK
  <2>2. n \in Tree(link)
    BY <1>1, <1>3, <2>1, ReachableType
  <2>3. p \in Prefixes /\ Table(link, value)[p] # Null
    BY <1>1, <1>3 DEF Bound, table
  <2> QED
    BY <2>1, <2>2, <2>3, TreeLeadsOn
<1>4. ASSUME NEW q \in Readers, q # r
      PROVE  /\ Ahead(q)'
             /\ \A p \in stable'[q] : \A n \in mayHold'[q] \cap Nodes :
                   /\ Matches(KeyOf[n], p) /\ Len(KeyOf[n]) < Len(p) =>
                         LET c == link[<<n, BitAt(p, Len(KeyOf[n]))>>]
                         IN  c # Null /\ Matches(KeyOf[c], p)
                   /\ KeyOf[n] = p => value[n] # Null
  BY <1>1, <1>4 DEF RoutesInv, HeldRoutes, LeadsTo, Ahead, AheadOf, LongEnough
<1>5. HeldRoutes'
  BY <1>1, <1>3, <1>4 DEF HeldRoutes, LeadsTo
<1>6. Ahead(r)'
  BY <1>1, <1>2 DEF Ahead, AheadOf
<1> QED
  BY <1>4, <1>5, <1>6 DEF RoutesInv

\* A reader leaves its guard.
LEMMA LeaveRoutes ==
  ASSUME SafeInv, RoutesInv, NEW r \in Readers, Leave(r)
  PROVE  RoutesInv'
<1>1. /\ link' = link /\ value' = value /\ table' = table
      /\ rpc'[r] = "idle" /\ best'[r] = Null /\ stable'[r] = {}
      /\ \A q \in Readers : q # r =>
            /\ rpc'[q] = rpc[q] /\ addr'[q] = addr[q] /\ at'[q] = at[q] /\ best'[q] = best[q]
            /\ mayHold'[q] = mayHold[q] /\ stable'[q] = stable[q]
  BY DEF SafeInv, Typed, Leave, Goto, memory, table
<1>2. HeldRoutes'
  BY <1>1 DEF RoutesInv, HeldRoutes, LeadsTo
<1>3. ASSUME NEW q \in Readers, q # r
      PROVE  Ahead(q)'
  <2>1. Ahead(q)
    BY DEF RoutesInv
  <2> QED
    BY <1>1, <1>3, <2>1 DEF Ahead, AheadOf, LongEnough
<1>4. Ahead(r)'
  BY <1>1 DEF Ahead, AheadOf
<1> QED
  BY <1>2, <1>3, <1>4 DEF RoutesInv

\* Every step keeps the readers' routes.
LEMMA NextRoutes ==
  ASSUME SafeInv, SafeInv', Alone, RoutesInv, Next
  PROVE  RoutesInv'
<1>1. CASE Stores
  BY <1>1, StoresRoutes
<1>2. CASE Retires
  BY <1>2, RetireSafe, DeletesUnheld, KeptRoutes
<1>3. CASE PruneNothing \/ CollapseNothing
  BY <1>3, NothingRoutes DEF PruneNothing, CollapseNothing
<1>4. CASE Reclaim
  BY <1>4, ReclaimSafe, DeletesUnheld, KeptRoutes
<1>5. ASSUME NEW r \in Readers,
             (\E a \in Addresses : Enter(r, a)) \/ ReaderStep(r) \/ Leave(r)
      PROVE  RoutesInv'
  BY <1>5, EnterRoutes, ReaderStepRoutes, LeaveRoutes
<1> QED
  BY <1>1, <1>2, <1>3, <1>4, <1>5 DEF Next, Stores, WriterStep, Retires

\* The readers' routes, from the first state on.
LEMMA InitRoutes ==
  ASSUME TrieInit
  PROVE  RoutesInv
<1>1. /\ rpc = [r \in Readers |-> "idle"] /\ best = [r \in Readers |-> Null]
      /\ stable = [r \in Readers |-> {}]
  BY DEF TrieInit
<1> QED
  BY <1>1 DEF RoutesInv, HeldRoutes, LeadsTo, Ahead, AheadOf

\* What the readers' routes say of a lookup that is over.
LEMMA RoutesNotMissed ==
  ASSUME SafeInv, RoutesInv
  PROVE  NoStableRouteMissed
<1> SUFFICES ASSUME NEW r \in Readers, rpc[r] = "done"
             PROVE  /\ best[r] # Null =>
                          /\ Matches(EntryOf[best[r]], addr[r])
                          /\ best[r] \in mayHold[r]
                    /\ \A p \in stable[r] :
                          best[r] # Null /\ Len(EntryOf[best[r]]) >= Len(p)
  BY DEF NoStableRouteMissed
<1>1. best[r] # Null => best[r] \in mayHold[r]
  BY DEF SafeInv, StandsOK
<1>2. /\ best[r] # Null => Matches(EntryOf[best[r]], addr[r])
      /\ \A p \in stable[r] : LongEnough(r, p)
  BY DEF RoutesInv, Ahead, AheadOf
<1> QED
  BY <1>1, <1>2 DEF LongEnough

-----------------------------------------------------------------------------
(* The routing table that the trie stands for *)

\* The table that differs from the present one in what p is bound to.
LEMMA TableExcept ==
  ASSUME link \in Links, Ordered(link), link' \in Links, Ordered(link'),
         NEW p \in Prefixes, NEW v,
         \A n \in Tree(link') : KeyOf[n] = p => value'[n] = v,
         (\A n \in Tree(link') : KeyOf[n] # p) => v = Null,
         \A n \in Tree(link) : KeyOf[n] # p =>
            n \in Tree(link') /\ value'[n] = value[n],
         \A n \in Tree(link') : KeyOf[n] # p => n \in Tree(link) \/ value'[n] = Null
  PROVE  table' = [table EXCEPT ![p] = v]
<1>1. /\ DOMAIN table = Prefixes /\ table = [q \in Prefixes |-> table[q]]
      /\ \A n \in Tree(link), q \in Prefixes : KeyOf[n] = q => table[q] = value[n]
      /\ \A q \in Prefixes : (\A n \in Tree(link) : KeyOf[n] # q) => table[q] = Null
  BY TableLemma DEF table
<1>2. /\ table' = [q \in Prefixes |-> table'[q]]
      /\ \A n \in Tree(link'), q \in Prefixes : KeyOf[n] = q => table'[q] = value'[n]
      /\ \A q \in Prefixes : (\A n \in Tree(link') : KeyOf[n] # q) => table'[q] = Null
  <2>1. table' = Table(link', value')
    BY DEF table
  <2> HIDE DEF table
  <2> QED
    BY <2>1, TableLemma
<1> HIDE DEF table
<1>3. table'[p] = v
  BY <1>2
<1>4. ASSUME NEW q \in Prefixes, q # p
      PROVE  table'[q] = table[q]
  <2>1. CASE \E n \in Tree(link) : KeyOf[n] = q
    BY <1>1, <1>2, <1>4, <2>1
  <2>2. CASE \A n \in Tree(link) : KeyOf[n] # q
    BY <1>1, <1>2, <1>4, <2>2
  <2> QED
    BY <2>1, <2>2
<1>5. \A q \in Prefixes : table'[q] = [table EXCEPT ![p] = v][q]
  BY <1>1, <1>3, <1>4
<1>6. [table EXCEPT ![p] = v] = [q \in Prefixes |-> [table EXCEPT ![p] = v][q]]
  BY <1>1
<1> QED
  BY <1>2, <1>5, <1>6

\* insert() binds the prefix to the new value.
LEMMA InsertTable ==
  ASSUME SafeInv, NEW p \in Prefixes, Insert(p)
  PROVE  /\ table' = [table EXCEPT ![p] = NewValue(p)]
         /\ NewValue(p) \in Values /\ EntryOf[NewValue(p)] = p
         /\ life[NewValue(p)] = "free"
<1>1. /\ Typed /\ HeapOK /\ link \in Links /\ Ordered(link)
      /\ value \in [Nodes -> Values \cup {Null}] /\ Tree(link) \subseteq Nodes
  BY TreeLemma DEF SafeInv, Typed, HeapOK
<1>2. CASE InsertLeaf(p) \/ InsertSplit(p) \/ InsertAbove(p)
  <2>1. PICK n, more : Adds(p, n, more)
    BY <1>1, <1>2, InsertAdds
  <2>2. /\ n \in Nodes /\ more \subseteq Nodes /\ n \notin more /\ KeyOf[n] = p
        /\ \A m \in {n} \cup more : life[m] = "free" /\ m \notin Tree(link)
        /\ NewValue(p) \in Values /\ EntryOf[NewValue(p)] = p
        /\ life[NewValue(p)] = "free"
        /\ link' \in Links /\ Ordered(link')
        /\ Tree(link') = Tree(link) \cup {n} \cup more
        /\ value' = [value EXCEPT ![n] = NewValue(p)]
    BY <2>1 DEF Adds, Grows
  <2> DEFINE v == NewValue(p)
  <2> HIDE DEF v
  <2>3. value'[n] = v /\ \A m \in Nodes : m # n => value'[m] = value[m]
    BY <1>1, <2>2 DEF v
  <2>4. \A m \in Tree(link') : KeyOf[m] = p => m = n
    BY <2>2, AllPlaced DEF Placed
  <2>5. \A m \in more : value[m] = Null
    BY <1>1, <2>2, FreeOutside
  <2>6. table' = [table EXCEPT ![p] = v]
    <3>1. \A m \in Tree(link') : KeyOf[m] = p => value'[m] = v
      BY <2>3, <2>4
    <3>2. (\A m \in Tree(link') : KeyOf[m] # p) => v = Null
      BY <2>2
    <3>3. \A m \in Tree(link) : KeyOf[m] # p => m \in Tree(link') /\ value'[m] = value[m]
      BY <1>1, <2>2, <2>3
    <3>4. \A m \in Tree(link') : KeyOf[m] # p => m \in Tree(link) \/ value'[m] = Null
      BY <2>2, <2>3, <2>5
    <3> QED
      BY <1>1, <2>2, <3>1, <3>2, <3>3, <3>4, TableExcept
  <2> QED
    BY <2>2, <2>6 DEF v
<1>3. CASE InsertExchange(p)
  <2> DEFINE n == StopNode(p)
             v == NewValue(p)
  <2>1. /\ n # Null /\ KeyOf[n] = p /\ FreeValues(p) # {} /\ link' = link
        /\ value' = [value EXCEPT ![n] = v]
    BY <1>3 DEF InsertExchange
  <2>2. n \in Tree(link) /\ n \in Nodes
    BY <1>1, <2>1, StopLemma
  <2>3. v \in Values /\ EntryOf[v] = p /\ life[v] = "free"
    BY <1>1, <2>1, Fresh
  <2> HIDE DEF n, v
  <2>4. value'[n] = v /\ \A m \in Nodes : m # n => value'[m] = value[m]
    BY <1>1, <2>1, <2>2
  <2>5. \A m \in Tree(link) : KeyOf[m] = p => m = n
    BY <1>1, <2>1, <2>2, AllPlaced DEF Placed
  <2>6. table' = [table EXCEPT ![p] = v]
    <3>1. \A m \in Tree(link') : KeyOf[m] = p => value'[m] = v
      BY <2>1, <2>4, <2>5
    <3>2. (\A m \in Tree(link') : KeyOf[m] # p) => v = Null
      BY <2>1, <2>2
    <3>3. \A m \in Tree(link) : KeyOf[m] # p => m \in Tree(link') /\ value'[m] = value[m]
      BY <1>1, <2>1, <2>4
    <3> QED
      BY <1>1, <2>1, <3>1, <3>2, <3>3, TableExcept
  <2> QED
    BY <2>3, <2>6 DEF v
<1> QED
  BY <1>2, <1>3 DEF Insert

\* erase() unbinds a bound prefix in its first store.
LEMMA EraseTable ==
  ASSUME SafeInv, NEW p \in Prefixes, Erase(p)
  PROVE  table[p] # Null /\ table' = [table EXCEPT ![p] = Null]
<1> DEFINE n == StopNode(p)
<1>1. /\ Typed /\ HeapOK /\ link \in Links /\ Ordered(link)
      /\ value \in [Nodes -> Values \cup {Null}] /\ Tree(link) \subseteq Nodes
  BY TreeLemma DEF SafeInv, Typed, HeapOK
<1>2. /\ n # Null /\ KeyOf[n] = p /\ value[n] # Null /\ link' = link
      /\ value' = [value EXCEPT ![n] = Null]
  BY DEF Erase, IsRoute
<1>3. n \in Tree(link) /\ n \in Nodes
  BY <1>1, <1>2, StopLemma
<1> HIDE DEF n
<1>4. value'[n] = Null /\ \A m \in Nodes : m # n => value'[m] = value[m]
  BY <1>1, <1>2, <1>3
<1>5. \A m \in Tree(link) : KeyOf[m] = p => m = n
  BY <1>1, <1>2, <1>3, AllPlaced DEF Placed
<1>6. table[p] # Null
  BY <1>1, <1>2, <1>3, TableLemma DEF table
<1>7. table' = [table EXCEPT ![p] = Null]
  <2>1. \A m \in Tree(link') : KeyOf[m] = p => value'[m] = Null
    BY <1>2, <1>4, <1>5
  <2>2. \A m \in Tree(link) : KeyOf[m] # p => m \in Tree(link') /\ value'[m] = value[m]
    BY <1>1, <1>2, <1>4
  <2> QED
    BY <1>1, <1>2, <2>1, <2>2, TableExcept
<1> QED
  BY <1>6, <1>7

\* Taking out a node without a value changes nothing that a walk finds.
LEMMA UnlinkTable ==
  ASSUME SafeInv, NEW slot, Unhangs(slot), value[link[slot]] = Null, value' = value
  PROVE  table' = table
<1> DEFINE x == link[slot]
<1>1. /\ link \in Links /\ Ordered(link) /\ link' \in Links /\ Ordered(link')
      /\ x \in Tree(link) /\ Tree(link') = Tree(link) \ {x} /\ value[x] = Null
  BY DEF SafeInv, Typed, HeapOK, Unhangs
<1> HIDE DEF x
<1>2. /\ table = [q \in Prefixes |-> table[q]]
      /\ \A n \in Tree(link), q \in Prefixes : KeyOf[n] = q => table[q] = value[n]
      /\ \A q \in Prefixes : (\A n \in Tree(link) : KeyOf[n] # q) => table[q] = Null
  BY <1>1, TableLemma DEF table
<1>3. /\ table' = [q \in Prefixes |-> table'[q]]
      /\ \A n \in Tree(link'), q \in Prefixes : KeyOf[n] = q => table'[q] = value[n]
      /\ \A q \in Prefixes : (\A n \in Tree(link') : KeyOf[n] # q) => table'[q] = Null
  <2>1. table' = Table(link', value)
    BY DEF table
  <2> HIDE DEF table
  <2> QED
    BY <1>1, <2>1, TableLemma
<1> HIDE DEF table
<1>4. ASSUME NEW q \in Prefixes
      PROVE  table'[q] = table[q]
  <2>1. CASE \E n \in Tree(link') : KeyOf[n] = q
    BY <1>1, <1>2, <1>3, <2>1
  <2>2. CASE \A n \in Tree(link') : KeyOf[n] # q
    <3>1. CASE \E n \in Tree(link) : KeyOf[n] = q
      <4>1. KeyOf[x] = q
        BY <1>1, <2>2, <3>1
      <4> QED
        BY <1>1, <1>2, <1>3, <2>2, <4>1
    <3>2. CASE \A n \in Tree(link) : KeyOf[n] # q
      BY <1>2, <1>3, <2>2, <3>2
    <3> QED
      BY <3>1, <3>2
  <2> QED
    BY <2>1, <2>2
<1> QED
  BY <1>2, <1>3, <1>4

\* The other steps of the writer do not change the table.
LEMMA WriterStepTable ==
  ASSUME SafeInv, Alone, WriterStep
  PROVE  table' = table
<1>1. CASE Prune
  <2>1. Unhangs(place.slot) /\ value' = value /\ value[link[place.slot]] = Null
    BY <1>1, PruneSafe DEF Prune, SafeInv, PlaceOK
  <2> QED
    BY <2>1, UnlinkTable
<1>2. CASE Collapse
  <2>1. /\ Unhangs(place.above) /\ value' = value
        /\ link[place.above] = place.slot[1] /\ value[place.slot[1]] = Null
    BY <1>2, CollapseSafe DEF Collapse, Collapsible
  <2> QED
    BY <2>1, UnlinkTable
<1>3. CASE Retires
  BY <1>3, RetireSafe, SameTable DEF table, TreeKept, SafeInv, Typed, HeapOK
<1>4. CASE PruneNothing \/ CollapseNothing
  BY <1>4 DEF PruneNothing, CollapseNothing, table, memory
<1> QED
  BY <1>1, <1>2, <1>3, <1>4 DEF WriterStep, Retires

\* clear() unbinds every prefix in its one store.
LEMMA ClearTable ==
  ASSUME SafeInv, Clear
  PROVE  table' = [p \in Prefixes |-> Null]
<1>1. Tree(link') = {} /\ link' \in Links /\ Ordered(link')
  BY ClearSafe DEF SafeInv, Typed, HeapOK
<1>2. table' = Table(link', value')
  BY DEF table
<1> HIDE DEF table
<1>3. \A p \in Prefixes : table'[p] = Null
  BY <1>1, <1>2, TableLemma
<1>4. table' = [p \in Prefixes |-> table'[p]]
  BY <1>1, <1>2, TableLemma
<1> QED
  BY <1>3, <1>4

\* What neither the readers nor the Reclaimer change.
LEMMA QuietTable ==
  ASSUME SafeInv,
         \/ Reclaim
         \/ \E r \in Readers :
               (\E a \in Addresses : Enter(r, a)) \/ ReaderStep(r) \/ Leave(r)
         \/ UNCHANGED trieVars
  PROVE  table' = table
<1>1. CASE Reclaim
  BY <1>1, ReclaimSafe, SameTable DEF table, TreeKept, SafeInv, Typed, HeapOK
<1>2. CASE UNCHANGED memory
  BY <1>2 DEF table, memory
<1> QED
  BY <1>1, <1>2 DEF Enter, ReaderStep, LoadRoot, LoadValue, WalkEnds, LoadChild, Leave, trieVars

-----------------------------------------------------------------------------
(* Path compression *)

\* Node n has two children.
Branching(n) == \A d \in Bits : link[<<n, d>>] # Null

\* The node that the writer has yet to prune or to collapse.
Excused ==
    IF wpc \in {"erased", "prune"} THEN {link[place.slot]}
    ELSE IF wpc \in {"pruned", "collapse"} THEN {place.slot[1]} ELSE {}

\* A node without a value branches, but for the one the writer is at, and that
\* one has kept a child if it is about to be collapsed.
BranchOK ==
    /\ \A n \in Tree(link) \ Excused : value[n] = Null => Branching(n)
    /\ wpc \in {"pruned", "collapse"} /\ place.slot # RootSlot
          /\ value[place.slot[1]] = Null
       => \E d \in Bits : link[<<place.slot[1], d>>] # Null

\* insert() adds nodes with a value or with two children.
LEMMA InsertBranches ==
  ASSUME SafeInv, BranchOK, NEW p \in Prefixes, Insert(p)
  PROVE  BranchOK'
<1>1. /\ Typed /\ HeapOK /\ link \in Links /\ Ordered(link)
      /\ value \in [Nodes -> Values \cup {Null}] /\ Tree(link) \subseteq Nodes
  BY TreeLemma DEF SafeInv, Typed, HeapOK
<1>2. wpc = "idle" /\ wpc' \in {"idle", "replaced"}
  BY DEF Insert, InsertLeaf, InsertSplit, InsertAbove, InsertExchange, Publish, MayBegin, writer
<1>3. \A n \in Tree(link) : value[n] = Null => Branching(n)
  BY <1>2 DEF BranchOK, Excused
<1>4. SUFFICES \A n \in Tree(link') : value'[n] = Null => \A d \in Bits : link'[<<n, d>>] # Null
  BY <1>2 DEF BranchOK, Branching
<1>5. CASE InsertLeaf(p) \/ InsertSplit(p) \/ InsertAbove(p)
  <2>1. PICK n, more : Adds(p, n, more)
    BY <1>1, <1>5, InsertAdds
  <2>2. /\ n \in Nodes /\ n \notin Tree(link) /\ NewValue(p) # Null
        /\ Tree(link') = Tree(link) \cup {n} \cup more
        /\ \A m \in more, d \in Bits : link'[<<m, d>>] # Null
        /\ \A m \in Tree(link), d \in Bits : link[<<m, d>>] # Null => link'[<<m, d>>] # Null
        /\ value' = [value EXCEPT ![n] = NewValue(p)]
    BY <2>1 DEF Adds, Grows
  <2>3. value'[n] # Null /\ \A m \in Nodes : m # n => value'[m] = value[m]
    BY <1>1, <2>2
  <2> QED
    BY <1>1, <1>3, <2>2, <2>3 DEF Branching
<1>6. CASE InsertExchange(p)
  <2> DEFINE n == StopNode(p)
             v == NewValue(p)
  <2>1. /\ n # Null /\ FreeValues(p) # {} /\ link' = link
        /\ value' = [value EXCEPT ![n] = v]
    BY <1>6 DEF InsertExchange
  <2>2. n \in Nodes /\ v # Null
    BY <1>1, <2>1, StopLemma, Fresh
  <2> HIDE DEF n, v
  <2>3. value'[n] # Null /\ \A m \in Nodes : m # n => value'[m] = value[m]
    BY <1>1, <2>1, <2>2
  <2> QED
    BY <1>1, <1>3, <2>1, <2>3 DEF Branching
<1> QED
  BY <1>5, <1>6 DEF Insert

\* The node that loses its value is the one the writer goes on to prune.
LEMMA EraseBranches ==
  ASSUME SafeInv, BranchOK, NEW p \in Prefixes, Erase(p)
  PROVE  BranchOK'
<1>1. /\ Typed /\ HeapOK /\ value \in [Nodes -> Values \cup {Null}] /\ Tree(link) \subseteq Nodes
  BY TreeLemma DEF SafeInv, Typed, HeapOK
<1>2. /\ wpc = "idle" /\ wpc' = "erased" /\ link' = link
      /\ link'[place'.slot] = StopNode(p) /\ StopNode(p) # Null
      /\ value' = [value EXCEPT ![StopNode(p)] = Null]
  BY DEF Erase, MayBegin, IsRoute, StopNode, StopSlot
<1>3. StopNode(p) \in Nodes
  BY <1>1, <1>2, StopLemma
<1>4. \A m \in Nodes : m # StopNode(p) => value'[m] = value[m]
  BY <1>1, <1>2, <1>3
<1>5. Excused' = {StopNode(p)}
  BY <1>2 DEF Excused
<1> QED
  BY <1>1, <1>2, <1>4, <1>5 DEF BranchOK, Excused, Branching

\* A step that keeps the tree and the writer's place.
LEMMA KeptBranches ==
  ASSUME SafeInv, BranchOK, TreeKept, Excused' = Excused,
         wpc' \in {"pruned", "collapse"} =>
            wpc \in {"pruned", "collapse"} /\ place' = place
  PROVE  BranchOK'
<1>1. /\ Typed /\ HeapOK /\ PlaceOK /\ Tree(link') = Tree(link)
      /\ \A t \in TreeSlots(link) : link'[t] = link[t]
      /\ \A n \in Tree(link) : value'[n] = value[n]
  BY DEF SafeInv, TreeKept
<1>2. \A n \in Tree(link), d \in Bits : link'[<<n, d>>] = link[<<n, d>>]
  BY <1>1 DEF TreeSlots
<1>3. \A n \in Tree(link') \ Excused' : value'[n] = Null => \A d \in Bits : link'[<<n, d>>] # Null
  BY <1>1, <1>2 DEF BranchOK, Branching
<1>4. ASSUME wpc' \in {"pruned", "collapse"}, place'.slot # RootSlot,
             value'[place'.slot[1]] = Null
      PROVE  \E d \in Bits : link'[<<place'.slot[1], d>>] # Null
  <2>1. wpc \in {"pruned", "collapse"} /\ place' = place
    BY <1>4
  <2>2. place.slot[1] \in Tree(link)
    BY <1>1, <1>4, <2>1, OneParent DEF PlaceOK, PlaceLinked, Typed, HeapOK
  <2> QED
    BY <1>1, <1>2, <1>4, <2>1, <2>2 DEF BranchOK
<1> QED
  BY <1>3, <1>4 DEF BranchOK, Branching

\* retire() and the deleters.
LEMMA DeleteBranches ==
  ASSUME SafeInv, BranchOK,
         (Alone /\ Retires) \/ Reclaim
  PROVE  BranchOK'
<1>1. SafeInv' /\ TreeKept /\ Typed /\ HeapOK /\ PlaceOK
  BY RetireSafe, ReclaimSafe DEF SafeInv
<1>2. CASE RetireErased \/ RetireSubtree \/ Reclaim
  <2>1. /\ place' = place
        /\ wpc' \in {"erased", "prune"} <=> wpc \in {"erased", "prune"}
        /\ wpc' \in {"pruned", "collapse"} <=> wpc \in {"pruned", "collapse"}
    BY <1>2 DEF RetireErased, RetireSubtree, Reclaim, writer
  <2>2. wpc \in {"erased", "prune"} => link'[place'.slot] = link[place.slot]
    BY <1>1, <2>1, KeptPlace DEF PlaceOK
  <2>3. Excused' = Excused
    BY <2>1, <2>2 DEF Excused
  <2> QED
    BY <1>1, <2>1, <2>3, KeptBranches
<1>3. CASE RetirePruned
  <2>1. wpc = "pruned" /\ wpc' = "collapse" /\ place' = place
    BY <1>3 DEF RetirePruned
  <2> QED
    BY <1>1, <2>1, KeptBranches DEF Excused
<1>4. CASE RetireReplaced \/ RetireCollapsed \/ CountCleared
  <2>1. wpc \in {"replaced", "collapsed", "cleared"} /\ wpc' = "idle"
    BY <1>4 DEF RetireReplaced, RetireCollapsed, CountCleared, WriterDone
  <2> QED
    BY <1>1, <2>1, KeptBranches DEF Excused
<1> QED
  BY <1>2, <1>3, <1>4 DEF Retires

\* A node that still branches, or that has a value, needs no excuse.
LEMMA NothingBranches ==
  ASSUME SafeInv, BranchOK, PruneNothing \/ CollapseNothing
  PROVE  BranchOK'
<1>1. /\ Typed /\ HeapOK /\ PlaceOK /\ link \in Links /\ Ordered(link)
      /\ link' = link /\ value' = value /\ wpc' = "idle"
  BY DEF SafeInv, Typed, HeapOK, PruneNothing, CollapseNothing, memory, WriterDone
<1>2. SUFFICES ASSUME NEW n \in Tree(link), n \in Excused, value[n] = Null
               PROVE  Branching(n)
  BY <1>1 DEF BranchOK, Branching
<1>3. CASE PruneNothing
  <2>1. n = link[place.slot] /\ Cardinality(Children(n)) = 2
    BY <1>2, <1>3 DEF PruneNothing, Excused
  <2> QED
    BY <1>1, <2>1, ChildrenLemma DEF Branching, Bits
<1>4. CASE CollapseNothing
  <2>1. n = place.slot[1] /\ ~Collapsible(n)
    BY <1>2, <1>4 DEF CollapseNothing, Excused
  <2>2. n # Null
    BY <1>1, TreeLemma, NodesHaveKeys
  <2>3. ~(Cardinality(Children(n)) < 2)
    BY <1>2, <2>1, <2>2 DEF Collapsible
  <2>4. Cardinality(Children(n)) \in 0 .. 2
    BY <1>1, ChildrenLemma
  <2>5. Cardinality(Children(n)) = 2
    BY <2>3, <2>4
  <2> QED
    BY <1>1, <2>5, ChildrenLemma DEF Branching, Bits
<1> QED
  BY <1>3, <1>4

\* The erased node goes, and its parent is left with its other child.
LEMMA PruneBranches ==
  ASSUME SafeInv, BranchOK, Prune
  PROVE  BranchOK'
<1> DEFINE slot == place.slot
           x == link[slot]
<1>1. /\ Typed /\ HeapOK /\ PlaceOK /\ link \in Links /\ Ordered(link)
      /\ value' = value /\ wpc = "prune" /\ wpc' = "pruned" /\ place' = place
      /\ Tree(link) \subseteq Nodes
  BY TreeLemma DEF SafeInv, Typed, HeapOK, Prune
<1>2. /\ x \in Tree(link) /\ Tree(link') = Tree(link) \ {x}
      /\ slot # RootSlot => slot[1] \in Tree(link')
      /\ \A t \in Slots : t # slot => link'[t] = link[t]
  BY PruneSafe DEF Unhangs
<1>3. slot \in TreeSlots(link)
  BY <1>1 DEF PlaceOK, PlaceLinked
<1>4. slot = RootSlot \/ (slot[1] \in Tree(link) /\ slot[2] \in Bits /\ slot = <<slot[1], slot[2]>>)
  BY <1>1, <1>3, OneParent
<1>5. \A n \in Tree(link) : n # x /\ value[n] = Null => Branching(n)
  BY <1>1 DEF BranchOK, Excused
<1>6. Excused' = {slot[1]}
  BY <1>1 DEF Excused
<1> HIDE DEF x, slot
<1>7. ASSUME NEW n \in Tree(link'), n # slot[1], value'[n] = Null
      PROVE  \A d \in Bits : link'[<<n, d>>] # Null
  <2>1. \A d \in Bits : <<n, d>> \in Slots /\ <<n, d>> # slot
    BY <1>1, <1>2, <1>7, SlotFacts
  <2> QED
    BY <1>1, <1>2, <1>5, <1>7, <2>1 DEF Branching
<1>8. ASSUME slot # RootSlot, value'[slot[1]] = Null
      PROVE  \E d \in Bits : link'[<<slot[1], d>>] # Null
  <2>1. slot[1] \in Tree(link) /\ slot[1] # x /\ slot[1] \in Nodes /\ Branching(slot[1])
    BY <1>1, <1>2, <1>5, <1>8
  <2>2. PICK d \in Bits : d # slot[2]
    BY DEF Bits
  <2>3. <<slot[1], d>> \in Slots /\ <<slot[1], d>> # slot
    BY <1>4, <1>8, <2>1, <2>2, SlotFacts
  <2> QED
    BY <1>2, <2>1, <2>2, <2>3 DEF Branching
<1> QED
  BY <1>1, <1>6, <1>7, <1>8 DEF BranchOK, Branching, slot

\* The parent goes, and its parent gets the child that it has kept.
LEMMA CollapseBranches ==
  ASSUME SafeInv, BranchOK, Collapse
  PROVE  BranchOK'
<1> DEFINE slot == place.above
           x == place.slot[1]
<1>1. /\ Typed /\ HeapOK /\ PlaceOK /\ link \in Links /\ Ordered(link)
      /\ value' = value /\ wpc = "collapse" /\ wpc' = "collapsed"
      /\ Tree(link) \subseteq Nodes /\ x # Null /\ value[x] = Null
  BY TreeLemma DEF SafeInv, Typed, HeapOK, Collapse, Collapsible
<1>2. /\ link[slot] = x /\ x \in Tree(link) /\ Tree(link') = Tree(link) \ {x}
      /\ \A t \in Slots : t # slot => link'[t] = link[t]
      /\ \A d \in Bits : link[<<x, d>>] # Null => link[<<x, d>>] = link'[slot]
  BY CollapseSafe DEF Unhangs
<1>3. place.slot # RootSlot
  BY <1>1, SlotFacts
<1>4. \E d \in Bits : link[<<x, d>>] # Null
  BY <1>1, <1>3 DEF BranchOK
<1>5. \A n \in Tree(link) : n # x /\ value[n] = Null => Branching(n)
  BY <1>1 DEF BranchOK, Excused
<1> HIDE DEF x, slot
<1>6. link'[slot] # Null
  BY <1>2, <1>4
<1>7. ASSUME NEW n \in Tree(link'), value'[n] = Null
      PROVE  \A d \in Bits : link'[<<n, d>>] # Null
  <2>1. \A d \in Bits : <<n, d>> \in Slots
    BY <1>1, <1>2, <1>7, SlotFacts
  <2> QED
    BY <1>1, <1>2, <1>5, <1>6, <1>7, <2>1 DEF Branching
<1> QED
  BY <1>1, <1>7 DEF BranchOK, Branching

\* Every step keeps the compression.
LEMMA NextBranches ==
  ASSUME SafeInv, Alone, BranchOK, Next
  PROVE  BranchOK'
<1>1. CASE Clear
  BY <1>1, ClearSafe DEF BranchOK, Clear
<1>2. ASSUME NEW r \in Readers,
             (\E a \in Addresses : Enter(r, a)) \/ ReaderStep(r) \/ Leave(r)
      PROVE  BranchOK'
  <2>1. UNCHANGED <<memory, writer>>
    BY <1>2 DEF Enter, ReaderStep, LoadRoot, LoadValue, WalkEnds, LoadChild, Leave
  <2> QED
    BY <2>1 DEF BranchOK, Branching, Excused, memory, writer
<1>3. (Retires \/ Reclaim) => BranchOK'
  BY DeleteBranches
<1> QED
  BY <1>1, <1>2, <1>3, InsertBranches, EraseBranches, NothingBranches,
     PruneBranches, CollapseBranches DEF Next, InsertErase, WriterStep, Retires

-----------------------------------------------------------------------------
(* The counters *)

\* The nodes that are allocated and not retired.
LiveNodes == {n \in Nodes : life[n] = "live"}

\* The prefixes that a table binds.
Routes(tbl) == {p \in Prefixes : tbl[p] # Null}

\* nodes_ counts the live nodes, and size_ the routes, except that erase()
\* counts a little later than it stores, and clear() when all is retired.
CountOK ==
    /\ wpc # "cleared" =>
          /\ nodes = Cardinality(LiveNodes)
          /\ size = Cardinality(Routes(table)) + (IF wpc = "erased" THEN 1 ELSE 0)
    /\ wpc = "cleared" =>
          nodes \in 0 .. Cardinality(Nodes) /\ size \in 0 .. Cardinality(Prefixes)
    /\ wpc = "erased" => \E p \in Prefixes : table[p] = Null

\* The sets that are counted are finite, and the live nodes are those of the
\* tree and those that the writer is about to retire.
LEMMA LiveLemma ==
  ASSUME SafeInv
  PROVE  /\ IsFiniteSet(LiveNodes) /\ Cardinality(LiveNodes) \in 0 .. Cardinality(Nodes)
         /\ LiveNodes = Tree(link) \cup (doomed \cap Nodes)
<1>1. IsFiniteSet(Nodes) /\ Nodes \cap Values = {}
  BY TrieAssumption
<1>2. IsFiniteSet(LiveNodes) /\ Cardinality(LiveNodes) <= Cardinality(Nodes)
  BY <1>1, FS_Subset DEF LiveNodes
<1>3. Cardinality(LiveNodes) \in Nat /\ Cardinality(Nodes) \in Nat
  BY <1>1, <1>2, FS_CardinalityType
<1>4. LiveNodes = Tree(link) \cup (doomed \cap Nodes)
  <2>1. Tree(link) \subseteq Nodes
    BY TreeLemma DEF SafeInv, Typed, HeapOK
  <2>2. \A n \in Nodes : n \in Allocations /\ \A m \in Nodes : value[m] # n
    <3>1. \A n \in Nodes : value[n] \in Values \cup {Null}
      BY DEF SafeInv, Typed
    <3> QED
      BY <1>1, <3>1, NodesHaveKeys DEF Allocations
  <2> QED
    BY <2>1, <2>2 DEF LiveNodes, SafeInv, HeapOK, Owned
<1> QED
  BY <1>2, <1>3, <1>4

\* There are finitely many routes.
LEMMA RoutesLemma ==
  ASSUME NEW tbl
  PROVE  /\ IsFiniteSet(Prefixes) /\ IsFiniteSet(Routes(tbl))
         /\ Cardinality(Routes(tbl)) \in Nat /\ Cardinality(Prefixes) \in Nat
         /\ Cardinality(Routes(tbl)) <= Cardinality(Prefixes)
         /\ (\E p \in Prefixes : tbl[p] = Null) =>
               Cardinality(Routes(tbl)) < Cardinality(Prefixes)
<1>1. IsFiniteSet(Prefixes)
  BY TrieAssumption, FiniteKeys, FS_Subset
<1>2. /\ IsFiniteSet(Routes(tbl)) /\ Cardinality(Routes(tbl)) <= Cardinality(Prefixes)
      /\ Cardinality(Prefixes) = Cardinality(Routes(tbl)) => Prefixes = Routes(tbl)
  BY <1>1, FS_Subset DEF Routes
<1>3. Cardinality(Routes(tbl)) \in Nat /\ Cardinality(Prefixes) \in Nat
  BY <1>1, <1>2, FS_CardinalityType
<1>4. (\E p \in Prefixes : tbl[p] = Null) => Prefixes # Routes(tbl)
  BY DEF Routes
<1> QED
  BY <1>1, <1>2, <1>3, <1>4

\* Binding a prefix makes one more route if it was not bound, and unbinding a
\* bound one makes one less.
LEMMA RoutesExcept ==
  ASSUME NEW tbl \in [Prefixes -> Values \cup {Null}], NEW p \in Prefixes,
         NEW v \in Values \cup {Null}
  PROVE  LET new == [tbl EXCEPT ![p] = v]
         IN  /\ v # Null => Cardinality(Routes(new)) =
                  Cardinality(Routes(tbl)) + (IF tbl[p] = Null THEN 1 ELSE 0)
             /\ v = Null /\ tbl[p] # Null =>
                  Cardinality(Routes(new)) = Cardinality(Routes(tbl)) - 1
<1> DEFINE new == [tbl EXCEPT ![p] = v]
<1>1. IsFiniteSet(Routes(tbl)) /\ Cardinality(Routes(tbl)) \in Nat
  BY RoutesLemma
<1>2. new[p] = v /\ \A q \in Prefixes : q # p => new[q] = tbl[q]
  OBVIOUS
<1> HIDE DEF new
<1>3. CASE v # Null
  <2>1. Routes(new) = Routes(tbl) \cup {p}
    BY <1>2, <1>3 DEF Routes
  <2>2. p \in Routes(tbl) <=> tbl[p] # Null
    BY DEF Routes
  <2>3. Cardinality(Routes(tbl) \cup {p}) =
           IF p \in Routes(tbl) THEN Cardinality(Routes(tbl)) ELSE Cardinality(Routes(tbl)) + 1
    BY <1>1, FS_AddElement
  <2>4. Cardinality(Routes(new)) =
           Cardinality(Routes(tbl)) + (IF tbl[p] = Null THEN 1 ELSE 0)
    BY <1>1, <2>1, <2>2, <2>3
  <2> QED
    BY <1>3, <2>4 DEF new
<1>4. CASE v = Null /\ tbl[p] # Null
  <2>1. Routes(new) = Routes(tbl) \ {p} /\ p \in Routes(tbl)
    BY <1>2, <1>4 DEF Routes
  <2>2. Cardinality(Routes(tbl) \ {p}) = Cardinality(Routes(tbl)) - 1
    BY <1>1, <2>1, FS_RemoveElement
  <2> QED
    BY <1>4, <2>1, <2>2 DEF new
<1> QED
  BY <1>3, <1>4 DEF new

\* The table is one of values, before and after a step.
LEMMA TableTyped ==
  ASSUME SafeInv
  PROVE  table \in [Prefixes -> Values \cup {Null}]
BY TableType DEF SafeInv, Typed, HeapOK, table

\* insert() counts what it adds.
LEMMA InsertCounts ==
  ASSUME SafeInv, CountOK, NEW p \in Prefixes, Insert(p)
  PROVE  CountOK'
<1>1. /\ Typed /\ HeapOK /\ link \in Links /\ Ordered(link)
      /\ value \in [Nodes -> Values \cup {Null}] /\ Tree(link) \subseteq Nodes
  BY TreeLemma DEF SafeInv, Typed, HeapOK
<1>2. wpc = "idle" /\ wpc' \in {"idle", "replaced"}
  BY DEF Insert, InsertLeaf, InsertSplit, InsertAbove, InsertExchange, Publish, MayBegin, writer
<1>3. /\ table' = [table EXCEPT ![p] = NewValue(p)]
      /\ NewValue(p) \in Values /\ NewValue(p) # Null
      /\ table \in [Prefixes -> Values \cup {Null}]
  BY InsertTable, TableTyped, TrieAssumption
<1>4. Cardinality(Routes(table')) =
         Cardinality(Routes(table)) + (IF table[p] = Null THEN 1 ELSE 0)
  BY <1>3, RoutesExcept
<1>5. /\ nodes = Cardinality(LiveNodes) /\ size = Cardinality(Routes(table))
      /\ Cardinality(Routes(table)) \in Nat
      /\ IsFiniteSet(LiveNodes) /\ Cardinality(LiveNodes) \in Nat
  BY <1>2, RoutesLemma, LiveLemma DEF CountOK
<1>6. SUFFICES nodes' = Cardinality(LiveNodes') /\ size' = Cardinality(Routes(table'))
  <2>1. Routes(table)' = Routes(table')
    BY DEF Routes
  <2>2. Cardinality(Routes(table')) + 0 = Cardinality(Routes(table'))
    BY <1>4, <1>5
  <2> QED
    BY <1>2, <2>1, <2>2 DEF CountOK
<1>7. CASE InsertLeaf(p) \/ InsertSplit(p) \/ InsertAbove(p)
  <2>1. PICK n, more : Adds(p, n, more)
    BY <1>1, <1>7, InsertAdds
  <2>2. /\ n \in Nodes /\ more \subseteq Nodes /\ n \notin more /\ KeyOf[n] = p
        /\ \A m \in {n} \cup more : life[m] = "free" /\ m \notin Tree(link)
        /\ link' \in Links /\ Ordered(link')
        /\ Tree(link') = Tree(link) \cup {n} \cup more
        /\ life' = [o \in Allocations |->
                       IF o \in {n, NewValue(p)} \cup more THEN "live" ELSE life[o]]
        /\ IsFiniteSet(more) /\ Cardinality(more) \in Nat
        /\ size' = size + 1 /\ nodes' = nodes + 1 + Cardinality(more)
    BY <2>1 DEF Adds, Grows
  <2>3. table[p] = Null
    <3>1. \A m \in Tree(link) : KeyOf[m] # p
      <4>1. \A m \in Tree(link') : KeyOf[m] = p => m = n
        BY <2>2, AllPlaced DEF Placed
      <4> QED
        BY <2>2, <4>1
    <3> QED
      BY <1>1, <3>1, TableLemma DEF table
  <2>4. LiveNodes' = (LiveNodes \cup {n}) \cup more
    <3>1. NewValue(p) \notin Nodes /\ Nodes \subseteq Allocations
      BY <1>3, TrieAssumption DEF Allocations
    <3>2. \A m \in Nodes : life'[m] = "live" <=> (m = n \/ m \in more \/ life[m] = "live")
      BY <2>2, <3>1
    <3> QED
      BY <2>2, <3>2 DEF LiveNodes
  <2>5. n \notin LiveNodes /\ more \cap (LiveNodes \cup {n}) = {}
    BY <2>2 DEF LiveNodes
  <2>6. /\ IsFiniteSet(LiveNodes \cup {n})
        /\ Cardinality(LiveNodes \cup {n}) = Cardinality(LiveNodes) + 1
    BY <1>5, <2>5, FS_AddElement
  <2>7. Cardinality((LiveNodes \cup {n}) \cup more) =
           Cardinality(LiveNodes \cup {n}) + Cardinality(more)
             - Cardinality((LiveNodes \cup {n}) \cap more)
    BY <2>2, <2>6, FS_Union
  <2>8. Cardinality((LiveNodes \cup {n}) \cap more) = 0
    <3>1. (LiveNodes \cup {n}) \cap more = {}
      BY <2>5
    <3> QED
      BY <3>1, FS_EmptySet
  <2>9. nodes' = Cardinality(LiveNodes')
    BY <1>5, <2>2, <2>4, <2>6, <2>7, <2>8
  <2>10. size' = Cardinality(Routes(table'))
    BY <1>4, <1>5, <2>2, <2>3
  <2> QED
    BY <2>9, <2>10
<1>8. CASE InsertExchange(p)
  <2> DEFINE n == StopNode(p)
  <2>1. /\ n # Null /\ KeyOf[n] = p /\ FreeValues(p) # {} /\ nodes' = nodes
        /\ life' = [life EXCEPT ![NewValue(p)] = "live"]
        /\ \/ value[n] = Null /\ size' = size + 1
           \/ value[n] # Null /\ size' = size
    BY <1>8 DEF InsertExchange
  <2>2. n \in Tree(link)
    BY <1>1, <2>1, StopLemma
  <2> HIDE DEF n
  <2>3. table[p] = value[n]
    BY <1>1, <2>1, <2>2, TableLemma DEF table
  <2>4. LiveNodes' = LiveNodes
    <3>1. NewValue(p) \notin Nodes /\ Nodes \subseteq Allocations
      BY <1>3, TrieAssumption DEF Allocations
    <3>2. \A m \in Nodes : life'[m] = life[m]
      BY <1>1, <2>1, <3>1 DEF Typed
    <3> QED
      BY <3>2 DEF LiveNodes
  <2> QED
    BY <1>4, <1>5, <2>1, <2>3, <2>4
<1> QED
  BY <1>7, <1>8 DEF Insert

\* erase() has one route too many in its count until it has retired the value.
LEMMA EraseCounts ==
  ASSUME SafeInv, CountOK, NEW p \in Prefixes, Erase(p)
  PROVE  CountOK'
<1>1. /\ wpc = "idle" /\ wpc' = "erased" /\ size' = size /\ nodes' = nodes /\ life' = life
  BY DEF Erase, MayBegin, counters
<1>2. /\ table[p] # Null /\ table' = [table EXCEPT ![p] = Null]
      /\ table \in [Prefixes -> Values \cup {Null}]
  BY EraseTable, TableTyped
<1>3. Cardinality(Routes(table')) = Cardinality(Routes(table)) - 1
  BY <1>2, RoutesExcept
<1>4. size = Cardinality(Routes(table)) /\ Cardinality(Routes(table)) \in Nat
  BY <1>1, RoutesLemma DEF CountOK
<1>5. LiveNodes' = LiveNodes
  BY <1>1 DEF LiveNodes
<1>6. table'[p] = Null
  BY <1>2
<1>7. size' = Cardinality(Routes(table')) + 1
  BY <1>1, <1>3, <1>4
<1> QED
  BY <1>1, <1>5, <1>6, <1>7 DEF CountOK, Routes

\* What the Reclaimer takes or deletes is live no more.
LEMMA RetireLive ==
  ASSUME Typed, NEW S \in SUBSET Allocations, Retire(S) \/ Delete(S)
  PROVE  LiveNodes' = LiveNodes \ S
<1>1. Nodes \subseteq Allocations /\ \A n \in Nodes : n \notin Values
  BY TrieAssumption DEF Allocations
<1>2. CASE Delete(S)
  <2>1. ASSUME NEW n \in Nodes
        PROVE  n \in WithValues(S) <=> n \in S
    <3>1. \A m \in Nodes : value[m] \in Values \cup {Null}
      BY DEF Typed
    <3> QED
      BY <1>1, <3>1 DEF WithValues
  <2>2. \A n \in Nodes : life'[n] = IF n \in S THEN "free" ELSE life[n]
    BY <1>1, <1>2, <2>1 DEF Delete
  <2> QED
    BY <2>2 DEF LiveNodes
<1>3. CASE life' = [o \in Allocations |-> IF o \in S THEN "retired" ELSE life[o]]
  <2>1. \A n \in Nodes : life'[n] = IF n \in S THEN "retired" ELSE life[n]
    BY <1>1, <1>3
  <2> QED
    BY <2>1 DEF LiveNodes
<1> QED
  BY <1>2, <1>3 DEF Retire

\* retire() of the nodes that were unlinked comes with their count.
LEMMA RetireCounts ==
  ASSUME SafeInv, Alone, CountOK, Retires
  PROVE  CountOK'
<1>1. /\ Typed /\ HeapOK /\ PlaceOK /\ doomed \in SUBSET Allocations
      /\ ~RetireSubtree => Retire(doomed)
  BY RetiresSome DEF SafeInv, Typed, HandsOver
<1>2. ~RetireSubtree => LiveNodes' = LiveNodes \ doomed
  BY <1>1, RetireLive
<1>3. table' = table
  BY WriterStepTable DEF WriterStep, Retires
<1>4. /\ IsFiniteSet(LiveNodes) /\ Cardinality(LiveNodes) \in Nat
      /\ wpc # "cleared" => nodes = Cardinality(LiveNodes)
      /\ Cardinality(Routes(table)) \in Nat
      /\ LiveNodes = Tree(link) \cup (doomed \cap Nodes)
  BY LiveLemma, RoutesLemma DEF CountOK
<1>5. Routes(table)' = Routes(table)
  BY <1>3 DEF Routes
<1>6. CASE RetireReplaced \/ RetireErased
  <2>1. /\ wpc \in {"replaced", "erased"} /\ nodes' = nodes /\ doomed \subseteq Values
        /\ wpc = "replaced" => wpc' = "idle" /\ size' = size
        /\ wpc = "erased" => wpc' = "prune" /\ size' = size - 1
    BY <1>1, <1>6 DEF RetireReplaced, RetireErased, WriterDone, counters, PlaceOK
  <2>2. ~RetireSubtree
    BY <2>1 DEF RetireSubtree
  <2>5. LiveNodes' = LiveNodes
    BY <1>2, <2>1, <2>2, TrieAssumption DEF LiveNodes
  <2>3. size = Cardinality(Routes(table)) + (IF wpc = "erased" THEN 1 ELSE 0)
    BY <2>1 DEF CountOK
  <2>4. wpc' \in {"idle", "prune"} /\ size' = Cardinality(Routes(table)) + 0
    BY <1>4, <2>1, <2>3
  <2> QED
    BY <1>4, <1>5, <2>1, <2>5, <2>4 DEF CountOK
<1>7. CASE RetirePruned \/ RetireCollapsed
  <2>1. /\ wpc \in {"pruned", "collapsed"} /\ nodes' = nodes - 1 /\ size' = size
        /\ wpc' \in {"idle", "collapse"}
    BY <1>7 DEF RetirePruned, RetireCollapsed, WriterDone
  <2>2. PICK x \in Nodes : doomed = {x}
    BY <1>1, <2>1 DEF PlaceOK
  <2>3. x \in LiveNodes /\ LiveNodes' = LiveNodes \ {x}
    BY <1>2, <1>4, <2>1, <2>2 DEF RetireSubtree
  <2>4. Cardinality(LiveNodes \ {x}) = Cardinality(LiveNodes) - 1
    BY <1>4, <2>3, FS_RemoveElement
  <2>5. size = Cardinality(Routes(table)) + 0
    BY <2>1 DEF CountOK
  <2> QED
    BY <1>4, <1>5, <2>1, <2>3, <2>4, <2>5 DEF CountOK
<1>8. CASE CountCleared
  <2>1. /\ wpc = "cleared" /\ wpc' = "idle" /\ size' = 0 /\ nodes' = 0
        /\ Tree(link) = {} /\ doomed = {} /\ life' = life
    BY <1>1, <1>8 DEF CountCleared, WriterDone, PlaceOK
  <2>2. LiveNodes' = {} /\ Cardinality({}) = 0
    BY <1>4, <2>1, FS_EmptySet DEF LiveNodes
  <2>3. Routes(table) = {}
    <3>1. \A p \in Prefixes : table[p] = Null
      BY <1>1, <2>1, TableLemma DEF table, Typed, HeapOK
    <3> QED
      BY <3>1 DEF Routes
  <2>4. size' = Cardinality(Routes(table)) + 0
    BY <2>1, <2>2, <2>3
  <2> QED
    BY <1>5, <2>1, <2>2, <2>4 DEF CountOK
<1>9. CASE RetireSubtree
  <2>1. wpc = "cleared" /\ wpc' = "cleared" /\ size' = size /\ nodes' = nodes
    BY <1>9 DEF RetireSubtree, counters
  <2> QED
    BY <2>1 DEF CountOK
<1> QED
  BY <1>6, <1>7, <1>8, <1>9 DEF Retires

\* The steps that change neither the routes nor what is live.
LEMMA QuietCounts ==
  ASSUME SafeInv, CountOK, table' = table, LiveNodes' = LiveNodes,
         UNCHANGED counters,
         \/ wpc' = wpc
         \/ wpc \notin {"erased", "cleared"} /\ wpc' \notin {"erased", "cleared"}
  PROVE  CountOK'
<1>1. size' = size /\ nodes' = nodes /\ Routes(table)' = Routes(table)
  BY DEF counters, Routes
<1> QED
  BY <1>1 DEF CountOK

\* The steps that change nothing but the readers and free memory.
LEMMA ReadersCount ==
  ASSUME SafeInv, CountOK,
         \/ Reclaim
         \/ \E r \in Readers :
               (\E a \in Addresses : Enter(r, a)) \/ ReaderStep(r) \/ Leave(r)
         \/ UNCHANGED trieVars
  PROVE  CountOK'
<1>1. table' = table
  BY QuietTable
<1>2. CASE Reclaim
  <2>1. LiveNodes' = LiveNodes \ Unprotected
    BY <1>2, RetireLive DEF SafeInv, Reclaim, Unprotected
  <2>2. LiveNodes' = LiveNodes
    BY <2>1 DEF LiveNodes, Unprotected
  <2> QED
    BY <1>1, <1>2, <2>2, QuietCounts DEF Reclaim, writer
<1>3. CASE UNCHANGED <<counters, life, writer>>
  BY <1>1, <1>3, QuietCounts DEF LiveNodes, writer
<1> QED
  BY <1>2, <1>3 DEF Enter, ReaderStep, LoadRoot, LoadValue, WalkEnds, LoadChild, Leave, trieVars

\* Every step keeps the counts.
LEMMA NextCounts ==
  ASSUME SafeInv, Alone, CountOK, Next
  PROVE  CountOK'
<1>1. CASE Prune \/ Collapse \/ PruneNothing \/ CollapseNothing
  <2>1. table' = table
    BY <1>1, WriterStepTable DEF WriterStep
  <2>2. LiveNodes' = LiveNodes
    BY <1>1 DEF Prune, Collapse, PruneNothing, CollapseNothing, LiveNodes
  <2> QED
    BY <1>1, <2>1, <2>2, QuietCounts
       DEF Prune, Collapse, PruneNothing, CollapseNothing, WriterDone
<1>2. CASE Clear
  <2>1. /\ wpc = "idle" /\ wpc' = "cleared" /\ size' = size /\ nodes' = nodes /\ life' = life
    BY <1>2 DEF Clear, MayBegin, counters
  <2>2. size = Cardinality(Routes(table)) + 0
    BY <2>1 DEF CountOK
  <2>3. size \in 0 .. Cardinality(Prefixes)
    BY <2>2, RoutesLemma
  <2>4. nodes \in 0 .. Cardinality(Nodes)
    BY <2>1, LiveLemma DEF CountOK
  <2> QED
    BY <2>1, <2>3, <2>4 DEF CountOK
<1> QED
  BY <1>1, <1>2, InsertCounts, EraseCounts, RetireCounts, ReadersCount
     DEF Next, InsertErase, WriterStep, Retires

-----------------------------------------------------------------------------
(* How often the table changed *)

\* No lookup sees the table change more often than the instance allows.
ChangesOK == \A r \in Readers : changes[r] \in 0 .. MaxChanges

\* The first store of an operation may change the table, once for each lookup.
LEMMA NextChanges ==
  ASSUME SafeInv, Alone, ChangesOK, Next
  PROVE  ChangesOK'
<1>1. MaxChanges \in Nat /\ changes \in [Readers -> Int]
  BY TrieAssumption DEF SafeInv, Typed
<1>2. CASE MayBegin /\ Watch
  <2>1. \A r \in Readers : changes[r] \in 0 .. MaxChanges /\ changes[r] < MaxChanges
    BY <1>2 DEF MayBegin, ChangesOK
  <2>2. \A r \in Readers : changes'[r] \in {changes[r], changes[r] + 1}
    BY <1>2 DEF Watch
  <2>3. \A i \in 0 .. MaxChanges : i < MaxChanges => i + 1 \in 0 .. MaxChanges
    BY <1>1
  <2> QED
    BY <2>1, <2>2, <2>3 DEF ChangesOK
<1>3. CASE Watch /\ table' = table
  <2>1. \A r \in Readers : changes'[r] = changes[r]
    BY <1>3 DEF Watch, table
  <2> QED
    BY <2>1 DEF ChangesOK
<1>4. CASE UNCHANGED changes
  BY <1>4 DEF ChangesOK
<1>5. ASSUME NEW r \in Readers, Leave(r)
      PROVE  ChangesOK'
  <2>1. changes' = [changes EXCEPT ![r] = 0] /\ 0 \in 0 .. MaxChanges
    BY <1>1, <1>5 DEF Leave
  <2> QED
    BY <1>1, <2>1 DEF ChangesOK
<1>6. ASSUME NEW p \in Prefixes, InsertErase(p)
      PROVE  MayBegin /\ Watch
  BY <1>6 DEF InsertErase, Insert, InsertLeaf, InsertSplit, InsertAbove, InsertExchange,
              Erase, Publish
<1>7. CASE WriterStep
  <2>1. table' = table
    BY <1>7, WriterStepTable
  <2>2. (Watch /\ table' = table) \/ UNCHANGED changes
    BY <1>7, <2>1 DEF WriterStep, RetireReplaced, RetireErased, PruneNothing, Prune,
       RetirePruned, CollapseNothing, Collapse, RetireCollapsed, RetireSubtree,
                CountCleared, history
  <2> QED
    BY <1>3, <1>4, <2>2
<1>8. ASSUME NEW r \in Readers, (\E a \in Addresses : Enter(r, a)) \/ ReaderStep(r)
      PROVE  UNCHANGED changes
  BY <1>8 DEF Enter, ReaderStep, LoadRoot, LoadValue, WalkEnds, LoadChild, history
<1> QED
  BY <1>2, <1>4, <1>5, <1>6, <1>7, <1>8 DEF Next, Clear, Reclaim, history

-----------------------------------------------------------------------------
(* The theorems *)

\* The inductive invariant.
TrieInv == SafeInv /\ RoutesInv /\ BranchOK /\ CountOK /\ ChangesOK

\* The empty trie.
LEMMA TrieStart ==
  ASSUME TrieInit, deferred \in BOOLEAN
  PROVE  TrieInv
<1>1. SafeInv /\ Tree(link) = {} /\ RoutesInv
  BY InitSafe, InitRoutes
<1>2. BranchOK
  BY <1>1 DEF BranchOK, TrieInit
<1>3. CountOK
  <2>1. LiveNodes = {} /\ Cardinality({}) = 0
    BY FS_EmptySet DEF TrieInit, LiveNodes, Allocations
  <2>2. Routes(table) = {}
    <3>1. \A p \in Prefixes : table[p] = Null
      BY <1>1, TableLemma DEF table, SafeInv, Typed, HeapOK
    <3> QED
      BY <3>1 DEF Routes
  <2>3. size = Cardinality(Routes(table)) + 0
    BY <2>1, <2>2 DEF TrieInit
  <2> QED
    BY <2>1, <2>3 DEF CountOK, TrieInit
<1>4. ChangesOK
  BY TrieAssumption DEF ChangesOK, TrieInit
<1> QED
  BY <1>1, <1>2, <1>3, <1>4 DEF TrieInv

\* The readers and the deleters, who may run while others are in a guard.
LEMMA QuietStep ==
  ASSUME TrieInv,
         \/ Reclaim
         \/ \E r \in Readers :
               (\E a \in Addresses : Enter(r, a)) \/ ReaderStep(r) \/ Leave(r)
         \/ UNCHANGED trieVars
  PROVE  TrieInv' /\ deferred' = deferred
<1>1. SafeInv /\ RoutesInv /\ BranchOK /\ CountOK /\ ChangesOK
  BY DEF TrieInv
<1>2. CountOK' /\ table' = table
  BY <1>1, ReadersCount, QuietTable
<1>3. CASE Reclaim
  <2>1. SafeInv' /\ TreeKept
    BY <1>1, <1>3, ReclaimSafe
  <2>2. RoutesInv'
    BY <1>1, <1>3, <2>1, DeletesUnheld, KeptRoutes
  <2>3. BranchOK'
    BY <1>1, <1>3, DeleteBranches
  <2>4. changes' = changes /\ deferred' = deferred
    BY <1>3 DEF Reclaim, history
  <2> QED
    BY <1>1, <1>2, <2>1, <2>2, <2>3, <2>4 DEF TrieInv, ChangesOK
<1>4. ASSUME UNCHANGED <<memory, writer>>
      PROVE  BranchOK'
  <2>1. link' = link /\ value' = value /\ wpc' = wpc /\ place' = place
    BY <1>4 DEF memory, writer
  <2> QED
    BY <1>1, <2>1 DEF BranchOK, Branching, Excused
<1>5. ASSUME NEW r \in Readers, NEW a \in Addresses, Enter(r, a)
      PROVE  TrieInv' /\ deferred' = deferred
  <2>1. SafeInv'
    BY <1>1, <1>5, EnterSafe
  <2>2. RoutesInv'
    BY <1>1, <1>5, <2>1, EnterRoutes
  <2>3. changes' = changes /\ UNCHANGED <<memory, writer>> /\ deferred' = deferred
    BY <1>5 DEF Enter
  <2> QED
    BY <1>1, <1>2, <1>4, <2>1, <2>2, <2>3 DEF TrieInv, ChangesOK
<1>6. ASSUME NEW r \in Readers, ReaderStep(r)
      PROVE  TrieInv' /\ deferred' = deferred
  <2>1. SafeInv' /\ RoutesInv'
    BY <1>1, <1>6, ReaderStepSafe, ReaderStepRoutes
  <2>2. changes' = changes /\ UNCHANGED <<memory, writer>> /\ deferred' = deferred
    BY <1>6 DEF ReaderStep, LoadRoot, LoadValue, WalkEnds, LoadChild, history
  <2> QED
    BY <1>1, <1>2, <1>4, <2>1, <2>2 DEF TrieInv, ChangesOK
<1>7. ASSUME NEW r \in Readers, Leave(r)
      PROVE  TrieInv' /\ deferred' = deferred
  <2>1. SafeInv' /\ RoutesInv'
    BY <1>1, <1>7, LeaveSafe, LeaveRoutes
  <2>2. changes' = [changes EXCEPT ![r] = 0] /\ UNCHANGED <<memory, writer>>
        /\ deferred' = deferred /\ 0 \in 0 .. MaxChanges
        /\ changes \in [Readers -> Int]
    BY <1>1, <1>7, TrieAssumption DEF Leave, SafeInv, Typed
  <2>3. ChangesOK'
    BY <1>1, <2>2 DEF ChangesOK
  <2> QED
    BY <1>2, <1>4, <2>1, <2>2, <2>3 DEF TrieInv
<1>8. CASE UNCHANGED trieVars
  <2>1. /\ UNCHANGED <<memory, writer>> /\ UNCHANGED <<memory, reader, history>>
        /\ changes' = changes /\ deferred' = deferred
    BY <1>8 DEF trieVars, history
  <2>2. SafeInv' /\ RoutesInv'
    BY <1>1, <1>8, <2>1, StutterSafe, NothingRoutes
  <2> QED
    BY <1>1, <1>2, <1>4, <2>1, <2>2 DEF TrieInv, ChangesOK
<1> QED
  BY <1>3, <1>5, <1>6, <1>7, <1>8

\* Every step, of a writer that keeps to its lock.
LEMMA TrieStep ==
  ASSUME TrieInv, Alone, [Next]_trieVars
  PROVE  TrieInv' /\ deferred' = deferred
<1>1. CASE Next
  <2>1. SafeInv /\ RoutesInv /\ BranchOK /\ CountOK /\ ChangesOK
    BY DEF TrieInv
  <2>2. SafeInv' /\ deferred' = deferred
    BY <1>1, <2>1, NextSafe
  <2>3. RoutesInv' /\ BranchOK' /\ CountOK' /\ ChangesOK'
    BY <1>1, <2>1, <2>2, NextRoutes, NextBranches, NextCounts, NextChanges
  <2> QED
    BY <2>2, <2>3 DEF TrieInv
<1> QED
  BY <1>1, QuietStep

\* The inductive invariant of the trie whose memory waits for the readers.
THEOREM TrieAlways == Spec => [](TrieInv /\ deferred)
<1>1. Init => TrieInv /\ deferred
  BY TrieStart DEF Init
<1>2. TrieInv /\ deferred /\ [Next]_trieVars => TrieInv' /\ deferred'
  BY TrieStep DEF Alone
<1> QED
  BY <1>1, <1>2, PTL DEF Spec

\* The type invariant, counters and all.
LEMMA InvTyped ==
  ASSUME TrieInv
  PROVE  TypeOK
<1>1. SafeInv /\ CountOK /\ ChangesOK /\ Typed
  BY DEF TrieInv, SafeInv
<1>2. size \in 0 .. Cardinality(Prefixes)
  <2>1. /\ Cardinality(Routes(table)) \in Nat /\ Cardinality(Prefixes) \in Nat
        /\ Cardinality(Routes(table)) <= Cardinality(Prefixes)
        /\ (\E p \in Prefixes : table[p] = Null) =>
              Cardinality(Routes(table)) < Cardinality(Prefixes)
    BY RoutesLemma
  <2>2. CASE wpc = "cleared"
    BY <1>1, <2>2 DEF CountOK
  <2>3. CASE wpc = "erased"
    <3>1. /\ size = Cardinality(Routes(table)) + 1
          /\ Cardinality(Routes(table)) < Cardinality(Prefixes)
      BY <1>1, <2>1, <2>3 DEF CountOK
    <3> QED
      BY <2>1, <3>1
  <2>4. CASE wpc \notin {"cleared", "erased"}
    <3>1. size = Cardinality(Routes(table)) + 0
      BY <1>1, <2>4 DEF CountOK
    <3> QED
      BY <2>1, <3>1
  <2> QED
    BY <2>2, <2>3, <2>4
<1>3. nodes \in 0 .. Cardinality(Nodes)
  BY <1>1, LiveLemma DEF CountOK
<1>4. changes \in [Readers -> 0 .. MaxChanges]
  BY <1>1 DEF ChangesOK, Typed
<1> QED
  BY <1>1, <1>2, <1>3, <1>4 DEF TypeOK, Typed, Links

\* One node of the tree for every route.
LEMMA NodesOfRoutes ==
  ASSUME SafeInv
  PROVE  LET T == {n \in Tree(link) : value[n] # Null}
         IN  Cardinality(T) = Cardinality(Routes(table))
<1> DEFINE T == {n \in Tree(link) : value[n] # Null}
           f == [n \in T |-> KeyOf[n]]
<1>1. /\ link \in Links /\ Ordered(link) /\ ValuesOK
      /\ value \in [Nodes -> Values \cup {Null}] /\ Tree(link) \subseteq Nodes
  BY TreeLemma DEF SafeInv, Typed, HeapOK
<1>2. IsFiniteSet(T) /\ IsFiniteSet(Routes(table))
  <2>1. IsFiniteSet(Nodes) /\ T \subseteq Nodes
    BY <1>1, TrieAssumption
  <2> HIDE DEF T
  <2> QED
    BY <2>1, FS_Subset, RoutesLemma
<1>3. \A n \in Tree(link), p \in Prefixes : KeyOf[n] = p => table[p] = value[n]
  BY <1>1, TableLemma DEF table
<1>4. \A p \in Prefixes : table[p] # Null => \E n \in Tree(link) : KeyOf[n] = p
  BY <1>1, TableLemma DEF table
<1>5. \A n \in T : KeyOf[n] \in Prefixes /\ KeyOf[n] \in Routes(table)
  <2> SUFFICES ASSUME NEW n \in T
               PROVE  KeyOf[n] \in Prefixes /\ KeyOf[n] \in Routes(table)
    OBVIOUS
  <2>1. n \in Nodes /\ value[n] \in Values /\ EntryOf[value[n]] = KeyOf[n]
    BY <1>1 DEF ValuesOK
  <2>2. KeyOf[n] \in Prefixes
    BY <2>1, TrieAssumption
  <2> QED
    BY <1>3, <2>2 DEF Routes
<1>6. \A n, m \in T : KeyOf[n] = KeyOf[m] => n = m
  BY <1>1, AllPlaced DEF Placed
<1>7. \A p \in Routes(table) : \E n \in T : KeyOf[n] = p
  BY <1>3, <1>4 DEF Routes
<1> HIDE DEF T
<1>8. f \in Bijection(T, Routes(table))
  <2>1. f \in [T -> Routes(table)]
    BY <1>5
  <2>2. \A n, m \in T : f[n] = f[m] => n = m
    BY <1>6
  <2>3. \A p \in Routes(table) : \E n \in T : f[n] = p
    BY <1>7
  <2> HIDE DEF f
  <2> QED
    BY <2>1, <2>2, <2>3 DEF Bijection, Injection, Surjection, IsInjective
<1> HIDE DEF f
<1>9. Cardinality(T) = Cardinality(Routes(table))
  BY <1>2, <1>8, FS_Bijection DEF ExistsBijection
<1> QED
  BY <1>9 DEF T

\* Between two operations the trie is compressed and counted.
LEMMA InvCanonical ==
  ASSUME TrieInv
  PROVE  Canonical
<1> SUFFICES ASSUME wpc = "idle"
             PROVE  /\ \A n \in Tree(link) :
                        /\ value[n] = Null => Cardinality(Children(n)) = 2
                        /\ \A d \in Bits : link[<<n, d>>] # Null =>
                              LET k == KeyOf[link[<<n, d>>]]
                              IN  /\ Len(k) > Len(KeyOf[n]) /\ Matches(KeyOf[n], k)
                                  /\ BitAt(k, Len(KeyOf[n])) = d
                    /\ size = Cardinality({n \in Tree(link) : value[n] # Null})
                    /\ nodes = Cardinality(Tree(link))
  BY DEF Canonical
<1>1. /\ SafeInv /\ BranchOK /\ CountOK /\ link \in Links /\ Ordered(link)
      /\ Tree(link) \subseteq Nodes
  BY TreeLemma DEF TrieInv, SafeInv, Typed, HeapOK
<1>2. ASSUME NEW n \in Tree(link), value[n] = Null
      PROVE  Cardinality(Children(n)) = 2
  <2>1. Branching(n)
    BY <1>1, <1>2 DEF BranchOK, Excused
  <2>2. link[<<n, 0>>] # Null /\ link[<<n, 1>>] # Null
    BY <2>1 DEF Branching, Bits
  <2> QED
    BY <1>1, <2>2, ChildrenLemma
<1>3. ASSUME NEW n \in Tree(link), NEW d \in Bits, link[<<n, d>>] # Null
      PROVE  LET k == KeyOf[link[<<n, d>>]]
             IN  /\ Len(k) > Len(KeyOf[n]) /\ Matches(KeyOf[n], k)
                 /\ BitAt(k, Len(KeyOf[n])) = d
  BY <1>1, <1>3 DEF Ordered
<1>4. size = Cardinality({n \in Tree(link) : value[n] # Null})
  <2>1. size = Cardinality(Routes(table)) + 0 /\ Cardinality(Routes(table)) \in Nat
    BY <1>1, RoutesLemma DEF CountOK
  <2> QED
    BY <1>1, <2>1, NodesOfRoutes
<1>5. nodes = Cardinality(Tree(link))
  <2>1. LiveNodes = Tree(link) \cup (doomed \cap Nodes) /\ doomed = {}
    BY <1>1, LiveLemma DEF SafeInv, PlaceOK
  <2>2. LiveNodes = Tree(link)
    BY <2>1
  <2> QED
    BY <1>1, <2>2 DEF CountOK
<1> QED
  BY <1>2, <1>3, <1>4, <1>5

\* The shape of the trie, of its writer and of its readers: size_ never counts
\* more routes than there are prefixes, nodes_ never more than the heap has.
THEOREM TrieTypeCorrect == Spec => []TypeOK
<1>1. TrieInv /\ deferred => TypeOK
  BY InvTyped
<1> QED
  BY <1>1, TrieAlways, PTL

\* Path compression (trie.hpp:5-13), for keys of any width: an operation of
\* any number of stores leaves every inner node with a value or two children,
\* every link on the side of its bit, and size_ and nodes_ telling what is
\* there.
THEOREM TrieStaysCanonical == Spec => []Canonical
<1>1. TrieInv /\ deferred => Canonical
  BY InvCanonical
<1> QED
  BY <1>1, TrieAlways, PTL

\* prune() (trie.hpp:309-311): a reader that arrived before the unlinking
\* store is covered by the grace period, so no lookup stands on a deleted node
\* or returns a deleted value.
THEOREM ReadersNeverDangle == Spec => []NothingDangles
<1>1. TrieInv /\ deferred => NothingDangles
  BY SafeNothingDangles DEF TrieInv
<1> QED
  BY <1>1, TrieAlways, PTL

\* Every allocation has one owner: the tree, a node, the writer or the
\* Reclaimer (unique_ptr and retire(), trie.hpp), so that nothing is leaked or
\* deleted twice.
THEOREM EverythingIsOwnedOnce == Spec => []OwnedOnce
<1>1. TrieInv /\ deferred => OwnedOnce
  BY SafeOwnedOnce DEF TrieInv
<1> QED
  BY <1>1, TrieAlways, PTL

\* lookup() (trie.hpp:99-116) without a lock: whatever the writer does in the
\* meantime, the result covers the address, was bound at some moment of the
\* lookup, and is at least as specific as every route that was there all along.
THEOREM LookupsMissNoStableRoute == Spec => []NoStableRouteMissed
<1>1. TrieInv /\ deferred => NoStableRouteMissed
  BY RoutesNotMissed DEF TrieInv
<1> QED
  BY <1>1, TrieAlways, PTL

\* An empty trie shows an empty table.
LEMMA TableStart ==
  ASSUME TrieInit, deferred \in BOOLEAN
  PROVE  Abstract!Init
<1>1. SafeInv /\ Tree(link) = {}
  BY InitSafe
<1>2. \A p \in Prefixes : table[p] = Null
  BY <1>1, TableLemma DEF table, SafeInv, Typed, HeapOK
<1>3. table = [p \in Prefixes |-> table[p]]
  BY <1>1, TableLemma DEF table, SafeInv, Typed, HeapOK
<1> QED
  BY <1>2, <1>3 DEF Abstract!Init

\* The readers and the deleters leave the table alone, and the writer changes
\* it the way the operation says or not at all.
LEMMA TableStep ==
  ASSUME SafeInv,
         \/ Alone /\ (WriterStep \/ Clear \/ \E p \in Prefixes : InsertErase(p))
         \/ Reclaim
         \/ \E r \in Readers :
               (\E a \in Addresses : Enter(r, a)) \/ ReaderStep(r) \/ Leave(r)
         \/ UNCHANGED trieVars
  PROVE  [Abstract!Next]_table
<1>1. ASSUME NEW p \in Prefixes, Insert(p)
      PROVE  Abstract!Next
  <2>1. NewValue(p) \in Values /\ Abstract!Insert(p, NewValue(p))
    BY <1>1, InsertTable DEF Abstract!Insert
  <2> QED
    BY <2>1 DEF Abstract!Next
<1>2. ASSUME NEW p \in Prefixes, Erase(p)
      PROVE  Abstract!Next
  BY <1>2, EraseTable DEF Abstract!Erase, Abstract!Next
<1>3. CASE Clear
  BY <1>3, ClearTable DEF Abstract!Clear, Abstract!Next
<1>4. CASE Alone /\ WriterStep
  BY <1>4, WriterStepTable
<1>5. CASE \/ Reclaim
           \/ \E r \in Readers :
                 (\E a \in Addresses : Enter(r, a)) \/ ReaderStep(r) \/ Leave(r)
           \/ UNCHANGED trieVars
  BY <1>5, QuietTable
<1> QED
  BY <1>1, <1>2, <1>3, <1>4, <1>5 DEF InsertErase

\* The trie implements a plain table (the interface of radix_trie, trie.hpp):
\* insert(), erase() and clear() each change it once, in one store, and the
\* restructuring of the nodes never shows.
THEOREM TrieImplementsTable == Spec => ImplementsTable
<1>1. Init => Abstract!Init
  BY TableStart DEF Init
<1>2. TrieInv /\ deferred /\ [Next]_trieVars => [Abstract!Next]_table
  BY TableStep DEF TrieInv, Alone, Next
<1> QED
  BY <1>1, <1>2, TrieAlways, PTL DEF Spec, ImplementsTable, Abstract!Spec

-----------------------------------------------------------------------------
(* One update *)

\* Everything the table can be.
Tables == [Prefixes -> Values \cup {Null}]

\* Every value that the reader may hold is bound now, or was in the old table.
HeldBound(r, old) ==
    \A v \in mayHold[r] \cap Values : v \in {old[EntryOf[v]], table[EntryOf[v]]}

\* The lookup has seen one table only.
Unchanged(r, old) ==
    changes[r] = 0 /\ old = table /\ stable[r] = Bound(table, addr[r])

\* It has seen one insert() or erase().
OneEntry(r, old) ==
    /\ changes[r] = 1
    /\ \E p \in Prefixes : \A q \in Prefixes \ {p} : old[q] = table[q]
    /\ stable[r] = Bound(old, addr[r]) \cap Bound(table, addr[r])

\* It has seen one clear(), and either came too late or still walks what was
\* the tree, where nothing changes any more.
Emptied(r, old) ==
    /\ changes[r] = 1
    /\ Tree(link) = {}
    /\ \/ at[r] = Null /\ best[r] = Null
       \/ /\ AheadOf(r, Bound(old, addr[r]))
          /\ \A n \in mayHold[r] \cap Nodes, p \in Bound(old, addr[r]) : LeadsTo(n, p)

\* What a lookup that has seen at most one update knows of the table before it.
Remembers(r, old) ==
    /\ LongestMatch(old, addr[r]) \in could[r] /\ LongestMatch(table, addr[r]) \in could[r]
    /\ HeldBound(r, old)
    /\ Unchanged(r, old) \/ OneEntry(r, old) \/ Emptied(r, old)

\* While at most one store has touched the reader's addresses, there was a table
\* before it, and the reader's walk fits that table and the present one.
UpdateOK ==
    \A r \in Readers :
        /\ ~Guarded(r) => changes[r] = 0
        /\ Guarded(r) /\ changes[r] < 2 => \E old \in Tables : Remembers(r, old)

\* What can be reached is bound.
LEMMA ReachableBound ==
  ASSUME NEW lnk \in Links, Ordered(lnk), NEW val \in [Nodes -> Values \cup {Null}],
         \A n \in Nodes : val[n] # Null => EntryOf[val[n]] = KeyOf[n],
         NEW v \in Reachable(lnk, val) \cap Values
  PROVE  Table(lnk, val)[EntryOf[v]] = v
<1>1. Tree(lnk) \subseteq Nodes /\ \A n \in Nodes : n \notin Values
  BY ReachableType
<1>2. PICK n \in Tree(lnk) : v = val[n] /\ val[n] # Null
  BY <1>1, ReachableType
<1>3. KeyOf[n] = EntryOf[v] /\ EntryOf[v] \in Prefixes
  BY <1>1, <1>2, TrieAssumption
<1> QED
  BY <1>2, <1>3, TableLemma

\* A store changes one entry of the table, or empties the tree; and a store
\* that changes nothing in the table does not fill an empty tree.
LEMMA StoresTable ==
  ASSUME SafeInv, Alone, Stores
  PROVE  /\ table' # table =>
              \/ \E p \in Prefixes : \A q \in Prefixes \ {p} : table'[q] = table[q]
              \/ Tree(link') = {}
         /\ table' = table /\ Tree(link) = {} => Tree(link') = {}
<1>1. /\ table \in Tables /\ link \in Links /\ Ordered(link) /\ HeapOK /\ Typed
  BY TableTyped DEF Tables, SafeInv, Typed, HeapOK
<1>2. ASSUME NEW p \in Prefixes, InsertErase(p)
      PROVE  table' # table /\ \A q \in Prefixes \ {p} : table'[q] = table[q]
  <2>1. CASE Insert(p)
    <3>1. /\ table' = [table EXCEPT ![p] = NewValue(p)] /\ NewValue(p) \in Values
          /\ life[NewValue(p)] = "free"
      BY <2>1, InsertTable
    <3>2. table[p] # NewValue(p)
      <4>1. table[p] # Null => \E n \in Tree(link) : table[p] = value[n]
        BY <1>1, TableLemma DEF table
      <4>2. NewValue(p) # Null
        BY <3>1, TrieAssumption
      <4> QED
        BY <1>1, <3>1, <4>1, <4>2, TreeLemma DEF HeapOK, ValuesOK
    <3> HIDE DEF table
    <3>3. table'[p] = NewValue(p) /\ \A q \in Prefixes \ {p} : table'[q] = table[q]
      BY <1>1, <3>1 DEF Tables
    <3> QED
      BY <3>2, <3>3
  <2>2. CASE Erase(p)
    <3>1. table[p] # Null /\ table' = [table EXCEPT ![p] = Null]
      BY <2>2, EraseTable
    <3> HIDE DEF table
    <3>2. table'[p] = Null /\ \A q \in Prefixes \ {p} : table'[q] = table[q]
      BY <1>1, <3>1 DEF Tables
    <3> QED
      BY <3>1, <3>2
  <2> QED
    BY <1>2, <2>1, <2>2 DEF InsertErase
<1>3. CASE Clear
  BY <1>3, ClearSafe
<1>4. CASE Prune \/ Collapse
  <2>1. table' = table
    BY <1>4, WriterStepTable DEF WriterStep
  <2>2. PICK s : Unhangs(s)
    BY <1>4, PruneSafe, CollapseSafe
  <2>3. Tree(link') = Tree(link) \ {link[s]}
    BY <2>2 DEF Unhangs
  <2> QED
    BY <2>1, <2>3
<1> QED
  BY <1>2, <1>3, <1>4 DEF Stores

\* A store of the writer, the first update or a later one.
LEMMA StoresUpdate ==
  ASSUME SafeInv, SafeInv', Alone, RoutesInv, ChangesOK, UpdateOK, Stores
  PROVE  UpdateOK'
<1>1. /\ UNCHANGED reader /\ Watch
      /\ \A n \in Nodes \ Tree(link') :
            value'[n] = value[n] /\ \A d \in Bits : link'[<<n, d>>] = link[<<n, d>>]
  BY StoresInTree
<1>2. /\ rpc' = rpc /\ addr' = addr /\ at' = at /\ best' = best
      /\ table' = Table(link', value')
  BY <1>1 DEF reader, table
<1>3. \A r \in Readers :
         /\ changes'[r] = IF Guarded(r) /\ table' # table THEN changes[r] + 1 ELSE changes[r]
         /\ Guarded(r) =>
               /\ mayHold'[r] = mayHold[r] \cup Reachable(link', value')
               /\ stable'[r] = stable[r] \cap Bound(table', addr[r])
               /\ could'[r] = could[r] \cup {LongestMatch(table', addr[r])}
  <2>1. table = Table(link, value)
    BY DEF table
  <2> QED
    BY <1>1, <1>2, <2>1 DEF Watch
<1>4. \A v \in Reachable(link', value') \cap Values : table'[EntryOf[v]] = v
  <2>1. /\ link' \in Links /\ Ordered(link') /\ value' \in [Nodes -> Values \cup {Null}]
        /\ \A n \in Nodes : value'[n] # Null => EntryOf[value'[n]] = KeyOf[n]
    BY DEF SafeInv, Typed, HeapOK, ValuesOK
  <2> QED
    BY <1>2, <2>1, ReachableBound
<1>5. /\ table' # table =>
              \/ \E p \in Prefixes : \A q \in Prefixes \ {p} : table'[q] = table[q]
              \/ Tree(link') = {}
      /\ table' = table /\ Tree(link) = {} => Tree(link') = {}
  BY StoresTable
<1>6. table \in Tables /\ \A n \in Nodes : n \notin Values
  BY TableTyped, TrieAssumption DEF Tables
<1> HIDE DEF table
<1>7. ASSUME NEW r \in Readers
      PROVE  ~Guarded(r)' => changes'[r] = 0
  BY <1>2, <1>3 DEF UpdateOK, Guarded
<1>8. ASSUME NEW r \in Readers, Guarded(r)', changes'[r] < 2
      PROVE  \E old \in Tables : Remembers(r, old)'
  <2>1. Guarded(r) /\ changes[r] \in Nat
    BY <1>2, <1>8, TrieAssumption DEF Guarded, ChangesOK
  <2>2. changes[r] < 2
    BY <1>3, <1>8, <2>1
  <2>3. PICK old \in Tables : Remembers(r, old)
    BY <2>1, <2>2 DEF UpdateOK
  <2>4. ASSUME table' = table \/ old = table
        PROVE  HeldBound(r, old)'
    BY <1>3, <1>4, <2>1, <2>3, <2>4 DEF Remembers, HeldBound
  <2>5. /\ LongestMatch(old, addr'[r]) \in could'[r]
        /\ LongestMatch(table', addr'[r]) \in could'[r]
    BY <1>2, <1>3, <2>1, <2>3 DEF Remembers
  <2>6. CASE table' = table
    <3>1. changes'[r] = changes[r]
      BY <1>3, <2>6
    <3>2. CASE Unchanged(r, old)
      <4>1. stable'[r] = Bound(table', addr'[r])
        <5>1. stable'[r] = stable[r] \cap Bound(table', addr[r])
          BY <1>3, <2>1
        <5>2. stable[r] = Bound(table, addr[r])
          BY <3>2 DEF Unchanged
        <5>3. Bound(table', addr'[r]) = Bound(table, addr[r])
          BY <1>2, <2>6
        <5>4. Bound(table', addr[r]) = Bound(table, addr[r])
          BY <2>6
        <5> QED
          BY <5>1, <5>2, <5>3, <5>4
      <4>2. Unchanged(r, old)'
        BY <2>6, <3>1, <3>2, <4>1 DEF Unchanged
      <4> QED
        BY <2>4, <2>5, <2>6, <4>2 DEF Remembers
    <3>3. CASE OneEntry(r, old)
      <4>1. stable'[r] = Bound(old, addr'[r]) \cap Bound(table', addr'[r])
        BY <1>2, <1>3, <2>1, <2>6, <3>3 DEF OneEntry
      <4>2. OneEntry(r, old)'
        BY <2>6, <3>1, <3>3, <4>1 DEF OneEntry
      <4> QED
        BY <2>4, <2>5, <2>6, <4>2 DEF Remembers
    <3>4. CASE Emptied(r, old)
      <4>1. Tree(link') = {}
        BY <1>5, <2>6, <3>4 DEF Emptied
      <4>2. mayHold'[r] \cap Nodes = mayHold[r] \cap Nodes
        BY <1>3, <1>6, <2>1, <4>1 DEF Reachable
      <4>3. ASSUME AheadOf(r, Bound(old, addr[r]))
            PROVE  AheadOf(r, Bound(old, addr[r]))'
        BY <1>2, <4>3 DEF AheadOf, LongEnough, Bound
      <4>4. ASSUME NEW n \in Nodes, NEW p \in Bound(old, addr[r]), LeadsTo(n, p)
            PROVE  LeadsTo(n, p)'
        <5>1. /\ p \in Keys /\ Len(KeyOf[n]) \in Nat
              /\ Len(KeyOf[n]) < Len(p) => BitAt(p, Len(KeyOf[n])) \in Bits
          BY NodesHaveKeys, KeyTypes, TrieAssumption DEF Bound
        <5> QED
          BY <1>1, <4>1, <4>4, <5>1 DEF LeadsTo
      <4>5. Emptied(r, old)'
        BY <1>2, <3>1, <3>4, <4>1, <4>2, <4>3, <4>4 DEF Emptied, Bound
      <4> QED
        BY <2>4, <2>5, <2>6, <4>5 DEF Remembers
    <3> QED
      BY <2>3, <3>2, <3>3, <3>4 DEF Remembers
  <2>7. CASE table' # table
    <3>1. changes'[r] = changes[r] + 1 /\ changes[r] = 0
      BY <1>3, <1>8, <2>1, <2>7
    <3>2. Unchanged(r, old)
      BY <2>3, <3>1 DEF Remembers, OneEntry, Emptied
    <3>3. /\ old = table /\ changes'[r] = 1 /\ stable[r] = Bound(old, addr[r])
          /\ stable'[r] = Bound(old, addr'[r]) \cap Bound(table', addr'[r])
      BY <1>2, <1>3, <2>1, <3>1, <3>2 DEF Unchanged
    <3>4. CASE \E p \in Prefixes : \A q \in Prefixes \ {p} : table'[q] = table[q]
      <4>1. OneEntry(r, old)'
        BY <3>3, <3>4 DEF OneEntry
      <4> QED
        BY <2>4, <2>5, <3>3, <4>1 DEF Remembers
    <3>5. CASE Tree(link') = {}
      <4> DEFINE S == Bound(old, addr[r])
      <4>1. AheadOf(r, S) /\ \A n \in mayHold[r] \cap Nodes, p \in S : LeadsTo(n, p)
        BY <3>3 DEF RoutesInv, HeldRoutes, Ahead
      <4>2. mayHold'[r] \cap Nodes = mayHold[r] \cap Nodes /\ Bound(old, addr[r])' = S
        BY <1>2, <1>3, <1>6, <2>1, <3>5 DEF Reachable, Bound
      <4>3. \A p \in S : p \in Prefixes
        BY DEF Bound
      <4> HIDE DEF S
      <4>4. AheadOf(r, Bound(old, addr[r]))'
        BY <1>2, <4>1, <4>2 DEF AheadOf, LongEnough
      <4>5. ASSUME NEW n \in Nodes, NEW p \in S, LeadsTo(n, p)
            PROVE  LeadsTo(n, p)'
        <5>1. /\ p \in Keys /\ Len(KeyOf[n]) \in Nat
              /\ Len(KeyOf[n]) < Len(p) => BitAt(p, Len(KeyOf[n])) \in Bits
          BY <4>3, NodesHaveKeys, KeyTypes, TrieAssumption
        <5> QED
          BY <1>1, <3>5, <4>5, <5>1 DEF LeadsTo
      <4>6. Emptied(r, old)'
        BY <3>3, <3>5, <4>1, <4>2, <4>4, <4>5 DEF Emptied
      <4> QED
        BY <2>4, <2>5, <3>3, <4>6 DEF Remembers
    <3> QED
      BY <1>5, <2>7, <3>4, <3>5
  <2> QED
    BY <2>6, <2>7
<1> QED
  BY <1>7, <1>8 DEF UpdateOK

\* What touches neither the reader nor what it may hold.
LEMMA RemembersKept ==
  ASSUME NEW r \in Readers, NEW old, Remembers(r, old),
         Tree(link') = Tree(link), table' = table,
         \A n \in mayHold[r] \cap Nodes :
            value'[n] = value[n] /\ \A d \in Bits : link'[<<n, d>>] = link[<<n, d>>],
         UNCHANGED <<rpc[r], addr[r], at[r], best[r],
                     mayHold[r], stable[r], changes[r], could[r]>>
  PROVE  Remembers(r, old)'
<1>1. /\ rpc'[r] = rpc[r] /\ addr'[r] = addr[r] /\ at'[r] = at[r] /\ best'[r] = best[r]
      /\ mayHold'[r] = mayHold[r] /\ stable'[r] = stable[r] /\ changes'[r] = changes[r]
      /\ could'[r] = could[r]
  OBVIOUS
<1> HIDE DEF table
<1>2. /\ LongestMatch(old, addr'[r]) \in could'[r]
      /\ LongestMatch(table', addr'[r]) \in could'[r]
  BY <1>1 DEF Remembers
<1>3. HeldBound(r, old)'
  BY <1>1 DEF Remembers, HeldBound
<1>4. Unchanged(r, old) => Unchanged(r, old)'
  <2> SUFFICES ASSUME Unchanged(r, old)
               PROVE  Unchanged(r, old)'
    OBVIOUS
  <2>1. Bound(table', addr'[r]) = Bound(table, addr[r])
    BY <1>1
  <2> QED
    BY <1>1, <2>1 DEF Unchanged
<1>5. OneEntry(r, old) => OneEntry(r, old)'
  <2> SUFFICES ASSUME OneEntry(r, old)
               PROVE  OneEntry(r, old)'
    OBVIOUS
  <2>1. /\ Bound(table', addr'[r]) = Bound(table, addr[r])
        /\ Bound(old, addr'[r]) = Bound(old, addr[r])
    BY <1>1
  <2> QED
    BY <1>1, <2>1 DEF OneEntry
<1>6. Emptied(r, old) => Emptied(r, old)'
  <2> SUFFICES ASSUME Emptied(r, old)
               PROVE  Emptied(r, old)'
    OBVIOUS
  <2> DEFINE S == Bound(old, addr[r])
  <2>1. Bound(old, addr'[r]) = S /\ \A p \in S : p \in Prefixes
    BY <1>1 DEF Bound
  <2>2. /\ changes[r] = 1 /\ Tree(link) = {}
        /\ \/ at[r] = Null /\ best[r] = Null
           \/ AheadOf(r, S) /\ \A n \in mayHold[r] \cap Nodes, p \in S : LeadsTo(n, p)
    BY DEF Emptied
  <2> HIDE DEF S
  <2>3. AheadOf(r, S) => AheadOf(r, Bound(old, addr[r]))'
    BY <1>1, <2>1 DEF AheadOf, LongEnough
  <2>4. ASSUME NEW n \in mayHold[r] \cap Nodes, NEW p \in S, LeadsTo(n, p)
        PROVE  LeadsTo(n, p)'
    <3>1. /\ p \in Keys /\ Len(KeyOf[n]) \in Nat
          /\ Len(KeyOf[n]) < Len(p) => BitAt(p, Len(KeyOf[n])) \in Bits
      BY <2>1, NodesHaveKeys, KeyTypes, TrieAssumption
    <3> QED
      BY <2>4, <3>1 DEF LeadsTo
  <2> QED
    BY <1>1, <2>1, <2>2, <2>3, <2>4 DEF Emptied
<1> QED
  BY <1>2, <1>3, <1>4, <1>5, <1>6 DEF Remembers

\* What touches no reader and nothing that one may hold.
LEMMA KeptUpdate ==
  ASSUME UpdateOK, Tree(link') = Tree(link), table' = table, HeldKept,
         UNCHANGED <<reader, history>>
  PROVE  UpdateOK'
<1>1. /\ rpc' = rpc /\ addr' = addr /\ at' = at /\ best' = best
      /\ mayHold' = mayHold /\ stable' = stable /\ changes' = changes /\ could' = could
  BY DEF reader, history
<1>2. ASSUME NEW r \in Readers, NEW old, Remembers(r, old)
      PROVE  Remembers(r, old)'
  <2>1. UNCHANGED <<rpc[r], addr[r], at[r], best[r],
                    mayHold[r], stable[r], changes[r], could[r]>>
    BY <1>1
  <2> QED
    BY <1>2, <2>1, RemembersKept DEF HeldKept
<1>3. \A r \in Readers : Guarded(r)' <=> Guarded(r)
  BY <1>1 DEF Guarded
<1>4. ASSUME NEW r \in Readers, Guarded(r), changes[r] < 2
      PROVE  \E old \in Tables : Remembers(r, old)'
  <2>1. PICK old \in Tables : Remembers(r, old)
    BY <1>4 DEF UpdateOK
  <2> QED
    BY <1>2, <2>1
<1>5. \A r \in Readers : ~Guarded(r) => changes'[r] = 0
  BY <1>1 DEF UpdateOK
<1> QED
  BY <1>1, <1>3, <1>4, <1>5 DEF UpdateOK

\* The writer's other steps, and the deleters.
LEMMA QuietUpdate ==
  ASSUME SafeInv, Alone, UpdateOK, (WriterStep /\ ~Prune /\ ~Collapse) \/ Reclaim
  PROVE  UpdateOK'
<1>1. CASE Retires
  <2>1. TreeKept /\ HeldKept /\ UNCHANGED <<reader, history>> /\ table' = table
    BY <1>1, RetireSafe, DeletesUnheld, WriterStepTable DEF WriterStep, Retires
  <2> QED
    BY <2>1, KeptUpdate DEF TreeKept
<1>2. CASE Reclaim
  <2>1. TreeKept /\ HeldKept /\ UNCHANGED <<reader, history>> /\ table' = table
    BY <1>2, ReclaimSafe, DeletesUnheld, QuietTable
  <2> QED
    BY <2>1, KeptUpdate DEF TreeKept
<1>3. CASE PruneNothing \/ CollapseNothing
  <2>1. link' = link /\ value' = value /\ UNCHANGED <<reader, history>>
    BY <1>3 DEF PruneNothing, CollapseNothing, memory
  <2>2. HeldKept /\ table' = table /\ Tree(link') = Tree(link)
    BY <2>1 DEF HeldKept, table
  <2> QED
    BY <2>1, <2>2, KeptUpdate
<1> QED
  BY <1>1, <1>2, <1>3 DEF WriterStep, Retires

\* The loads of a lookup.
LEMMA ReaderStepUpdate ==
  ASSUME SafeInv, UpdateOK, NEW r \in Readers, ReaderStep(r)
  PROVE  UpdateOK'
<1>1. Guarded(r) /\ \E l, n, b : Moves(r, l, n, b)
  BY ReaderMoves
<1>2. /\ link' = link /\ value' = value /\ table' = table /\ Tree(link') = Tree(link)
      /\ addr' = addr /\ mayHold' = mayHold /\ stable' = stable /\ changes' = changes
      /\ could' = could
      /\ \A q \in Readers : q # r => rpc'[q] = rpc[q] /\ at'[q] = at[q] /\ best'[q] = best[q]
  BY <1>1 DEF Moves, memory, history, table, SafeInv, Typed
<1>3. Guarded(r)'
  BY ReaderMoves DEF Moves, SafeInv, Typed, Guarded
<1>4. ASSUME NEW q \in Readers, q # r
      PROVE  /\ ~Guarded(q)' => changes'[q] = 0
             /\ Guarded(q)' /\ changes'[q] < 2 => \E old \in Tables : Remembers(q, old)'
  <2>1. UNCHANGED <<rpc[q], addr[q], at[q], best[q],
                    mayHold[q], stable[q], changes[q], could[q]>>
    BY <1>2, <1>4
  <2>2. ASSUME NEW old, Remembers(q, old)
        PROVE  Remembers(q, old)'
    BY <1>2, <2>1, <2>2, RemembersKept
  <2>3. Guarded(q)' <=> Guarded(q)
    BY <2>1 DEF Guarded
  <2>4. Guarded(q) /\ changes[q] < 2 => \E old \in Tables : Remembers(q, old)'
    BY <2>2 DEF UpdateOK
  <2> QED
    BY <2>1, <2>3, <2>4 DEF UpdateOK
<1>5. ASSUME changes[r] < 2
      PROVE  \E old \in Tables : Remembers(r, old)'
  <2>1. PICK old \in Tables : Remembers(r, old)
    BY <1>1, <1>5 DEF UpdateOK
  <2>2. /\ LongestMatch(old, addr[r])' \in could'[r] /\ LongestMatch(table, addr[r])' \in could'[r]
        /\ HeldBound(r, old)'
        /\ (Unchanged(r, old) => Unchanged(r, old)') /\ (OneEntry(r, old) => OneEntry(r, old)')
    <3> HIDE DEF table
    <3>1. /\ LongestMatch(old, addr'[r]) \in could'[r]
          /\ LongestMatch(table', addr'[r]) \in could'[r]
      BY <1>2, <2>1 DEF Remembers
    <3>2. HeldBound(r, old)'
      BY <1>2, <2>1 DEF Remembers, HeldBound
    <3>3. /\ Bound(old, addr'[r]) = Bound(old, addr[r])
          /\ Bound(table', addr'[r]) = Bound(table, addr[r])
      BY <1>2
    <3>4. (Unchanged(r, old) => Unchanged(r, old)') /\ (OneEntry(r, old) => OneEntry(r, old)')
      BY <1>2, <3>3 DEF Unchanged, OneEntry
    <3> QED
      BY <3>1, <3>2, <3>4
  <2>3. ASSUME Emptied(r, old)
        PROVE  Emptied(r, old)'
    <3> DEFINE S == Bound(old, addr[r])
    <3>1. changes'[r] = 1 /\ Tree(link') = {} /\ Bound(old, addr'[r]) = S
      BY <1>2, <2>3 DEF Emptied
    <3>2. S' = S
      BY <1>2 DEF Bound
    <3>3. CASE at[r] = Null /\ best[r] = Null
      <4>1. link[RootSlot] = Null
        <5>1. link \in Links /\ Ordered(link) /\ Tree(link) = {}
          BY <2>3 DEF SafeInv, Typed, HeapOK, Emptied
        <5> QED
          BY <5>1, TreeLemma DEF Closed
      <4>2. at'[r] = Null /\ best'[r] = Null
        BY <3>3, <4>1, ReaderMoves DEF Moves, SafeInv, Typed
      <4> QED
        BY <3>1, <4>2 DEF Emptied
    <3>4. CASE /\ ~(at[r] = Null /\ best[r] = Null) /\ AheadOf(r, S)
               /\ \A n \in mayHold[r] \cap Nodes, p \in S : LeadsTo(n, p)
      <4>1. WalksFor(r, S)
        <5>1. rpc[r] # "root"
          BY <3>4 DEF SafeInv, StandsOK
        <5>2. at[r] # Null => at[r] \in mayHold[r] \cap Nodes
          BY DEF SafeInv, StandsOK, Typed
        <5>3. \A p \in S : p \in Keys /\ Len(p) \in Nat /\ Len(p) <= Width /\ Matches(p, addr[r])
          BY KeyTypes, TrieAssumption DEF Bound
        <5> HIDE DEF S
        <5> QED
          BY <3>4, <5>1, <5>2, <5>3 DEF WalksFor
      <4> HIDE DEF S
      <4>2. AheadOf(r, S)'
        BY <3>4, <3>2, <4>1, ReaderStepAhead DEF AheadOf, LongEnough
      <4>3. AheadOf(r, Bound(old, addr[r]))'
        BY <4>2 DEF S
      <4>4. \A n \in mayHold'[r] \cap Nodes, p \in S : LeadsTo(n, p)'
        BY <1>2, <3>4 DEF LeadsTo
      <4> QED
        BY <3>1, <4>3, <4>4 DEF Emptied
    <3> QED
      BY <2>3, <3>3, <3>4 DEF Emptied
  <2>4. Remembers(r, old)'
    BY <2>1, <2>2, <2>3 DEF Remembers
  <2> QED
    BY <2>4
<1> QED
  BY <1>2, <1>3, <1>4, <1>5 DEF UpdateOK

\* The rest of the steps of a reader: the other readers notice nothing.
LEMMA EnterLeaveUpdate ==
  ASSUME SafeInv, UpdateOK, NEW r \in Readers,
         (\E a \in Addresses : Enter(r, a)) \/ Leave(r)
  PROVE  UpdateOK'
<1>1. /\ link' = link /\ value' = value /\ table' = table /\ Tree(link') = Tree(link)
      /\ \A q \in Readers : q # r =>
            UNCHANGED <<rpc[q], addr[q], at[q], best[q],
                        mayHold[q], stable[q], changes[q], could[q]>>
  BY DEF SafeInv, Typed, Enter, Leave, Goto, memory, table
<1>2. ASSUME NEW q \in Readers, q # r
      PROVE  /\ ~Guarded(q)' => changes'[q] = 0
             /\ Guarded(q)' /\ changes'[q] < 2 => \E old \in Tables : Remembers(q, old)'
  <2>1. UNCHANGED <<rpc[q], addr[q], at[q], best[q],
                    mayHold[q], stable[q], changes[q], could[q]>>
    BY <1>1, <1>2
  <2>2. ASSUME NEW old, Remembers(q, old)
        PROVE  Remembers(q, old)'
    BY <1>1, <2>1, <2>2, RemembersKept
  <2>3. Guarded(q)' <=> Guarded(q)
    BY <2>1 DEF Guarded
  <2>4. Guarded(q) /\ changes[q] < 2 => \E old \in Tables : Remembers(q, old)'
    BY <2>2 DEF UpdateOK
  <2> QED
    BY <2>1, <2>3, <2>4 DEF UpdateOK
<1>3. ASSUME NEW a \in Addresses, Enter(r, a)
      PROVE  \E old \in Tables : Remembers(r, old)'
  <2>1. PICK old \in Tables : old = table
    BY TableTyped DEF Tables
  <2>2. /\ rpc[r] = "idle" /\ addr'[r] = a /\ mayHold'[r] = Reachable(link, value)
        /\ stable'[r] = Bound(table, a) /\ could'[r] = {LongestMatch(table, a)}
        /\ changes'[r] = changes[r]
    BY <1>3 DEF SafeInv, Typed, Enter
  <2>3. changes[r] = 0
    BY <2>2 DEF UpdateOK, Guarded
  <2>4. \A v \in mayHold'[r] \cap Values : table[EntryOf[v]] = v
    <3>1. /\ link \in Links /\ Ordered(link) /\ value \in [Nodes -> Values \cup {Null}]
          /\ \A n \in Nodes : value[n] # Null => EntryOf[value[n]] = KeyOf[n]
      BY DEF SafeInv, Typed, HeapOK, ValuesOK
    <3> QED
      BY <2>2, <3>1, ReachableBound DEF table
  <2> HIDE DEF table
  <2>5. HeldBound(r, old)'
    BY <2>1, <2>4 DEF HeldBound
  <2>6. Unchanged(r, old)'
    BY <1>1, <2>1, <2>2, <2>3 DEF Unchanged
  <2>7. /\ LongestMatch(old, addr'[r]) \in could'[r]
        /\ LongestMatch(table', addr'[r]) \in could'[r]
    BY <1>1, <2>1, <2>2
  <2>8. Remembers(r, old)'
    BY <2>5, <2>6, <2>7 DEF Remembers
  <2> QED
    BY <2>8
<1>4. CASE \E a \in Addresses : Enter(r, a)
  <2>1. Guarded(r)'
    BY <1>4 DEF SafeInv, Typed, Enter, Goto, Guarded
  <2> QED
    BY <1>2, <1>3, <1>4, <2>1 DEF UpdateOK
<1>5. CASE Leave(r)
  <2>1. ~Guarded(r)' /\ changes'[r] = 0
    BY <1>5 DEF SafeInv, Typed, Leave, Goto, Guarded
  <2> QED
    BY <1>2, <2>1 DEF UpdateOK
<1> QED
  BY <1>4, <1>5

\* Every step keeps what the lookups remember.
LEMMA NextUpdate ==
  ASSUME SafeInv, SafeInv', Alone, RoutesInv, ChangesOK, UpdateOK, [Next]_trieVars
  PROVE  UpdateOK'
<1>1. CASE Stores
  BY <1>1, StoresUpdate
<1>2. CASE (WriterStep /\ ~Prune /\ ~Collapse) \/ Reclaim
  BY <1>2, QuietUpdate
<1>3. ASSUME NEW r \in Readers,
             (\E a \in Addresses : Enter(r, a)) \/ ReaderStep(r) \/ Leave(r)
      PROVE  UpdateOK'
  BY <1>3, ReaderStepUpdate, EnterLeaveUpdate
<1>4. CASE UNCHANGED trieVars
  <2>1. link' = link /\ value' = value /\ UNCHANGED <<reader, history>>
    BY <1>4 DEF trieVars, memory
  <2>2. HeldKept /\ table' = table /\ Tree(link') = Tree(link)
    BY <2>1 DEF HeldKept, table
  <2> QED
    BY <2>1, <2>2, KeptUpdate
<1> QED
  BY <1>1, <1>2, <1>3, <1>4 DEF Next, Stores

\* Keys that match the same address and are as long as one another are equal.
LEMMA SameLength ==
  ASSUME NEW p \in Prefixes, NEW q \in Prefixes, NEW a \in Addresses,
         Matches(p, a), Matches(q, a), Len(p) <= Len(q), Len(q) <= Len(p)
  PROVE  p = q
<1>1. p \in Keys /\ q \in Keys /\ a \in Keys /\ Width \in Nat
  BY HostsAreKeys, TrieAssumption
<1> QED
  BY <1>1, MatchOrder

\* The longest match of a table, given the entry that covers most.
LEMMA LongestIs ==
  ASSUME NEW tbl, NEW a \in Addresses, NEW q \in Bound(tbl, a),
         \A p \in Bound(tbl, a) : Len(p) <= Len(q)
  PROVE  LongestMatch(tbl, a) = tbl[q]
<1>1. PICK p \in Bound(tbl, a) :
         /\ LongestMatch(tbl, a) = tbl[p]
         /\ \A o \in Bound(tbl, a) : Len(o) <= Len(p)
  BY LongestLemma
<1>2. p = q
  BY <1>1, SameLength DEF Bound
<1> QED
  BY <1>1, <1>2

\* The answer of a lookup that has seen at most one update is one of the two.
LEMMA OneAnswer ==
  ASSUME SafeInv, RoutesInv, NEW r \in Readers, rpc[r] = "done",
         NEW old \in Tables, Remembers(r, old)
  PROVE  best[r] \in {LongestMatch(old, addr[r]), LongestMatch(table, addr[r])}
<1> DEFINE a == addr[r]
           b == best[r]
           q == EntryOf[b]
<1>1. /\ a \in Addresses /\ b \in Values \cup {Null}
      /\ b # Null => b \in mayHold[r]
  BY DEF SafeInv, StandsOK, Typed, Guarded
<1>2. /\ b # Null => Matches(q, a)
      /\ \A p \in stable[r] : b # Null /\ Len(p) <= Len(q)
  <2>1. b # Null => Matches(q, a)
    BY DEF RoutesInv, Ahead, AheadOf
  <2>2. \A p \in stable[r] : LongEnough(r, p) /\ p \in Prefixes
    BY DEF RoutesInv, Ahead, AheadOf, Bound
  <2>3. ASSUME NEW p \in stable[r]
        PROVE  b # Null /\ Len(p) <= Len(q)
    <3>1. b # Null /\ Len(q) >= Len(p)
      BY <2>2 DEF LongEnough
    <3>2. Len(q) \in Nat /\ Len(p) \in Nat
      BY <1>1, <2>2, <3>1, KeyTypes, TrieAssumption
    <3> QED
      BY <3>1, <3>2
  <2> QED
    BY <2>1, <2>3
<1>3. b # Null => q \in Prefixes /\ b \in {old[q], table[q]} /\ Len(q) <= Len(q)
  <2> SUFFICES ASSUME b # Null
               PROVE  q \in Prefixes /\ b \in {old[q], table[q]} /\ Len(q) <= Len(q)
    OBVIOUS
  <2>1. q \in Prefixes /\ b \in {old[q], table[q]}
    BY <1>1, TrieAssumption DEF Remembers, HeldBound
  <2> QED
    BY <2>1, KeyTypes, TrieAssumption
<1> HIDE DEF a, b, q
\* With every route of a table behind it, the answer is the table's.
<1>4. ASSUME NEW tbl, b = Null => Bound(tbl, a) = {}, b # Null => tbl[q] = b,
             \A p \in Bound(tbl, a) : Len(p) <= Len(q)
      PROVE  b = LongestMatch(tbl, a)
  <2>1. CASE b = Null
    BY <1>4, <2>1, LongestLemma
  <2>2. CASE b # Null
    <3>1. q \in Bound(tbl, a)
      BY <1>2, <1>3, <1>4, <2>2 DEF Bound
    <3> QED
      BY <1>1, <1>4, <2>2, <3>1, LongestIs
  <2> QED
    BY <2>1, <2>2
<1>5. CASE Unchanged(r, old)
  <2>1. stable[r] = Bound(table, a) /\ old = table
    BY <1>5 DEF Unchanged, a
  <2>2. b = Null => Bound(table, a) = {}
    BY <1>2, <2>1
  <2>3. b = LongestMatch(table, a)
    BY <1>2, <1>3, <1>4, <2>1, <2>2
  <2> QED
    BY <2>3 DEF a, b
<1>6. CASE OneEntry(r, old)
  <2>1. PICK p \in Prefixes : \A o \in Prefixes \ {p} : old[o] = table[o]
    BY <1>6 DEF OneEntry
  <2>2. stable[r] = Bound(old, a) \cap Bound(table, a)
    BY <1>6 DEF OneEntry, a
  <2>3. /\ \A o \in Bound(old, a) : o = p \/ o \in stable[r]
        /\ \A o \in Bound(table, a) : o = p \/ o \in stable[r]
    BY <2>1, <2>2 DEF Bound
  <2>4. CASE b # Null /\ q = p
    <3>1. CASE b = old[q]
      BY <1>2, <1>3, <1>4, <2>3, <2>4, <3>1 DEF a, b
    <3>2. CASE b = table[q]
      BY <1>2, <1>3, <1>4, <2>3, <2>4, <3>2 DEF a, b
    <3> QED
      BY <1>3, <2>4, <3>1, <3>2
  <2>5. CASE ~(b # Null /\ q = p)
    <3>1. b # Null => old[q] = b /\ table[q] = b
      BY <1>3, <2>1, <2>5
    <3>2. CASE p \notin Bound(old, a) \/ p \in stable[r]
      <4>1. \A o \in Bound(old, a) : o \in stable[r]
        BY <2>3, <3>2
      <4>2. b = LongestMatch(old, a)
        BY <1>2, <1>4, <3>1, <4>1
      <4> QED
        BY <4>2 DEF a, b
    <3>3. CASE p \in Bound(old, a) /\ p \notin stable[r]
      <4>1. \A o \in Bound(table, a) : o \in stable[r]
        BY <2>2, <2>3, <3>3
      <4>2. b = LongestMatch(table, a)
        BY <1>2, <1>4, <3>1, <4>1
      <4> QED
        BY <4>2 DEF a, b
    <3> QED
      BY <3>2, <3>3
  <2> QED
    BY <2>4, <2>5
<1>7. CASE Emptied(r, old)
  <2>1. \A p \in Prefixes : table[p] = Null
    <3>1. link \in Links /\ Ordered(link) /\ Tree(link) = {}
      BY <1>7 DEF SafeInv, Typed, HeapOK, Emptied
    <3> QED
      BY <3>1, TableLemma DEF table
  <2>2. CASE b = Null
    <3>1. Bound(table, a) = {}
      BY <2>1 DEF Bound
    <3> QED
      BY <2>2, <3>1, LongestLemma DEF a, b
  <2>3. CASE b # Null
    <3>1. \A p \in Bound(old, a) : LongEnough(r, p)
      BY <1>7, <2>3 DEF Emptied, AheadOf, a, b
    <3>2. old[q] = b
      BY <1>3, <2>1, <2>3
    <3>3. ASSUME NEW p \in Bound(old, a)
          PROVE  Len(p) <= Len(q)
      <4>1. Len(q) >= Len(p)
        BY <3>1 DEF LongEnough, b, q
      <4>2. Len(q) \in Nat /\ Len(p) \in Nat
        BY <1>3, <2>3, KeyTypes, TrieAssumption DEF Bound
      <4> QED
        BY <4>1, <4>2
    <3>4. b = LongestMatch(old, a)
      BY <1>4, <2>3, <3>2, <3>3
    <3> QED
      BY <3>4 DEF a, b
  <2> QED
    BY <2>2, <2>3
<1> QED
  BY <1>5, <1>6, <1>7 DEF Remembers

\* "A reader observes either the old shape or the new one" (trie.hpp:18-20):
\* however many stores an update takes, a lookup that overlaps the change of
\* one route, or one clear(), returns what was right before it or after it.
THEOREM UpdatesAreAtomic == Spec => []OneUpdateIsAtomic
<1>1. Init => UpdateOK
  BY DEF Init, TrieInit, UpdateOK, Guarded
<1>2. TrieInv /\ deferred /\ TrieInv' /\ UpdateOK /\ [Next]_trieVars => UpdateOK'
  BY NextUpdate DEF TrieInv, Alone
<1>3. TrieInv /\ UpdateOK => OneUpdateIsAtomic
  <2> SUFFICES ASSUME SafeInv, RoutesInv, UpdateOK,
                      NEW r \in Readers, rpc[r] = "done", changes[r] < 2
               PROVE  best[r] \in could[r]
    BY DEF TrieInv, OneUpdateIsAtomic
  <2>1. PICK old \in Tables : Remembers(r, old)
    BY DEF UpdateOK, Guarded
  <2> QED
    BY <2>1, OneAnswer DEF Remembers
<1> QED
  BY <1>1, <1>2, <1>3, TrieAlways, PTL DEF Spec
-----------------------------------------------------------------------------
(* The trie as a client of the epoch domain *)

\* What EpochDomain and GracePeriod take for granted of a client: what becomes
\* reachable is newly allocated, what is retired is out of reach and was not
\* retired before, and what is retired comes back to life as free memory only.
ClientStep ==
    /\ \A o \in Reachable(link', value') \ Reachable(link, value) : life[o] = "free"
    /\ \A o \in Allocations : life[o] # "retired" /\ life'[o] = "retired" =>
          life[o] = "live" /\ o \notin Reachable(link, value)
    /\ \A o \in Allocations : life[o] = "retired" => life'[o] # "live"

\* Two trees, and what can be reached through them.
LEMMA ReachableGrows ==
  ASSUME NEW l, NEW v, NEW k, NEW w, NEW N,
         Tree(k) \subseteq Tree(l) \cup N,
         \A n \in Tree(k) : w[n] \in N \cup {Null} \/ (n \in Tree(l) /\ w[n] = v[n])
  PROVE  Reachable(k, w) \ Reachable(l, v) \subseteq N
BY DEF Reachable

\* The stores of the writer retire nothing, and link only what is new.
LEMMA StoresKeepContract ==
  ASSUME SafeInv, Stores
  PROVE  ClientStep
<1>1. /\ Typed /\ HeapOK /\ link \in Links /\ Ordered(link)
      /\ value \in [Nodes -> Values \cup {Null}]
      /\ life \in [Allocations -> {"free", "live", "retired"}]
      /\ Tree(link) \subseteq Nodes
  BY TreeLemma DEF SafeInv, Typed, HeapOK
<1>2. ASSUME NEW N, \A o \in N : life[o] = "free",
             Tree(link') \subseteq Tree(link) \cup N,
             \A n \in Tree(link') :
                value'[n] \in N \cup {Null} \/ (n \in Tree(link) /\ value'[n] = value[n]),
             \A o \in Allocations :
                life'[o] = life[o] \/ (life[o] = "free" /\ life'[o] = "live")
      PROVE  ClientStep
  <2>1. Reachable(link', value') \ Reachable(link, value) \subseteq N
    BY <1>2, ReachableGrows
  <2> QED
    BY <1>2, <2>1 DEF ClientStep
<1>3. ASSUME NEW p \in Prefixes, InsertLeaf(p) \/ InsertSplit(p) \/ InsertAbove(p)
      PROVE  ClientStep
  <2>1. PICK n, more : Grows(p, n, more)
    BY <1>1, <1>3, InsertAdds DEF Adds
  <2> DEFINE N == {n, NewValue(p)} \cup more
  <2>2. /\ \A o \in N : life[o] = "free"
        /\ Tree(link') \subseteq Tree(link) \cup N
        /\ \A o \in Allocations : life'[o] = IF o \in N THEN "live" ELSE life[o]
    BY <2>1 DEF Grows
  <2>3. ASSUME NEW m \in Tree(link')
        PROVE  value'[m] \in N \cup {Null} \/ (m \in Tree(link) /\ value'[m] = value[m])
    <3>1. /\ n \in Nodes /\ value' = [value EXCEPT ![n] = NewValue(p)]
          /\ m \in Tree(link) \cup {n} \cup more /\ more \subseteq Nodes
      BY <2>1, <2>3 DEF Grows
    <3>2. CASE m = n
      BY <1>1, <3>1, <3>2
    <3>3. CASE m # n
      <4>1. m \in Nodes /\ value'[m] = value[m]
        BY <1>1, <3>1, <3>3
      <4>2. CASE m \in more
        <5>1. life[m] = "free"
          BY <2>2, <4>2
        <5> QED
          BY <1>1, <4>1, <5>1, FreeOutside
      <4> QED
        BY <3>1, <3>3, <4>1, <4>2
    <3> QED
      BY <3>2, <3>3
  <2> HIDE DEF N
  <2> QED
    BY <1>2, <2>2, <2>3
<1>4. ASSUME NEW p \in Prefixes, InsertExchange(p)
      PROVE  ClientStep
  <2> DEFINE x == StopNode(p)
             v == NewValue(p)
  <2>1. /\ x # Null /\ FreeValues(p) # {} /\ link' = link
        /\ value' = [value EXCEPT ![x] = v] /\ life' = [life EXCEPT ![v] = "live"]
    BY <1>4 DEF InsertExchange
  <2>2. x \in Nodes /\ v \in Allocations /\ life[v] = "free"
    BY <1>1, <2>1, StopLemma, Fresh DEF Allocations
  <2> HIDE DEF x, v
  <2> DEFINE N == {v}
  <2>3. \A n \in Tree(link') :
           value'[n] \in N \cup {Null} \/ (n \in Tree(link) /\ value'[n] = value[n])
    BY <1>1, <2>1, <2>2
  <2>4. /\ \A o \in Allocations :
              life'[o] = life[o] \/ (life[o] = "free" /\ life'[o] = "live")
        /\ \A o \in N : life[o] = "free"
        /\ Tree(link') \subseteq Tree(link) \cup N
    BY <1>1, <2>1, <2>2
  <2> HIDE DEF N
  <2> QED
    BY <1>2, <2>3, <2>4
<1>5. ASSUME life' = life, Tree(link') \subseteq Tree(link),
             \A n \in Tree(link') : value'[n] \in {value[n], Null}
      PROVE  ClientStep
  <2> DEFINE N == {}
  <2>1. /\ \A o \in N : life[o] = "free"
        /\ Tree(link') \subseteq Tree(link) \cup N
        /\ \A n \in Tree(link') :
              value'[n] \in N \cup {Null} \/ (n \in Tree(link) /\ value'[n] = value[n])
    BY <1>5
  <2> HIDE DEF N
  <2> QED
    BY <1>2, <1>5, <2>1
<1>6. ASSUME NEW p \in Prefixes, Erase(p)
      PROVE  ClientStep
  <2>1. /\ life' = life /\ link' = link
        /\ value' = [value EXCEPT ![StopNode(p)] = Null]
    BY <1>6 DEF Erase
  <2>2. \A n \in Tree(link') : value'[n] \in {value[n], Null}
    BY <1>1, <2>1
  <2> QED
    BY <1>5, <2>1, <2>2
<1>7. CASE Clear
  <2>1. Tree(link') = {} /\ life' = life
    BY <1>7, ClearSafe DEF Clear
  <2> QED
    BY <1>5, <2>1
<1>8. CASE Prune \/ Collapse
  <2>1. PICK s : Unhangs(s)
    BY <1>8, PruneSafe, CollapseSafe
  <2>2. Tree(link') \subseteq Tree(link) /\ value' = value /\ life' = life
    BY <1>8, <2>1 DEF Unhangs, Prune, Collapse
  <2> QED
    BY <1>5, <2>2
<1> QED
  BY <1>3, <1>4, <1>6, <1>7, <1>8 DEF Stores, InsertErase, Insert

\* retire() gets what the writer has unlinked, once.
LEMMA RetiresKeepContract ==
  ASSUME SafeInv, deferred, Retires
  PROVE  ClientStep
<1>1. /\ link \in Links /\ Ordered(link) /\ ValuesOK /\ Owned
      /\ value \in [Nodes -> Values \cup {Null}]
      /\ life \in [Allocations -> {"free", "live", "retired"}]
      /\ Tree(link) \subseteq Nodes
  BY TreeLemma DEF SafeInv, Typed, HeapOK
<1> PICK S \in SUBSET doomed : HandsOver(S)
  BY RetiresSome
<1>2. /\ life' = [o \in Allocations |-> IF o \in S THEN "retired" ELSE life[o]]
      /\ UNCHANGED memory
  BY DEF HandsOver, Retire
<1>3. link' = link /\ value' = value
  BY <1>2 DEF memory
<1>4. \A o \in doomed : life[o] = "live" /\ o \notin Reachable(link, value)
  <2>1. ASSUME NEW o \in doomed
        PROVE  life[o] = "live" /\ o \notin Tree(link)
    BY <1>1, <2>1 DEF Owned
  <2>2. \A n \in Nodes : value[n] # Null => value[n] \notin doomed
    BY <1>1 DEF ValuesOK
  <2>3. \A o \in Reachable(link, value) :
           o \in Tree(link) \/ \E n \in Tree(link) : value[n] # Null /\ o = value[n]
    BY DEF Reachable
  <2>4. \A o \in Reachable(link, value) :
           o \in Tree(link) \/ \E n \in Nodes : value[n] # Null /\ o = value[n]
    BY <1>1, <2>3
  <2> QED
    BY <2>1, <2>2, <2>4
<1> QED
  BY <1>1, <1>2, <1>3, <1>4 DEF ClientStep

\* The trie is the client that the models of the epoch domain assume, so what they
\* promise holds of the nodes and the entries of radix_trie: "A reader arriving
\* after this store cannot reach `current`" (trie.hpp:309-311) before its memory
\* is free, and no memory is retired twice.
THEOREM TrieKeepsContract == Spec => [][ClientStep]_trieVars
<1>1. TrieInv /\ deferred /\ [Next]_trieVars => [ClientStep]_trieVars
  <2> SUFFICES ASSUME SafeInv, deferred, Next
               PROVE  ClientStep
    BY DEF TrieInv
  <2>1. CASE Stores
    BY <2>1, StoresKeepContract
  <2>2. CASE Retires
    BY <2>2, RetiresKeepContract
  <2>3. CASE UNCHANGED <<memory, life>>
    BY <2>3 DEF ClientStep, memory
  <2>4. CASE Reclaim
    <3>1. Reachable(link', value') = Reachable(link, value)
      <4>1. TreeKept
        BY <2>4, ReclaimSafe
      <4> QED
        BY <4>1 DEF TreeKept, Reachable
    <3>2. \A o \in Allocations : life'[o] \in {life[o], "free"}
      BY <2>4 DEF Reclaim, Delete
    <3> QED
      BY <3>1, <3>2 DEF ClientStep
  <2>5. PruneNothing \/ CollapseNothing => UNCHANGED <<memory, life>>
    BY DEF PruneNothing, CollapseNothing
  <2>6. ASSUME NEW r \in Readers,
               (\E a \in Addresses : Enter(r, a)) \/ ReaderStep(r) \/ Leave(r)
        PROVE  UNCHANGED <<memory, life>>
    BY <2>6 DEF Enter, ReaderStep, LoadRoot, LoadValue, WalkEnds, LoadChild, Leave
  <2> QED
    BY <2>1, <2>2, <2>3, <2>4, <2>5, <2>6 DEF Next, WriterStep, Stores, Retires
<1> QED
  BY <1>1, TrieAlways, PTL DEF Spec
=============================================================================
