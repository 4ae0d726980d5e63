------------------------------ MODULE CliProofs ------------------------------
(***************************************************************************)
(* Proofs about Cli: the order of the prefixes, what the loaders hand to   *)
(* the tool, the trie it builds of that, and what the walks of TrieWalks   *)
(* find in a trie, whoever owns it.                                        *)
(***************************************************************************)
EXTENDS Cli, RadixTrieProofs

(* The order of prefixes *)

\* Where two addresses part: the bits before are the same, and then one has a
\* 0 and the other a 1.
PartAt(a, b, n) ==
    /\ n \in 1 .. Width
    /\ a[n] = 0 /\ b[n] = 1
    /\ \A i \in 1 .. n - 1 : a[i] = b[i]

\* The comparison of addresses is that of their bits, first to last.
LEMMA BelowIs ==
  ASSUME Width \in Nat, NEW a \in Hosts, NEW b \in Hosts
  PROVE  Below(a, b) <=> \E n : PartAt(a, b, n)
<1> DEFINE m == Shared(a, b)
<1>1. /\ a \in Keys /\ b \in Keys /\ Len(a) = Width /\ Len(b) = Width
      /\ \A i \in 1 .. Width : a[i] \in Bits /\ b[i] \in Bits
  BY HostsAreKeys DEF Hosts
<1>2. Shorter(a, b) = Width
  BY <1>1 DEF Shorter
<1>3. /\ m \in 0 .. Width
      /\ \A i \in 1 .. m : a[i] = b[i]
      /\ m < Width => a[m + 1] # b[m + 1]
  BY <1>1, <1>2, SharedProperties
<1> HIDE DEF m
<1>4. m = Width => a = b
  BY <1>3 DEF Hosts
<1>5. m < Width => m + 1 \in 1 .. Width /\ a # b
  BY <1>3
<1>6. Below(a, b) <=> m < Width /\ a[m + 1] < b[m + 1]
  <2>1. Below(a, b) <=> a # b /\ a[m + 1] < b[m + 1]
    BY DEF Below, BitAt, m
  <2> QED
    BY <1>3, <1>4, <1>5, <2>1
<1>7. ASSUME Below(a, b)
      PROVE  PartAt(a, b, m + 1)
  <2>1. m + 1 \in 1 .. Width /\ a[m + 1] < b[m + 1]
    BY <1>5, <1>6, <1>7
  <2>2. a[m + 1] = 0 /\ b[m + 1] = 1
    BY <1>1, <2>1 DEF Bits
  <2>3. \A i \in 1 .. (m + 1) - 1 : a[i] = b[i]
    BY <1>3
  <2> QED
    BY <2>1, <2>2, <2>3 DEF PartAt
<1>8. ASSUME NEW n, PartAt(a, b, n)
      PROVE  Below(a, b)
  <2>1. n \in 1 .. Width /\ a[n] = 0 /\ b[n] = 1 /\ \A i \in 1 .. n - 1 : a[i] = b[i]
    BY <1>8 DEF PartAt
  <2>2. ~(n <= m)
    BY <1>3, <2>1
  <2>3. ~(m + 1 < n)
    <3> SUFFICES ASSUME m + 1 < n
                 PROVE  FALSE
      OBVIOUS
    <3>1. m + 1 \in 1 .. n - 1 /\ m < Width
      BY <1>3, <2>1
    <3> QED
      BY <1>3, <2>1, <3>1
  <2>4. n = m + 1 /\ m < Width
    BY <1>3, <2>1, <2>2, <2>3
  <2> QED
    BY <1>6, <2>1, <2>4
<1> QED
  BY <1>7, <1>8

\* The comparison of addresses is a strict order, and leaves no two of them
\* uncompared.
LEMMA BelowOrders ==
  ASSUME Width \in Nat, NEW a \in Hosts, NEW b \in Hosts, NEW c \in Hosts
  PROVE  /\ ~Below(a, a)
         /\ Below(a, b) /\ Below(b, c) => Below(a, c)
         /\ a = b \/ Below(a, b) \/ Below(b, a)
<1>1. ~Below(a, a)
  BY DEF Below
<1>2. ASSUME Below(a, b), Below(b, c)
      PROVE  Below(a, c)
  <2>1. PICK n : PartAt(a, b, n)
    BY <1>2, BelowIs
  <2>2. PICK m : PartAt(b, c, m)
    BY <1>2, BelowIs
  <2>3. /\ n \in 1 .. Width /\ a[n] = 0 /\ b[n] = 1
        /\ \A i \in 1 .. n - 1 : a[i] = b[i]
        /\ m \in 1 .. Width /\ b[m] = 0 /\ c[m] = 1
        /\ \A i \in 1 .. m - 1 : b[i] = c[i]
    BY <2>1, <2>2 DEF PartAt
  <2>4. n # m
    BY <2>3
  <2>5. CASE n < m
    <3>1. n \in 1 .. m - 1 /\ \A i \in 1 .. n - 1 : i \in 1 .. m - 1
      BY <2>3, <2>5
    <3>2. PartAt(a, c, n)
      BY <2>3, <3>1 DEF PartAt
    <3> QED
      BY <3>2, BelowIs
  <2>6. CASE m < n
    <3>1. m \in 1 .. n - 1 /\ \A i \in 1 .. m - 1 : i \in 1 .. n - 1
      BY <2>3, <2>6
    <3>2. PartAt(a, c, m)
      BY <2>3, <3>1 DEF PartAt
    <3> QED
      BY <3>2, BelowIs
  <2> QED
    BY <2>3, <2>4, <2>5, <2>6
<1>3. a = b \/ Below(a, b) \/ Below(b, a)
  <2> DEFINE D == {i \in 1 .. Width : a[i] # b[i]}
  <2>1. CASE D = {}
    BY <2>1 DEF Hosts
  <2>2. CASE D # {}
    <3>1. D \in SUBSET Nat
      OBVIOUS
    <3>2. PICK i \in D : \A j \in D : i <= j
      <4> HIDE DEF D
      <4> QED
        BY <2>2, <3>1, LeastNumber
    <3>3. \A j \in 1 .. i - 1 : a[j] = b[j]
      BY <3>2
    <3>4. a[i] \in Bits /\ b[i] \in Bits /\ a[i] # b[i] /\ i \in 1 .. Width
      BY <3>2 DEF Hosts
    <3>5. PartAt(a, b, i) \/ PartAt(b, a, i)
      BY <3>3, <3>4 DEF PartAt, Bits
    <3> QED
      BY <3>5, BelowIs
  <2> QED
    BY <2>1, <2>2
<1> QED
  BY <1>1, <1>2, <1>3

\* The first address of a prefix tells, with its length, what prefix it is.
LEMMA FirstHosts ==
  ASSUME Width \in Nat, NEW p \in Keys, NEW q \in Keys
  PROVE  /\ FirstHost(p) \in Hosts
         /\ Matches(p, FirstHost(p))
         /\ FirstHost(p) = FirstHost(q) /\ Len(p) = Len(q) => p = q
<1>1. /\ p \in Seq(Bits) /\ q \in Seq(Bits) /\ Len(p) \in 0 .. Width /\ Len(q) \in 0 .. Width
      /\ \A i \in 1 .. Len(p) : p[i] \in Bits
  BY KeyTypes
<1>2. \A i \in 1 .. Width : (IF i <= Len(p) THEN p[i] ELSE 0) \in Bits
  BY <1>1 DEF Bits
<1>3. FirstHost(p) \in Hosts
  BY <1>2 DEF FirstHost, Hosts
<1>4. Len(FirstHost(p)) = Width
  BY <1>3, HostsAreKeys
<1>5. \A i \in 1 .. Len(p) : FirstHost(p)[i] = p[i]
  BY <1>1 DEF FirstHost
<1>6. \A i \in 1 .. Len(q) : FirstHost(q)[i] = q[i]
  BY <1>1 DEF FirstHost
<1>7. Matches(p, FirstHost(p))
  BY <1>1, <1>4, <1>5 DEF Matches
<1>8. FirstHost(p) = FirstHost(q) /\ Len(p) = Len(q) => p = q
  <2> SUFFICES ASSUME FirstHost(p) = FirstHost(q), Len(p) = Len(q)
               PROVE  p = q
    OBVIOUS
  <2>1. \A i \in 1 .. Len(p) : p[i] = q[i]
    BY <1>5, <1>6
  <2> QED
    BY <1>1, <2>1, SeqEqual
<1> QED
  BY <1>3, <1>7, <1>8

\* The order of prefixes is strict, and leaves no two of them uncompared.
LEMMA BeforeOrders ==
  ASSUME Width \in Nat, NEW p \in Keys, NEW q \in Keys, NEW r \in Keys
  PROVE  /\ ~Before(p, p)
         /\ Before(p, q) /\ Before(q, r) => Before(p, r)
         /\ p = q \/ Before(p, q) \/ Before(q, p)
<1>1. /\ FirstHost(p) \in Hosts /\ FirstHost(q) \in Hosts /\ FirstHost(r) \in Hosts
      /\ FirstHost(p) = FirstHost(q) /\ Len(p) = Len(q) => p = q
      /\ Len(p) \in Nat /\ Len(q) \in Nat /\ Len(r) \in Nat
  BY FirstHosts, KeyTypes
<1>2. ~Before(p, p)
  BY <1>1, BelowOrders DEF Before
<1>3. Before(p, q) /\ Before(q, r) => Before(p, r)
  <2> SUFFICES ASSUME Before(p, q), Before(q, r)
               PROVE  Before(p, r)
    OBVIOUS
  <2>1. CASE FirstHost(p) = FirstHost(q) /\ FirstHost(q) = FirstHost(r)
    BY <1>1, <2>1, BelowOrders DEF Before
  <2>2. CASE ~(FirstHost(p) = FirstHost(q) /\ FirstHost(q) = FirstHost(r))
    <3>1. Below(FirstHost(p), FirstHost(r))
      BY <1>1, <2>2, BelowOrders DEF Before
    <3> QED
      BY <3>1 DEF Before
  <2> QED
    BY <2>1, <2>2
<1>4. p = q \/ Before(p, q) \/ Before(q, p)
  BY <1>1, BelowOrders DEF Before
<1> QED
  BY <1>2, <1>3, <1>4

-----------------------------------------------------------------------------
(* std::sort *)

\* Strictly increasing.
Rising(s) == \A i, j \in DOMAIN s : i < j => Before(s[i], s[j])

\* No member twice.
Distinct(s) == \A i, j \in DOMAIN s : s[i] = s[j] => i = j

\* std::sort takes every member to a place of its own, and a vector without
\* duplicates comes out strictly increasing.
LEMMA SortedProperties ==
  ASSUME Width \in Nat, NEW s \in Seq(Keys)
  PROVE  /\ Sorted(s) \in Seq(Keys) /\ Len(Sorted(s)) = Len(s)
         /\ Members(Sorted(s)) = Members(s)
         /\ Distinct(s) => Rising(Sorted(s))
<1> DEFINE D == DOMAIN s
           down == [i \in D |-> {j \in D : NotAfter(s, j, i)}]
           spot == [k \in D |-> CHOOSE i \in DOMAIN s :
                              Cardinality({j \in DOMAIN s : NotAfter(s, j, i)}) = k]
<1>1. Len(s) \in Nat /\ D = 1 .. Len(s) /\ D \subseteq Nat /\ \A i \in D : s[i] \in Keys
  OBVIOUS
<1> HIDE DEF D
<1>2. IsFiniteSet(D) /\ Cardinality(D) = Len(s)
  BY <1>1, FS_Interval
<1>3. /\ \A i \in D : NotAfter(s, i, i)
      /\ \A i, j \in D : NotAfter(s, i, j) \/ NotAfter(s, j, i)
      /\ \A i, j \in D : NotAfter(s, i, j) /\ NotAfter(s, j, i) => i = j
      /\ \A i, j, k \in D : NotAfter(s, i, j) /\ NotAfter(s, j, k) => NotAfter(s, i, k)
  <2>1. \A i \in D : NotAfter(s, i, i)
    BY <1>1 DEF NotAfter
  <2>2. \A i, j \in D : NotAfter(s, i, j) \/ NotAfter(s, j, i)
    BY <1>1, BeforeOrders DEF NotAfter
  <2>3. ASSUME NEW i \in D, NEW j \in D, NotAfter(s, i, j), NotAfter(s, j, i)
        PROVE  i = j
    <3>1. s[i] = s[j]
      BY <1>1, <2>3, BeforeOrders DEF NotAfter
    <3>2. ~Before(s[i], s[j]) /\ ~Before(s[j], s[i])
      BY <1>1, <3>1, BeforeOrders
    <3> QED
      BY <1>1, <2>3, <3>2 DEF NotAfter
  <2>4. ASSUME NEW i \in D, NEW j \in D, NEW k \in D, NotAfter(s, i, j), NotAfter(s, j, k)
        PROVE  NotAfter(s, i, k)
    <3>1. CASE s[i] = s[j] /\ s[j] = s[k]
      <4>1. ~Before(s[i], s[j]) /\ ~Before(s[j], s[k])
        BY <1>1, <3>1, BeforeOrders
      <4>2. i \in Nat /\ j \in Nat /\ k \in Nat /\ i <= j /\ j <= k
        BY <1>1, <2>4, <4>1 DEF NotAfter
      <4> QED
        BY <3>1, <4>2 DEF NotAfter
    <3>2. CASE ~(s[i] = s[j] /\ s[j] = s[k])
      <4>1. Before(s[i], s[k])
        BY <1>1, <2>4, <3>2, BeforeOrders DEF NotAfter
      <4> QED
        BY <4>1 DEF NotAfter
    <3> QED
      BY <3>1, <3>2
  <2> QED
    BY <2>1, <2>2, <2>3, <2>4
<1>4. down \in [D -> SUBSET D] /\ \A i \in D : i \in down[i]
  BY <1>3
<1>5. \A i, j \in D : i # j =>
         \/ down[i] \subseteq down[j] /\ j \notin down[i]
         \/ down[j] \subseteq down[i] /\ i \notin down[j]
  BY <1>3
<1> HIDE DEF down
<1>6. /\ \A k \in 1 .. Cardinality(D) : \E i \in D : Cardinality(down[i]) = k
      /\ \A i, j \in D : Cardinality(down[i]) = Cardinality(down[j]) => i = j
      /\ \A i \in D : Cardinality(down[i]) \in 1 .. Cardinality(D)
  BY <1>2, <1>4, <1>5, Ranks
<1>7. spot \in [D -> D] /\ \A k \in D : Cardinality(down[spot[k]]) = k
  <2> SUFFICES ASSUME NEW k \in D
               PROVE  spot[k] \in D /\ Cardinality(down[spot[k]]) = k
    OBVIOUS
  <2>1. PICK i \in D : Cardinality(down[i]) = k
    BY <1>1, <1>2, <1>6
  <2>2. Cardinality({j \in DOMAIN s : NotAfter(s, j, i)}) = k
    BY <2>1 DEF down, D
  <2>3. /\ spot[k] \in D
        /\ Cardinality({j \in DOMAIN s : NotAfter(s, j, spot[k])}) = k
    BY <2>2 DEF D
  <2> QED
    BY <2>3 DEF down, D
<1>8. Sorted(s) = [k \in D |-> s[spot[k]]]
  BY DEF Sorted, D
<1> HIDE DEF spot
<1>9. \A i \in D : \E k \in D : spot[k] = i
  <2> SUFFICES ASSUME NEW i \in D
               PROVE  \E k \in D : spot[k] = i
    OBVIOUS
  <2>1. Cardinality(down[i]) \in D
    BY <1>1, <1>2, <1>6
  <2> QED
    BY <1>6, <1>7, <2>1
<1>10. Sorted(s) \in Seq(Keys) /\ Len(Sorted(s)) = Len(s) /\ DOMAIN Sorted(s) = D
  <2>1. Sorted(s) \in [1 .. Len(s) -> Keys]
    BY <1>1, <1>7, <1>8
  <2>2. Sorted(s) \in Seq(Keys)
    BY <1>1, <2>1, SeqDef
  <2> QED
    BY <1>1, <2>1, <2>2, LenProperties
<1>11. Members(Sorted(s)) = Members(s)
  <2>1. \A k \in D : Sorted(s)[k] = s[spot[k]] /\ spot[k] \in D
    BY <1>7, <1>8
  <2>2. Members(Sorted(s)) = {Sorted(s)[k] : k \in D} /\ Members(s) = {s[i] : i \in D}
    BY <1>10 DEF Members, D
  <2> QED
    BY <1>9, <2>1, <2>2
<1>12. ASSUME Distinct(s)
       PROVE  Rising(Sorted(s))
  <2> SUFFICES ASSUME NEW k \in D, NEW l \in D, k < l
               PROVE  Before(s[spot[k]], s[spot[l]])
    BY <1>8, <1>10 DEF Rising
  <2>1. spot[k] \in D /\ spot[l] \in D /\ k \in Nat /\ l \in Nat
    BY <1>1, <1>7
  <2>2. spot[k] # spot[l]
    BY <1>7, <2>1
  <2>3. s[spot[k]] # s[spot[l]]
    BY <1>12, <2>1, <2>2 DEF Distinct, D
  <2>4. ~NotAfter(s, spot[l], spot[k])
    <3> SUFFICES ASSUME NotAfter(s, spot[l], spot[k])
                 PROVE  FALSE
      OBVIOUS
    <3>1. down[spot[l]] \subseteq down[spot[k]] /\ spot[k] \notin down[spot[l]]
      BY <1>3, <2>1, <2>2 DEF down
    <3>2. IsFiniteSet(down[spot[k]]) /\ IsFiniteSet(down[spot[l]])
      BY <1>2, <1>4, <2>1, FS_Subset
    <3>3. Cardinality(down[spot[l]]) <= Cardinality(down[spot[k]])
      BY <3>1, <3>2, FS_Subset
    <3> QED
      BY <1>7, <2>1, <3>3
  <2>5. NotAfter(s, spot[k], spot[l])
    BY <1>3, <2>1, <2>4
  <2> QED
    BY <2>3, <2>5 DEF NotAfter
<1> QED
  BY <1>10, <1>11, <1>12

\* A vector that is strictly increasing has no duplicates.
LEMMA RisingDistinct ==
  ASSUME NEW s \in Seq(Keys), Rising(s)
  PROVE  Distinct(s)
<1>1. Width \in Nat /\ DOMAIN s \subseteq Int /\ \A i \in DOMAIN s : s[i] \in Keys
  BY TrieAssumption
<1>2. ASSUME NEW i \in DOMAIN s, NEW j \in DOMAIN s, s[i] = s[j], i # j
      PROVE  FALSE
  <2>1. i < j \/ j < i
    BY <1>1, <1>2
  <2>2. Before(s[i], s[i])
    BY <1>2, <2>1 DEF Rising
  <2> QED
    BY <1>1, <2>2, BeforeOrders
<1> QED
  BY <1>2 DEF Distinct

-----------------------------------------------------------------------------
(* The loaders *)

\* What the bits say of a record that is taken: it holds the decoded prefix
\* and no other.  One that is skipped holds none.
LEMMA RecordHolds ==
  ASSUME NEW r \in FileRecords, NEW p \in Keys
  PROVE  /\ Decodable(r) => Decoded(r) \in Keys /\ (Holds(r, p) <=> p = Decoded(r))
         /\ ~Decodable(r) => ~Holds(r, p)
<1>1. /\ Width \in Nat /\ ByteBits \in 1 .. Width
      /\ r.rib \in BOOLEAN /\ r.bytes \in -1 .. Width /\ r.length \in 0 .. Width + 1
      /\ r.bits \in Hosts
  BY SourceAssumption, TrieAssumption DEF RecordType, NoHeader
<1>2. Len(p) \in 0 .. Width /\ p \in Seq(Bits)
  BY KeyTypes, <1>1
<1>3. r.bytes # -1 => (r.bytes >= PrefixBytes(r.length) <=> r.length <= r.bytes * ByteBits)
  <2> SUFFICES ASSUME NEW b \in Nat, NEW l \in Nat, NEW k \in Nat \ {0}
               PROVE  b >= (l + k - 1) \div k <=> l <= b * k
    BY <1>1 DEF PrefixBytes
  <2> DEFINE q == (l + k - 1) \div k
             m == (l + k - 1) % k
  <2>1. q \in Int /\ m \in 0 .. k - 1 /\ l + k - 1 = k * q + m
    OBVIOUS
  <2> HIDE DEF q, m
  <2>2. CASE b >= q
    <3>1. b * k >= q * k
      BY <2>1, <2>2
    <3> QED
      BY <2>1, <2>2, <3>1
  <2>3. CASE b < q
    <3>1. (b + 1) * k <= q * k
      BY <2>1, <2>3
    <3>2. b * k + k <= q * k
      BY <2>1, <3>1
    <3> QED
      BY <2>1, <2>3, <3>2
  <2> QED
    BY <2>1, <2>2, <2>3 DEF q
<1>4. Decodable(r) => r.rib /\ r.bytes # -1 /\ r.length \in 0 .. Width
                      /\ r.length <= r.bytes * ByteBits
  BY <1>1, <1>3 DEF Decodable, NoHeader
<1>5. r.rib /\ r.bytes # -1 /\ r.length <= Width /\ r.length <= r.bytes * ByteBits => Decodable(r)
  BY <1>1, <1>3 DEF Decodable, NoHeader
<1>6. ASSUME Holds(r, p)
      PROVE  Decodable(r)
  <2>1. r.rib /\ r.length = Len(p) /\ r.length <= r.bytes * ByteBits
    BY <1>6 DEF Holds
  <2>2. r.bytes # -1
    <3>1. (-1) * ByteBits < 0
      BY <1>1
    <3> QED
      BY <1>1, <2>1, <3>1
  <2> QED
    BY <1>2, <1>5, <2>1, <2>2
<1>7. ASSUME Decodable(r)
      PROVE  Decoded(r) \in Keys /\ (Holds(r, p) <=> p = Decoded(r))
  <2> DEFINE a == [i \in 1 .. Width |-> IF i <= r.bytes * ByteBits THEN r.bits[i] ELSE 0]
             d == Decoded(r)
  <2>1. r.rib /\ r.length \in 0 .. Width /\ r.length <= r.bytes * ByteBits
        /\ r.bytes * ByteBits \in Int
    BY <1>1, <1>4, <1>7
  <2>2. a \in Hosts
    <3>1. \A i \in 1 .. Width : r.bits[i] \in Bits /\ 0 \in Bits
      BY <1>1 DEF Hosts, Bits
    <3> QED
      BY <3>1 DEF Hosts
  <2>3. \A i \in 1 .. r.length : a[i] = r.bits[i]
    BY <1>1, <2>1
  <2>4. a \in Keys /\ Len(a) = Width
    BY <1>1, <2>2, HostsAreKeys
  <2>5. d = SubSeq(a, 1, r.length)
    BY DEF Decoded, PrefixOf
  <2> HIDE DEF a, d
  <2>6. d \in Keys /\ Len(d) = r.length /\ Matches(d, a)
    BY <1>1, <2>1, <2>4, <2>5, PrefixesAreKeys
  <2>7. \A i \in 1 .. r.length : d[i] = r.bits[i]
    BY <2>3, <2>6 DEF Matches
  <2>8. Holds(r, d)
    BY <2>1, <2>6, <2>7 DEF Holds
  <2>9. Holds(r, p) => p = d
    <3> SUFFICES ASSUME Holds(r, p)
                 PROVE  p = d
      OBVIOUS
    <3>1. Len(p) = Len(d) /\ \A i \in 1 .. Len(p) : p[i] = d[i]
      BY <2>6, <2>7 DEF Holds
    <3>2. d \in Seq(Bits)
      BY <1>1, <2>6, KeyTypes
    <3> QED
      BY <1>2, <3>1, <3>2, SeqEqual
  <2> QED
    BY <2>6, <2>8, <2>9 DEF d
<1> QED
  BY <1>6, <1>7

\* The prefixes that a dump holds, and its records that hold none.
Held(d) == {p \in Keys : \E i \in DOMAIN d : Holds(d[i], p)}
Idle(d) == {i \in DOMAIN d : \A p \in Keys : ~Holds(d[i], p)}

\* The prefixes are in the order in which the dump first mentions them.
InOrder(v, d) ==
    \A i, j \in DOMAIN v : i < j =>
        \E m \in DOMAIN d :
            /\ Holds(d[m], v[i])
            /\ \A l \in 1 .. m : ~Holds(d[l], v[j])

\* Where a table comes from a file, the loop has added up what it says, ...
FileOK ==
    source \in {"file", "read"} =>
        /\ Members(prefixes) = Held(dump)
        /\ InOrder(prefixes, dump)
        /\ skipped = Cardinality(Idle(dump))
        /\ source = "file" /\ wanted # 0 => Len(prefixes) < wanted
        /\ source = "read" /\ wanted # 0 => Len(prefixes) <= wanted
        /\ source = "read" /\ ~failed => prefixes # << >>

\* An address that no table should carry is not in a block.
Carried(p) == Len(p) >= OctetBits /\ SubSeq(p, 1, OctetBits) \notin Reserved

\* ... and where it is generated, each of its routes is in a block.
GeneratedOK ==
    /\ \A i \in DOMAIN blocks : Carried(blocks[i])
    /\ source = "blocks" => prefixes = << >>
    /\ source \in {"carve", "generated"} =>
        /\ Len(prefixes) <= (IF wanted = 0 THEN 1 ELSE wanted)
        /\ \A p \in Members(prefixes) \ {<< >>} :
            Carried(p) /\ \E b \in Members(blocks) : Matches(b, p)
    /\ source = "generated" =>
        /\ Rising(prefixes)
        /\ Len(prefixes) < wanted => attempts = AttemptLimit

\* What the loaders work with.
SourceTyped ==
    /\ source \in {"none", "file", "read", "blocks", "carve", "generated"}
    /\ wanted \in Nat
    /\ prefixes \in Seq(Keys) /\ Distinct(prefixes)
    /\ dump \in Seq(FileRecords)
    /\ skipped \in Nat
    /\ failed \in BOOLEAN
    /\ blocks \in Seq(Keys)
    /\ attempts \in 0 .. AttemptLimit
    /\ source = "none" => dump = << >> /\ blocks = << >> /\ skipped = 0 /\ attempts = 0

SourceOK == SourceTyped /\ FileOK /\ GeneratedOK

\* A vector and one more.
LEMMA OneMore ==
  ASSUME NEW S, NEW s \in Seq(S), NEW e \in S, NEW t, t = Append(s, e)
  PROVE  /\ t \in Seq(S) /\ t # << >> /\ Len(s) \in Nat /\ Len(t) = Len(s) + 1
         /\ DOMAIN s = 1 .. Len(s) /\ DOMAIN t = 1 .. Len(s) + 1
         /\ \A i \in 1 .. Len(s) : t[i] = s[i]
         /\ t[Len(s) + 1] = e
<1>1. /\ t \in Seq(S) /\ Len(s) \in Nat /\ Len(t) = Len(s) + 1
      /\ \A i \in 1 .. Len(s) : t[i] = s[i]
      /\ t[Len(s) + 1] = e
  BY AppendProperties
<1>2. DOMAIN s = 1 .. Len(s) /\ DOMAIN t = 1 .. Len(s) + 1
  BY <1>1, LenProperties
<1>3. t # << >>
  BY <1>1
<1> QED
  BY <1>1, <1>2, <1>3

\* Its members.
LEMMA MembersMore ==
  ASSUME NEW S, NEW s \in Seq(S), NEW e \in S
  PROVE  Members(Append(s, e)) = Members(s) \cup {e}
<1> DEFINE t == Append(s, e)
<1>1. /\ Len(s) \in Nat /\ DOMAIN s = 1 .. Len(s) /\ DOMAIN t = 1 .. Len(s) + 1
      /\ \A i \in 1 .. Len(s) : t[i] = s[i]
      /\ t[Len(s) + 1] = e
  BY OneMore
<1> HIDE DEF t
<1>2. \A i : i \in 1 .. Len(s) + 1 <=> i \in 1 .. Len(s) \/ i = Len(s) + 1
  BY <1>1
<1> QED
  BY <1>1, <1>2 DEF Members, t

\* A vector with a new member has no duplicates if it had none before.
LEMMA DistinctMore ==
  ASSUME NEW S, NEW s \in Seq(S), NEW e \in S, Distinct(s), e \notin Members(s)
  PROVE  Distinct(Append(s, e))
<1> DEFINE t == Append(s, e)
<1>1. /\ Len(s) \in Nat /\ DOMAIN s = 1 .. Len(s) /\ DOMAIN t = 1 .. Len(s) + 1
      /\ \A i \in 1 .. Len(s) : t[i] = s[i]
      /\ t[Len(s) + 1] = e
  BY OneMore
<1> HIDE DEF t
<1>2. \A i \in 1 .. Len(s) + 1 : i \in 1 .. Len(s) \/ i = Len(s) + 1
  BY <1>1
<1>3. \A i \in 1 .. Len(s) : t[i] # e
  BY <1>1 DEF Members
<1>4. \A i, j \in 1 .. Len(s) : t[i] = t[j] => i = j
  BY <1>1 DEF Distinct
<1> QED
  BY <1>1, <1>2, <1>3, <1>4 DEF Distinct, t

\* What the generator may try.
LEMMA LimitType ==
  ASSUME NEW n \in Nat
  PROVE  n * AttemptsEach + SpareAttempts \in Nat
<1>1. AttemptsEach \in Nat /\ SpareAttempts \in Nat
  BY SourceAssumption
<1>2. n * AttemptsEach \in Nat
  BY <1>1
<1> QED
  BY <1>1, <1>2

\* Opening the file, or failing to.
LEMMA OpenDumpOK ==
  ASSUME SourceOK, prefixes = << >>, NEW limit \in Nat, OpenDump(limit)
  PROVE  SourceOK'
<1>1. /\ wanted' \in Nat /\ wanted' = limit /\ prefixes' = << >> /\ dump' = << >>
      /\ skipped' = 0 /\ blocks' = << >> /\ attempts' = 0
      /\ source' = "file" \/ (source' = "read" /\ failed' = TRUE)
      /\ failed' \in BOOLEAN
  BY DEF OpenDump, SourceOK, SourceTyped
<1>2. AttemptLimit' \in Nat
  BY <1>1, LimitType DEF AttemptLimit
<1>3. << >> \in Seq(Keys) /\ << >> \in Seq(FileRecords) /\ Distinct(<< >>)
      /\ Members(<< >>) = {} /\ Len(<< >>) = 0 /\ DOMAIN << >> = {}
  BY DEF Distinct, Members
<1>4. SourceTyped'
  BY <1>1, <1>2, <1>3 DEF SourceTyped
<1>5. FileOK'
  <2>1. Idle(dump') = {}
    BY <1>1, <1>3 DEF Idle
  <2>2. Held(dump') = {}
    BY <1>1, <1>3 DEF Held
  <2>3. InOrder(prefixes', dump')
    BY <1>1, <1>3 DEF InOrder
  <2>4. skipped' = Cardinality(Idle(dump'))
    BY <1>1, <2>1, FS_EmptySet
  <2>5. Members(prefixes') = Held(dump')
    BY <1>1, <1>3, <2>2
  <2>6. /\ source' = "file" /\ wanted' # 0 => Len(prefixes') < wanted'
        /\ source' = "read" /\ wanted' # 0 => Len(prefixes') <= wanted'
    BY <1>1, <1>3
  <2>7. source' = "read" /\ ~failed' => prefixes' # << >>
    BY <1>1
  <2> QED
    BY ONLY <2>3, <2>4, <2>5, <2>6, <2>7 DEF FileOK
<1>6. GeneratedOK'
  BY <1>1, <1>3 DEF GeneratedOK
<1> QED
  BY <1>4, <1>5, <1>6 DEF SourceOK

\* The end of the loop.
LEMMA EndsOK ==
  ASSUME SourceOK, EndOfFile \/ ImplausibleLength
  PROVE  SourceOK'
<1>1. /\ source = "file" /\ source' = "read" /\ prefixes' = prefixes
      /\ UNCHANGED <<wanted, dump, skipped, blocks, attempts>>
      /\ failed' \in BOOLEAN /\ (prefixes' = << >> => failed')
  BY DEF EndOfFile, ImplausibleLength, Finish, SourceOK, SourceTyped
<1>2. SourceTyped'
  BY <1>1 DEF SourceOK, SourceTyped, AttemptLimit
<1>3. FileOK'
  <2>1. wanted # 0 => Len(prefixes) <= wanted
    <3>1. Len(prefixes) \in Nat /\ wanted \in Nat
      BY DEF SourceOK, SourceTyped
    <3>2. wanted # 0 => Len(prefixes) < wanted
      BY <1>1 DEF SourceOK, FileOK
    <3> QED
      BY <3>1, <3>2
  <2> QED
    BY <1>1, <2>1 DEF SourceOK, FileOK
<1>4. GeneratedOK'
  BY <1>1 DEF SourceOK, GeneratedOK
<1> QED
  BY <1>2, <1>3, <1>4 DEF SourceOK

\* One more record.
LEMMA MoreRecords ==
  ASSUME NEW d \in Seq(FileRecords), NEW r \in FileRecords, NEW t, t = Append(d, r)
  PROVE  /\ Held(t) = Held(d) \cup {p \in Keys : Holds(r, p)}
         /\ IsFiniteSet(Idle(d)) /\ Cardinality(Idle(d)) \in Nat
         /\ Cardinality(Idle(t)) = Cardinality(Idle(d)) +
               (IF \A p \in Keys : ~Holds(r, p) THEN 1 ELSE 0)
<1>1. /\ Len(d) \in Nat /\ DOMAIN d = 1 .. Len(d) /\ DOMAIN t = 1 .. Len(d) + 1
      /\ \A i \in 1 .. Len(d) : t[i] = d[i]
      /\ t[Len(d) + 1] = r
  BY OneMore
<1>2. \A i : i \in 1 .. Len(d) + 1 <=> i \in 1 .. Len(d) \/ i = Len(d) + 1
  BY <1>1
<1>3. Held(t) = Held(d) \cup {p \in Keys : Holds(r, p)}
  BY <1>1, <1>2 DEF Held
<1>4. IsFiniteSet(Idle(d)) /\ Cardinality(Idle(d)) \in Nat
  <2>1. IsFiniteSet(1 .. Len(d)) /\ Idle(d) \subseteq 1 .. Len(d)
    BY <1>1, FS_Interval DEF Idle
  <2> QED
    BY <2>1, FS_Subset, FS_CardinalityType
<1>5. CASE \A p \in Keys : ~Holds(r, p)
  <2>1. Idle(t) = Idle(d) \cup {Len(d) + 1}
    BY <1>1, <1>2, <1>5 DEF Idle
  <2>2. Len(d) + 1 \notin Idle(d)
    BY <1>1 DEF Idle
  <2> QED
    BY <1>3, <1>4, <1>5, <2>1, <2>2, FS_AddElement
<1>6. CASE ~ \A p \in Keys : ~Holds(r, p)
  <2>1. Idle(t) = Idle(d)
    BY <1>1, <1>2, <1>6 DEF Idle
  <2> QED
    BY <1>3, <1>4, <1>6, <2>1
<1> QED
  BY <1>5, <1>6

\* One more record does not change the order of what is there.
LEMMA OrderKept ==
  ASSUME NEW d \in Seq(FileRecords), NEW r \in FileRecords, NEW t, t = Append(d, r),
         NEW v, InOrder(v, d)
  PROVE  InOrder(v, t)
<1>1. /\ Len(d) \in Nat /\ DOMAIN d = 1 .. Len(d) /\ DOMAIN t = 1 .. Len(d) + 1
      /\ \A i \in 1 .. Len(d) : t[i] = d[i]
  BY OneMore
<1>2. SUFFICES ASSUME NEW i \in DOMAIN v, NEW j \in DOMAIN v, i < j
               PROVE  \E m \in DOMAIN t :
                         /\ Holds(t[m], v[i])
                         /\ \A l \in 1 .. m : ~Holds(t[l], v[j])
  BY DEF InOrder
<1>3. PICK m \in DOMAIN d :
                /\ Holds(d[m], v[i])
                /\ \A l \in 1 .. m : ~Holds(d[l], v[j])
  BY <1>2 DEF InOrder
<1>4. m \in 1 .. Len(d) + 1 /\ \A l \in 1 .. m : l \in 1 .. Len(d)
  BY <1>1
<1> QED
  BY <1>1, <1>3, <1>4

\* A record that is passed over.
LEMMA SkipOK ==
  ASSUME SourceOK, NEW r \in FileRecords, SkipRecord(r)
  PROVE  SourceOK'
<1>1. /\ source = "file" /\ ~Decodable(r) /\ dump' = Append(dump, r)
      /\ skipped' = skipped + 1
      /\ UNCHANGED <<source, wanted, prefixes, failed, blocks, attempts>>
      /\ dump \in Seq(FileRecords)
  BY DEF SkipRecord, SourceOK, SourceTyped
<1>2. \A p \in Keys : ~Holds(r, p)
  BY <1>1, RecordHolds
<1>3. /\ Held(dump') = Held(dump) /\ Cardinality(Idle(dump')) = Cardinality(Idle(dump)) + 1
  BY <1>1, <1>2, MoreRecords
<1>4. /\ Len(dump) \in Nat /\ DOMAIN dump = 1 .. Len(dump)
      /\ DOMAIN dump' = 1 .. Len(dump) + 1 /\ dump' \in Seq(FileRecords)
      /\ \A i \in 1 .. Len(dump) : dump'[i] = dump[i]
  BY <1>1, OneMore
<1>5. SourceTyped'
  BY <1>1, <1>4 DEF SourceOK, SourceTyped, AttemptLimit
<1>6. FileOK'
  <2>1. /\ Members(prefixes) = Held(dump) /\ skipped = Cardinality(Idle(dump))
        /\ InOrder(prefixes, dump)
        /\ wanted # 0 => Len(prefixes) < wanted
    BY <1>1 DEF SourceOK, FileOK
  <2>2. InOrder(prefixes, dump')
    BY <1>1, <2>1, OrderKept
  <2> QED
    BY <1>1, <1>3, <2>1, <2>2 DEF FileOK
<1>7. GeneratedOK'
  BY <1>1 DEF SourceOK, GeneratedOK
<1> QED
  BY <1>5, <1>6, <1>7 DEF SourceOK

\* The default route.
LEMMA NoBits ==
  ASSUME Width \in Nat
  PROVE  << >> \in Keys /\ Len(<< >>) = 0
<1>1. << >> \in [1 .. 0 -> Bits]
  OBVIOUS
<1> QED
  BY <1>1 DEF Keys

\* A record that is taken.
LEMMA TakeOK ==
  ASSUME SourceOK, NEW r \in FileRecords, TakeRecord(r)
  PROVE  SourceOK'
<1> DEFINE p == Decoded(r)
<1>1. /\ source = "file" /\ Decodable(r) /\ dump' = Append(dump, r)
      /\ UNCHANGED <<wanted, skipped, blocks, attempts>>
      /\ dump \in Seq(FileRecords) /\ prefixes \in Seq(Keys) /\ Distinct(prefixes)
      /\ wanted \in Nat /\ Len(prefixes) \in Nat
  BY DEF TakeRecord, SourceOK, SourceTyped
<1>2. p \in Keys /\ \A q \in Keys : Holds(r, q) <=> q = p
  <2>1. << >> \in Keys
    BY NoBits, TrieAssumption
  <2> QED
    BY <1>1, <2>1, RecordHolds
<1>3. \/ /\ p \in Members(prefixes)
         /\ UNCHANGED <<source, prefixes, failed>>
      \/ /\ p \notin Members(prefixes)
         /\ prefixes' = Append(prefixes, p)
         /\ IF Enough(Len(prefixes) + 1) THEN Finish(FALSE)
                                         ELSE UNCHANGED <<source, failed>>
  BY DEF TakeRecord
<1> HIDE DEF p
<1>4. /\ Held(dump') = Held(dump) \cup {p} /\ Cardinality(Idle(dump)) \in Nat
      /\ Cardinality(Idle(dump')) = Cardinality(Idle(dump))
  <2>1. {q \in Keys : Holds(r, q)} = {p} /\ ~ \A q \in Keys : ~Holds(r, q)
    BY <1>2
  <2>2. /\ Held(dump') = Held(dump) \cup {q \in Keys : Holds(r, q)}
        /\ Cardinality(Idle(dump)) \in Nat
        /\ Cardinality(Idle(dump')) = Cardinality(Idle(dump)) +
               (IF \A q \in Keys : ~Holds(r, q) THEN 1 ELSE 0)
    BY <1>1, MoreRecords
  <2> QED
    BY <2>1, <2>2
<1>5. /\ Len(dump) \in Nat /\ DOMAIN dump = 1 .. Len(dump)
      /\ DOMAIN dump' = 1 .. Len(dump) + 1 /\ dump' \in Seq(FileRecords)
      /\ \A i \in 1 .. Len(dump) : dump'[i] = dump[i]
  BY <1>1, OneMore
<1>6. /\ Members(prefixes) = Held(dump) /\ skipped = Cardinality(Idle(dump))
      /\ InOrder(prefixes, dump)
      /\ wanted # 0 => Len(prefixes) < wanted
  BY <1>1 DEF SourceOK, FileOK
<1>7. InOrder(prefixes, dump')
  BY <1>1, <1>6, OrderKept
<1>8. DOMAIN prefixes = 1 .. Len(prefixes) /\ \A i \in DOMAIN prefixes : prefixes[i] \in Keys
  BY <1>1
<1>9. CASE p \in Members(prefixes) /\ UNCHANGED <<source, prefixes, failed>>
  <2>1. SourceTyped'
    BY <1>1, <1>5, <1>9 DEF SourceOK, SourceTyped, AttemptLimit
  <2>2. FileOK'
    <3>1. Held(dump') = Held(dump)
      BY <1>4, <1>6, <1>9
    <3> QED
      BY <1>1, <1>4, <1>6, <1>7, <1>9, <3>1 DEF FileOK
  <2>3. GeneratedOK'
    BY <1>1, <1>9 DEF SourceOK, GeneratedOK
  <2> QED
    BY <2>1, <2>2, <2>3 DEF SourceOK
<1>10. CASE /\ p \notin Members(prefixes)
            /\ prefixes' = Append(prefixes, p)
            /\ IF Enough(Len(prefixes) + 1) THEN Finish(FALSE)
                                            ELSE UNCHANGED <<source, failed>>
  <2> DEFINE n == Len(prefixes)
  <2>1. /\ prefixes' \in Seq(Keys) /\ prefixes' # << >> /\ Len(prefixes') = n + 1
        /\ DOMAIN prefixes' = 1 .. n + 1
        /\ \A i \in 1 .. n : prefixes'[i] = prefixes[i]
        /\ prefixes'[n + 1] = p
        /\ Members(prefixes') = Members(prefixes) \cup {p}
    <3>1. prefixes' = Append(prefixes, p)
      BY <1>10
    <3>2. prefixes \in Seq(Keys) /\ p \in Keys
      BY <1>1, <1>2
    <3>3. Members(prefixes') = Members(prefixes) \cup {p}
      BY <3>1, <3>2, MembersMore
    <3> QED
      BY <3>1, <3>2, <3>3, OneMore
  <2>2. Distinct(prefixes')
    BY <1>1, <1>2, <1>10, DistinctMore
  <2>3. \/ source' = "read" /\ failed' = FALSE /\ Enough(n + 1)
        \/ source' = "file" /\ failed' = failed /\ ~Enough(n + 1)
    BY <1>1, <1>10, <2>1 DEF Finish
  <2>4. SourceTyped'
    BY <1>1, <1>5, <2>1, <2>2, <2>3 DEF SourceOK, SourceTyped, AttemptLimit
  <2>5. InOrder(prefixes', dump')
    <3> SUFFICES ASSUME NEW i \in 1 .. n + 1, NEW j \in 1 .. n + 1, i < j
                 PROVE  \E m \in DOMAIN dump' :
                           /\ Holds(dump'[m], prefixes'[i])
                           /\ \A l \in 1 .. m : ~Holds(dump'[l], prefixes'[j])
      BY <2>1 DEF InOrder
    <3>1. i \in 1 .. n /\ prefixes'[i] = prefixes[i] /\ prefixes[i] \in Keys
      BY <1>1, <1>8, <2>1
    <3>2. CASE j \in 1 .. n
      <4>1. prefixes'[j] = prefixes[j]
        BY <2>1, <3>2
      <4> QED
        BY <1>7, <1>8, <3>1, <3>2, <4>1 DEF InOrder
    <3>3. CASE j = n + 1
      <4>1. PICK m \in DOMAIN dump : Holds(dump[m], prefixes[i])
        BY <1>6, <1>8, <3>1 DEF Members, Held
      <4>2. \A l \in DOMAIN dump : ~Holds(dump[l], p)
        BY <1>2, <1>6, <1>10 DEF Held
      <4>3. m \in DOMAIN dump' /\ \A l \in 1 .. m : l \in DOMAIN dump
        BY <1>5
      <4>4. \A l \in DOMAIN dump : dump'[l] = dump[l]
        BY <1>5
      <4>5. Holds(dump'[m], prefixes'[i])
        BY <3>1, <4>1, <4>4
      <4>6. prefixes'[j] = p
        BY <2>1, <3>3
      <4>7. \A l \in 1 .. m : ~Holds(dump'[l], prefixes'[j])
        BY <4>2, <4>3, <4>4, <4>6
      <4> QED
        BY <4>3, <4>5, <4>7
    <3>4. j \in 1 .. n \/ j = n + 1
      BY <1>1
    <3> QED
      BY ONLY <3>2, <3>3, <3>4
  <2>6. FileOK'
    <3>1. Members(prefixes') = Held(dump') /\ skipped' = Cardinality(Idle(dump'))
      BY <1>1, <1>4, <1>6, <2>1
    <3>2. source' = "file" /\ wanted # 0 => n + 1 < wanted
      BY <1>1, <2>3 DEF Enough
    <3>3. wanted # 0 => n + 1 <= wanted
      BY <1>1, <1>6
    <3> QED
      BY <1>1, <2>1, <2>5, <3>1, <3>2, <3>3 DEF FileOK
  <2>7. GeneratedOK'
    BY <1>1, <2>3 DEF SourceOK, GeneratedOK
  <2> QED
    BY <2>4, <2>6, <2>7 DEF SourceOK
<1> QED
  BY <1>3, <1>9, <1>10

\* What generate_prefixes() starts with.
LEMMA GenerateOK ==
  ASSUME SourceOK, prefixes = << >>, NEW count \in Nat, Generate(count)
  PROVE  SourceOK'
<1>1. /\ source = "none" /\ source' = "blocks" /\ wanted' = count
      /\ UNCHANGED <<prefixes, dump, skipped, failed, blocks, attempts>>
      /\ prefixes \in Seq(Keys) /\ Distinct(prefixes) /\ attempts = 0
  BY DEF Generate, SourceOK, SourceTyped
<1>2. AttemptLimit' \in Nat
  BY <1>1, LimitType DEF AttemptLimit
<1>3. SourceTyped'
  BY <1>1, <1>2 DEF SourceOK, SourceTyped
<1>4. FileOK'
  BY <1>1 DEF FileOK
<1>5. GeneratedOK'
  BY <1>1 DEF SourceOK, GeneratedOK
<1> QED
  BY <1>3, <1>4, <1>5 DEF SourceOK

\* Keys of which one covers the other have the same first bits.
LEMMA SameStart ==
  ASSUME Width \in Nat, NEW p \in Keys, NEW q \in Keys, Matches(p, q), NEW n \in 0 .. Len(p)
  PROVE  SubSeq(p, 1, n) = SubSeq(q, 1, n)
<1>1. /\ Len(p) \in Nat /\ Len(q) \in Nat /\ Len(p) <= Len(q) /\ n \in Nat
      /\ p \in Seq(Bits) /\ q \in Seq(Bits)
      /\ \A i \in 1 .. Len(p) : p[i] = q[i]
  BY KeyTypes DEF Matches
<1> DEFINE s == SubSeq(p, 1, n)
           t == SubSeq(q, 1, n)
<1>2. s \in Seq(Bits) /\ Len(s) = n /\ \A i \in 1 .. n : s[i] = p[i]
  BY <1>1, SubSeqProperties
<1>3. t \in Seq(Bits) /\ Len(t) = n /\ \A i \in 1 .. n : t[i] = q[i]
  BY <1>1, SubSeqProperties
<1> HIDE DEF s, t
<1>4. \A i \in 1 .. n : i \in 1 .. Len(p)
  BY <1>1
<1>5. \A i \in 1 .. Len(s) : s[i] = t[i]
  BY <1>1, <1>2, <1>3, <1>4
<1>6. s = t
  BY <1>2, <1>3, <1>5, SeqEqual
<1> QED
  BY <1>6 DEF s, t

\* An allocation.
LEMMA DrawOK ==
  ASSUME SourceOK, NEW raw \in Hosts, NEW length \in BlockLengths, DrawBlock(raw, length)
  PROVE  SourceOK'
<1> DEFINE b == PrefixOf(raw, length)
<1>1. /\ source = "blocks" /\ ~IsReserved(SubSeq(raw, 1, OctetBits))
      /\ blocks' = Append(blocks, b)
      /\ UNCHANGED <<source, wanted, prefixes, dump, skipped, failed, attempts>>
      /\ blocks \in Seq(Keys)
  BY DEF DrawBlock, SourceOK, SourceTyped
<1>2. /\ Width \in Nat /\ OctetBits \in 1 .. Width /\ length \in OctetBits .. Width
      /\ raw \in Keys /\ Len(raw) = Width
  BY SourceAssumption, TrieAssumption, HostsAreKeys
<1>3. b \in Keys /\ Len(b) = length /\ Matches(b, raw)
  BY <1>2, PrefixesAreKeys DEF PrefixOf
<1> HIDE DEF b
<1>4. Carried(b)
  <2>1. OctetBits \in 0 .. Len(b) /\ Len(b) >= OctetBits
    BY <1>2, <1>3
  <2>2. SubSeq(b, 1, OctetBits) = SubSeq(raw, 1, OctetBits)
    BY <1>2, <1>3, <2>1, SameStart
  <2> QED
    BY <1>1, <2>1, <2>2 DEF Carried, IsReserved
<1>5. /\ Len(blocks) \in Nat /\ DOMAIN blocks = 1 .. Len(blocks)
      /\ DOMAIN blocks' = 1 .. Len(blocks) + 1 /\ blocks' \in Seq(Keys)
      /\ \A i \in 1 .. Len(blocks) : blocks'[i] = blocks[i]
      /\ blocks'[Len(blocks) + 1] = b
  BY <1>1, <1>3, OneMore
<1>6. SourceTyped'
  BY <1>1, <1>5 DEF SourceOK, SourceTyped, AttemptLimit
<1>7. FileOK'
  BY <1>1 DEF FileOK
<1>8. GeneratedOK'
  <2>1. \A i \in 1 .. Len(blocks) : Carried(blocks[i])
    BY <1>5 DEF SourceOK, GeneratedOK
  <2>2. \A i \in 1 .. Len(blocks) + 1 : i \in 1 .. Len(blocks) \/ i = Len(blocks) + 1
    BY <1>5
  <2>3. \A i \in DOMAIN blocks' : Carried(blocks'[i])
    BY <1>4, <1>5, <2>1, <2>2
  <2> QED
    BY <1>1, <2>3 DEF SourceOK, GeneratedOK
<1> QED
  BY <1>6, <1>7, <1>8 DEF SourceOK

\* The allocations are there.
LEMMA DrawnOK ==
  ASSUME SourceOK, BlocksDrawn
  PROVE  SourceOK'
<1>1. /\ source = "blocks" /\ source' = "carve"
      /\ prefixes' = << << >> >> \/ prefixes' = << >>
      /\ UNCHANGED <<wanted, dump, skipped, failed, blocks, attempts>>
      /\ wanted \in Nat
  BY DEF BlocksDrawn, SourceOK, SourceTyped
<1>2. << >> \in Keys
  BY NoBits, TrieAssumption
<1>3. /\ prefixes' \in Seq(Keys) /\ Len(prefixes') \in {0, 1}
      /\ DOMAIN prefixes' = 1 .. Len(prefixes')
      /\ \A i \in DOMAIN prefixes' : i = 1 /\ prefixes'[i] = << >>
  <2>1. CASE prefixes' = << << >> >>
    BY <1>2, <2>1
  <2>2. CASE prefixes' = << >>
    BY <2>2
  <2> QED
    BY <1>1, <2>1, <2>2
<1>4. Members(prefixes') \subseteq {<< >>} /\ Distinct(prefixes')
  BY <1>3 DEF Members, Distinct
<1>5. SourceTyped'
  BY <1>1, <1>3, <1>4 DEF SourceOK, SourceTyped, AttemptLimit
<1>6. FileOK'
  BY <1>1 DEF FileOK
<1>7. GeneratedOK'
  BY <1>1, <1>3, <1>4 DEF SourceOK, GeneratedOK
<1> QED
  BY <1>5, <1>6, <1>7 DEF SourceOK

\* One more attempt.
LEMMA CarveOK ==
  ASSUME SourceOK, NEW block \in Members(blocks), NEW raw \in Hosts,
         NEW length \in MaskLengths, Carve(block, raw, length)
  PROVE  SourceOK'
<1> DEFINE a == [i \in 1 .. Width |-> IF i <= Len(block) THEN block[i] ELSE raw[i]]
           c == PrefixOf(a, length)
<1>1. /\ source = "carve" /\ Len(prefixes) < wanted /\ attempts < AttemptLimit
      /\ attempts' = attempts + 1
      /\ UNCHANGED <<source, wanted, dump, skipped, failed, blocks>>
      /\ prefixes \in Seq(Keys) /\ Distinct(prefixes) /\ Len(prefixes) \in Nat
      /\ wanted \in Nat /\ attempts \in 0 .. AttemptLimit /\ blocks \in Seq(Keys)
  BY DEF Carve, Carving, SourceOK, SourceTyped
<1>2. prefixes' = IF length >= Len(block) /\ c \notin Members(prefixes)
                  THEN Append(prefixes, c) ELSE prefixes
  BY DEF Carve, IsNew
<1>3. block \in Keys /\ Carried(block)
  BY <1>1 DEF Members, SourceOK, GeneratedOK
<1>4. /\ Width \in Nat /\ OctetBits \in 1 .. Width /\ length \in 1 .. Width
      /\ Len(block) \in 0 .. Width /\ block \in Seq(Bits)
  BY <1>3, SourceAssumption, TrieAssumption, KeyTypes
<1>5. a \in Hosts /\ \A i \in 1 .. Len(block) : a[i] = block[i]
  <2>1. \A i \in 1 .. Width : raw[i] \in Bits
    BY DEF Hosts
  <2>2. \A i \in 1 .. Len(block) : block[i] \in Bits /\ i \in 1 .. Width
    BY <1>4
  <2>3. \A i \in 1 .. Width : (IF i <= Len(block) THEN block[i] ELSE raw[i]) \in Bits
    BY <1>4, <2>1, <2>2
  <2>4. a \in Hosts
    BY <2>3 DEF Hosts
  <2>5. \A i \in 1 .. Len(block) : a[i] = block[i]
    BY <1>4, <2>2
  <2> QED
    BY <2>4, <2>5
<1> HIDE DEF a
<1>6. a \in Keys /\ Len(a) = Width
  BY <1>4, <1>5, HostsAreKeys
<1>7. c \in Keys /\ Len(c) = length /\ Matches(c, a)
  BY <1>4, <1>6, PrefixesAreKeys DEF PrefixOf
<1> HIDE DEF c
<1>8. ASSUME length >= Len(block)
      PROVE  Matches(block, c) /\ Carried(c)
  <2>1. Matches(block, a)
    BY <1>4, <1>5, <1>6 DEF Matches
  <2>2. Matches(block, c)
    BY <1>3, <1>4, <1>6, <1>7, <1>8, <2>1, MatchOrder
  <2>3. OctetBits \in 0 .. Len(block) /\ Len(c) >= OctetBits
    BY <1>3, <1>4, <1>7, <1>8 DEF Carried
  <2>4. SubSeq(block, 1, OctetBits) = SubSeq(c, 1, OctetBits)
    BY <1>3, <1>4, <1>7, <2>2, <2>3, SameStart
  <2> QED
    BY <1>3, <2>2, <2>3, <2>4 DEF Carried
<1>9. attempts' \in 0 .. AttemptLimit'
  <2>1. AttemptLimit \in Nat /\ AttemptLimit' = AttemptLimit
    BY <1>1, LimitType DEF AttemptLimit
  <2> QED
    BY <1>1, <2>1
<1>10. FileOK'
  BY <1>1 DEF FileOK
<1>11. CASE prefixes' = prefixes
  <2>1. SourceTyped'
    BY <1>1, <1>9, <1>11 DEF SourceOK, SourceTyped
  <2>2. GeneratedOK'
    BY <1>1, <1>11 DEF SourceOK, GeneratedOK
  <2> QED
    BY <1>10, <2>1, <2>2 DEF SourceOK
<1>12. CASE /\ prefixes' = Append(prefixes, c)
            /\ length >= Len(block) /\ c \notin Members(prefixes)
  <2>1. /\ prefixes' \in Seq(Keys) /\ Len(prefixes') = Len(prefixes) + 1
        /\ Members(prefixes') = Members(prefixes) \cup {c}
        /\ Distinct(prefixes')
    BY <1>1, <1>7, <1>12, OneMore, MembersMore, DistinctMore
  <2>2. SourceTyped'
    BY <1>1, <1>9, <2>1 DEF SourceOK, SourceTyped
  <2>3. \A p \in Members(prefixes') \ {<< >>} :
          Carried(p) /\ \E b \in Members(blocks) : Matches(b, p)
    BY <1>1, <1>8, <1>12, <2>1 DEF SourceOK, GeneratedOK
  <2>4. Len(prefixes') <= (IF wanted = 0 THEN 1 ELSE wanted)
    BY <1>1, <2>1
  <2>5. GeneratedOK'
    BY <1>1, <2>3, <2>4 DEF SourceOK, GeneratedOK
  <2> QED
    BY <1>10, <2>2, <2>5 DEF SourceOK
<1> QED
  BY <1>2, <1>11, <1>12

\* std::sort, at the end.
LEMMA CarvedOK ==
  ASSUME SourceOK, CarveDone
  PROVE  SourceOK'
<1>1. /\ source = "carve" /\ source' = "generated" /\ prefixes' = Sorted(prefixes)
      /\ UNCHANGED <<wanted, dump, skipped, failed, blocks, attempts>>
      /\ prefixes \in Seq(Keys) /\ Distinct(prefixes) /\ Len(prefixes) \in Nat
      /\ wanted \in Nat /\ attempts \in 0 .. AttemptLimit
      /\ ~Carving
  BY DEF CarveDone, SourceOK, SourceTyped
<1>2. /\ prefixes' \in Seq(Keys) /\ Len(prefixes') = Len(prefixes)
      /\ Members(prefixes') = Members(prefixes)
      /\ Rising(prefixes')
  BY <1>1, TrieAssumption, SortedProperties
<1>3. Distinct(prefixes')
  BY <1>2, RisingDistinct
<1>4. SourceTyped'
  BY <1>1, <1>2, <1>3 DEF SourceOK, SourceTyped, AttemptLimit
<1>5. FileOK'
  BY <1>1 DEF FileOK
<1>6. Len(prefixes') < wanted => attempts = AttemptLimit
  <2>1. AttemptLimit \in Nat
    BY <1>1, LimitType DEF AttemptLimit
  <2> QED
    BY <1>1, <1>2, <2>1 DEF Carving
<1>7. GeneratedOK'
  <2>1. AttemptLimit' = AttemptLimit
    BY <1>1 DEF AttemptLimit
  <2> QED
    BY <1>1, <1>2, <1>6, <2>1 DEF SourceOK, GeneratedOK
<1> QED
  BY <1>4, <1>5, <1>7 DEF SourceOK

-----------------------------------------------------------------------------
(* The trie of a command *)

\* No operation is in progress, nobody looks, and nothing waits for a grace
\* period.
Resting ==
    /\ wpc = "idle" /\ doomed = {}
    /\ place = [slot |-> RootSlot, above |-> RootSlot]
    /\ rpc = [r \in Readers |-> "idle"] /\ addr = [r \in Readers |-> << >>]
    /\ at = [r \in Readers |-> Null] /\ best = [r \in Readers |-> Null]
    /\ mayHold = [r \in Readers |-> {}] /\ stable = [r \in Readers |-> {}]
    /\ could = [r \in Readers |-> {}] /\ changes = [r \in Readers |-> 0]
    /\ \A o \in Allocations : life[o] # "retired"

\* The insertion of a new prefix is over with its store.
LEMMA InsertRests ==
  ASSUME TrieInv, Resting, NEW p \in Prefixes, table[p] = Null, Insert(p)
  PROVE  /\ Resting' /\ TrieInv' /\ deferred' = deferred
         /\ Routes(table') = Routes(table) \cup {p}
<1>1. /\ SafeInv /\ Typed /\ HeapOK /\ link \in Links /\ Ordered(link)
      /\ value \in [Nodes -> Values \cup {Null}]
      /\ life \in [Allocations -> {"free", "live", "retired"}]
  BY DEF TrieInv, SafeInv, Typed, HeapOK
<1>2. \A r \in Readers : ~Guarded(r)
  BY DEF Resting, Guarded
<1>3. TrieInv' /\ deferred' = deferred
  <2>1. Next
    BY DEF Next, InsertErase
  <2> QED
    BY <1>2, <2>1, TrieStep DEF Alone
<1>4. Routes(table') = Routes(table) \cup {p}
  <2>1. /\ table' = [table EXCEPT ![p] = NewValue(p)]
        /\ NewValue(p) # Null
        /\ table \in [Prefixes -> Values \cup {Null}]
    <3>1. NewValue(p) \in Values /\ table' = [table EXCEPT ![p] = NewValue(p)]
      BY <1>1, InsertTable
    <3> QED
      BY <1>1, <3>1, TableTyped, TrieAssumption
  <2> HIDE DEF table
  <2>2. \A q \in Prefixes : table'[q] = IF q = p THEN NewValue(p) ELSE table[q]
    BY <2>1
  <2> QED
    BY <2>1, <2>2 DEF Routes
<1>5. Watch /\ UNCHANGED reader
  BY DEF Insert, InsertLeaf, InsertSplit, InsertAbove, InsertExchange, Publish
<1>6. UNCHANGED writer
  <2>1. CASE InsertLeaf(p) \/ InsertSplit(p) \/ InsertAbove(p)
    BY <2>1 DEF InsertLeaf, InsertSplit, InsertAbove, Publish
  <2>2. CASE InsertExchange(p)
    <3>1. StopNode(p) # Null /\ KeyOf[StopNode(p)] = p
      BY <2>2 DEF InsertExchange
    <3>2. StopNode(p) \in Tree(link)
      BY <1>1, <3>1, StopLemma
    <3>3. table[p] = value[StopNode(p)]
      BY <1>1, <3>1, <3>2, TableLemma DEF table
    <3> QED
      BY <2>2, <3>3 DEF InsertExchange
  <2> QED
    BY <2>1, <2>2 DEF Insert
<1>7. \A o \in Allocations : life'[o] # "retired"
  <2>1. \A o \in Allocations : life[o] # "retired"
    BY DEF Resting
  <2>2. CASE InsertLeaf(p) \/ InsertSplit(p) \/ InsertAbove(p)
    <3>1. \E S : life' = [o \in Allocations |-> IF o \in S THEN "live" ELSE life[o]]
      BY <2>2 DEF InsertLeaf, InsertSplit, InsertAbove, Publish
    <3> QED
      BY <2>1, <3>1
  <2>3. CASE InsertExchange(p)
    BY <1>1, <2>1, <2>3 DEF InsertExchange
  <2> QED
    BY <2>2, <2>3 DEF Insert
<1>8. UNCHANGED history
  <2>1. /\ mayHold' = [r \in Readers |-> {}] /\ stable' = [r \in Readers |-> {}]
        /\ could' = [r \in Readers |-> {}]
        /\ changes' = [r \in Readers |-> changes[r]]
    BY <1>2, <1>5 DEF Watch
  <2> QED
    BY <2>1 DEF Resting, history
<1>9. Resting'
  BY <1>5, <1>6, <1>7, <1>8 DEF Resting, reader, writer, history
<1> QED
  BY <1>3, <1>4, <1>9

\* A heap in which nothing waits has all of its nodes and values in the tree,
\* and the destructor frees every one.
LEMMA DestroyFrees ==
  ASSUME TrieInv, Resting, Destroy
  PROVE  TrieInit'
<1>1. /\ SafeInv /\ Typed /\ HeapOK /\ FreeClean /\ ValuesOK /\ Owned
      /\ value \in [Nodes -> Values \cup {Null}]
      /\ life \in [Allocations -> {"free", "live", "retired"}]
      /\ Tree(link) \subseteq Nodes
  BY TreeLemma DEF TrieInv, SafeInv, Typed, HeapOK
<1>2. Null \notin Values /\ Nodes \cap Values = {} /\ Null \notin Nodes
  BY TrieAssumption
<1>3. doomed = {} /\ \A o \in Allocations : life[o] # "retired"
  BY DEF Resting
<1>4. ASSUME NEW n \in Nodes, life[n] # "free"
      PROVE  n \in Tree(link)
  <2>1. n \in Allocations /\ life[n] = "live"
    BY <1>1, <1>3, <1>4 DEF Allocations
  <2>2. \A m \in Nodes : value[m] # n
    BY <1>1, <1>2
  <2> QED
    BY <1>1, <1>3, <2>1, <2>2 DEF Owned
<1>5. ASSUME NEW o \in Allocations, life[o] # "free"
      PROVE  o \in WithValues(Tree(link))
  <2>1. life[o] = "live"
    BY <1>1, <1>3, <1>5
  <2>2. CASE o \in Tree(link)
    BY <2>2 DEF WithValues
  <2>3. CASE o \notin Tree(link)
    <3>1. PICK n \in Nodes : value[n] = o
      BY <1>1, <1>3, <2>1, <2>3 DEF Owned
    <3>2. o # Null
      BY <1>2 DEF Allocations
    <3>3. life[n] # "free"
      BY <1>1, <3>1, <3>2 DEF FreeClean
    <3>4. n \in Tree(link) \cap Nodes
      BY <1>4, <3>3
    <3> QED
      BY <3>1, <3>2, <3>4 DEF WithValues
  <2> QED
    BY <2>2, <2>3
<1>6. life' = [o \in Allocations |-> "free"]
  <2>1. life' = [o \in Allocations |->
                    IF o \in WithValues(Tree(link)) THEN "free" ELSE life[o]]
    BY DEF Destroy
  <2> QED
    BY <1>5, <2>1
<1> QED
  BY <1>6 DEF Destroy, Resting, TrieInit, writer, reader, history

\* Who has the tool to himself may also take it up with another Reclaimer.
LEMMA SameTrie ==
  ASSUME TrieInv, deferred' \in BOOLEAN,
         UNCHANGED <<memory, counters, life, writer, reader, history>>
  PROVE  TrieInv' /\ table' = table
<1>1. SafeInv /\ RoutesInv /\ BranchOK /\ CountOK /\ ChangesOK
  BY DEF TrieInv
<1>2. table' = table
  BY DEF table, memory
<1>3. SafeInv'
  BY <1>1 DEF SafeInv, Typed, HeapOK, FreeClean, ValuesOK, Owned, PlaceOK, PlaceLinked,
     HeldOK, StandsOK, Guarded, memory, counters, writer, reader, history
<1>4. RoutesInv'
  BY <1>1, NothingRoutes
<1>5. BranchOK'
  BY <1>1 DEF BranchOK, Branching, Excused, memory, writer
<1>6. CountOK'
  <2>1. LiveNodes' = LiveNodes
    BY DEF LiveNodes
  <2> QED
    BY <1>1, <1>2, <2>1, QuietCounts DEF writer
<1>7. ChangesOK'
  BY <1>1 DEF ChangesOK, history
<1> QED
  BY <1>2, <1>3, <1>4, <1>5, <1>6, <1>7 DEF TrieInv

-----------------------------------------------------------------------------
(* The invariant of the tool *)

\* The routes of the first n prefixes.
First(n) == {prefixes[i] : i \in 1 .. n}

\* A process that has not begun to build has no trie yet.
CliInv ==
    /\ SourceOK
    /\ phase \in {"client", "start", "load", "build"}
    /\ deferred \in BOOLEAN
    /\ phase = "client" => deferred /\ TrieInv
    /\ phase \in {"start", "load"} => TrieInit /\ next = 0
    /\ phase \in {"client", "start"} => source = "none" /\ prefixes = << >>
    /\ phase = "build" =>
        /\ TrieInv /\ Resting
        /\ source = "none" /\ Rising(prefixes)
        /\ next \in 0 .. Len(prefixes)
        /\ Routes(table) = First(next)

\* Whatever the process does, its trie is sound.
LEMMA CliTrie ==
  ASSUME CliInv
  PROVE  TrieInv /\ (phase # "client" => Resting)
<1>1. TrieInit /\ deferred \in BOOLEAN => TrieInv
  BY TrieStart
<1>2. TrieInit => Resting
  BY DEF TrieInit, Resting
<1> QED
  BY <1>1, <1>2 DEF CliInv

\* A process starts with nothing, and with nothing it starts again.
LEMMA NothingOK ==
  ASSUME NEW s, s = << >>
  PROVE  /\ s \in Seq(Keys) /\ s \in Seq(FileRecords) /\ DOMAIN s = {} /\ Len(s) = 0
         /\ Distinct(s)
BY DEF Distinct

\* What remains of a table that nobody loads any more.
LEMMA NoSourceOK ==
  ASSUME source' = "none", wanted' \in Nat, prefixes' \in Seq(Keys), Distinct(prefixes'),
         dump' = << >>, skipped' = 0, failed' \in BOOLEAN, blocks' = << >>, attempts' = 0
  PROVE  SourceOK'
<1>1. AttemptLimit' \in Nat
  BY LimitType DEF AttemptLimit
<1>2. SourceTyped'
  BY <1>1, NothingOK DEF SourceTyped
<1>3. FileOK'
  BY DEF FileOK
<1>4. GeneratedOK'
  BY NothingOK DEF GeneratedOK
<1> QED
  BY <1>2, <1>3, <1>4 DEF SourceOK

\* Nothing has happened.
LEMMA CliStart ==
  ASSUME CliInit
  PROVE  CliInv
<1>1. /\ source = "none" /\ wanted = 0 /\ prefixes = << >> /\ dump = << >> /\ skipped = 0
      /\ failed = FALSE /\ blocks = << >> /\ attempts = 0
      /\ TrieInit /\ next = 0
      /\ (phase = "client" /\ deferred = TRUE) \/ (phase = "start" /\ deferred = FALSE)
  BY DEF CliInit, SourceInit
<1>2. AttemptLimit \in Nat
  BY <1>1, LimitType DEF AttemptLimit
<1>3. SourceTyped
  <2>1. /\ prefixes \in Seq(Keys) /\ Distinct(prefixes) /\ dump \in Seq(FileRecords)
        /\ blocks \in Seq(Keys)
    BY <1>1, NothingOK
  <2>2. wanted \in Nat /\ skipped \in Nat /\ attempts \in 0 .. AttemptLimit
    BY <1>1, <1>2
  <2>3. failed \in BOOLEAN
    BY <1>1
  <2> QED
    BY <1>1, <2>1, <2>2, <2>3 DEF SourceTyped
<1>4. FileOK /\ GeneratedOK
  BY <1>1, NothingOK DEF FileOK, GeneratedOK
<1>5. TrieInv
  BY <1>1, TrieStart
<1> QED
  BY <1>1, <1>3, <1>4, <1>5 DEF CliInv, SourceOK

\* A step that loads or leaves the trie alone.
LEMMA StartSafe ==
  ASSUME CliInv, NEW c \in Commands, NEW n \in Counts, Start(c, n)
  PROVE  CliInv'
<1>1. /\ phase = "start" /\ phase' = "load" /\ UNCHANGED trieVars /\ next' = next
      /\ OpenDump(n) \/ Generate(n)
      /\ SourceOK /\ prefixes = << >> /\ TrieInit /\ next = 0 /\ deferred \in BOOLEAN
  BY DEF Start, CliInv
<1>2. SourceOK'
  BY <1>1, CliAssumption, OpenDumpOK, GenerateOK
<1>3. TrieInit' /\ deferred' = deferred
  BY <1>1 DEF TrieInit, trieVars, memory, counters, writer, reader, history
<1> QED
  BY <1>1, <1>2, <1>3 DEF CliInv

LEMMA LoadSafe ==
  ASSUME CliInv, Load
  PROVE  CliInv'
<1>1. /\ phase = "load" /\ LoadStep /\ UNCHANGED trieVars /\ UNCHANGED toolVars
      /\ SourceOK /\ TrieInit /\ next = 0 /\ deferred \in BOOLEAN
  BY DEF Load, CliInv
<1>2. SourceOK'
  <2>1. \/ EndOfFile \/ ImplausibleLength
        \/ \E r \in FileRecords : SkipRecord(r) \/ TakeRecord(r)
        \/ \E raw \in Hosts :
            \/ \E length \in BlockLengths : DrawBlock(raw, length)
            \/ \E b \in Members(blocks), length \in MaskLengths : Carve(b, raw, length)
        \/ BlocksDrawn \/ CarveDone
    BY <1>1 DEF LoadStep
  <2>2. CASE EndOfFile \/ ImplausibleLength
    BY <1>1, <2>2, EndsOK
  <2>3. ASSUME NEW r \in FileRecords, SkipRecord(r) \/ TakeRecord(r)
        PROVE  SourceOK'
    BY <1>1, <2>3, SkipOK, TakeOK
  <2>4. ASSUME NEW raw \in Hosts, NEW length \in BlockLengths, DrawBlock(raw, length)
        PROVE  SourceOK'
    BY <1>1, <2>4, DrawOK
  <2>5. ASSUME NEW raw \in Hosts, NEW b \in Members(blocks), NEW length \in MaskLengths,
               Carve(b, raw, length)
        PROVE  SourceOK'
    BY <1>1, <2>5, CarveOK
  <2>6. CASE BlocksDrawn \/ CarveDone
    BY <1>1, <2>6, DrawnOK, CarvedOK
  <2> QED
    BY <2>1, <2>2, <2>3, <2>4, <2>5, <2>6
<1>3. TrieInit' /\ deferred' = deferred /\ phase' = phase /\ next' = next
  BY <1>1 DEF TrieInit, trieVars, memory, counters, writer, reader, history, toolVars
<1> QED
  BY <1>1, <1>2, <1>3 DEF CliInv

\* What Quit leaves.
LEMMA QuitSafe ==
  ASSUME TrieInit', deferred' \in BOOLEAN, failed' \in BOOLEAN, Quit
  PROVE  CliInv'
<1>1. /\ phase' = "start" /\ next' = 0 /\ source' = "none" /\ wanted' = 0
      /\ prefixes' = << >> /\ dump' = << >> /\ skipped' = 0 /\ failed' = FALSE
      /\ blocks' = << >> /\ attempts' = 0
  BY DEF Quit
<1>2. SourceOK'
  BY <1>1, NothingOK, NoSourceOK
<1> QED
  BY <1>1, <1>2 DEF CliInv

LEMMA RefuseSafe ==
  ASSUME CliInv, Refuse
  PROVE  CliInv'
<1>1. /\ phase = "load" /\ Quit /\ UNCHANGED trieVars
      /\ TrieInit /\ deferred \in BOOLEAN
  BY DEF Refuse, Loaded, CliInv
<1>2. TrieInit' /\ deferred' = deferred
  BY <1>1 DEF TrieInit, trieVars, memory, counters, writer, reader, history
<1> QED
  BY <1>1, <1>2, QuitSafe DEF Quit

\* load_table() hands over a sorted vector and the tool takes an empty trie.
LEMMA AcceptSafe ==
  ASSUME CliInv, Accept
  PROVE  CliInv'
<1>1. /\ phase = "load" /\ phase' = "build" /\ prefixes' = Sorted(prefixes)
      /\ dump' = << >> /\ blocks' = << >> /\ skipped' = 0 /\ attempts' = 0
      /\ source' = "none" /\ deferred' \in BOOLEAN /\ wanted' = wanted /\ failed' = failed
      /\ next' = next /\ next = 0 /\ TrieInit
      /\ UNCHANGED <<memory, counters, life, writer, reader, history>>
      /\ prefixes \in Seq(Keys) /\ Distinct(prefixes) /\ wanted \in Nat /\ failed \in BOOLEAN
  BY DEF Accept, Loaded, CliInv, SourceOK, SourceTyped
<1>2. prefixes' \in Seq(Keys) /\ Rising(prefixes') /\ Distinct(prefixes')
  BY <1>1, TrieAssumption, SortedProperties, RisingDistinct
<1>3. SourceOK'
  BY <1>1, <1>2, NoSourceOK
<1>4. TrieInv /\ Resting
  BY <1>1, CliTrie
<1>5. TrieInv' /\ Resting' /\ table' = table
  <2>1. TrieInv' /\ table' = table
    BY <1>1, <1>4, SameTrie
  <2>2. Resting'
    BY <1>1, <1>4 DEF Resting, writer, reader, history
  <2> QED
    BY <2>1, <2>2
<1>6. Routes(table') = {}
  <2>1. \A p \in Prefixes : table[p] = Null
    BY <1>1, <1>4, TableStart DEF TrieInv, CliInv, Abstract!Init
  <2> QED
    BY <1>5, <2>1 DEF Routes
<1>7. First(next)' = {} /\ next' \in 0 .. Len(prefixes')
  BY <1>1, <1>2 DEF First
<1> QED
  BY <1>1, <1>2, <1>3, <1>5, <1>6, <1>7 DEF CliInv

\* Only what a value can be bound to is inserted.
LEMMA BuildsPrefixes ==
  ASSUME NEW p, Insert(p)
  PROVE  p \in Prefixes
<1>1. FreeValues(p) # {}
  BY DEF Insert, InsertLeaf, InsertSplit, InsertAbove, InsertExchange, Room
<1> QED
  BY <1>1, TrieAssumption DEF FreeValues

\* One more prefix of the vector is in the trie.
LEMMA BuildSafe ==
  ASSUME CliInv, Build
  PROVE  CliInv'
<1> DEFINE p == prefixes[next + 1]
<1>1. /\ phase = "build" /\ next < Len(prefixes) /\ Insert(p) /\ next' = next + 1
      /\ UNCHANGED sourceVars /\ phase' = phase
      /\ TrieInv /\ Resting /\ source = "none" /\ Rising(prefixes)
      /\ next \in 0 .. Len(prefixes) /\ Routes(table) = First(next)
      /\ SourceOK /\ prefixes \in Seq(Keys) /\ Distinct(prefixes) /\ deferred \in BOOLEAN
  BY DEF Build, CliInv, SourceOK, SourceTyped
<1>2. /\ Len(prefixes) \in Nat /\ DOMAIN prefixes = 1 .. Len(prefixes)
      /\ next + 1 \in 1 .. Len(prefixes) /\ next + 1 \notin 1 .. next
      /\ \A i \in 1 .. next : i \in 1 .. Len(prefixes) /\ i \in 1 .. next + 1
      /\ \A i \in 1 .. next + 1 : i \in 1 .. next \/ i = next + 1
      /\ next + 1 \in 1 .. next + 1
  BY <1>1
<1>3. p \notin First(next)
  BY <1>1, <1>2 DEF First, Distinct
<1>4. p \in Prefixes
  BY <1>1, BuildsPrefixes
<1>5. First(next + 1) = First(next) \cup {p}
  BY <1>2 DEF First
<1> HIDE DEF p
<1>6. table[p] = Null
  BY <1>1, <1>3, <1>4 DEF Routes
<1>7. /\ Resting' /\ TrieInv' /\ deferred' = deferred
      /\ Routes(table') = Routes(table) \cup {p}
  BY <1>1, <1>4, <1>6, InsertRests
<1>8. prefixes' = prefixes /\ source' = source /\ SourceOK'
  BY <1>1 DEF sourceVars, SourceOK, SourceTyped, FileOK, GeneratedOK, AttemptLimit
<1>9. Routes(table') = First(next)'
  BY <1>1, <1>5, <1>7, <1>8 DEF First
<1>10. next' \in 0 .. Len(prefixes')
  BY <1>1, <1>2, <1>8
<1> QED
  BY <1>1, <1>7, <1>8, <1>9, <1>10 DEF CliInv

LEMMA ExitSafe ==
  ASSUME CliInv, Exit
  PROVE  CliInv'
<1>1. Destroy /\ deferred' = FALSE /\ Quit /\ TrieInv /\ Resting
  BY DEF Exit, Built, CliInv
<1>2. TrieInit'
  BY <1>1, DestroyFrees
<1> QED
  BY <1>1, <1>2, QuitSafe DEF Quit

LEMMA ClientSafe ==
  ASSUME CliInv, \/ phase = "client" /\ Next /\ UNCHANGED <<sourceVars, toolVars>>
                 \/ UNCHANGED cliVars
  PROVE  CliInv'
<1>1. UNCHANGED <<sourceVars, toolVars>>
  BY DEF cliVars
<1>2. SourceOK'
  BY <1>1 DEF CliInv, sourceVars, SourceOK, SourceTyped, FileOK, GeneratedOK, AttemptLimit
<1>3. phase' = phase /\ next' = next /\ source' = source /\ prefixes' = prefixes
  BY <1>1 DEF sourceVars, toolVars
<1>4. CASE phase = "client"
  <2>1. [Next]_trieVars
    BY DEF cliVars
  <2>2. TrieInv /\ deferred
    BY <1>4 DEF CliInv
  <2>3. TrieInv' /\ deferred' = deferred
    BY <2>1, <2>2, TrieStep DEF Alone
  <2> QED
    BY <1>2, <1>3, <1>4, <2>2, <2>3 DEF CliInv
<1>5. CASE phase # "client"
  <2>1. UNCHANGED trieVars
    BY <1>5 DEF cliVars
  <2>2. TrieInv /\ Resting
    BY <1>5, CliTrie
  <2>3. TrieInv' /\ deferred' = deferred
    BY <2>1, <2>2, QuietStep
  <2>4. table' = table
    BY <2>1, <2>2, QuietTable DEF TrieInv
  <2>5. Resting'
    BY <2>1, <2>2 DEF Resting, trieVars, writer, reader, history
  <2>6. TrieInit => TrieInit'
    BY <2>1 DEF TrieInit, trieVars, memory, counters, writer, reader, history
  <2>7. First(next)' = First(next)
    BY <1>3 DEF First
  <2> QED
    BY <1>2, <1>3, <1>5, <2>3, <2>4, <2>5, <2>6, <2>7 DEF CliInv
<1> QED
  BY <1>4, <1>5

\* The inductive invariant of the tool, and of any other owner of a trie.
THEOREM CliAlways == CliSpec => []CliInv
<1>1. CliInit => CliInv
  BY CliStart
<1>2. CliInv /\ [CliNext]_cliVars => CliInv'
  BY StartSafe, LoadSafe, RefuseSafe, AcceptSafe, BuildSafe, ExitSafe, ClientSafe
  DEF CliNext
<1> QED
  BY <1>1, <1>2, PTL DEF CliSpec

-----------------------------------------------------------------------------
(* The theorems *)

\* load_mrt_prefixes() (mrt.hpp:28-33), for every dump: the result is what the
\* records hold, once each and in the order of their first appearance; every
\* other record is skipped and counted; a limit is never passed.
THEOREM DumpsAreLoaded == CliSpec => []LoadedFile
<1>1. CliInv => LoadedFile
  <2> SUFFICES ASSUME CliInv, source \in {"file", "read"}
               PROVE  LoadedFile
    BY DEF LoadedFile
  <2>1. /\ Members(prefixes) = Held(dump) /\ InOrder(prefixes, dump)
        /\ skipped = Cardinality(Idle(dump))
        /\ source = "file" /\ wanted # 0 => Len(prefixes) < wanted
        /\ source = "read" /\ wanted # 0 => Len(prefixes) <= wanted
        /\ source = "read" /\ ~failed => prefixes # << >>
    BY DEF CliInv, SourceOK, FileOK
  <2>2. wanted \in Nat /\ Len(prefixes) \in Nat
    BY DEF CliInv, SourceOK, SourceTyped
  <2>3. wanted # 0 => Len(prefixes) <= wanted
    BY <2>1, <2>2
  <2> QED
    BY <2>1, <2>3 DEF LoadedFile, Held, InOrder, Idle
<1> QED
  BY <1>1, CliAlways, PTL

\* generate_prefixes() (synthetic.hpp:46), for every draw: the result is sorted
\* and has no duplicates, is as long as asked unless the attempts ran out, and
\* holds nothing but the default route and parts of allocations that a global
\* table may carry.
THEOREM TablesAreGenerated == CliSpec => []GeneratedTable
<1>1. CliInv => GeneratedTable
  <2> SUFFICES ASSUME CliInv, source = "generated"
               PROVE  GeneratedTable
    BY DEF GeneratedTable
  <2>1. GeneratedOK
    BY DEF CliInv, SourceOK
  <2> QED
    BY <2>1 DEF GeneratedTable, GeneratedOK, Carried, Rising
<1> QED
  BY <1>1, CliAlways, PTL

\* The trie that a command builds and the trie that a client changes are
\* canonical, and every allocation has one owner (trie.hpp).
THEOREM EveryTrieIsSound == CliSpec => [](Canonical /\ OwnedOnce)
<1>1. CliInv => Canonical /\ OwnedOnce
  BY CliTrie, InvCanonical, SafeOwnedOnce DEF TrieInv
<1> QED
  BY <1>1, CliAlways, PTL

\* The steps of the tool that do not touch its trie.
LEMMA TrieKept ==
  ASSUME CliInv, UNCHANGED <<memory, counters, life, writer, reader, history>>
  PROVE  table' = table
BY DEF table, memory

\* Building is a series of insert(), and the destructor a clear().
THEOREM EveryTrieIsATable == CliSpec => ImplementsTable
<1>1. CliInit => Abstract!Init
  BY TableStart DEF CliInit
<1>2. CliInv /\ [CliNext]_cliVars => [Abstract!Next]_table
  <2> SUFFICES ASSUME CliInv, [CliNext]_cliVars
               PROVE  [Abstract!Next]_table
    OBVIOUS
  <2>1. TrieInv /\ SafeInv
    BY CliTrie DEF TrieInv
  <2>2. CASE phase = "client" /\ Next
    BY <2>1, <2>2, TableStep DEF Next, Alone, CliInv
  <2>3. CASE Build
    <3>1. Insert(prefixes[next + 1])
      BY <2>3 DEF Build
    <3>2. prefixes[next + 1] \in Prefixes
      BY <3>1, BuildsPrefixes
    <3>3. Next /\ Alone
      <4>1. phase # "client"
        BY <2>3 DEF Build
      <4>2. Resting
        BY <4>1, CliTrie
      <4> QED
        BY <3>1, <3>2, <4>2 DEF Next, InsertErase, Resting, Alone, Guarded
    <3> QED
      BY <2>1, <3>3, TableStep DEF Next
  <2>4. CASE Exit
    <3>1. phase # "client" /\ Destroy
      BY <2>4 DEF Exit, Built
    <3>2. TrieInit'
      BY <2>1, <3>1, CliTrie, DestroyFrees
    <3>3. link' = [s \in Slots |-> Null]
      BY <3>2 DEF TrieInit
    <3>4. link' \in Links /\ Ordered(link') /\ link'[RootSlot] = Null
      BY <3>3, SlotFacts DEF Ordered, Links
    <3>5. Tree(link') = {}
      BY <3>4, EmptyTree
    <3>6. table' = Table(link', value')
      BY DEF table
    <3> HIDE DEF table
    <3>7. table' = [p \in Prefixes |-> Null]
      BY <3>4, <3>5, <3>6, TableLemma
    <3> QED
      BY <3>7 DEF Abstract!Next, Abstract!Clear
  <2>5. CASE \/ \E c \in Commands, n \in Counts : Start(c, n)
             \/ Load \/ Refuse \/ Accept \/ UNCHANGED cliVars
    <3>1. UNCHANGED <<memory, counters, life, writer, reader, history>>
      BY <2>5 DEF Start, Load, Refuse, Accept, cliVars, trieVars
    <3> QED
      BY <3>1, TrieKept
  <2> QED
    BY <2>2, <2>3, <2>4, <2>5 DEF CliNext
<1> QED
  BY <1>1, <1>2, CliAlways, PTL DEF CliSpec, ImplementsTable, Abstract!Spec

-----------------------------------------------------------------------------
(* find_exact and lookup *)

\* The value that an entry is bound to belongs to the node with its prefix.
LEMMA ValueRoutes ==
  ASSUME SafeInv, NEW n \in Tree(link), value[n] # Null
  PROVE  /\ n \in Nodes /\ value[n] \in Values /\ EntryOf[value[n]] = KeyOf[n]
         /\ KeyOf[n] \in Prefixes /\ table[KeyOf[n]] = value[n]
<1>1. /\ link \in Links /\ Ordered(link) /\ value \in [Nodes -> Values \cup {Null}]
      /\ ValuesOK /\ Tree(link) \subseteq Nodes
  BY TreeLemma DEF SafeInv, Typed, HeapOK
<1>2. n \in Nodes /\ value[n] \in Values /\ EntryOf[value[n]] = KeyOf[n]
  BY <1>1 DEF ValuesOK
<1>3. KeyOf[n] \in Prefixes
  BY <1>2, TrieAssumption
<1>4. table[KeyOf[n]] = value[n]
  BY <1>1, <1>3, TableLemma DEF table
<1> QED
  BY <1>2, <1>3, <1>4

\* A route of the table is at a node.
LEMMA RouteNode ==
  ASSUME SafeInv, NEW p \in Prefixes, table[p] # Null
  PROVE  \E n \in Tree(link) : KeyOf[n] = p /\ value[n] # Null
<1>1. link \in Links /\ Ordered(link)
  BY DEF SafeInv, Typed, HeapOK
<1>2. PICK n \in Tree(link) : KeyOf[n] = p
  BY <1>1, TableLemma DEF table
<1>3. table[p] = value[n]
  BY <1>1, <1>2, TableLemma DEF table
<1> QED
  BY <1>2, <1>3

\* find_exact() answers for the very prefix it is asked.
LEMMA ExactFinds ==
  ASSUME SafeInv, NEW p \in Keys
  PROVE  FindExact(p) = IF p \in Prefixes THEN table[p] ELSE Null
<1>1. link \in Links /\ Ordered(link)
  BY DEF SafeInv, Typed, HeapOK
<1>2. StopNode(p) # Null => StopNode(p) \in Tree(link)
  BY <1>1, WalkLemma, OneParent DEF WalkOK, StopSlot, StopNode
<1>3. CASE \E n \in Tree(link) : KeyOf[n] = p /\ value[n] # Null
  <2>1. PICK n \in Tree(link) : KeyOf[n] = p /\ value[n] # Null
    BY <1>3
  <2>2. StopNode(p) = n
    BY <1>1, <2>1, WalkFinds
  <2>3. n \in Nodes /\ p \in Prefixes /\ table[p] = value[n]
    BY <2>1, ValueRoutes
  <2>4. n # Null
    BY <2>3, NodesHaveKeys
  <2> QED
    BY <2>1, <2>2, <2>3, <2>4 DEF FindExact, IsRoute
<1>4. CASE ~ \E n \in Tree(link) : KeyOf[n] = p /\ value[n] # Null
  <2>1. FindExact(p) = Null
    BY <1>2, <1>4 DEF FindExact, IsRoute
  <2>2. p \in Prefixes => table[p] = Null
    BY <1>4, RouteNode
  <2> QED
    BY <2>1, <2>2
<1> QED
  BY <1>3, <1>4

\* Entries that cover the same address and are as long as one another are one.
LEMMA OneOfALength ==
  ASSUME NEW p \in Keys, NEW q \in Keys, NEW a \in Hosts,
         Matches(p, a), Matches(q, a), Len(p) = Len(q)
  PROVE  p = q
<1>1. a \in Keys /\ Width \in Nat /\ Len(p) \in Nat
  BY HostsAreKeys, KeyTypes, TrieAssumption
<1> QED
  BY <1>1, MatchOrder

\* A move of lookup().
Follow(a, s) ==
    IF s.at = Null \/ ~Matches(KeyOf[s.at], a)
    THEN [s EXCEPT !.at = Null]
    ELSE [at |-> IF Len(KeyOf[s.at]) >= Width THEN Null
                 ELSE link[<<s.at, BitAt(a, Len(KeyOf[s.at]))>>],
          best |-> IF value[s.at] # Null THEN value[s.at] ELSE s.best]

\* A route that the walk has not lost: it is behind it, under the best one, or
\* it is still ahead.
Covered(s, n) ==
    \/ s.best # Null /\ Len(EntryOf[s.best]) >= Len(KeyOf[n])
    \/ s.at # Null /\ Matches(KeyOf[s.at], KeyOf[n])

\* Where lookup() is after i moves.
FollowOK(a, i, s) ==
    /\ s \in [at : Nodes \cup {Null}, best : Values \cup {Null}]
    /\ s.at # Null => s.at \in Tree(link) /\ Len(KeyOf[s.at]) >= i
    /\ s.best # Null => \E m \in Tree(link) : value[m] = s.best /\ Matches(KeyOf[m], a)
    /\ s.at # Null /\ s.best # Null => Len(EntryOf[s.best]) < Len(KeyOf[s.at])
    /\ \A n \in Tree(link) : value[n] # Null /\ Matches(KeyOf[n], a) => Covered(s, n)

\* A move loses no route.
LEMMA FollowLemma ==
  ASSUME SafeInv, NEW a \in Hosts, NEW i \in Nat, NEW s, FollowOK(a, i, s)
  PROVE  FollowOK(a, i + 1, Follow(a, s))
<1>1. /\ link \in Links /\ Ordered(link) /\ value \in [Nodes -> Values \cup {Null}]
      /\ Tree(link) \subseteq Nodes /\ Closed(link, Tree(link))
      /\ Width \in Nat /\ a \in Keys /\ Len(a) = Width
  BY TreeLemma, HostsAreKeys, TrieAssumption DEF SafeInv, Typed, HeapOK
<1>2. /\ s \in [at : Nodes \cup {Null}, best : Values \cup {Null}]
      /\ s.at # Null => s.at \in Tree(link) /\ Len(KeyOf[s.at]) >= i
      /\ s.best # Null => \E m \in Tree(link) : value[m] = s.best /\ Matches(KeyOf[m], a)
      /\ s.at # Null /\ s.best # Null => Len(EntryOf[s.best]) < Len(KeyOf[s.at])
      /\ \A n \in Tree(link) : value[n] # Null /\ Matches(KeyOf[n], a) => Covered(s, n)
  BY DEF FollowOK
<1>3. CASE s.at = Null
  <2>1. Follow(a, s) = s
    BY <1>2, <1>3 DEF Follow
  <2> QED
    BY <1>2, <1>3, <2>1 DEF FollowOK
<1>4. CASE s.at # Null /\ ~Matches(KeyOf[s.at], a)
  <2> DEFINE t == Follow(a, s)
  <2>1. /\ t.at = Null /\ t.best = s.best
        /\ t \in [at : Nodes \cup {Null}, best : Values \cup {Null}]
    BY <1>2, <1>4 DEF Follow
  <2> HIDE DEF t
  <2>2. ASSUME NEW n \in Tree(link), value[n] # Null, Matches(KeyOf[n], a)
        PROVE  Covered(t, n)
    <3>1. Covered(s, n)
      BY <1>2, <2>2
    <3>2. ~Matches(KeyOf[s.at], KeyOf[n])
      <4>1. KeyOf[s.at] \in Keys /\ KeyOf[n] \in Keys
        BY <1>1, <1>2, <1>4, NodesHaveKeys
      <4> QED
        BY <1>1, <1>4, <2>2, <4>1, MatchOrder
    <3> QED
      BY <2>1, <3>1, <3>2 DEF Covered
  <2>3. FollowOK(a, i + 1, t)
    BY <1>2, <2>1, <2>2 DEF FollowOK
  <2> QED
    BY <2>3 DEF t
<1>5. CASE s.at # Null /\ Matches(KeyOf[s.at], a)
  <2> DEFINE t == Follow(a, s)
             n == s.at
             k == KeyOf[n]
             c == IF Len(k) >= Width THEN Null ELSE link[<<n, BitAt(a, Len(k))>>]
             b == IF value[n] # Null THEN value[n] ELSE s.best
  <2>1. /\ n \in Tree(link) /\ n \in Nodes /\ n # Null
        /\ k \in Keys /\ Len(k) \in Nat /\ Len(k) <= Width /\ Len(k) >= i
        /\ Matches(k, a) /\ s.best \in Values \cup {Null}
    BY <1>1, <1>2, <1>5, NodesHaveKeys
  <2>2. t = [at |-> c, best |-> b]
    BY <1>5 DEF Follow
  <2>3. c # Null => /\ c \in Tree(link) /\ c \in Nodes
                    /\ Len(k) < Width /\ BitAt(a, Len(k)) \in Bits
                    /\ c = link[<<n, BitAt(a, Len(k))>>]
                    /\ KeyOf[c] \in Keys /\ Len(KeyOf[c]) \in Nat
                    /\ Len(KeyOf[c]) > Len(k)
    <3> SUFFICES ASSUME c # Null
                 PROVE  /\ c \in Tree(link) /\ c \in Nodes
                        /\ Len(k) < Width /\ BitAt(a, Len(k)) \in Bits
                        /\ c = link[<<n, BitAt(a, Len(k))>>]
                        /\ KeyOf[c] \in Keys /\ Len(KeyOf[c]) \in Nat
                        /\ Len(KeyOf[c]) > Len(k)
      OBVIOUS
    <3>1. Len(k) < Width /\ c = link[<<n, BitAt(a, Len(k))>>]
      BY <1>1, <2>1
    <3>2. BitAt(a, Len(k)) \in Bits
      BY <1>1, <2>1, <3>1, KeyTypes
    <3> HIDE DEF c, n, k
    <3>3. c \in Tree(link) /\ c \in Nodes
      BY <1>1, <2>1, <3>1, <3>2 DEF Closed
    <3>4. Len(KeyOf[c]) > Len(KeyOf[n])
      BY <1>1, <2>1, <3>1, <3>2 DEF Ordered
    <3> QED
      BY <3>1, <3>2, <3>3, <3>4, NodesHaveKeys DEF k
  <2> HIDE DEF t, c
  <2>4. b \in Values \cup {Null}
    BY <1>1, <2>1
  <2>5. b # Null => \E m \in Tree(link) : value[m] = b /\ Matches(KeyOf[m], a)
    BY <1>2, <2>1
  <2>6. b # Null => Len(EntryOf[b]) \in Nat /\ Len(EntryOf[b]) <= Len(k)
    <3>1. CASE value[n] # Null
      BY <2>1, <3>1, ValueRoutes
    <3>2. CASE value[n] = Null
      <4>1. b = s.best
        BY <3>2
      <4>2. b # Null => Len(EntryOf[b]) < Len(k) /\ Len(EntryOf[b]) \in Nat
        <5> SUFFICES ASSUME b # Null
                     PROVE  Len(EntryOf[b]) < Len(k) /\ Len(EntryOf[b]) \in Nat
          OBVIOUS
        <5>1. EntryOf[b] \in Keys
          BY <2>4, TrieAssumption
        <5> QED
          BY <1>2, <1>5, <4>1, <5>1, KeyTypes, TrieAssumption
      <4> QED
        BY <2>1, <4>2
    <3> QED
      BY <3>1, <3>2
  <2>7. ASSUME NEW m \in Tree(link), value[m] # Null, Matches(KeyOf[m], a)
        PROVE  \/ b # Null /\ Len(EntryOf[b]) >= Len(KeyOf[m])
               \/ c # Null /\ Matches(KeyOf[c], KeyOf[m])
    <3>1. Covered(s, m)
      BY <1>2, <2>7
    <3>2. m \in Nodes /\ KeyOf[m] \in Keys /\ Len(KeyOf[m]) \in Nat /\ Len(KeyOf[m]) <= Width
      BY <1>1, NodesHaveKeys
    <3>3. CASE s.best # Null /\ Len(EntryOf[s.best]) >= Len(KeyOf[m])
      <4>1. CASE value[n] # Null
        <5>1. b = value[n] /\ EntryOf[b] = k
          BY <2>1, <4>1, ValueRoutes
        <5>2. Len(EntryOf[s.best]) < Len(k) /\ EntryOf[s.best] \in Keys
          BY <1>2, <1>5, <2>1, <3>3, TrieAssumption
        <5>3. Len(EntryOf[s.best]) \in Nat
          BY <1>1, <5>2, KeyTypes
        <5>4. Len(EntryOf[b]) >= Len(KeyOf[m])
          BY <2>1, <3>2, <3>3, <5>1, <5>2, <5>3
        <5> QED
          BY <4>1, <5>1, <5>4
      <4>2. CASE value[n] = Null
        BY <3>3, <4>2
      <4> QED
        BY <4>1, <4>2
    <3>4. CASE Matches(k, KeyOf[m]) /\ m = n
      <4>1. b = value[n] /\ EntryOf[b] = k
        BY <2>1, <2>7, <3>4, ValueRoutes
      <4> QED
        BY <2>1, <2>7, <3>4, <4>1
    <3>5. CASE Matches(k, KeyOf[m]) /\ m # n
      <4>1. Len(k) < Len(KeyOf[m])
        <5>1. KeyOf[m] # k
          BY <1>1, <2>1, <3>5, AllPlaced DEF Placed
        <5> QED
          BY <1>1, <2>1, <3>2, <3>5, <5>1, MatchOrder
      <4>2. BitAt(a, Len(k)) = BitAt(KeyOf[m], Len(k))
        BY <1>1, <2>1, <2>7, <3>2, <4>1, MatchBits
      <4>3. c = link[<<n, BitAt(KeyOf[m], Len(k))>>]
        BY <1>1, <2>1, <3>2, <4>1, <4>2 DEF c
      <4>4. LET d == link[<<n, BitAt(KeyOf[m], Len(k))>>]
            IN  d # Null /\ Matches(KeyOf[d], KeyOf[m])
        BY <1>1, <2>1, <3>5, AllPlaced DEF Placed
      <4> QED
        BY <4>3, <4>4
    <3> QED
      BY <1>5, <3>1, <3>3, <3>4, <3>5 DEF Covered
  <2> HIDE DEF b
  <2>8. t \in [at : Nodes \cup {Null}, best : Values \cup {Null}] /\ t.at = c /\ t.best = b
    BY <2>2, <2>3, <2>4
  <2>9. FollowOK(a, i + 1, t)
    <3>1. c # Null => Len(KeyOf[c]) >= i + 1
      BY <2>1, <2>3
    <3>2. c # Null /\ b # Null => Len(EntryOf[b]) < Len(KeyOf[c])
      BY <2>1, <2>3, <2>6
    <3>3. \A m \in Tree(link) : value[m] # Null /\ Matches(KeyOf[m], a) => Covered(t, m)
      BY <2>7, <2>8 DEF Covered
    <3> QED
      BY <2>3, <2>5, <2>8, <3>1, <3>2, <3>3 DEF FollowOK
  <2> QED
    BY <2>9 DEF t
<1> QED
  BY <1>3, <1>4, <1>5

\* The moves of lookup() are those of Follow.
LEMMA LookupMoves ==
  ASSUME SafeInv, NEW a \in Hosts
  PROVE  \E s : FollowOK(a, Width + 1, s) /\ Lookup(a) = s.best
<1> DEFINE D == [at : Nodes \cup {Null}, best : Values \cup {Null}]
           first == [at |-> link[RootSlot], best |-> Null]
           N == Width + 1
           Good == {s \in D : \E i \in 0 .. N : FollowOK(a, i, s)}
           step == [s \in D |-> Follow(a, s)]
           Body(f) == [i \in 0 .. N |-> IF i = 0 THEN first ELSE Follow(a, f[i - 1])]
           Step == CHOOSE f : f = Body(f)
<1>1. /\ link \in Links /\ Ordered(link) /\ value \in [Nodes -> Values \cup {Null}]
      /\ Tree(link) \subseteq Nodes /\ Closed(link, Tree(link))
      /\ Width \in Nat /\ N \in Nat /\ a \in Keys /\ Len(a) = Width
  BY TreeLemma, HostsAreKeys, TrieAssumption DEF SafeInv, Typed, HeapOK
<1>2. FollowOK(a, 0, first)
  <2>1. first \in D /\ first.at = link[RootSlot] /\ first.best = Null
    BY <1>1, SlotFacts DEF Links
  <2>2. first.at # Null => first.at \in Tree(link) /\ Len(KeyOf[first.at]) >= 0
    BY <1>1, <2>1, NodesHaveKeys DEF Closed
  <2>3. ASSUME NEW n \in Tree(link)
        PROVE  Covered(first, n)
    <3>1. link[RootSlot] \in Tree(link) /\ Matches(KeyOf[link[RootSlot]], KeyOf[n])
      BY <1>1, RootMatches
    <3> QED
      BY <1>1, <2>1, <3>1, NodesHaveKeys DEF Covered
  <2> HIDE DEF first
  <2> QED
    BY <2>1, <2>2, <2>3 DEF FollowOK
<1>3. first \in D
  BY <1>2 DEF FollowOK
<1>4. \A s \in D : Follow(a, s) \in D
  <2> SUFFICES ASSUME NEW s \in D
               PROVE  Follow(a, s) \in D
    OBVIOUS
  <2>1. CASE s.at = Null \/ ~Matches(KeyOf[s.at], a)
    BY <2>1 DEF Follow
  <2>2. CASE s.at # Null /\ Matches(KeyOf[s.at], a)
    <3>1. s.at \in Nodes /\ Len(KeyOf[s.at]) \in Nat
      BY <2>2, NodesHaveKeys
    <3>2. Len(KeyOf[s.at]) < Width =>
             link[<<s.at, BitAt(a, Len(KeyOf[s.at]))>>] \in Nodes \cup {Null}
      <4>1. Len(KeyOf[s.at]) < Width => BitAt(a, Len(KeyOf[s.at])) \in Bits
        BY <1>1, <3>1, KeyTypes
      <4> QED
        BY <1>1, <3>1, <4>1, SlotFacts DEF Links
    <3>3. value[s.at] \in Values \cup {Null}
      BY <1>1, <3>1
    <3> QED
      BY <1>1, <2>2, <3>1, <3>2, <3>3 DEF Follow
  <2> QED
    BY <2>1, <2>2
<1> HIDE DEF D, first
<1>5. step \in [D -> D] /\ \A s \in D : step[s] = Follow(a, s)
  BY <1>4
<1>6. PICK f : IsIteration(f, D, first, step, N)
  <2> HIDE DEF step, N
  <2> QED
    BY <1>1, <1>3, <1>5, Iterates
<1>7. /\ f \in [0 .. N -> D] /\ f[0] = first
      /\ \A i \in 1 .. N : f[i] = Follow(a, f[i - 1])
  <2>1. f \in [0 .. N -> D] /\ f[0] = first /\ \A i \in 1 .. N : f[i] = step[f[i - 1]]
    BY <1>6 DEF IsIteration
  <2>2. ASSUME NEW i \in 1 .. N
        PROVE  f[i] = Follow(a, f[i - 1])
    <3>1. f[i - 1] \in D
      BY <1>1, <2>1
    <3> HIDE DEF step
    <3> QED
      BY <1>5, <2>1, <3>1
  <2> QED
    BY <2>1, <2>2
<1> HIDE DEF step
<1>8. f = Body(f)
  <2>1. \A i \in 0 .. N : f[i] = Body(f)[i]
    BY <1>1, <1>7
  <2>2. Body(f) = [i \in 0 .. N |-> Body(f)[i]]
    OBVIOUS
  <2>3. f = [i \in 0 .. N |-> f[i]]
    BY <1>7
  <2> QED
    BY <2>1, <2>2, <2>3
<1>9. Step = Body(Step)
  <2> HIDE DEF Body
  <2> QED
    BY <1>8
<1>10. Lookup(a) = Step[N].best
  BY DEF Lookup, Follow, first
<1> HIDE DEF Step
<1>11. Step[0] = first /\ \A i \in 1 .. N : Step[i] = Follow(a, Step[i - 1])
  <2>1. \A i \in 0 .. N : Body(Step)[i] = IF i = 0 THEN first ELSE Follow(a, Step[i - 1])
    OBVIOUS
  <2> HIDE DEF Body
  <2>2. \A i \in 0 .. N : Step[i] = IF i = 0 THEN first ELSE Follow(a, Step[i - 1])
    BY <1>9, <2>1
  <2> QED
    BY <1>1, <2>2
<1> DEFINE S == {i \in 0 .. N : FollowOK(a, i, Step[i])}
<1>12. 0 .. N \subseteq S
  <2>1. 0 \in S
    BY <1>1, <1>2, <1>11
  <2>2. ASSUME NEW i \in 1 .. N, i - 1 \in S
        PROVE  i \in S
    <3>1. i - 1 \in Nat /\ FollowOK(a, i - 1, Step[i - 1]) /\ (i - 1) + 1 = i
      BY <2>2
    <3>2. FollowOK(a, i, Follow(a, Step[i - 1]))
      BY <3>1, FollowLemma
    <3> QED
      BY <1>11, <3>2
  <2> HIDE DEF S
  <2> QED
    BY <1>1, <2>1, <2>2, CountUp
<1>13. FollowOK(a, N, Step[N])
  BY <1>1, <1>12
<1> QED
  BY <1>10, <1>13

\* lookup() with the writers kept out answers the longest match.
LEMMA LookupFinds ==
  ASSUME SafeInv, NEW a \in Hosts
  PROVE  /\ Lookup(a) = LongestMatch(table, a)
         /\ Lookup(a) = Null <=> \A p \in Prefixes : table[p] # Null => ~Matches(p, a)
         /\ Lookup(a) # Null =>
               /\ EntryOf[Lookup(a)] \in Bound(table, a)
               /\ table[EntryOf[Lookup(a)]] = Lookup(a)
               /\ \A q \in Bound(table, a) : Len(q) <= Len(EntryOf[Lookup(a)])
<1>1. PICK s : FollowOK(a, Width + 1, s) /\ Lookup(a) = s.best
  BY LookupMoves
<1>2. /\ link \in Links /\ Ordered(link) /\ Tree(link) \subseteq Nodes
      /\ Width \in Nat
  BY TreeLemma, TrieAssumption DEF SafeInv, Typed, HeapOK
<1>3. s.at = Null
  <2> SUFFICES ASSUME s.at # Null
               PROVE  FALSE
    OBVIOUS
  <2>1. s.at \in Tree(link) /\ Len(KeyOf[s.at]) >= Width + 1
    BY <1>1 DEF FollowOK
  <2> QED
    BY <1>2, <2>1, NodesHaveKeys
<1> DEFINE b == s.best
           k == EntryOf[b]
<1>4. \A q \in Bound(table, a) : b # Null /\ Len(k) >= Len(q)
  <2> SUFFICES ASSUME NEW q \in Prefixes, table[q] # Null, Matches(q, a)
               PROVE  b # Null /\ Len(k) >= Len(q)
    BY DEF Bound
  <2>1. PICK n \in Tree(link) : KeyOf[n] = q /\ value[n] # Null
    BY RouteNode
  <2>2. Covered(s, n)
    BY <1>1, <2>1 DEF FollowOK
  <2> QED
    BY <1>3, <2>1, <2>2 DEF Covered
<1>5. ASSUME b # Null
      PROVE  k \in Bound(table, a) /\ table[k] = b
  <2>1. PICK m \in Tree(link) : value[m] = b /\ Matches(KeyOf[m], a)
    BY <1>1, <1>5 DEF FollowOK
  <2>2. k = KeyOf[m] /\ k \in Prefixes /\ table[k] = b
    BY <1>5, <2>1, ValueRoutes
  <2> QED
    BY <1>5, <2>1, <2>2 DEF Bound
<1> HIDE DEF b, k
<1>6. \A q \in Bound(table, a) : Len(q) <= Len(k)
  <2> SUFFICES ASSUME NEW q \in Bound(table, a)
               PROVE  Len(q) <= Len(k)
    OBVIOUS
  <2>1. q \in Keys /\ k \in Keys /\ Len(k) >= Len(q)
    BY <1>4, <1>5, TrieAssumption DEF Bound
  <2> QED
    BY <1>2, <2>1, KeyTypes
<1>7. LongestMatch(table, a) = b
  <2>1. CASE Bound(table, a) = {}
    BY <1>5, <2>1 DEF LongestMatch
  <2>2. CASE Bound(table, a) # {}
    <3>1. PICK p \in Bound(table, a) :
             /\ LongestMatch(table, a) = table[p]
             /\ \A o \in Bound(table, a) : Len(o) <= Len(p)
      BY <2>2, LongestLemma
    <3>2. k \in Bound(table, a) /\ table[k] = b
      BY <1>4, <1>5, <3>1
    <3>3. p \in Keys /\ k \in Keys /\ Matches(p, a) /\ Matches(k, a)
      BY <3>1, <3>2, TrieAssumption DEF Bound
    <3>4. Len(p) = Len(k)
      BY <1>2, <1>6, <3>1, <3>2, <3>3, KeyTypes
    <3>5. p = k
      BY <3>3, <3>4, OneOfALength
    <3> QED
      BY <3>1, <3>2, <3>5
  <2> QED
    BY <2>1, <2>2
<1>8. b = Null <=> Bound(table, a) = {}
  BY <1>4, <1>5
<1>9. Lookup(a) = b
  BY <1>1 DEF b
<1> HIDE DEF table
<1> QED
  BY <1>5, <1>6, <1>7, <1>8, <1>9 DEF Bound, k

\* The table that the walks see is the table (trie.hpp:83-116), between any
\* two stores of a writer that keeps the callers of these walks out: for every
\* width and every shape of the trie.
LEMMA WalksFind ==
  ASSUME SafeInv
  PROVE  WalksFindTheTable
<1>1. \A a \in Addresses : a \in Hosts
  BY TrieAssumption
<1> QED
  BY <1>1, ExactFinds, LookupFinds DEF WalksFindTheTable

-----------------------------------------------------------------------------
(* for_each *)

\* A prefix comes before everything longer that it covers.
LEMMA CoverBefore ==
  ASSUME Width \in Nat, NEW p \in Keys, NEW q \in Keys, Matches(p, q), p # q
  PROVE  Before(p, q)
<1> DEFINE a == FirstHost(p)
           b == FirstHost(q)
<1>1. /\ a \in Hosts /\ b \in Hosts /\ Matches(p, a) /\ Matches(q, b)
      /\ Len(p) \in Nat /\ Len(q) \in Nat /\ Len(p) <= Width /\ Len(q) <= Width
  BY FirstHosts, KeyTypes
<1>2. Len(p) < Len(q)
  BY <1>1, MatchOrder
<1>3. \A i \in 1 .. Width : i > Len(p) => a[i] = 0
  BY <1>1 DEF FirstHost
<1> HIDE DEF a, b
<1>4. \A i \in 1 .. Len(p) : a[i] = b[i]
  BY <1>1, <1>2 DEF Matches
<1>5. ~Below(b, a)
  <2> SUFFICES ASSUME Below(b, a)
               PROVE  FALSE
    OBVIOUS
  <2>1. PICK n : PartAt(b, a, n)
    BY <1>1, BelowIs
  <2>2. n \in 1 .. Width /\ b[n] = 0 /\ a[n] = 1
    BY <2>1 DEF PartAt
  <2>3. ~(n > Len(p))
    BY <1>3, <2>2
  <2> QED
    BY <1>1, <1>4, <2>2, <2>3
<1>6. a = b \/ Below(a, b)
  BY <1>1, <1>5, BelowOrders
<1> QED
  BY <1>2, <1>6 DEF Before, a, b

\* What goes on with a 0 comes before what goes on with a 1.
LEMMA SidesBefore ==
  ASSUME Width \in Nat, NEW k \in Keys, NEW p \in Keys, NEW q \in Keys,
         Matches(k, p), Matches(k, q), Len(k) < Len(p), Len(k) < Len(q),
         BitAt(p, Len(k)) = 0, BitAt(q, Len(k)) = 1
  PROVE  Before(p, q)
<1> DEFINE a == FirstHost(p)
           b == FirstHost(q)
           n == Len(k) + 1
<1>1. /\ a \in Hosts /\ b \in Hosts /\ Matches(p, a) /\ Matches(q, b)
      /\ Len(p) \in Nat /\ Len(q) \in Nat /\ Len(p) <= Width /\ Len(q) <= Width
      /\ Len(k) \in Nat
  BY FirstHosts, KeyTypes
<1> HIDE DEF a, b
<1>2. n \in 1 .. Width /\ n \in 1 .. Len(p) /\ n \in 1 .. Len(q)
  BY <1>1
<1>3. a[n] = 0 /\ b[n] = 1
  BY <1>1, <1>2 DEF Matches, BitAt
<1>4. \A i \in 1 .. n - 1 : a[i] = b[i]
  <2> SUFFICES ASSUME NEW i \in 1 .. n - 1
               PROVE  a[i] = b[i]
    OBVIOUS
  <2>1. i \in 1 .. Len(k) /\ i \in 1 .. Len(p) /\ i \in 1 .. Len(q)
    BY <1>1, <1>2
  <2> QED
    BY <1>1, <2>1 DEF Matches
<1>5. PartAt(a, b, n)
  BY <1>2, <1>3, <1>4 DEF PartAt
<1>6. Below(a, b)
  BY <1>1, <1>5, BelowIs
<1> QED
  BY <1>6 DEF Before, a, b

\* One vector after another.
LEMMA JoinRises ==
  ASSUME NEW s \in Seq(Keys), NEW t \in Seq(Keys), Rising(s), Rising(t),
         \A x \in Members(s), y \in Members(t) : Before(x, y)
  PROVE  /\ s \o t \in Seq(Keys) /\ Rising(s \o t)
         /\ Members(s \o t) = Members(s) \cup Members(t)
<1> DEFINE u == s \o t
           m == Len(s)
           n == Len(t)
<1>1. /\ u \in Seq(Keys) /\ m \in Nat /\ n \in Nat /\ Len(u) = m + n
      /\ DOMAIN s = 1 .. m /\ DOMAIN t = 1 .. n /\ DOMAIN u = 1 .. m + n
      /\ \A i \in 1 .. m + n : u[i] = IF i <= m THEN s[i] ELSE t[i - m]
  BY ConcatProperties, LenProperties
<1> HIDE DEF u, m, n
<1>2. \A i \in 1 .. m + n : (i <= m /\ i \in 1 .. m) \/ (~(i <= m) /\ i - m \in 1 .. n)
  BY <1>1
<1>3. (\A i \in 1 .. m : i \in 1 .. m + n /\ i <= m)
      /\ \A i \in 1 .. n : i + m \in 1 .. m + n /\ ~(i + m <= m) /\ (i + m) - m = i
  BY <1>1
<1>4. \A i \in 1 .. m : s[i] \in Members(s)
  BY <1>1 DEF Members
<1>5. \A i \in 1 .. n : t[i] \in Members(t)
  BY <1>1 DEF Members
<1>6. Members(u) = Members(s) \cup Members(t)
  <2>1. ASSUME NEW i \in 1 .. m + n
        PROVE  u[i] \in Members(s) \cup Members(t)
    BY <1>1, <1>2, <1>4, <1>5
  <2>2. ASSUME NEW i \in 1 .. m
        PROVE  s[i] \in Members(u)
    BY <1>1, <1>3 DEF Members
  <2>3. ASSUME NEW i \in 1 .. n
        PROVE  t[i] \in Members(u)
    <3>1. u[i + m] = t[i] /\ i + m \in DOMAIN u
      BY <1>1, <1>3
    <3> QED
      BY <3>1 DEF Members
  <2> QED
    BY <1>1, <2>1, <2>2, <2>3 DEF Members
<1>7. Rising(u)
  <2> SUFFICES ASSUME NEW i \in 1 .. m + n, NEW j \in 1 .. m + n, i < j
               PROVE  Before(u[i], u[j])
    BY <1>1 DEF Rising
  <2>1. CASE j <= m
    <3>1. i <= m /\ i \in 1 .. m /\ j \in 1 .. m
      BY <1>1, <2>1
    <3>2. u[i] = s[i] /\ u[j] = s[j]
      BY <1>1, <2>1, <3>1
    <3> QED
      BY <1>1, <3>1, <3>2 DEF Rising
  <2>2. CASE i <= m /\ j > m
    <3>1. i \in 1 .. m /\ j - m \in 1 .. n /\ u[i] = s[i] /\ u[j] = t[j - m]
      BY <1>1, <2>2
    <3> QED
      BY <1>4, <1>5, <3>1
  <2>3. CASE i > m
    <3>1. /\ i - m \in 1 .. n /\ j - m \in 1 .. n /\ i - m < j - m
          /\ u[i] = t[i - m] /\ u[j] = t[j - m]
      BY <1>1, <2>3
    <3> QED
      BY <1>1, <3>1 DEF Rising
  <2> QED
    BY <1>1, <2>1, <2>2, <2>3
<1> QED
  BY <1>1, <1>6, <1>7 DEF u

\* The stored prefixes at a node and below it.
Sub(n) == {KeyOf[m] : m \in {o \in Tree(link) : value[o] # Null /\ Matches(KeyOf[n], KeyOf[o])}}

\* What the visitor has been called with when walk() returns from a link.
Listed(s, n) ==
    IF n = Null THEN s = << >> ELSE s \in Seq(Keys) /\ Rising(s) /\ Members(s) = Sub(n)

\* A node, its left side and its right side make a list of everything below.
LEMMA VisitLists ==
  ASSUME SafeInv, NEW n \in Tree(link), NEW left, NEW right,
         Listed(left, link[<<n, 0>>]), Listed(right, link[<<n, 1>>])
  PROVE  Listed(Visit(n, left, right), n)
<1> DEFINE k == KeyOf[n]
           c == [d \in Bits |-> link[<<n, d>>]]
           s == [d \in Bits |-> IF d = 0 THEN left ELSE right]
           Side(d) == IF c[d] = Null THEN {} ELSE Sub(c[d])
<1>1. /\ link \in Links /\ Ordered(link) /\ Tree(link) \subseteq Nodes
      /\ Closed(link, Tree(link)) /\ Width \in Nat
      /\ n \in Nodes /\ n # Null /\ k \in Keys /\ Len(k) \in Nat
  BY TreeLemma, NodesHaveKeys DEF SafeInv, Typed, HeapOK
<1>2. \A d \in Bits : c[d] # Null => c[d] \in Tree(link) /\ c[d] \in Nodes
  BY <1>1 DEF Closed
<1>3. /\ \A d \in Bits : c[d] = link[<<n, d>>]
      /\ s[0] = left /\ s[1] = right /\ 0 \in Bits /\ 1 \in Bits
      /\ \A d \in Bits : d = 0 \/ d = 1
  BY DEF Bits
<1>4. \A d \in Bits : s[d] \in Seq(Keys) /\ Rising(s[d]) /\ Members(s[d]) = Side(d)
  <2>1. << >> \in Seq(Keys) /\ Rising(<< >>) /\ Members(<< >>) = {}
    BY DEF Rising, Members
  <2>2. \A d \in Bits : Listed(s[d], c[d])
    BY <1>3
  <2> HIDE DEF s, c
  <2> QED
    BY <2>1, <2>2 DEF Listed
<1> HIDE DEF c, s
<1>5. ASSUME NEW d \in Bits, NEW x \in Side(d)
      PROVE  /\ x \in Keys /\ Matches(k, x) /\ Len(k) < Len(x) /\ BitAt(x, Len(k)) = d
             /\ x \in Sub(n) /\ x # k
  <2>1. c[d] # Null
    BY <1>5
  <2>2. PICK m \in Tree(link) : /\ x = KeyOf[m] /\ value[m] # Null
                                /\ Matches(KeyOf[c[d]], KeyOf[m])
    BY <1>5, <2>1 DEF Sub
  <2>3. x \in Keys /\ KeyOf[c[d]] \in Keys /\ c[d] \in Nodes /\ Len(KeyOf[c[d]]) \in Nat
    BY <1>1, <1>2, <2>1, <2>2, NodesHaveKeys
  <2>4. /\ Len(k) < Len(KeyOf[c[d]]) /\ Matches(k, KeyOf[c[d]])
        /\ BitAt(KeyOf[c[d]], Len(k)) = d
    BY <1>1, <1>3, <2>1 DEF Ordered
  <2>5. Matches(k, x) /\ Len(KeyOf[c[d]]) <= Len(x) /\ Len(x) \in Nat
    BY <1>1, <2>2, <2>3, <2>4, MatchOrder, KeyTypes
  <2>6. BitAt(KeyOf[c[d]], Len(k)) = BitAt(x, Len(k))
    BY <1>1, <2>2, <2>3, <2>4, MatchBits
  <2>7. Len(k) < Len(x)
    BY <1>1, <2>3, <2>4, <2>5
  <2>8. x \in Sub(n)
    BY <2>2, <2>5 DEF Sub
  <2>9. x # k
    BY <1>1, <2>5, <2>7
  <2> QED
    BY <2>3, <2>4, <2>5, <2>6, <2>7, <2>8, <2>9
<1>6. ASSUME NEW x \in Sub(n), x # k
      PROVE  \E d \in Bits : x \in Side(d)
  <2>1. PICK m \in Tree(link) : x = KeyOf[m] /\ value[m] # Null /\ Matches(k, KeyOf[m])
    BY <1>6 DEF Sub
  <2>2. m # n /\ x \in Keys /\ Len(x) \in Nat
    BY <1>1, <1>6, <2>1, NodesHaveKeys
  <2> DEFINE d == BitAt(KeyOf[m], Len(k))
  <2>3. link[<<n, d>>] # Null /\ Matches(KeyOf[link[<<n, d>>]], KeyOf[m])
    BY <1>1, <2>1, <2>2, AllPlaced DEF Placed
  <2>4. d \in Bits
    <3>1. Len(k) < Len(x)
      BY <1>1, <1>6, <2>1, <2>2, MatchOrder
    <3> QED
      BY <1>1, <2>1, <2>2, <3>1, KeyTypes
  <2> HIDE DEF d
  <2>5. x \in Side(d)
    BY <1>3, <2>1, <2>3, <2>4 DEF Sub
  <2> QED
    BY <2>4, <2>5
<1>7. value[n] # Null <=> k \in Sub(n)
  <2>1. Matches(k, k)
    BY <1>1, MatchOrder
  <2>2. ASSUME k \in Sub(n)
        PROVE  value[n] # Null
    <3>1. PICK m \in Tree(link) : k = KeyOf[m] /\ value[m] # Null
      BY <2>2 DEF Sub
    <3>2. m = n
      BY <1>1, <3>1, AllPlaced DEF Placed
    <3> QED
      BY <3>1, <3>2
  <2> QED
    BY <2>1, <2>2 DEF Sub
<1> DEFINE own == Own(n)
           both == s[0] \o s[1]
<1>8. own \in Seq(Keys) /\ Rising(own) /\ Members(own) = Sub(n) \cap {k}
  <2>1. CASE value[n] = Null
    <3>1. own = << >>
      BY <2>1 DEF Own
    <3> QED
      BY <1>7, <2>1, <3>1 DEF Rising, Members
  <2>2. CASE value[n] # Null
    <3>1. own = <<k>>
      BY <2>2 DEF Own
    <3>2. own \in Seq(Keys) /\ DOMAIN own = {1} /\ own[1] = k
      BY <1>1, <3>1
    <3> QED
      BY <1>7, <2>2, <3>2 DEF Rising, Members
  <2> QED
    BY <2>1, <2>2
<1> HIDE DEF Side, own, k
<1>9. both \in Seq(Keys) /\ Rising(both) /\ Members(both) = Side(0) \cup Side(1)
  <2>1. \A x \in Side(0), y \in Side(1) : Before(x, y)
    BY <1>1, <1>3, <1>5, SidesBefore
  <2> QED
    BY <1>3, <1>4, <2>1, JoinRises
<1> HIDE DEF both
<1>10. own \o both \in Seq(Keys) /\ Rising(own \o both)
       /\ Members(own \o both) = (Sub(n) \cap {k}) \cup (Side(0) \cup Side(1))
  <2>1. \A x \in Members(own), y \in Members(both) : Before(x, y)
    BY <1>1, <1>3, <1>5, <1>8, <1>9, CoverBefore
  <2> QED
    BY <1>8, <1>9, <2>1, JoinRises
<1>11. Sub(n) = (Sub(n) \cap {k}) \cup (Side(0) \cup Side(1))
  BY <1>3, <1>5, <1>6
<1>12. Visit(n, left, right) = own \o both
  <2>1. Visit(n, left, right) = own \o left \o right
    BY DEF Visit, own
  <2>2. left \in Seq(Keys) /\ right \in Seq(Keys)
    BY <1>3, <1>4
  <2>3. (own \o left) \o right = own \o (left \o right)
    BY <1>8, <2>2, ConcatAssociative
  <2> QED
    BY <1>3, <2>1, <2>3 DEF both
<1> QED
  BY <1>1, <1>10, <1>11, <1>12 DEF Listed

\* The recursion of walk(): after i levels the lists of all nodes whose keys
\* leave room for no more are complete.
LEMMA WalkLists ==
  ASSUME SafeInv
  PROVE  Listed(Walked, link[RootSlot])
<1> DEFINE M == Nodes \cup {Null}
           D == [M -> Seq(Keys)]
           N == Width + 1
           Deeper(g, n) == IF n = Null THEN << >>
                           ELSE Visit(n, g[link[<<n, 0>>]], g[link[<<n, 1>>]])
           first == [n \in M |-> << >>]
           step == [g \in D |-> [n \in M |-> Deeper(g, n)]]
           Body(u) == [i \in 0 .. N |-> [n \in M |->
                          IF n = Null \/ i = 0 THEN << >>
                          ELSE Visit(n, u[i - 1][link[<<n, 0>>]], u[i - 1][link[<<n, 1>>]])]]
           Under == CHOOSE u : u = Body(u)
<1>1. /\ link \in Links /\ Ordered(link) /\ Tree(link) \subseteq Nodes
      /\ Closed(link, Tree(link)) /\ Width \in Nat /\ N \in Nat
  BY TreeLemma, TrieAssumption DEF SafeInv, Typed, HeapOK
<1>2. /\ \A n \in Nodes : n \in M /\ link[<<n, 0>>] \in M /\ link[<<n, 1>>] \in M
      /\ Null \in M /\ << >> \in Seq(Keys)
  BY <1>1, SlotFacts DEF Links
<1>3. \A g \in D : [n \in M |-> Deeper(g, n)] \in D
  <2> SUFFICES ASSUME NEW g \in D, NEW n \in M
               PROVE  Deeper(g, n) \in Seq(Keys)
    OBVIOUS
  <2>1. CASE n = Null
    BY <1>2, <2>1
  <2>2. CASE n # Null
    <3>1. n \in Nodes /\ g[link[<<n, 0>>]] \in Seq(Keys) /\ g[link[<<n, 1>>]] \in Seq(Keys)
      BY <1>2, <2>2
    <3>2. Own(n) \in Seq(Keys)
      <4>1. KeyOf[n] \in Keys
        BY <3>1, NodesHaveKeys
      <4> QED
        BY <1>2, <4>1 DEF Own
    <3> QED
      BY <2>2, <3>1, <3>2 DEF Visit
  <2> QED
    BY <2>1, <2>2
<1>4. first \in D
  BY <1>2
<1> HIDE DEF D, Deeper, first, M
<1>5. step \in [D -> D] /\ \A g \in D : step[g] = [n \in M |-> Deeper(g, n)]
  BY <1>3
<1>6. PICK f : IsIteration(f, D, first, step, N)
  <2> HIDE DEF step, N
  <2> QED
    BY <1>1, <1>4, <1>5, Iterates
<1>7. /\ f \in [0 .. N -> D] /\ f[0] = first
      /\ \A i \in 1 .. N : f[i] = [n \in M |-> Deeper(f[i - 1], n)]
  <2>1. f \in [0 .. N -> D] /\ f[0] = first /\ \A i \in 1 .. N : f[i] = step[f[i - 1]]
    BY <1>6 DEF IsIteration
  <2>2. ASSUME NEW i \in 1 .. N
        PROVE  f[i] = [n \in M |-> Deeper(f[i - 1], n)]
    <3>1. f[i - 1] \in D
      BY <1>1, <2>1
    <3> HIDE DEF step
    <3> QED
      BY <1>5, <2>1, <3>1
  <2> QED
    BY <2>1, <2>2
<1> HIDE DEF step
<1>8. f = Body(f)
  <2> DEFINE row(i) == [n \in M |->
                IF n = Null \/ i = 0 THEN << >>
                ELSE Visit(n, f[i - 1][link[<<n, 0>>]], f[i - 1][link[<<n, 1>>]])]
  <2>1. ASSUME NEW i \in 0 .. N
        PROVE  f[i] = row(i)
    <3>1. CASE i = 0
      <4>1. row(i) = [n \in M |-> << >>]
        BY <3>1
      <4> HIDE DEF row
      <4> QED
        BY <1>7, <3>1, <4>1 DEF first
    <3>2. CASE i # 0
      <4>1. i \in 1 .. N
        BY <1>1, <3>2
      <4>2. f[i] = [n \in M |-> Deeper(f[i - 1], n)]
        BY <1>7, <4>1
      <4>3. ASSUME NEW n \in M
            PROVE  Deeper(f[i - 1], n) =
                   (IF n = Null \/ i = 0 THEN << >>
                    ELSE Visit(n, f[i - 1][link[<<n, 0>>]], f[i - 1][link[<<n, 1>>]]))
        BY <3>2 DEF Deeper
      <4>4. [n \in M |-> Deeper(f[i - 1], n)] = row(i)
        BY <4>3
      <4> HIDE DEF row
      <4> QED
        BY <4>2, <4>4
    <3> QED
      BY <3>1, <3>2
  <2>2. Body(f) = [i \in 0 .. N |-> row(i)]
    OBVIOUS
  <2>3. f = [i \in 0 .. N |-> f[i]]
    BY <1>7
  <2> HIDE DEF row, Body
  <2> QED
    BY <2>1, <2>2, <2>3
<1>9. Under = Body(Under)
  <2> HIDE DEF Body
  <2> QED
    BY <1>8
<1>10. Walked = Under[N][link[RootSlot]]
  BY DEF Walked, M
<1> HIDE DEF Under
<1>11. \A i \in 0 .. N, n \in M :
         Under[i][n] = IF n = Null \/ i = 0 THEN << >>
                       ELSE Visit(n, Under[i - 1][link[<<n, 0>>]], Under[i - 1][link[<<n, 1>>]])
  <2>1. \A i \in 0 .. N, n \in M :
          Body(Under)[i][n] = IF n = Null \/ i = 0 THEN << >>
                       ELSE Visit(n, Under[i - 1][link[<<n, 0>>]], Under[i - 1][link[<<n, 1>>]])
    OBVIOUS
  <2> HIDE DEF Body
  <2> QED
    BY <1>9, <2>1
<1> HIDE DEF Body
<1> DEFINE S == {i \in 0 .. N : \A n \in Tree(link) :
                                  Len(KeyOf[n]) + i >= N => Listed(Under[i][n], n)}
<1>12. 0 .. N \subseteq S
  <2>1. 0 \in S
    <3>1. ASSUME NEW n \in Tree(link)
          PROVE  ~(Len(KeyOf[n]) + 0 >= N)
      BY <1>1, NodesHaveKeys
    <3> QED
      BY <1>1, <3>1
  <2>2. ASSUME NEW i \in 1 .. N, i - 1 \in S
        PROVE  i \in S
    <3> SUFFICES ASSUME NEW n \in Tree(link), Len(KeyOf[n]) + i >= N
                 PROVE  Listed(Under[i][n], n)
      BY <1>1
    <3>1. n \in Nodes /\ n \in M /\ n # Null /\ Len(KeyOf[n]) \in Nat
      BY <1>1, NodesHaveKeys DEF M
    <3>2. i - 1 \in 0 .. N /\ i \in 0 .. N /\ i # 0 /\ i \in Nat
      BY <1>1
    <3>3. Under[i][n] = Visit(n, Under[i - 1][link[<<n, 0>>]], Under[i - 1][link[<<n, 1>>]])
      BY <1>11, <3>1, <3>2
    <3>4. ASSUME NEW d \in Bits
          PROVE  Listed(Under[i - 1][link[<<n, d>>]], link[<<n, d>>])
      <4>1. CASE link[<<n, d>>] = Null
        BY <1>2, <1>11, <3>2, <4>1 DEF Listed
      <4>2. CASE link[<<n, d>>] # Null
        <5> DEFINE c == link[<<n, d>>]
        <5>1. c \in Tree(link) /\ Len(KeyOf[c]) > Len(KeyOf[n])
          BY <1>1, <3>1, <4>2 DEF Closed, Ordered
        <5> HIDE DEF c
        <5>2. Len(KeyOf[c]) \in Nat
          BY <1>1, <5>1, NodesHaveKeys
        <5>3. Len(KeyOf[c]) + (i - 1) >= N
          BY <1>1, <3>1, <3>2, <5>1, <5>2
        <5>4. Listed(Under[i - 1][c], c)
          BY <2>2, <5>1, <5>3
        <5> QED
          BY <5>4 DEF c
      <4> QED
        BY <4>1, <4>2
    <3>5. 0 \in Bits /\ 1 \in Bits
      BY DEF Bits
    <3> QED
      BY <3>3, <3>4, <3>5, VisitLists
  <2> HIDE DEF S
  <2> QED
    BY <1>1, <2>1, <2>2, CountUp
<1>13. CASE link[RootSlot] = Null
  <2>1. N \in 0 .. N
    BY <1>1
  <2> QED
    BY <1>2, <1>10, <1>11, <1>13, <2>1 DEF Listed
<1>14. CASE link[RootSlot] # Null
  <2> DEFINE r == link[RootSlot]
  <2>1. r \in Tree(link)
    BY <1>1, <1>14 DEF Closed
  <2> HIDE DEF r
  <2>2. Len(KeyOf[r]) \in Nat
    BY <1>1, <2>1, NodesHaveKeys
  <2>3. N \in 0 .. N /\ Len(KeyOf[r]) + N >= N
    <3>1. N \in Nat
      BY <1>1
    <3> HIDE DEF N
    <3> QED
      BY <2>2, <3>1
  <2>4. N \in S
    <3> HIDE DEF S
    <3> QED
      BY <1>12, <2>3
  <2>5. Listed(Under[N][r], r)
    BY <2>1, <2>3, <2>4
  <2> QED
    BY <1>10, <2>5 DEF r
<1> QED
  BY <1>13, <1>14

\* What for_each() lists is what is stored.
LEMMA WalkedStored ==
  ASSUME SafeInv
  PROVE  Walked \in Seq(Keys) /\ Rising(Walked) /\ Members(Walked) = Stored
<1> DEFINE r == link[RootSlot]
<1>1. /\ link \in Links /\ Ordered(link) /\ Tree(link) \subseteq Nodes
  BY TreeLemma DEF SafeInv, Typed, HeapOK
<1>2. Listed(Walked, r)
  BY WalkLists
<1>3. ASSUME NEW p \in Stored
      PROVE  \E n \in Tree(link) : KeyOf[n] = p /\ value[n] # Null
  BY RouteNode DEF Stored
<1>4. \A n \in Tree(link) : value[n] # Null => KeyOf[n] \in Stored
  <2> SUFFICES ASSUME NEW n \in Tree(link), value[n] # Null
               PROVE  KeyOf[n] \in Prefixes /\ table[KeyOf[n]] # Null
    BY DEF Stored
  <2> QED
    BY ValueRoutes
<1> HIDE DEF r
<1>5. CASE r = Null
  <2>1. Tree(link) = {}
    BY <1>1, <1>5, EmptyTree DEF r
  <2>2. Stored = {}
    BY <1>3, <2>1
  <2>3. << >> \in Seq(Keys) /\ Rising(<< >>) /\ Members(<< >>) = {}
    BY DEF Rising, Members
  <2> QED
    BY <1>2, <1>5, <2>2, <2>3 DEF Listed
<1>6. CASE r # Null
  <2>1. \A n \in Tree(link) : Matches(KeyOf[r], KeyOf[n])
    BY <1>1, RootMatches DEF r
  <2>2. Sub(r) = {KeyOf[n] : n \in {o \in Tree(link) : value[o] # Null}}
    BY <2>1 DEF Sub
  <2>3. Sub(r) = Stored
    <3>1. \A p \in Sub(r) : p \in Stored
      BY <1>4, <2>2
    <3>2. \A p \in Stored : p \in Sub(r)
      BY <1>3, <2>2
    <3> QED
      BY <3>1, <3>2
  <2> QED
    BY <1>2, <1>6, <2>3 DEF Listed
<1> QED
  BY <1>5, <1>6

-----------------------------------------------------------------------------
(* What the commands report *)

\* A strictly increasing vector begins every other one with the same members.
LEMMA RisingBegins ==
  ASSUME NEW s \in Seq(Keys), NEW t \in Seq(Keys), Rising(s), Rising(t),
         Members(s) = Members(t)
  PROVE  Len(s) <= Len(t) /\ \A i \in 1 .. Len(s) : s[i] = t[i]
<1> DEFINE S == {n \in 0 .. Len(s) : n <= Len(t) /\ \A i \in 1 .. n : s[i] = t[i]}
<1>1. /\ Len(s) \in Nat /\ DOMAIN s = 1 .. Len(s) /\ \A i \in 1 .. Len(s) : s[i] \in Keys
      /\ Len(t) \in Nat /\ DOMAIN t = 1 .. Len(t) /\ \A i \in 1 .. Len(t) : t[i] \in Keys
      /\ Width \in Nat
  BY TrieAssumption
<1>2. /\ \A i \in 1 .. Len(s) : \E j \in 1 .. Len(t) : t[j] = s[i]
      /\ \A j \in 1 .. Len(t) : \E i \in 1 .. Len(s) : s[i] = t[j]
  BY <1>1 DEF Members
<1>3. /\ \A i, j \in 1 .. Len(s) : i < j => Before(s[i], s[j])
      /\ \A i, j \in 1 .. Len(t) : i < j => Before(t[i], t[j])
  BY <1>1 DEF Rising
<1>4. 0 \in S
  BY <1>1
<1>5. ASSUME NEW n \in 1 .. Len(s), n - 1 \in S
      PROVE  n \in S
  <2>1. n \in Nat /\ n - 1 <= Len(t) /\ \A i \in 1 .. n - 1 : s[i] = t[i]
    BY <1>1, <1>5
  <2>2. PICK j \in 1 .. Len(t) : t[j] = s[n]
    BY <1>2
  <2>3. s[n] \in Keys /\ ~Before(s[n], s[n])
    BY <1>1, BeforeOrders
  <2>4. j >= n
    <3> SUFFICES ASSUME j < n
                 PROVE  FALSE
      BY <1>1, <2>1
    <3>1. j \in 1 .. n - 1 /\ j \in 1 .. Len(s)
      BY <1>1, <2>1
    <3>2. s[j] = s[n]
      BY <2>1, <2>2, <3>1
    <3> QED
      BY <1>3, <2>3, <3>1, <3>2
  <2>5. n \in 1 .. Len(t)
    BY <1>1, <2>1, <2>4
  <2>6. t[n] = s[n]
    <3> SUFFICES ASSUME t[n] # s[n]
                 PROVE  FALSE
      OBVIOUS
    <3>1. n < j
      BY <1>1, <2>1, <2>2, <2>4
    <3>2. Before(t[n], s[n])
      BY <1>3, <2>2, <2>5, <3>1
    <3>3. PICK k \in 1 .. Len(s) : s[k] = t[n]
      BY <1>2, <2>5
    <3>4. k > n
      <4> SUFFICES ASSUME k < n
                   PROVE  FALSE
        BY <1>1, <2>1, <3>3
      <4>1. k \in 1 .. n - 1 /\ k \in 1 .. Len(t)
        BY <1>1, <2>1, <2>5
      <4>2. t[k] = t[n] /\ Before(t[k], t[n])
        BY <1>3, <2>1, <2>5, <3>3, <4>1
      <4> QED
        BY <1>1, <2>5, <4>2, BeforeOrders
    <3>5. Before(s[n], t[n])
      BY <1>3, <3>3, <3>4
    <3> QED
      BY <1>1, <2>3, <2>5, <3>2, <3>5, BeforeOrders
  <2>7. \A i \in 1 .. n : s[i] = t[i]
    <3>1. \A i \in 1 .. n : i = n \/ i \in 1 .. n - 1
      BY <2>1
    <3> QED
      BY <2>1, <2>6, <3>1
  <2> QED
    BY <2>5, <2>7
<1> HIDE DEF S
<1>6. 0 .. Len(s) \subseteq S
  BY <1>1, <1>4, <1>5, CountUp
<1>7. Len(s) \in S
  BY <1>1, <1>6
<1> QED
  BY <1>7 DEF S

\* So there is one sorted vector of a set.
LEMMA RisingUnique ==
  ASSUME NEW s \in Seq(Keys), NEW t \in Seq(Keys), Rising(s), Rising(t),
         Members(s) = Members(t)
  PROVE  s = t
<1>1. Len(s) <= Len(t) /\ Len(t) <= Len(s) /\ \A i \in 1 .. Len(s) : s[i] = t[i]
  BY RisingBegins
<1>2. Len(s) \in Nat /\ Len(t) \in Nat
  OBVIOUS
<1>3. Len(s) = Len(t)
  BY <1>1, <1>2
<1> QED
  BY <1>1, <1>3

\* A vector without duplicates is as long as the set of its members is large.
LEMMA DistinctCounts ==
  ASSUME NEW s \in Seq(Keys), Distinct(s)
  PROVE  Cardinality(Members(s)) = Len(s)
<1> DEFINE I == 1 .. Len(s)
           f == [i \in I |-> s[i]]
<1>1. Len(s) \in Nat /\ DOMAIN s = I
  OBVIOUS
<1>2. IsFiniteSet(I) /\ Cardinality(I) = Len(s)
  BY <1>1, FS_Interval
<1>3. f \in Bijection(I, Members(s))
  <2>1. f \in [I -> Members(s)] /\ \A x \in Members(s) : \E i \in I : f[i] = x
    BY <1>1 DEF Members
  <2>2. \A i, j \in I : f[i] = f[j] => i = j
    BY <1>1 DEF Distinct
  <2> HIDE DEF f, I
  <2> QED
    BY <2>1, <2>2 DEF Bijection, Injection, Surjection, IsInjective
<1> HIDE DEF f, I
<1> QED
  BY <1>2, <1>3, FS_Bijection DEF ExistsBijection

\* size() is the number of prefixes loaded, and for_each() lists them in the
\* order of the sorted vector.
LEMMA BuiltLists ==
  ASSUME CliInv, Built
  PROVE  /\ prefixes \in Seq(Keys) /\ Members(prefixes) = Stored
         /\ size = Len(prefixes) /\ Walked = prefixes
<1>1. /\ TrieInv /\ Resting /\ Rising(prefixes) /\ next = Len(prefixes)
      /\ Routes(table) = First(next) /\ prefixes \in Seq(Keys)
  BY DEF CliInv, Built, SourceOK, SourceTyped
<1>2. SafeInv /\ CountOK /\ wpc = "idle"
  BY <1>1 DEF TrieInv, Resting
<1>3. First(Len(prefixes)) = Members(prefixes)
  BY <1>1 DEF First, Members
<1>4. Members(prefixes) = Routes(table) /\ Stored = Routes(table)
  BY <1>1, <1>3 DEF Stored, Routes
<1>5. size = Len(prefixes)
  <2>1. Cardinality(Members(prefixes)) = Len(prefixes)
    BY <1>1, RisingDistinct, DistinctCounts
  <2>2. size = Cardinality(Routes(table)) + 0
    BY <1>2 DEF CountOK
  <2>3. Len(prefixes) \in Nat
    BY <1>1
  <2> QED
    BY <1>4, <2>1, <2>2, <2>3
<1>6. Walked = prefixes
  BY <1>1, <1>2, <1>4, WalkedStored, RisingUnique
<1> QED
  BY <1>1, <1>4, <1>5, <1>6

\* for_each() visits every stored prefix once and in order (trie.hpp:141),
\* whatever history gave the trie its shape.
THEOREM WalksAreSorted == CliSpec => []WalkInOrder
<1>1. CliInv => WalkInOrder
  <2> SUFFICES ASSUME CliInv
               PROVE  WalkInOrder
    OBVIOUS
  <2>1. SafeInv
    BY CliTrie DEF TrieInv
  <2>2. Rising(Walked) /\ Members(Walked) = Stored
    BY <2>1, WalkedStored
  <2> QED
    BY <2>2 DEF WalkInOrder, Rising, Members
<1> QED
  BY <1>1, CliAlways, PTL

\* find_exact() answers for the very prefix it is asked, and lookup() answers
\* the longest match (trie.hpp:79-116), between any two stores of the writer.
THEOREM WalksAnswerTheTable == CliSpec => []WalksFindTheTable
<1>1. CliInv => WalksFindTheTable
  BY CliTrie, WalksFind DEF TrieInv
<1> QED
  BY <1>1, CliAlways, PTL

\* A step that depends on how many there have been.
Steps(D, n) == [(1 .. n) \X D -> D]

IsCounted(f, D, first, step, n) ==
    /\ f \in [0 .. n -> D]
    /\ f[0] = first
    /\ \A i \in 1 .. n : f[i] = step[<<i, f[i - 1]>>]

\* It can be iterated as well.
LEMMA IteratesAt ==
  ASSUME NEW D, NEW first \in D, NEW n \in Nat, NEW step \in Steps(D, n)
  PROVE  \E f : IsCounted(f, D, first, step, n)
<1> DEFINE E == (0 .. n) \X D
           Moved(x) == IF x[1] < n THEN <<x[1] + 1, step[<<x[1] + 1, x[2]>>]>> ELSE x
           move == [x \in E |-> Moved(x)]
<1>1. <<0, first>> \in E
  OBVIOUS
<1>2. \A x \in E : x[1] \in 0 .. n /\ x[2] \in D /\ x = <<x[1], x[2]>>
  OBVIOUS
<1>3. ASSUME NEW i \in 0 .. n, NEW d \in D, i < n
      PROVE  <<i + 1, step[<<i + 1, d>>]>> \in E
  <2>1. i + 1 \in 1 .. n /\ i + 1 \in 0 .. n
    BY <1>3
  <2>2. <<i + 1, d>> \in (1 .. n) \X D
    BY <2>1
  <2>3. step[<<i + 1, d>>] \in D
    BY <2>2 DEF Steps
  <2> QED
    BY <2>1, <2>3
<1>4. \A x \in E : Moved(x) \in E
  <2> HIDE DEF E
  <2> SUFFICES ASSUME NEW x \in E
               PROVE  Moved(x) \in E
    OBVIOUS
  <2>1. x[1] \in 0 .. n /\ x[2] \in D
    BY <1>2
  <2> QED
    BY <1>3, <2>1
<1> HIDE DEF E, Moved
<1>5. move \in [E -> E] /\ \A x \in E : move[x] = Moved(x)
  BY <1>4
<1> HIDE DEF move
<1>6. PICK g : IsIteration(g, E, <<0, first>>, move, n)
  BY <1>1, <1>5, Iterates
<1>7. /\ g \in [0 .. n -> E] /\ g[0] = <<0, first>>
      /\ \A i \in 1 .. n : g[i] = move[g[i - 1]]
  BY <1>6 DEF IsIteration
<1>8. ASSUME NEW i \in 1 .. n, g[i - 1][1] = i - 1
      PROVE  g[i] = <<i, step[<<i, g[i - 1][2]>>]>>
  <2>1. i - 1 \in 0 .. n /\ i - 1 < n /\ (i - 1) + 1 = i
    OBVIOUS
  <2>2. g[i - 1] \in E
    BY <1>7, <2>1
  <2>3. g[i] = Moved(g[i - 1])
    BY <1>5, <1>7, <2>2
  <2> QED
    BY <1>8, <2>1, <2>3 DEF Moved
<1> DEFINE S == {i \in 0 .. n : g[i][1] = i}
<1>9. 0 .. n \subseteq S
  <2>1. 0 \in S
    BY <1>7
  <2>2. ASSUME NEW i \in 1 .. n, i - 1 \in S
        PROVE  i \in S
    <3>1. g[i] = <<i, step[<<i, g[i - 1][2]>>]>>
      BY <1>8, <2>2
    <3> QED
      BY <3>1
  <2> HIDE DEF S
  <2> QED
    BY <2>1, <2>2, CountUp
<1> DEFINE f == [i \in 0 .. n |-> g[i][2]]
<1>10. f \in [0 .. n -> D]
  BY <1>2, <1>7
<1>11. f[0] = first
  BY <1>7
<1>12. ASSUME NEW i \in 1 .. n
       PROVE  f[i] = step[<<i, f[i - 1]>>]
  <2>1. i \in 0 .. n /\ i - 1 \in 0 .. n
    OBVIOUS
  <2>2. g[i - 1][1] = i - 1
    BY <1>9, <2>1
  <2>3. g[i] = <<i, step[<<i, g[i - 1][2]>>]>>
    BY <1>8, <2>2
  <2>4. f[i] = g[i][2] /\ f[i - 1] = g[i - 1][2]
    BY <2>1
  <2> HIDE DEF f
  <2> QED
    BY <2>3, <2>4
<1> HIDE DEF f
<1> QED
  BY <1>10, <1>11, <1>12 DEF IsCounted

\* What verify's brute force has found after i prefixes.
WantOK(a, i, s) ==
    /\ s.best \in Int /\ s.want \in 0 .. i
    /\ s.want = 0 => s.best = -1 /\ \A j \in 1 .. i : ~Matches(prefixes[j], a)
    /\ s.want # 0 =>
        /\ s.best = Len(prefixes[s.want]) /\ Matches(prefixes[s.want], a)
        /\ \A j \in 1 .. i : Matches(prefixes[j], a) => Len(prefixes[j]) <= s.best

\* The brute force finds the longest prefix of the vector for the address.
LEMMA BruteForceFinds ==
  ASSUME prefixes \in Seq(Keys), NEW a \in Hosts
  PROVE  LET w == BruteForce(a)
         IN  /\ w \in 0 .. Len(prefixes)
             /\ w = 0 => \A j \in 1 .. Len(prefixes) : ~Matches(prefixes[j], a)
             /\ w # 0 =>
                  /\ Matches(prefixes[w], a)
                  /\ \A j \in 1 .. Len(prefixes) :
                        Matches(prefixes[j], a) => Len(prefixes[j]) <= Len(prefixes[w])
<1> DEFINE N == Len(prefixes)
           D == [best : Int, want : Nat]
           first == [best |-> -1, want |-> 0]
           See(i, s) == IF Matches(prefixes[i], a) /\ Len(prefixes[i]) > s.best
                        THEN [best |-> Len(prefixes[i]), want |-> i]
                        ELSE s
           step == [x \in (1 .. N) \X D |-> See(x[1], x[2])]
           Body(u) == [i \in 0 .. N |-> IF i = 0 THEN first ELSE See(i, u[i - 1])]
           Want == CHOOSE u : u = Body(u)
<1>1. N \in Nat /\ \A i \in 1 .. N : prefixes[i] \in Keys /\ Len(prefixes[i]) \in Nat
  BY KeyTypes, TrieAssumption
<1>2. first \in D
  OBVIOUS
<1>3. \A i \in 1 .. N, s \in D : See(i, s) \in D
  BY <1>1
<1> HIDE DEF D, See, first
<1>4. /\ step \in [(1 .. N) \X D -> D]
      /\ \A i \in 1 .. N, s \in D : step[<<i, s>>] = See(i, s)
  BY <1>3
<1> HIDE DEF step
<1>5. PICK f \in [0 .. N -> D] :
         f[0] = first /\ \A i \in 1 .. N : f[i] = step[<<i, f[i - 1]>>]
  <2>1. N \in Nat /\ step \in Steps(D, N) /\ first \in D
    BY <1>1, <1>2, <1>4 DEF Steps
  <2> HIDE DEF N
  <2>2. PICK f : IsCounted(f, D, first, step, N)
    BY <2>1, IteratesAt
  <2> QED
    BY <2>2 DEF IsCounted
<1>6. \A i \in 1 .. N : f[i] = See(i, f[i - 1])
  <2> SUFFICES ASSUME NEW i \in 1 .. N
               PROVE  f[i] = See(i, f[i - 1])
    OBVIOUS
  <2>1. i - 1 \in 0 .. N
    BY <1>1
  <2>2. f[i - 1] \in D
    BY <1>5, <2>1
  <2> QED
    BY <1>4, <1>5, <2>2
<1>7. f = Body(f)
  <2>1. \A i \in 0 .. N : f[i] = IF i = 0 THEN first ELSE See(i, f[i - 1])
    BY <1>1, <1>5, <1>6
  <2>2. f = [i \in 0 .. N |-> f[i]]
    BY <1>5
  <2> QED
    BY <2>1, <2>2
<1>8. Want = Body(Want)
  <2> HIDE DEF Body
  <2> QED
    BY <1>7
<1>9. BruteForce(a) = Want[N].want
  BY DEF BruteForce, See, first
<1> HIDE DEF Want
<1>10. Want[0] = first /\ \A i \in 1 .. N : Want[i] = See(i, Want[i - 1])
  <2>1. \A i \in 0 .. N : Body(Want)[i] = IF i = 0 THEN first ELSE See(i, Want[i - 1])
    OBVIOUS
  <2> HIDE DEF Body
  <2>2. \A i \in 0 .. N : Want[i] = IF i = 0 THEN first ELSE See(i, Want[i - 1])
    BY <1>8, <2>1
  <2> QED
    BY <1>1, <2>2
<1> HIDE DEF Body
<1> DEFINE S == {i \in 0 .. N : WantOK(a, i, Want[i])}
<1>11. N \in S
  <2>1. 0 \in S
    BY <1>1, <1>10 DEF WantOK, first
  <2>2. ASSUME NEW i \in 1 .. N, i - 1 \in S
        PROVE  i \in S
    <3> DEFINE s == Want[i - 1]
               p == prefixes[i]
    <3>1. /\ WantOK(a, i - 1, s) /\ Want[i] = See(i, s)
          /\ i \in Nat /\ i \in 0 .. N /\ Len(p) \in Nat
      BY <1>1, <1>10, <2>2
    <3> HIDE DEF s, S
    <3>2. \A j \in 1 .. i : j = i \/ j \in 1 .. i - 1
      BY <3>1
    <3>3. CASE Matches(p, a) /\ Len(p) > s.best
      <4>1. Want[i] = [best |-> Len(p), want |-> i]
        BY <3>1, <3>3 DEF See
      <4>2. \A j \in 1 .. i : Matches(prefixes[j], a) => Len(prefixes[j]) <= Len(p)
        <5> SUFFICES ASSUME NEW j \in 1 .. i - 1, Matches(prefixes[j], a)
                     PROVE  Len(prefixes[j]) <= Len(p)
          BY <3>1, <3>2
        <5>1. s.want # 0 /\ Len(prefixes[j]) <= s.best /\ s.best \in Int
          BY <3>1 DEF WantOK
        <5>2. Len(prefixes[j]) \in Nat
          BY <1>1
        <5> QED
          BY <3>1, <3>3, <5>1, <5>2
      <4> QED
        BY <3>1, <3>3, <4>1, <4>2 DEF WantOK, S
    <3>4. CASE ~(Matches(p, a) /\ Len(p) > s.best)
      <4>1. Want[i] = s
        BY <3>1, <3>4 DEF See
      <4>2. /\ s.best \in Int /\ s.want \in 0 .. i - 1
            /\ s.want = 0 => s.best = -1
        BY <3>1 DEF WantOK
      <4>3. Matches(p, a) => Len(p) <= s.best /\ s.want # 0
        BY <3>1, <3>4, <4>2
      <4>4. WantOK(a, i, s)
        BY <3>1, <3>2, <4>2, <4>3 DEF WantOK
      <4> QED
        BY <3>1, <4>1, <4>4 DEF S
    <3> QED
      BY <3>3, <3>4
  <2>3. N \in 0 .. N
    BY <1>1
  <2> HIDE DEF S, N
  <2> QED
    BY <1>1, <2>1, <2>2, <2>3, CountUp
<1>12. WantOK(a, N, Want[N])
  BY <1>11
<1> QED
  BY <1>9, <1>12 DEF WantOK

\* What lookup's second search has found after i prefixes.
ScanOK(a, i, s) ==
    /\ s \in Keys /\ Matches(s, a)
    /\ \A j \in 1 .. i : Matches(prefixes[j], a) => Len(prefixes[j]) <= Len(s)
    /\ s = << >> \/ s \in First(i)

\* So does lookup's second search, beginning with the default route.
LEMMA MatchedFinds ==
  ASSUME prefixes \in Seq(Keys), NEW a \in Hosts
  PROVE  ScanOK(a, Len(prefixes), Matched(a))
<1> DEFINE N == Len(prefixes)
           See(i, s) == IF Matches(prefixes[i], a) /\ Len(prefixes[i]) >= Len(s)
                        THEN prefixes[i] ELSE s
           step == [x \in (1 .. N) \X Keys |-> See(x[1], x[2])]
           Body(u) == [i \in 0 .. N |-> IF i = 0 THEN << >> ELSE See(i, u[i - 1])]
           Scan == CHOOSE u : u = Body(u)
<1>1. N \in Nat /\ \A i \in 1 .. N : prefixes[i] \in Keys /\ Len(prefixes[i]) \in Nat
  BY KeyTypes, TrieAssumption
<1>2. << >> \in Keys /\ Matches(<< >>, a)
  BY NoBits, HostsAreKeys, TrieAssumption DEF Matches
<1>3. \A i \in 1 .. N, s \in Keys : See(i, s) \in Keys
  BY <1>1
<1> HIDE DEF See
<1>4. /\ step \in [(1 .. N) \X Keys -> Keys]
      /\ \A i \in 1 .. N, s \in Keys : step[<<i, s>>] = See(i, s)
  BY <1>3
<1> HIDE DEF step
<1>5. PICK f \in [0 .. N -> Keys] :
         f[0] = << >> /\ \A i \in 1 .. N : f[i] = step[<<i, f[i - 1]>>]
  <2>1. N \in Nat /\ step \in Steps(Keys, N) /\ << >> \in Keys
    BY <1>1, <1>2, <1>4 DEF Steps
  <2> HIDE DEF N
  <2>2. PICK f : IsCounted(f, Keys, << >>, step, N)
    BY <2>1, IteratesAt
  <2> QED
    BY <2>2 DEF IsCounted
<1>6. \A i \in 1 .. N : f[i] = See(i, f[i - 1])
  <2> SUFFICES ASSUME NEW i \in 1 .. N
               PROVE  f[i] = See(i, f[i - 1])
    OBVIOUS
  <2>1. i - 1 \in 0 .. N
    BY <1>1
  <2>2. f[i - 1] \in Keys
    BY <1>5, <2>1
  <2> QED
    BY <1>4, <1>5, <2>2
<1>7. f = Body(f)
  <2>1. \A i \in 0 .. N : f[i] = IF i = 0 THEN << >> ELSE See(i, f[i - 1])
    BY <1>1, <1>5, <1>6
  <2>2. f = [i \in 0 .. N |-> f[i]]
    BY <1>5
  <2> QED
    BY <2>1, <2>2
<1>8. Scan = Body(Scan)
  <2> HIDE DEF Body
  <2> QED
    BY <1>7
<1>9. Matched(a) = Scan[N]
  BY DEF Matched, See
<1> HIDE DEF Scan
<1>10. Scan[0] = << >> /\ \A i \in 1 .. N : Scan[i] = See(i, Scan[i - 1])
  <2>1. \A i \in 0 .. N : Body(Scan)[i] = IF i = 0 THEN << >> ELSE See(i, Scan[i - 1])
    OBVIOUS
  <2> HIDE DEF Body
  <2>2. \A i \in 0 .. N : Scan[i] = IF i = 0 THEN << >> ELSE See(i, Scan[i - 1])
    BY <1>8, <2>1
  <2> QED
    BY <1>1, <2>2
<1> HIDE DEF Body
<1> DEFINE S == {i \in 0 .. N : ScanOK(a, i, Scan[i])}
<1>11. N \in S
  <2>1. 0 \in S
    BY <1>1, <1>2, <1>10 DEF ScanOK
  <2>2. ASSUME NEW i \in 1 .. N, i - 1 \in S
        PROVE  i \in S
    <3> DEFINE s == Scan[i - 1]
               p == prefixes[i]
    <3>1. /\ ScanOK(a, i - 1, s) /\ Scan[i] = See(i, s)
          /\ i \in Nat /\ i \in 0 .. N /\ p \in Keys /\ Len(p) \in Nat
      BY <1>1, <1>10, <2>2
    <3> HIDE DEF s, S
    <3>2. (\A j \in 1 .. i : j = i \/ j \in 1 .. i - 1) /\ i \in 1 .. i
      BY <3>1
    <3>3. s \in Keys /\ Len(s) \in Nat
      BY <3>1, KeyTypes, TrieAssumption DEF ScanOK
    <3>4. CASE Matches(p, a) /\ Len(p) >= Len(s)
      <4>1. Scan[i] = p
        BY <3>1, <3>4 DEF See
      <4>2. \A j \in 1 .. i : Matches(prefixes[j], a) => Len(prefixes[j]) <= Len(p)
        <5> SUFFICES ASSUME NEW j \in 1 .. i - 1, Matches(prefixes[j], a)
                     PROVE  Len(prefixes[j]) <= Len(p)
          BY <3>1, <3>2
        <5>1. Len(prefixes[j]) <= Len(s)
          BY <3>1 DEF ScanOK
        <5>2. Len(prefixes[j]) \in Nat
          BY <1>1
        <5> QED
          BY <3>1, <3>3, <3>4, <5>1, <5>2
      <4>3. p \in First(i)
        BY <3>2 DEF First
      <4> QED
        BY <3>1, <3>4, <4>1, <4>2, <4>3 DEF ScanOK, S
    <3>5. CASE ~(Matches(p, a) /\ Len(p) >= Len(s))
      <4>1. Scan[i] = s
        BY <3>1, <3>5 DEF See
      <4>2. Matches(p, a) => Len(p) <= Len(s)
        BY <3>1, <3>3, <3>5
      <4>3. s \in First(i - 1) => s \in First(i)
        BY <3>1 DEF First
      <4>4. ScanOK(a, i, s)
        BY <3>1, <3>2, <4>2, <4>3 DEF ScanOK
      <4> QED
        BY <3>1, <4>1, <4>4 DEF S
    <3> QED
      BY <3>4, <3>5
  <2>3. N \in 0 .. N
    BY <1>1
  <2> HIDE DEF S, N
  <2> QED
    BY <1>1, <2>1, <2>2, <2>3, CountUp
<1> QED
  BY <1>9, <1>11

\* lookup() and the two searches of the reports agree on one address.
LEMMA AnswersAgree ==
  ASSUME CliInv, Built, NEW a \in Hosts
  PROVE  LET got == Lookup(a)
             want == BruteForce(a)
         IN  /\ (got = Null) <=> (want = 0)
             /\ got # Null => /\ EntryOf[got] = prefixes[want]
                              /\ EntryOf[got] = Matched(a)
<1> DEFINE got == Lookup(a)
           want == BruteForce(a)
           m == Matched(a)
           e == EntryOf[got]
<1>1. /\ prefixes \in Seq(Keys) /\ Members(prefixes) = Stored /\ SafeInv
      /\ Width \in Nat /\ Prefixes \subseteq Keys
  BY BuiltLists, CliTrie, TrieAssumption DEF TrieInv
<1>2. /\ Len(prefixes) \in Nat
      /\ \A j \in 1 .. Len(prefixes) : prefixes[j] \in Stored
      /\ \A p \in Stored : \E j \in 1 .. Len(prefixes) : prefixes[j] = p
  BY <1>1 DEF Members
<1>3. /\ got = Null <=> \A p \in Prefixes : table[p] # Null => ~Matches(p, a)
      /\ got # Null => e \in Bound(table, a) /\ \A q \in Bound(table, a) : Len(q) <= Len(e)
  BY <1>1, LookupFinds
<1>4. /\ want \in 0 .. Len(prefixes)
      /\ want = 0 => \A j \in 1 .. Len(prefixes) : ~Matches(prefixes[j], a)
      /\ want # 0 =>
           /\ Matches(prefixes[want], a)
           /\ \A j \in 1 .. Len(prefixes) :
                 Matches(prefixes[j], a) => Len(prefixes[j]) <= Len(prefixes[want])
  BY <1>1, BruteForceFinds
<1>5. ScanOK(a, Len(prefixes), m)
  BY <1>1, MatchedFinds
<1> HIDE DEF got, want, m
<1>6. Bound(table, a) = {p \in Stored : Matches(p, a)}
  BY DEF Bound, Stored
<1>7. got = Null <=> \A p \in Stored : ~Matches(p, a)
  BY <1>3 DEF Stored
<1>8. want # 0 => want \in 1 .. Len(prefixes) /\ prefixes[want] \in Stored
  BY <1>2, <1>4
<1>9. (got = Null) <=> (want = 0)
  BY <1>2, <1>4, <1>7, <1>8
<1>10. ASSUME got # Null
       PROVE  e = prefixes[want] /\ e = m
  <2>1. e \in Stored /\ Matches(e, a) /\ \A q \in Stored : Matches(q, a) => Len(q) <= Len(e)
    BY <1>3, <1>6, <1>10
  <2> HIDE DEF e
  <2>2. want # 0 /\ prefixes[want] \in Stored /\ Matches(prefixes[want], a)
    BY <1>4, <1>8, <1>9, <1>10
  <2>3. PICK j \in 1 .. Len(prefixes) : prefixes[j] = e
    BY <1>2, <2>1
  <2>4. Len(e) <= Len(prefixes[want]) /\ Len(prefixes[want]) <= Len(e)
    BY <1>4, <2>1, <2>2, <2>3
  <2>5. /\ m \in Keys /\ Matches(m, a) /\ Len(e) <= Len(m)
        /\ m = << >> \/ m \in First(Len(prefixes))
    BY <1>5, <2>1, <2>3 DEF ScanOK
  <2>6. m \in First(Len(prefixes)) => m \in Stored
    BY <1>2 DEF First
  <2>7. e \in Keys /\ prefixes[want] \in Keys
    BY <1>1, <2>1, <2>2 DEF Stored
  <2>8. Len(e) \in Nat /\ Len(m) \in Nat /\ Len(prefixes[want]) \in Nat
    BY <1>1, <2>5, <2>7, KeyTypes
  <2>9. Len(m) <= Len(e)
    <3>1. m = << >> => Len(m) = 0
      BY <1>1, NoBits
    <3>2. m \in Stored => Len(m) <= Len(e)
      BY <2>1, <2>5
    <3> QED
      BY <2>5, <2>6, <2>8, <3>1, <3>2
  <2>10. Len(e) = Len(m) /\ Len(e) = Len(prefixes[want])
    BY <2>4, <2>5, <2>8, <2>9
  <2> QED
    BY <2>1, <2>2, <2>5, <2>7, <2>10, OneOfALength
<1> QED
  BY <1>9, <1>10 DEF got, want, m

\* What the tool reports is so (cli.cpp:98, 162, 199), for every dump and every
\* generated table: size() is the number of prefixes loaded, dump prints them
\* in order, verify counts no mismatch, and lookup prints the prefix that the
\* entry it found belongs to.
THEOREM ReportsAreTrue == CliSpec => []ReportsAgree
<1>1. CliInv => ReportsAgree
  <2> SUFFICES ASSUME CliInv, Built
               PROVE  /\ size = Len(prefixes) /\ Walked = prefixes
                      /\ \A a \in Traffic :
                           LET got == Lookup(a)
                               want == BruteForce(a)
                           IN  /\ (got = Null) <=> (want = 0)
                               /\ got # Null => /\ EntryOf[got] = prefixes[want]
                                                /\ EntryOf[got] = Matched(a)
    BY DEF ReportsAgree
  <2>1. \A a \in Traffic : a \in Hosts
    BY DEF Traffic
  <2> QED
    BY <2>1, BuiltLists, AnswersAgree
<1> QED
  BY <1>1, CliAlways, PTL

-----------------------------------------------------------------------------
(* measure_depth *)

\* The levels that make the tree.
IsLevels(L) ==
    /\ L \in [0 .. Width -> SUBSET Nodes]
    /\ L[0] = {link[RootSlot]} \ {Null}
    /\ \A i \in 1 .. Width : L[i] = {link[s] : s \in L[i - 1] \X Bits} \ {Null}
    /\ Tree(link) = UNION {L[i] : i \in 0 .. Width}

\* measure_depth() counts a level at a depth of one more.
LEMMA HistogramLevels ==
  ASSUME NEW L, IsLevels(L), Width \in Nat
  PROVE  \A d \in Depths :
            Histogram[d] = Cardinality({n \in (IF d = 0 THEN {} ELSE L[d - 1]) : value[n] # Null})
<1> DEFINE Body(u) == [d \in Depths |->
                IF d < RootDepth THEN {}
                ELSE IF d = RootDepth THEN {link[RootSlot]} \ {Null}
                ELSE {link[s] : s \in u[d - 1] \X Bits} \ {Null}]
           Level == CHOOSE u : u = Body(u)
           f == [d \in Depths |-> IF d = 0 THEN {} ELSE L[d - 1]]
<1>1. /\ L \in [0 .. Width -> SUBSET Nodes]
      /\ L[0] = {link[RootSlot]} \ {Null}
      /\ \A i \in 1 .. Width : L[i] = {link[s] : s \in L[i - 1] \X Bits} \ {Null}
  BY DEF IsLevels
<1>2. \A d \in Depths : d \in Nat /\ (d = 0 \/ d = 1 \/ (d - 1 \in 1 .. Width /\ d - 1 \in Depths))
  BY DEF Depths
<1>3. \A d \in Depths :
         f[d] = IF d < RootDepth THEN {}
                ELSE IF d = RootDepth THEN {link[RootSlot]} \ {Null}
                ELSE {link[s] : s \in f[d - 1] \X Bits} \ {Null}
  <2> SUFFICES ASSUME NEW d \in Depths
               PROVE  f[d] = IF d < RootDepth THEN {}
                        ELSE IF d = RootDepth THEN {link[RootSlot]} \ {Null}
                        ELSE {link[s] : s \in f[d - 1] \X Bits} \ {Null}
    OBVIOUS
  <2>1. CASE d = 0
    BY <2>1 DEF RootDepth
  <2>2. CASE d = 1
    BY <1>1, <2>2 DEF RootDepth
  <2>3. CASE d - 1 \in 1 .. Width /\ d - 1 \in Depths
    <3>1. d \in Nat /\ d # 0 /\ d # 1 /\ ~(d < 1)
      BY <1>2, <2>3
    <3>2. f[d] = L[d - 1]
      BY <3>1
    <3>3. L[d - 1] = {link[s] : s \in L[(d - 1) - 1] \X Bits} \ {Null}
      BY <1>1, <2>3
    <3>4. f[d - 1] = L[(d - 1) - 1]
      BY <2>3, <3>1
    <3> HIDE DEF f
    <3> QED
      BY <3>1, <3>2, <3>3, <3>4 DEF RootDepth
  <2> QED
    BY <1>2, <2>1, <2>2, <2>3
<1>4. f = Body(f)
  <2>1. f = [d \in Depths |-> f[d]]
    OBVIOUS
  <2> HIDE DEF f
  <2> QED
    BY <1>3, <2>1
<1>5. Level = Body(Level)
  <2> HIDE DEF Body, f
  <2> QED
    BY <1>4
<1>6. Histogram = [d \in Depths |-> Cardinality({n \in Level[d] : value[n] # Null})]
  BY DEF Histogram
<1> HIDE DEF Level, f
<1>7. \A d \in Depths :
         Level[d] = IF d < RootDepth THEN {}
                    ELSE IF d = RootDepth THEN {link[RootSlot]} \ {Null}
                    ELSE {link[s] : s \in Level[d - 1] \X Bits} \ {Null}
  <2>1. \A d \in Depths :
         Body(Level)[d] = IF d < RootDepth THEN {}
                    ELSE IF d = RootDepth THEN {link[RootSlot]} \ {Null}
                    ELSE {link[s] : s \in Level[d - 1] \X Bits} \ {Null}
    OBVIOUS
  <2> HIDE DEF Body
  <2> QED
    BY <1>5, <2>1
<1> HIDE DEF Body
<1> DEFINE N == Width + 1
           S == {d \in 0 .. N : Level[d] = IF d = 0 THEN {} ELSE L[d - 1]}
<1>8. 0 .. N \subseteq S
  <2>1. 0 \in S /\ N \in Nat
    <3>1. 0 < RootDepth /\ 0 \in Depths /\ 0 \in 0 .. N /\ N \in Nat
      BY DEF RootDepth, Depths
    <3>2. Level[0] = {}
      BY ONLY <1>7, <3>1
    <3> QED
      BY <3>1, <3>2
  <2>2. ASSUME NEW d \in 1 .. N, d - 1 \in S
        PROVE  d \in S
    <3>1. d \in Depths /\ d \in Nat /\ d # 0
      BY DEF Depths
    <3>2. CASE d = 1
      <4>1. ~(1 < RootDepth) /\ 1 = RootDepth /\ 1 \in Depths
        BY <3>1, <3>2 DEF RootDepth
      <4>2. Level[1] = {link[RootSlot]} \ {Null}
        BY ONLY <1>7, <4>1
      <4>3. Level[d] = L[d - 1]
        BY <1>1, <3>2, <4>2
      <4> QED
        BY <3>1, <4>3
    <3>3. CASE d # 1
      <4>1. d - 1 \in 1 .. Width /\ d - 1 # 0 /\ ~(d < 1)
        BY <3>1, <3>3
      <4>2. Level[d] = {link[s] : s \in Level[d - 1] \X Bits} \ {Null}
        BY <1>7, <3>1, <3>3, <4>1 DEF RootDepth
      <4>3. Level[d - 1] = L[(d - 1) - 1]
        BY <2>2, <4>1
      <4>4. L[d - 1] = {link[s] : s \in L[(d - 1) - 1] \X Bits} \ {Null}
        BY <1>1, <4>1
      <4>5. Level[d] = L[d - 1]
        BY <4>2, <4>3, <4>4
      <4> QED
        BY <3>1, <4>5
    <3> QED
      BY <3>2, <3>3
  <2> HIDE DEF S, N
  <2> QED
    BY <2>1, <2>2, CountUp
<1>9. \A d \in Depths : Level[d] = IF d = 0 THEN {} ELSE L[d - 1]
  BY <1>8 DEF Depths
<1> HIDE DEF S
<1> QED
  BY <1>6, <1>9

\* The next node of find_exact()'s walk.
Go(p, n) ==
    IF n = Null \/ KeyOf[n] = p THEN Null ELSE link[<<n, BitAt(p, Len(KeyOf[n]))>>]

\* find_exact()'s walk to the key of a node stays above that node.
LEMMA CostWalk ==
  ASSUME SafeInv, NEW m \in Tree(link)
  PROVE  \E f \in [Depths -> Nodes \cup {Null}] :
            /\ f[0] = link[RootSlot]
            /\ \A i \in 1 .. Width + 1 : f[i] = Go(KeyOf[m], f[i - 1])
            /\ Cost(KeyOf[m]) = Cardinality({i \in Depths : f[i] # Null})
<1> DEFINE p == KeyOf[m]
           D == {n \in Tree(link) : Matches(KeyOf[n], p)} \cup {Null}
           N == Width + 1
           first == link[RootSlot]
           step == [n \in D |-> Go(p, n)]
           Body(u) == [i \in Depths |-> IF i = 0 THEN first ELSE Go(p, u[i - 1])]
           Nth == CHOOSE u : u = Body(u)
<1>1. /\ link \in Links /\ Ordered(link) /\ Tree(link) \subseteq Nodes
      /\ Closed(link, Tree(link)) /\ Width \in Nat /\ N \in Nat /\ Depths = 0 .. N
  BY TreeLemma, TrieAssumption DEF SafeInv, Typed, HeapOK, Depths
<1>2. first \in D
  BY <1>1, RootMatches
<1>3. \A n \in D : Go(p, n) \in D
  <2> SUFFICES ASSUME NEW n \in Tree(link), Matches(KeyOf[n], p), n # Null, KeyOf[n] # p
               PROVE  Go(p, n) \in D
    BY DEF Go
  <2>1. n # m /\ Placed(link, n)
    BY <1>1, AllPlaced
  <2> DEFINE c == link[<<n, BitAt(KeyOf[m], Len(KeyOf[n]))>>]
  <2>2. c # Null /\ Matches(KeyOf[c], p)
    BY <2>1 DEF Placed
  <2>3. Len(KeyOf[n]) \in Nat /\ Len(p) \in Nat /\ KeyOf[n] \in Keys /\ p \in Keys
    BY <1>1, NodesHaveKeys
  <2>4. Len(KeyOf[n]) < Len(p)
    BY <1>1, <2>3, MatchOrder
  <2>5. BitAt(p, Len(KeyOf[n])) \in Bits
    BY <1>1, <2>3, <2>4, KeyTypes
  <2>6. c \in Tree(link)
    BY <1>1, <2>2, <2>5 DEF Closed
  <2> QED
    BY <2>2, <2>6 DEF Go
<1>4. D \subseteq Nodes \cup {Null}
  BY <1>1
<1> HIDE DEF D, first, p
<1>5. step \in [D -> D] /\ \A n \in D : step[n] = Go(p, n)
  BY <1>3
<1> HIDE DEF step
<1>6. PICK f : IsIteration(f, D, first, step, N)
  <2> HIDE DEF N
  <2> QED
    BY <1>1, <1>2, <1>5, Iterates
<1>7. /\ f \in [0 .. N -> D] /\ f[0] = first
      /\ \A i \in 1 .. N : f[i] = Go(p, f[i - 1])
  <2>1. f \in [0 .. N -> D] /\ f[0] = first /\ \A i \in 1 .. N : f[i] = step[f[i - 1]]
    BY <1>6 DEF IsIteration
  <2>2. \A i \in 1 .. N : f[i - 1] \in D
    BY <1>1, <2>1
  <2> QED
    BY <1>5, <2>1, <2>2
<1>8. f = Body(f)
  <2>1. \A i \in Depths : f[i] = IF i = 0 THEN first ELSE Go(p, f[i - 1])
    BY <1>1, <1>7
  <2>2. f = [i \in Depths |-> f[i]]
    BY <1>1, <1>7
  <2> QED
    BY <2>1, <2>2
<1>9. Nth = Body(Nth)
  <2> HIDE DEF Body
  <2> QED
    BY <1>8
<1>10. Cost(p) = Cardinality({i \in Depths : Nth[i] # Null})
  BY DEF Cost, Go, first
<1> HIDE DEF Nth
<1>11. \A i \in Depths : Nth[i] = IF i = 0 THEN first ELSE Go(p, Nth[i - 1])
  <2>1. \A i \in Depths : Body(Nth)[i] = IF i = 0 THEN first ELSE Go(p, Nth[i - 1])
    OBVIOUS
  <2> HIDE DEF Body
  <2> QED
    BY <1>9, <2>1
<1> HIDE DEF Body
<1> DEFINE S == {i \in 0 .. N : Nth[i] = f[i]}
<1>12. 0 .. N \subseteq S
  <2>1. 0 \in S
    BY <1>1, <1>7, <1>11
  <2>2. ASSUME NEW i \in 1 .. N, i - 1 \in S
        PROVE  i \in S
    <3>1. i \in Depths /\ i # 0 /\ i \in 0 .. N
      BY <1>1
    <3> QED
      BY <1>7, <1>11, <2>2, <3>1
  <2> HIDE DEF S, N
  <2> QED
    BY <1>1, <2>1, <2>2, CountUp
<1>13. \A i \in Depths : Nth[i] = f[i]
  BY <1>1, <1>12
<1> HIDE DEF S
<1>14. Cost(p) = Cardinality({i \in Depths : f[i] # Null})
  BY <1>10, <1>13
<1>15. f \in [Depths -> Nodes \cup {Null}]
  BY <1>1, <1>4, <1>7
<1> QED
  BY <1>7, <1>14, <1>15 DEF p, first

\* A node of level d is found with d + 1 loads.
LEMMA LevelCost ==
  ASSUME SafeInv, NEW L, IsLevels(L), NEW d \in 0 .. Width, NEW m \in L[d]
  PROVE  m \in Tree(link) /\ Cost(KeyOf[m]) = d + 1
<1> DEFINE p == KeyOf[m]
           N == Width + 1
<1>1. /\ link \in Links /\ Ordered(link) /\ Tree(link) \subseteq Nodes
      /\ Width \in Nat /\ N \in Nat /\ Depths = 0 .. N
  BY TreeLemma, TrieAssumption DEF SafeInv, Typed, HeapOK, Depths
<1>2. /\ L[0] = {link[RootSlot]} \ {Null}
      /\ \A i \in 1 .. Width : L[i] = {link[s] : s \in L[i - 1] \X Bits} \ {Null}
      /\ \A i \in 0 .. Width : L[i] \subseteq Tree(link)
  BY DEF IsLevels
<1>3. m \in Tree(link)
  BY <1>2
<1>4. PICK f \in [Depths -> Nodes \cup {Null}] :
         /\ f[0] = link[RootSlot]
         /\ \A i \in 1 .. N : f[i] = Go(p, f[i - 1])
         /\ Cost(p) = Cardinality({i \in Depths : f[i] # Null})
  BY <1>3, CostWalk
<1>5. p \in Keys /\ Len(p) \in Nat /\ m # Null
  BY <1>1, <1>3, NodesHaveKeys
<1> HIDE DEF p
<1> DEFINE S == {i \in 0 .. Width : \A n \in L[i] : Matches(KeyOf[n], p) => f[i] = n}
<1>6. 0 .. Width \subseteq S
  <2>1. 0 \in S
    <3>1. \A n \in L[0] : f[0] = n
      BY <1>2, <1>4
    <3> QED
      BY <1>1, <3>1
  <2>2. ASSUME NEW i \in 1 .. Width, i - 1 \in S
        PROVE  i \in S
    <3> SUFFICES ASSUME NEW n \in L[i], Matches(KeyOf[n], p)
                 PROVE  f[i] = n
      BY <1>1
    <3>1. PICK s \in L[i - 1] \X Bits : n = link[s] /\ n # Null
      BY <1>2
    <3> DEFINE o == s[1]
               b == s[2]
    <3>2. o \in L[i - 1] /\ b \in Bits /\ s = <<o, b>>
      BY <3>1
    <3> HIDE DEF o, b
    <3>3. o \in Tree(link) /\ n \in Tree(link) /\ n = link[<<o, b>>]
      <4>1. i - 1 \in 0 .. Width /\ i \in 0 .. Width
        BY <1>1
      <4>2. L[i - 1] \subseteq Tree(link) /\ L[i] \subseteq Tree(link)
        BY <1>2, <4>1
      <4> QED
        BY <3>1, <3>2, <4>2
    <3>4. /\ o \in Nodes /\ KeyOf[o] \in Keys /\ Len(KeyOf[o]) \in Nat /\ o # Null
          /\ n \in Nodes /\ KeyOf[n] \in Keys /\ Len(KeyOf[n]) \in Nat
      BY <1>1, <3>3, NodesHaveKeys
    <3>5. /\ Len(KeyOf[n]) > Len(KeyOf[o]) /\ Matches(KeyOf[o], KeyOf[n])
          /\ BitAt(KeyOf[n], Len(KeyOf[o])) = b
      BY <1>1, <3>1, <3>2, <3>3, <3>4 DEF Ordered
    <3>6. Matches(KeyOf[o], p) /\ Len(KeyOf[n]) <= Len(p)
      BY <1>1, <1>5, <3>4, <3>5, MatchOrder
    <3>7. f[i - 1] = o
      BY <2>2, <3>2, <3>6
    <3>8. BitAt(p, Len(KeyOf[o])) = b
      BY <1>1, <1>5, <3>4, <3>5, MatchBits
    <3>9. KeyOf[o] # p
      BY <1>5, <3>4, <3>5, <3>6
    <3>10. i \in 1 .. N
      BY <1>1
    <3>11. f[i] = Go(p, o)
      BY <1>4, <3>7, <3>10
    <3> QED
      BY <3>3, <3>4, <3>8, <3>9, <3>11 DEF Go
  <2> HIDE DEF S
  <2> QED
    BY <1>1, <2>1, <2>2, CountUp
<1>7. f[d] = m
  <2>1. Matches(KeyOf[m], p)
    BY <1>1, <1>5, MatchOrder DEF p
  <2>2. d \in S
    BY <1>6
  <2> QED
    BY <2>1, <2>2
<1> HIDE DEF S
<1>8. ASSUME NEW i \in 0 .. N, f[i] = Null, NEW j \in i .. N
      PROVE  f[j] = Null
  <2> DEFINE Z == {k \in 0 .. N : k >= i => f[k] = Null}
  <2>1. 0 \in Z
    BY <1>1, <1>8
  <2>2. ASSUME NEW k \in 1 .. N, k - 1 \in Z
        PROVE  k \in Z
    <3> SUFFICES ASSUME k >= i
                 PROVE  f[k] = Null
      BY <1>1
    <3>1. k = i \/ k - 1 >= i
      BY <1>1
    <3>2. CASE k - 1 >= i
      <4>1. f[k - 1] = Null
        BY <2>2, <3>2
      <4> QED
        BY <1>4, <4>1 DEF Go
    <3> QED
      BY <1>8, <3>1, <3>2
  <2>3. 0 .. N \subseteq Z
    <3> HIDE DEF Z, N
    <3> QED
      BY <1>1, <2>1, <2>2, CountUp
  <2>4. j \in Z /\ j >= i
    BY <1>1, <2>3
  <2> QED
    BY <2>4
<1>9. d \in Nat /\ d \in 0 .. N /\ d + 1 \in 1 .. N /\ d + 1 \in 0 .. N /\ (d + 1) - 1 = d
  BY <1>1
<1>10. f[d + 1] = Null
  <2>1. f[d + 1] = Go(p, m)
    BY <1>4, <1>7, <1>9
  <2> QED
    BY <2>1 DEF Go, p
<1>11. \A i \in Depths : f[i] # Null <=> i \in 0 .. d
  <2> SUFFICES ASSUME NEW i \in 0 .. N
               PROVE  f[i] # Null <=> i \in 0 .. d
    BY <1>1
  <2>1. CASE i \in 0 .. d
    <3>1. d \in i .. N
      BY <1>9, <2>1
    <3> QED
      BY <1>5, <1>7, <1>8, <2>1, <3>1
  <2>2. CASE i \notin 0 .. d
    <3>1. i \in (d + 1) .. N
      BY <1>1, <1>9, <2>2
    <3> QED
      BY <1>8, <1>9, <1>10, <2>2, <3>1
  <2> QED
    BY <2>1, <2>2
<1>12. {i \in Depths : f[i] # Null} = 0 .. d
  <2>1. \A i \in 0 .. d : i \in Depths
    BY <1>1, <1>9
  <2> QED
    BY <1>11, <2>1
<1>13. Cardinality(0 .. d) = d + 1
  BY <1>9, FS_Interval
<1> QED
  BY <1>3, <1>4, <1>12, <1>13 DEF p

\* The histogram counts the loads that find_exact() makes.
LEMMA DepthCounts ==
  ASSUME SafeInv, NEW d \in Depths
  PROVE  Histogram[d] = Cardinality({p \in Stored : Cost(p) = d})
<1>1. /\ link \in Links /\ Ordered(link) /\ Tree(link) \subseteq Nodes
      /\ Width \in Nat /\ Depths = 0 .. Width + 1
  BY TreeLemma, TrieAssumption DEF SafeInv, Typed, HeapOK, Depths
<1>2. PICK L : IsLevels(L)
  <2>1. PICK L \in [0 .. Width -> SUBSET Nodes] :
           /\ L[0] = {link[RootSlot]} \ {Null}
           /\ \A i \in 1 .. Width : L[i] = {link[s] : s \in L[i - 1] \X Bits} \ {Null}
           /\ Tree(link) = UNION {L[i] : i \in 0 .. Width}
    BY <1>1, TreeLevels
  <2>2. IsLevels(L)
    BY <2>1 DEF IsLevels
  <2> QED
    BY <2>2
<1>3. /\ L \in [0 .. Width -> SUBSET Nodes]
      /\ Tree(link) = UNION {L[i] : i \in 0 .. Width}
  BY <1>2 DEF IsLevels
<1> DEFINE T == {n \in (IF d = 0 THEN {} ELSE L[d - 1]) : value[n] # Null}
           P == {p \in Stored : Cost(p) = d}
           f == [n \in T |-> KeyOf[n]]
<1>4. Histogram[d] = Cardinality(T)
  BY <1>1, <1>2, HistogramLevels
<1>5. ASSUME NEW n \in T
      PROVE  n \in Tree(link) /\ KeyOf[n] \in P
  <2>1. d # 0 /\ n \in L[d - 1] /\ value[n] # Null /\ d - 1 \in 0 .. Width
    BY <1>1
  <2>2. n \in Tree(link) /\ Cost(KeyOf[n]) = (d - 1) + 1
    BY <1>2, <2>1, LevelCost
  <2>3. KeyOf[n] \in Stored
    <3>1. n \in Nodes /\ value[n] \in Values /\ KeyOf[n] \in Prefixes
          /\ table[KeyOf[n]] = value[n]
      BY <2>1, <2>2, ValueRoutes
    <3> QED
      BY <2>1, <3>1 DEF Stored
  <2>4. (d - 1) + 1 = d
    BY <1>1
  <2> QED
    BY <2>2, <2>3, <2>4
<1>6. ASSUME NEW p \in P
      PROVE  \E n \in T : KeyOf[n] = p
  <2>1. PICK n \in Tree(link) : KeyOf[n] = p /\ value[n] # Null
    BY RouteNode DEF Stored
  <2>2. PICK i \in 0 .. Width : n \in L[i]
    BY <1>3, <2>1
  <2>3. Cost(p) = i + 1
    BY <1>2, <2>1, <2>2, LevelCost
  <2>4. d = i + 1 /\ d # 0 /\ d - 1 = i
    BY <1>1, <2>3
  <2> QED
    BY <2>1, <2>2, <2>4
<1>7. \A n, o \in T : KeyOf[n] = KeyOf[o] => n = o
  BY <1>1, <1>5, AllPlaced DEF Placed
<1>8. IsFiniteSet(T)
  <2>1. IsFiniteSet(Nodes) /\ T \subseteq Nodes
    BY <1>1, <1>5, TrieAssumption
  <2> HIDE DEF T
  <2> QED
    BY <2>1, FS_Subset
<1> HIDE DEF T, P
<1>9. f \in Bijection(T, P)
  <2>1. f \in [T -> P] /\ \A p \in P : \E n \in T : f[n] = p
    BY <1>5, <1>6
  <2>2. \A n, o \in T : f[n] = f[o] => n = o
    BY <1>7
  <2> HIDE DEF f
  <2> QED
    BY <2>1, <2>2 DEF Bijection, Injection, Surjection, IsInjective
<1> HIDE DEF f
<1>10. Cardinality(P) = Cardinality(T)
  BY <1>8, <1>9, FS_Bijection DEF ExistsBijection
<1> QED
  BY <1>4, <1>10 DEF P

\* Two links of the tree do not lead to the same node.
LEMMA LinksDiffer ==
  ASSUME NEW lnk \in Links, Ordered(lnk),
         NEW n \in Tree(lnk), NEW b \in Bits, NEW o \in Tree(lnk), NEW d \in Bits,
         lnk[<<n, b>>] # Null, lnk[<<n, b>>] = lnk[<<o, d>>],
         Len(KeyOf[n]) <= Len(KeyOf[o])
  PROVE  n = o /\ b = d
<1> DEFINE c == lnk[<<n, b>>]
<1>1. Tree(lnk) \subseteq Nodes /\ Closed(lnk, Tree(lnk)) /\ Width \in Nat
  BY TreeLemma, TrieAssumption
<1>2. c \in Tree(lnk) /\ c # Null
  BY <1>1 DEF Closed
<1>3. /\ KeyOf[n] \in Keys /\ KeyOf[o] \in Keys /\ KeyOf[c] \in Keys
      /\ Len(KeyOf[n]) \in Nat /\ Len(KeyOf[o]) \in Nat /\ Len(KeyOf[c]) \in Nat
  BY <1>1, <1>2, NodesHaveKeys
<1>4. /\ Len(KeyOf[n]) < Len(KeyOf[c]) /\ Matches(KeyOf[n], KeyOf[c])
      /\ BitAt(KeyOf[c], Len(KeyOf[n])) = b
      /\ Len(KeyOf[o]) < Len(KeyOf[c]) /\ Matches(KeyOf[o], KeyOf[c])
      /\ BitAt(KeyOf[c], Len(KeyOf[o])) = d
  BY <1>1 DEF Ordered
<1> HIDE DEF c
<1>5. Matches(KeyOf[n], KeyOf[o])
  BY <1>1, <1>3, <1>4, MatchOrder
<1>6. n = o
  <2> SUFFICES ASSUME n # o
               PROVE  FALSE
    OBVIOUS
  <2>1. KeyOf[n] # KeyOf[o] /\ Placed(lnk, n)
    BY AllPlaced DEF Placed
  <2>2. Len(KeyOf[n]) < Len(KeyOf[o])
    BY <1>1, <1>3, <1>5, <2>1, MatchOrder
  <2>3. BitAt(KeyOf[o], Len(KeyOf[n])) = b
    BY <1>1, <1>3, <1>4, <2>2, MatchBits
  <2>4. Matches(KeyOf[c], KeyOf[o])
    BY <1>5, <2>1, <2>3 DEF Placed, c
  <2>5. Len(KeyOf[c]) <= Len(KeyOf[o])
    BY <1>1, <1>3, <2>4, MatchOrder
  <2> QED
    BY <1>3, <1>4, <2>5
<1> QED
  BY <1>4, <1>6

\* Every node without a value has two children, none of which is the root: the
\* nodes are fewer than twice the routes.
LEMMA FewNodes ==
  ASSUME TrieInv, wpc = "idle", size > 0
  PROVE  nodes < 2 * size
<1> DEFINE T == Tree(link)
           V == {n \in T : value[n] # Null}
           U == T \ V
           R == T \ {link[RootSlot]}
           f == [x \in U \X Bits |-> link[x]]
<1>1. /\ SafeInv /\ BranchOK /\ link \in Links /\ Ordered(link)
      /\ T \subseteq Nodes /\ Closed(link, T) /\ Width \in Nat
      /\ \A n \in T : n # Null /\ KeyOf[n] \in Keys /\ Len(KeyOf[n]) \in Nat
  BY TreeLemma, NodesHaveKeys DEF TrieInv, SafeInv, Typed, HeapOK
<1>2. size = Cardinality(V) /\ nodes = Cardinality(T)
  BY InvCanonical DEF Canonical
<1>3. /\ IsFiniteSet(T) /\ IsFiniteSet(V) /\ IsFiniteSet(U) /\ IsFiniteSet(R)
      /\ Cardinality(T) \in Nat /\ Cardinality(V) \in Nat /\ Cardinality(U) \in Nat
      /\ Cardinality(R) \in Nat
  <2>1. IsFiniteSet(T)
    BY <1>1, TrieAssumption, FS_Subset
  <2>2. V \subseteq T /\ U \subseteq T /\ R \subseteq T
    OBVIOUS
  <2> HIDE DEF T, V, U, R
  <2>3. IsFiniteSet(V) /\ IsFiniteSet(U) /\ IsFiniteSet(R)
    BY <2>1, <2>2, FS_Subset
  <2> QED
    BY <2>1, <2>3, FS_CardinalityType
<1>4. Cardinality(T) = Cardinality(U) + Cardinality(V)
  <2>1. T = U \cup V /\ U \cap V = {}
    OBVIOUS
  <2> HIDE DEF T, V, U
  <2>2. Cardinality(U \cup V) = Cardinality(U) + Cardinality(V) - Cardinality(U \cap V)
    BY <1>3, FS_Union
  <2>3. Cardinality({}) = 0
    BY FS_EmptySet
  <2>4. Cardinality(T) = Cardinality(U) + Cardinality(V) - 0
    BY <2>1, <2>2, <2>3
  <2> QED
    BY <1>3, <2>4
<1>5. Cardinality(T) = Cardinality(R) + 1
  <2>1. T # {}
    <3>1. ASSUME T = {}
          PROVE  FALSE
      <4>1. V = {}
        BY <3>1
      <4>2. size = 0
        BY <1>2, <4>1, FS_EmptySet
      <4> QED
        BY <4>2
    <3> QED
      BY <3>1
  <2>2. link[RootSlot] \in T
    BY <1>1, <2>1, RootMatches
  <2> HIDE DEF T
  <2>3. Cardinality(T \ {link[RootSlot]}) = Cardinality(T) - 1
    BY <1>3, <2>2, FS_RemoveElement
  <2> QED
    BY <1>3, <2>3
<1>6. ASSUME NEW n \in U, NEW b \in Bits
      PROVE  link[<<n, b>>] \in R /\ link[<<n, b>>] # Null
  <2>1. n \in T /\ value[n] = Null
    OBVIOUS
  <2>2. Branching(n)
    BY <1>1, <2>1 DEF BranchOK, Excused
  <2>3. link[<<n, b>>] # Null /\ link[<<n, b>>] \in T
    BY <1>1, <2>1, <2>2 DEF Branching, Closed
  <2>4. link[<<n, b>>] # link[RootSlot]
    <3> SUFFICES ASSUME link[<<n, b>>] = link[RootSlot]
                 PROVE  FALSE
      OBVIOUS
    <3>1. Matches(KeyOf[link[RootSlot]], KeyOf[n])
      BY <1>1, <2>1, RootMatches
    <3>2. Len(KeyOf[link[RootSlot]]) > Len(KeyOf[n])
      BY <1>1, <2>1, <2>3 DEF Ordered
    <3>3. KeyOf[link[RootSlot]] \in Keys /\ Len(KeyOf[link[RootSlot]]) \in Nat
      BY <1>1, <2>3
    <3>4. Len(KeyOf[link[RootSlot]]) <= Len(KeyOf[n])
      BY <1>1, <2>1, <3>1, <3>3, MatchOrder
    <3> QED
      BY <1>1, <2>1, <3>2, <3>3, <3>4
  <2> QED
    BY <2>3, <2>4
<1>7. \A n \in U : n \in T
  OBVIOUS
<1> HIDE DEF U, V, R
<1>8. f \in Injection(U \X Bits, R)
  <2>1. \A x \in U \X Bits : x[1] \in U /\ x[2] \in Bits /\ x = <<x[1], x[2]>>
    OBVIOUS
  <2>2. \A x \in U \X Bits : link[x] \in R
    BY <1>6, <2>1
  <2>3. ASSUME NEW x \in U \X Bits, NEW y \in U \X Bits, link[x] = link[y]
        PROVE  x = y
    <3>1. /\ x[1] \in T /\ x[2] \in Bits /\ x = <<x[1], x[2]>>
          /\ y[1] \in T /\ y[2] \in Bits /\ y = <<y[1], y[2]>>
          /\ link[x] # Null
      BY <1>6, <1>7, <2>1
    <3> DEFINE n == x[1]
               b == x[2]
               o == y[1]
               d == y[2]
    <3> HIDE DEF n, b, o, d, T
    <3>2. /\ n \in T /\ o \in T /\ b \in Bits /\ d \in Bits
          /\ x = <<n, b>> /\ y = <<o, d>>
          /\ link[<<n, b>>] # Null /\ link[<<n, b>>] = link[<<o, d>>]
      BY <2>3, <3>1 DEF n, b, o, d
    <3>3. Len(KeyOf[n]) <= Len(KeyOf[o]) \/ Len(KeyOf[o]) <= Len(KeyOf[n])
      BY <1>1, <3>2
    <3>4. n = o /\ b = d
      BY <1>1, <3>2, <3>3, LinksDiffer DEF T
    <3> QED
      BY <3>2, <3>4
  <2>4. f \in [U \X Bits -> R] /\ \A x, y \in U \X Bits : f[x] = f[y] => x = y
    BY <2>2, <2>3
  <2> HIDE DEF f
  <2> QED
    BY <2>4 DEF Injection, IsInjective
<1> HIDE DEF f, T
<1>9. IsFiniteSet(Bits) /\ Cardinality(Bits) = 2
  <2>1. Bits = 0 .. 1
    BY DEF Bits
  <2>2. IsFiniteSet(0 .. 1) /\ Cardinality(0 .. 1) = 2
    <3>1. 0 \in Int /\ 1 \in Int /\ ~(0 > 1) /\ 1 - 0 + 1 = 2
      OBVIOUS
    <3>2. IsFiniteSet(0 .. 1) /\ Cardinality(0 .. 1) = IF 0 > 1 THEN 0 ELSE 1 - 0 + 1
      BY <3>1, FS_Interval
    <3> QED
      BY ONLY <3>1, <3>2
  <2> QED
    BY <2>1, <2>2
<1>10. Cardinality(U \X Bits) = Cardinality(U) * 2
  BY <1>3, <1>9, FS_Product
<1>11. Cardinality(U \X Bits) <= Cardinality(R)
  BY <1>3, <1>8, FS_Injection
<1> QED
  BY ONLY <1>2, <1>3, <1>4, <1>5, <1>10, <1>11

\* measure_depth() (trie.hpp:155) tells "how many nodes a lookup traverses to
\* reach each stored prefix", and path compression keeps the nodes below twice
\* the routes, for keys of any width.
THEOREM DepthsAreCosts == CliSpec => []DepthIsLookupCost
<1>1. CliInv => DepthIsLookupCost
  <2> SUFFICES ASSUME CliInv, wpc = "idle"
               PROVE  DepthIsLookupCost
    BY DEF DepthIsLookupCost
  <2>1. TrieInv /\ SafeInv
    BY CliTrie DEF TrieInv
  <2>2. \A d \in Depths : Histogram[d] = Cardinality({p \in Stored : Cost(p) = d})
    BY <2>1, DepthCounts
  <2> DEFINE cost == [p \in Stored |-> Cost(p)]
  <2>3. \A d \in Depths : {p \in Stored : cost[p] = d} = {p \in Stored : Cost(p) = d}
    OBVIOUS
  <2>4. size > 0 => nodes < 2 * size
    BY <2>1, FewNodes
  <2> HIDE DEF cost
  <2>5. \A d \in Depths : Histogram[d] = Cardinality({p \in Stored : cost[p] = d})
    BY <2>2, <2>3
  <2> QED
    BY <2>4, <2>5 DEF DepthIsLookupCost, cost
<1> QED
  BY <1>1, CliAlways, PTL
=============================================================================
