----------------------------- MODULE RibProofs -----------------------------
(***************************************************************************)
(* Proofs about Rib, for every set of prefixes, every offer of routes and  *)
(* every limit of a flush.                                                 *)
(***************************************************************************)
EXTENDS Rib, Counting, SequenceTheorems

-----------------------------------------------------------------------------
(* Best-path selection *)

\* The routes that are offered: what RibAssumption says of one.
Route(r) == r.source \in DOMAIN Distances /\ r.metric \in Nat

\* Every distance is a number.
LEMMA DistancesAreNat == \A x \in DOMAIN Distances : Distances[x] \in Nat
BY DEF Distances

\* preferred_over() is a strict weak order, so that with positions to break
\* the ties it is a total one.
LEMMA BeforeIsTotal ==
  ASSUME NEW s, DOMAIN s \subseteq Nat, \A i \in DOMAIN s : Route(s[i])
  PROVE  /\ \A i \in DOMAIN s : Before(s, i, i)
         /\ \A i, j \in DOMAIN s : Before(s, i, j) \/ Before(s, j, i)
         /\ \A i, j \in DOMAIN s : Before(s, i, j) /\ Before(s, j, i) => i = j
         /\ \A i, j, k \in DOMAIN s :
                Before(s, i, j) /\ Before(s, j, k) => Before(s, i, k)
<1> DEFINE d == [i \in DOMAIN s |-> Distances[s[i].source]]
           m == [i \in DOMAIN s |-> s[i].metric]
<1>1. \A i \in DOMAIN s : i \in Nat /\ d[i] \in Nat /\ m[i] \in Nat
  BY DistancesAreNat DEF Route
<1>2. \A i, j \in DOMAIN s :
         Before(s, i, j) <=>
             \/ d[i] < d[j]
             \/ d[i] = d[j] /\ m[i] < m[j]
             \/ /\ ~(d[j] < d[i])
                /\ ~(d[j] = d[i] /\ m[j] < m[i])
                /\ i <= j
  BY <1>1 DEF Before, Preferred
<1> HIDE DEF d, m
<1> QED
  BY <1>1, <1>2

\* std::stable_sort gives the routes it was given, each once, the best first.
LEMMA SortedProperties ==
  ASSUME NEW s \in Seq(Routes)
  PROVE  /\ Sorted(s) \in Seq(Routes)
         /\ Len(Sorted(s)) = Len(s)
         /\ \E at \in [DOMAIN s -> DOMAIN s] :
                /\ \A k \in DOMAIN s : Sorted(s)[k] = s[at[k]]
                /\ \A k, l \in DOMAIN s : at[k] = at[l] => k = l
                /\ \A i \in DOMAIN s : \E k \in DOMAIN s : at[k] = i
                /\ \A k, l \in DOMAIN s : k < l => Before(s, at[k], at[l])
<1> DEFINE D == DOMAIN s
           down == [i \in D |-> {j \in D : Before(s, j, i)}]
           at == [k \in D |-> CHOOSE i \in DOMAIN s :
                              Cardinality({j \in DOMAIN s : Before(s, j, i)}) = k]
<1>1. Len(s) \in Nat /\ D = 1 .. Len(s) /\ D \subseteq Nat
  OBVIOUS
<1>r. \A i \in D : s[i] \in Routes /\ Route(s[i])
  BY RibAssumption DEF Route
<1> HIDE DEF D
<1>2. IsFiniteSet(D) /\ Cardinality(D) = Len(s)
  BY <1>1, FS_Interval
<1>3. /\ \A i \in D : Before(s, i, i)
      /\ \A i, j \in D : Before(s, i, j) \/ Before(s, j, i)
      /\ \A i, j \in D : Before(s, i, j) /\ Before(s, j, i) => i = j
      /\ \A i, j, k \in D : Before(s, i, j) /\ Before(s, j, k) => Before(s, i, k)
  BY <1>1, <1>r, BeforeIsTotal DEF D
<1>4. down \in [D -> SUBSET D] /\ \A i \in D : i \in down[i]
  BY <1>3
<1>5. \A i, j \in D : i # j =>
         \/ down[i] \subseteq down[j] /\ j \notin down[i]
         \/ down[j] \subseteq down[i] /\ i \notin down[j]
  BY <1>3
<1> HIDE DEF down
<1>6. /\ \A k \in 1 .. Cardinality(D) : \E i \in D : Cardinality(down[i]) = k
      /\ \A i, j \in D : Cardinality(down[i]) = Cardinality(down[j]) => i = j
      /\ \A i \in D : Cardinality(down[i]) \in 1 .. Cardinality(D)
  BY <1>2, <1>4, <1>5, Ranks
<1>7. at \in [D -> D] /\ \A k \in D : Cardinality(down[at[k]]) = k
  <2> SUFFICES ASSUME NEW k \in D
               PROVE  at[k] \in D /\ Cardinality(down[at[k]]) = k
    OBVIOUS
  <2>1. PICK i \in D : Cardinality(down[i]) = k
    BY <1>1, <1>2, <1>6
  <2>2. Cardinality({j \in DOMAIN s : Before(s, j, i)}) = k
    BY <2>1 DEF down, D
  <2>3. /\ at[k] \in D
        /\ Cardinality({j \in DOMAIN s : Before(s, j, at[k])}) = k
    BY <2>2 DEF D
  <2> QED
    BY <2>3 DEF down, D
<1>8. Sorted(s) = [k \in D |-> s[at[k]]]
  BY DEF Sorted, D
<1> HIDE DEF at
<1>9. \A i \in D : \E k \in D : at[k] = i
  <2> SUFFICES ASSUME NEW i \in D
               PROVE  \E k \in D : at[k] = i
    OBVIOUS
  <2>1. Cardinality(down[i]) \in D
    BY <1>1, <1>2, <1>6
  <2>2. Cardinality(down[at[Cardinality(down[i])]]) = Cardinality(down[i])
    BY <1>7, <2>1
  <2>3. at[Cardinality(down[i])] = i
    BY <1>6, <1>7, <2>1, <2>2
  <2> QED
    BY <2>1, <2>3
<1>10. \A k, l \in D : k < l => Before(s, at[k], at[l])
  <2> SUFFICES ASSUME NEW k \in D, NEW l \in D, k < l,
                      ~Before(s, at[k], at[l])
               PROVE  FALSE
    OBVIOUS
  <2>1. down[at[l]] \subseteq down[at[k]]
    BY <1>3, <1>7 DEF down
  <2>2. IsFiniteSet(down[at[k]])
    BY <1>2, <1>4, <1>7, FS_Subset
  <2>3. l <= k
    BY <1>7, <2>1, <2>2, FS_Subset
  <2> QED
    BY <1>1, <2>3
<1>11. Sorted(s) \in Seq(Routes) /\ Len(Sorted(s)) = Len(s)
  BY <1>1, <1>r, <1>7, <1>8
<1> QED
  BY <1>7, <1>8, <1>9, <1>10, <1>11 DEF D

\* What a prefix's list of routes looks like between calls: one route for each
\* protocol, and none that beats one in front of it.
Ordered(s) ==
    /\ s \in Seq(Routes)
    /\ \A i, j \in DOMAIN s : s[i].source = s[j].source => i = j
    /\ \A i, j \in DOMAIN s : i < j => ~Preferred(s[j], s[i])

\* Offering a route leaves the list ordered, and never empty.
LEMMA OfferProperties ==
  ASSUME NEW s, Ordered(s), NEW c \in Routes
  PROVE  Ordered(Offer(s, c)) /\ Offer(s, c) # << >>
<1> DEFINE q == Placed(s, c)
<1>1. /\ s \in Seq(Routes) /\ Len(s) \in Nat /\ DOMAIN s = 1 .. Len(s)
      /\ \A i, j \in DOMAIN s : s[i].source = s[j].source => i = j
  BY DEF Ordered
<1>2. /\ q \in Seq(Routes) /\ Len(q) >= 1
      /\ \A i, j \in DOMAIN q : q[i].source = q[j].source => i = j
  <2>1. CASE \E i \in DOMAIN s : s[i].source = c.source
    <3>1. q = [i \in DOMAIN s |-> IF s[i].source = c.source THEN c ELSE s[i]]
      BY <2>1 DEF Placed
    <3>2. q \in Seq(Routes) /\ Len(q) = Len(s)
      BY <1>1, <3>1
    <3> QED
      BY <1>1, <2>1, <3>1, <3>2
  <2>2. CASE ~\E i \in DOMAIN s : s[i].source = c.source
    <3>1. q = Append(s, c)
      BY <2>2 DEF Placed
    <3>2. q \in Seq(Routes) /\ Len(q) = Len(s) + 1
      BY <1>1, <3>1
    <3>3. \A i \in DOMAIN q : q[i] = IF i = Len(s) + 1 THEN c ELSE s[i]
      BY <1>1, <3>1, <3>2
    <3> QED
      BY <1>1, <2>2, <3>2, <3>3
  <2> QED
    BY <2>1, <2>2
<1> HIDE DEF q
<1>3. /\ Len(q) \in Nat /\ DOMAIN q = 1 .. Len(q)
      /\ \A i \in DOMAIN q : Route(q[i])
  BY <1>2, RibAssumption DEF Route
<1>4. /\ Sorted(q) \in Seq(Routes)
      /\ Len(Sorted(q)) = Len(q)
  BY <1>2, SortedProperties
<1>5. PICK at \in [DOMAIN q -> DOMAIN q] :
          /\ \A k \in DOMAIN q : Sorted(q)[k] = q[at[k]]
          /\ \A k, l \in DOMAIN q : at[k] = at[l] => k = l
          /\ \A k, l \in DOMAIN q : k < l => Before(q, at[k], at[l])
  BY <1>2, SortedProperties
<1>6. \A i, j \in DOMAIN q :
         Preferred(q[i], q[j]) /\ Preferred(q[j], q[i]) => FALSE
  <2> SUFFICES ASSUME NEW i \in DOMAIN q, NEW j \in DOMAIN q
               PROVE  ~(Preferred(q[i], q[j]) /\ Preferred(q[j], q[i]))
    OBVIOUS
  <2>1. /\ Distances[q[i].source] \in Nat /\ q[i].metric \in Nat
        /\ Distances[q[j].source] \in Nat /\ q[j].metric \in Nat
    BY <1>3, DistancesAreNat DEF Route
  <2> QED
    BY <2>1 DEF Preferred
<1>7. DOMAIN Sorted(q) = DOMAIN q
  BY <1>3, <1>4
<1>8. \A k, l \in DOMAIN q : k < l => ~Preferred(Sorted(q)[l], Sorted(q)[k])
  BY <1>5, <1>6 DEF Before
<1>9. \A k, l \in DOMAIN q : Sorted(q)[k].source = Sorted(q)[l].source => k = l
  BY <1>2, <1>5
<1>10. Ordered(Sorted(q)) /\ Sorted(q) # << >>
  BY <1>2, <1>4, <1>7, <1>8, <1>9 DEF Ordered
<1> QED
  BY <1>10 DEF Offer, q

\* Withdrawing a protocol's route leaves the list ordered.
LEMMA WithdrawProperties ==
  ASSUME NEW s, Ordered(s), NEW source
  PROVE  Ordered(Withdraw(s, source))
<1> DEFINE kept == {i \in DOMAIN s : s[i].source # source}
           n == Cardinality(kept)
           down == [i \in kept |-> {j \in kept : j <= i}]
           at == [k \in 1 .. n |->
                     CHOOSE i \in kept : Cardinality({j \in kept : j <= i}) = k]
           w == Withdraw(s, source)
<1>1. /\ Len(s) \in Nat /\ DOMAIN s = 1 .. Len(s)
      /\ kept \subseteq Nat /\ kept \subseteq DOMAIN s
  BY DEF Ordered
<1>o. /\ \A i \in DOMAIN s : s[i] \in Routes
      /\ \A i, j \in DOMAIN s : s[i].source = s[j].source => i = j
      /\ \A i, j \in DOMAIN s : i < j => ~Preferred(s[j], s[i])
  BY DEF Ordered
<1>2. IsFiniteSet(kept) /\ n \in Nat
  <2>1. IsFiniteSet(1 .. Len(s))
    BY <1>1, FS_Interval
  <2>2. IsFiniteSet(kept)
    BY <1>1, <2>1, FS_Subset
  <2> QED
    BY <2>2, FS_CardinalityType
<1>3. w = [k \in 1 .. n |-> s[at[k]]]
  BY DEF Withdraw
<1> HIDE DEF kept, w
<1>4. /\ down \in [kept -> SUBSET kept]
      /\ \A i \in kept : i \in down[i]
      /\ \A i, j \in kept : i # j =>
             \/ down[i] \subseteq down[j] /\ j \notin down[i]
             \/ down[j] \subseteq down[i] /\ i \notin down[j]
  <2>1. \A i, j \in kept : i # j => i < j \/ j < i
    BY <1>1
  <2>2. \A i, j \in kept :
           i < j => down[i] \subseteq down[j] /\ j \notin down[i]
    <3> SUFFICES ASSUME NEW i \in kept, NEW j \in kept, i < j
                 PROVE  down[i] \subseteq down[j] /\ j \notin down[i]
      OBVIOUS
    <3>1. \A k \in kept : k <= i => k <= j
      BY <1>1
    <3>2. ~(j <= i)
      BY <1>1
    <3> QED
      BY <3>1, <3>2
  <2>3. \A i \in kept : i \in down[i]
    BY <1>1
  <2> QED
    BY <2>1, <2>2, <2>3
<1> HIDE DEF down
<1>5. /\ \A k \in 1 .. n : \E i \in kept : Cardinality(down[i]) = k
  BY <1>2, <1>4, Ranks
<1>6. at \in [1 .. n -> kept] /\ \A k \in 1 .. n : Cardinality(down[at[k]]) = k
  <2> SUFFICES ASSUME NEW k \in 1 .. n
               PROVE  at[k] \in kept /\ Cardinality(down[at[k]]) = k
    OBVIOUS
  <2>1. PICK i \in kept : Cardinality(down[i]) = k
    BY <1>5
  <2>2. Cardinality({j \in kept : j <= i}) = k
    BY <2>1 DEF down
  <2>3. at[k] \in kept /\ Cardinality({j \in kept : j <= at[k]}) = k
    BY <2>2
  <2> QED
    BY <2>3 DEF down
<1> HIDE DEF at
<1>7. \A k, l \in 1 .. n : k < l => at[k] < at[l]
  <2> SUFFICES ASSUME NEW k \in 1 .. n, NEW l \in 1 .. n, k < l, at[l] <= at[k]
               PROVE  FALSE
    <3>1. \A k \in 1 .. n : at[k] \in Nat
      BY <1>1, <1>6
    <3> QED
      BY <3>1
  <2>1. down[at[l]] \subseteq down[at[k]]
    <3>1. at[k] \in kept /\ at[l] \in kept
      BY <1>6
    <3>2. at[k] \in Nat /\ at[l] \in Nat
      BY <1>1, <3>1
    <3>3. \A j \in kept : j \in Nat
      BY <1>1
    <3>4. \A j \in kept : j <= at[l] => j <= at[k]
      BY <3>2, <3>3
    <3> QED
      BY <3>1, <3>4 DEF down
  <2>2. IsFiniteSet(down[at[k]])
    BY <1>2, <1>4, <1>6, FS_Subset
  <2>3. l <= k
    BY <1>6, <2>1, <2>2, FS_Subset
  <2> QED
    BY <1>2, <2>3
<1>m. \A k \in 1 .. n : at[k] \in DOMAIN s /\ w[k] = s[at[k]]
  BY <1>1, <1>3, <1>6
<1>8. w \in Seq(Routes) /\ DOMAIN w = 1 .. n
  <2>1. w \in [1 .. n -> Routes]
    BY <1>3, <1>m, <1>o
  <2> QED
    BY <1>2, <2>1
<1>9. \A k, l \in 1 .. n : k < l => ~Preferred(w[l], w[k])
  BY <1>o, <1>m, <1>7
<1>10. \A k, l \in 1 .. n : w[k].source = w[l].source => k = l
  <2> SUFFICES ASSUME NEW k \in 1 .. n, NEW l \in 1 .. n, w[k].source = w[l].source
               PROVE  k = l
    OBVIOUS
  <2>1. at[k] = at[l]
    BY <1>o, <1>m
  <2> QED
    BY <1>6, <2>1
<1>11. Ordered(w)
  BY <1>8, <1>9, <1>10 DEF Ordered
<1> QED
  BY <1>11 DEF w

\* "No route" is none of the routes, so an optional route has a value exactly
\* when the list has a first one.
LEMMA BestProperties ==
  ASSUME NEW s, Ordered(s)
  PROVE  /\ Best(s) = None <=> s = << >>
         /\ s # << >> => Best(s) = Head(s) /\ Head(s) = s[1] /\ s[1] \in Routes
<1>1. \A r \in Routes : r # None
  BY RibAssumption DEF Distances, None
<1>2. CASE s = << >>
  BY <1>2 DEF Best
<1>3. CASE s # << >>
  <2>1. Head(s) = s[1] /\ s[1] \in Routes
    BY <1>3 DEF Ordered
  <2> QED
    BY <1>1, <1>3, <2>1 DEF Best
<1> QED
  BY <1>2, <1>3

-----------------------------------------------------------------------------
(* The parts of the inductive invariant *)

\* Each prefix's candidates, best first.
TableOK ==
    /\ table = [p \in Prefixes |-> table[p]]
    /\ \A p \in Prefixes : Ordered(table[p])

\* The set of dirty prefixes and the position of flush() in it; outside a
\* flush the batch is empty.
QueueOK ==
    /\ dirty \subseteq Prefixes /\ forgotten \subseteq Prefixes
    /\ IsFiniteSet(dirty)
    /\ take \in 0 .. Cardinality(dirty)
    /\ drain \in Limits \cup {NotDraining}
    /\ pc \in {"idle", "resolve", "apply", "again"}
    /\ pc = "again" => drain \in Limits
    /\ pc \in {"idle", "again"} => batch = << >>

\* The forwarding entry that flush() makes of a route.
EntryOf(r, g) == [source |-> r.source, hop |-> r.hop, generation |-> g]

\* An update in the batch programs what the RIB says at this moment.
UpdateOK(u) ==
    /\ u.prefix \in Prefixes
    /\ \/ /\ u.kind = "add"
          /\ table[u.prefix] # << >>
          /\ u.entry = EntryOf(Head(table[u.prefix]), u.entry.generation)
          /\ u.entry.generation \in 1 .. generation
       \/ /\ u.kind = "remove"
          /\ table[u.prefix] = << >>

\* The batch that flush() has gathered says what the RIB says.
BatchOK ==
    /\ generation \in Nat
    /\ \E S : batch \in Seq(S)
    /\ \A i \in 1 .. Len(batch) : UpdateOK(batch[i])

\* An entry that some add of this run can have programmed.
Programmed(e) ==
    \E r \in Routes : \E g \in 1 .. generation : e = EntryOf(r, g)

\* What the forwarding table holds was programmed.
FibOK ==
    /\ fib = [p \in Prefixes |-> fib[p]]
    /\ \A p \in Prefixes : fib[p] = None \/ Programmed(fib[p])

\* The entries of the batch are younger than those of the table, and each is
\* younger than the one before.
YoungerOK ==
    /\ \A i, j \in 1 .. Len(batch) :
        i < j /\ batch[i].kind = "add" /\ batch[j].kind = "add" =>
            batch[i].entry.generation < batch[j].entry.generation
    /\ \A p \in Prefixes, i \in 1 .. Len(batch) :
        fib[p] # None /\ batch[i].kind = "add" =>
            fib[p].generation < batch[i].entry.generation

\* The counters of FibSyncStats and what they count.
CountsOK ==
    /\ stats \in [marked : Nat, coalesced : Nat, adds : Nat, removes : Nat,
                  updates_programmed : Nat]
    /\ MarksAccountedFor
    /\ generation = stats.adds
    /\ Marks <= MaxMarks

-----------------------------------------------------------------------------
(* The steps *)

\* Add() and remove() store an ordered list, and the two flushes differ in
\* nothing but the limit that is kept for the next round.
LEMMA Cases ==
  ASSUME TableOK, Next
  PROVE  \/ \E p \in Prefixes : \E routes : Ordered(routes) /\ Update(p, routes)
         \/ Clear
         \/ \E l \in Limits :
                /\ pc = "idle" /\ StartFlush(l) /\ drain' \in {drain, l}
         \/ pc = "again" /\ StartFlush(drain) /\ drain' = drain
         \/ \E p \in Prefixes : Resolve(p)
         \/ Resolved
         \/ Apply
         \/ Applied
<1>1. ASSUME NEW p \in Prefixes, NEW r \in Routes, Add(p, r)
      PROVE  \E routes : Ordered(routes) /\ Update(p, routes)
  BY <1>1, OfferProperties DEF Add, TableOK
<1>2. ASSUME NEW p \in Prefixes, NEW source, Remove(p, source)
      PROVE  \E routes : Ordered(routes) /\ Update(p, routes)
  BY <1>2, WithdrawProperties DEF Remove, TableOK
<1> QED
  BY <1>1, <1>2 DEF Next, FlushStep, Flush, FlushAll, FlushAgain

\* Whatever is offered and withdrawn, the lists stay ordered.
LEMMA TableStep ==
  ASSUME TableOK, Next
  PROVE  TableOK'
<1>1. ASSUME NEW p \in Prefixes, NEW routes, Ordered(routes), Update(p, routes)
      PROVE  TableOK'
  <2>1. \A q \in Prefixes : table'[q] = IF q = p THEN routes ELSE table[q]
    BY <1>1 DEF Update, TableOK
  <2>2. table' = [q \in Prefixes |-> table'[q]]
    BY <1>1 DEF Update, TableOK
  <2> QED
    BY <1>1, <2>1, <2>2 DEF TableOK, Ordered
<1>2. CASE Clear
  <2>1. Ordered(<< >>)
    BY DEF Ordered
  <2> QED
    BY <1>2, <2>1 DEF Clear, TableOK, Ordered
<1>3. CASE table' = table
  BY <1>3 DEF TableOK, Ordered
<1> QED
  BY <1>1, <1>2, <1>3, Cases DEF StartFlush, Resolve, Resolved, Apply, Applied, rib

\* flush() takes no more than there is, and leaves no batch behind.
LEMMA QueueStep ==
  ASSUME TableOK, QueueOK, Next
  PROVE  QueueOK'
<1>c. Cardinality(dirty) \in Nat
  BY FS_CardinalityType DEF QueueOK
<1>t. \A l \in Limits : Take(l) \in 0 .. Cardinality(dirty)
  BY <1>c, RibAssumption DEF Take
<1>n. NotDraining \notin Limits
  BY RibAssumption DEF NotDraining
<1> USE DEF QueueOK, rib, flushing
<1>1. ASSUME NEW p \in Prefixes, NEW routes, Update(p, routes)
      PROVE  QueueOK'
  <2>1. /\ dirty' \in {dirty, dirty \cup {p}}
        /\ forgotten' \subseteq Prefixes
        /\ UNCHANGED <<take, drain, pc, batch>>
    BY <1>1 DEF Update
  <2>2. /\ IsFiniteSet(dirty \cup {p})
        /\ Cardinality(dirty \cup {p}) \in {Cardinality(dirty), Cardinality(dirty) + 1}
    BY FS_AddElement
  <2>3. IsFiniteSet(dirty') /\ take' \in 0 .. Cardinality(dirty')
    <3>1. CASE dirty' = dirty
      BY <2>1, <3>1
    <3>2. CASE dirty' = dirty \cup {p}
      BY <1>c, <2>1, <2>2, <3>2
    <3> QED
      BY <2>1, <3>1, <3>2
  <2>4. dirty' \subseteq Prefixes
    BY <2>1
  <2>5. /\ drain' \in Limits \cup {NotDraining}
        /\ pc' \in {"idle", "resolve", "apply", "again"}
        /\ pc' = "again" => drain' \in Limits
        /\ pc' \in {"idle", "again"} => batch' = << >>
    BY <2>1
  <2> QED
    BY <2>1, <2>3, <2>4, <2>5
<1>2. CASE Clear
  BY <1>2 DEF Clear
<1>3. ASSUME NEW l \in Limits, pc = "idle", StartFlush(l), drain' \in {drain, l}
      PROVE  QueueOK'
  BY <1>3, <1>t DEF StartFlush
<1>4. CASE pc = "again" /\ StartFlush(drain) /\ drain' = drain
  BY <1>4, <1>t DEF StartFlush
<1>5. ASSUME NEW p \in Prefixes, Resolve(p)
      PROVE  QueueOK'
  <2>1. /\ dirty' = dirty \ {p} /\ p \in dirty /\ take' = take - 1 /\ take > 0
        /\ UNCHANGED <<forgotten, drain, pc>> /\ pc = "resolve"
    BY <1>5 DEF Resolve
  <2>2. IsFiniteSet(dirty') /\ Cardinality(dirty') = Cardinality(dirty) - 1
    BY <2>1, FS_RemoveElement
  <2>3. take' \in 0 .. Cardinality(dirty')
    BY <1>c, <2>1, <2>2
  <2> QED
    BY <2>1, <2>2, <2>3
<1>6. CASE Resolved
  BY <1>6 DEF Resolved
<1>7. CASE Apply
  BY <1>7 DEF Apply
<1>8. CASE Applied
  BY <1>8, <1>n DEF Applied
<1> QED
  BY <1>1, <1>2, <1>3, <1>4, <1>5, <1>6, <1>7, <1>8, Cases

\* A batch grows at its end and is programmed from its front.
LEMMA BatchGrows ==
  ASSUME NEW S, NEW s \in Seq(S), NEW u
  PROVE  /\ Append(s, u) \in Seq(S \cup {u})
         /\ Len(Append(s, u)) = Len(s) + 1 /\ Len(s) \in Nat
         /\ \A i \in 1 .. Len(s) : Append(s, u)[i] = s[i]
         /\ Append(s, u)[Len(s) + 1] = u
<1>1. s \in Seq(S \cup {u})
  OBVIOUS
<1> QED
  BY <1>1, AppendProperties

\* What remains of a sequence behind its head.
LEMMA BatchShrinks ==
  ASSUME NEW S, NEW s \in Seq(S), s # << >>
  PROVE  /\ Tail(s) \in Seq(S) /\ Len(s) \in Nat /\ Len(s) >= 1
         /\ Len(Tail(s)) = Len(s) - 1
         /\ Head(s) = s[1]
         /\ \A i \in 1 .. Len(Tail(s)) : Tail(s)[i] = s[i + 1] /\ i + 1 \in 2 .. Len(s)
  OBVIOUS

\* What flush() appends for a dirty prefix.
LEMMA ResolveEffect ==
  ASSUME TableOK, NEW p \in Prefixes, Resolve(p)
  PROVE  \E u : /\ batch' = Append(batch, u) /\ u.prefix = p
                /\ \/ /\ table[p] # << >> /\ u.kind = "add"
                      /\ u.entry = EntryOf(Head(table[p]), generation + 1)
                      /\ generation' = generation + 1
                      /\ stats' = [stats EXCEPT !.adds = @ + 1]
                   \/ /\ table[p] = << >> /\ u.kind = "remove"
                      /\ generation' = generation
                      /\ stats' = [stats EXCEPT !.removes = @ + 1]
<1>1. /\ Best(table[p]) = None <=> table[p] = << >>
      /\ table[p] # << >> => Best(table[p]) = Head(table[p])
  BY BestProperties DEF TableOK
<1> DEFINE add == [prefix |-> p, kind |-> "add",
                   entry |-> EntryOf(Head(table[p]), generation + 1)]
           remove == [prefix |-> p, kind |-> "remove"]
<1>2. CASE table[p] # << >>
  <2>1. /\ batch' = Append(batch, add) /\ generation' = generation + 1
        /\ stats' = [stats EXCEPT !.adds = @ + 1]
    BY <1>1, <1>2 DEF Resolve, Stamp, EntryOf
  <2> QED
    BY <1>2, <2>1
<1>3. CASE table[p] = << >>
  <2>1. /\ batch' = Append(batch, remove) /\ generation' = generation
        /\ stats' = [stats EXCEPT !.removes = @ + 1]
    BY <1>1, <1>3 DEF Resolve
  <2> QED
    BY <1>3, <2>1
<1> QED
  BY <1>2, <1>3

\* Every update in the batch says what the RIB says, and the generations in
\* the batch and in the table increase in the order of programming.
LEMMA BatchStep ==
  ASSUME TableOK, QueueOK, BatchOK, YoungerOK, FibOK, Next
  PROVE  BatchOK' /\ YoungerOK' /\ FibOK'
<1> USE DEF rib, flushing
<1>2. CASE batch' = << >> /\ UNCHANGED <<generation, fib>>
  <2>1. Len(batch') = 0 /\ batch' \in Seq({})
    BY <1>2
  <2> QED
    BY <1>2, <2>1 DEF BatchOK, YoungerOK, FibOK, Programmed
<1>3. ASSUME NEW p \in Prefixes, Resolve(p)
      PROVE  BatchOK' /\ YoungerOK' /\ FibOK'
  <2>1. PICK u :
            /\ batch' = Append(batch, u) /\ u.prefix = p
            /\ \/ /\ table[p] # << >> /\ u.kind = "add"
                  /\ u.entry = EntryOf(Head(table[p]), generation + 1)
                  /\ generation' = generation + 1
               \/ /\ table[p] = << >> /\ u.kind = "remove"
                  /\ generation' = generation
    BY <1>3, ResolveEffect
  <2>2. PICK S : batch \in Seq(S)
    BY DEF BatchOK
  <2>3. /\ batch' \in Seq(S \cup {u})
        /\ Len(batch') = Len(batch) + 1 /\ Len(batch) \in Nat
        /\ \A i \in 1 .. Len(batch) : batch'[i] = batch[i]
        /\ batch'[Len(batch) + 1] = u
    BY <2>1, <2>2, BatchGrows
  <2>4. UNCHANGED <<table, fib>>
    BY <1>3 DEF Resolve
  <2>5. generation \in Nat /\ generation' \in Nat /\ generation <= generation'
    BY <2>1 DEF BatchOK
  <2>6. UpdateOK(u)'
    BY <2>1, <2>4, <2>5 DEF UpdateOK, EntryOf
  <2>7. \A v : UpdateOK(v) => UpdateOK(v)'
    BY <2>4, <2>5 DEF UpdateOK
  <2>8. BatchOK'
    <3>1. \A i \in 1 .. Len(batch') : \A v : v = batch'[i] => UpdateOK(v)'
      BY <2>3, <2>6, <2>7 DEF BatchOK
    <3> QED
      BY <2>3, <2>5, <3>1 DEF BatchOK, UpdateOK
  <2>9. u.kind = "add" =>
            /\ u.entry.generation = generation + 1
            /\ \A i \in 1 .. Len(batch) : batch[i].kind = "add" =>
                  batch[i].entry.generation < u.entry.generation
            /\ \A q \in Prefixes : fib[q] # None =>
                  fib[q].generation < u.entry.generation
    <3>1. u.kind = "add" => u.entry.generation = generation + 1
      BY <2>1 DEF EntryOf
    <3>2. \A i \in 1 .. Len(batch) : batch[i].kind = "add" =>
             batch[i].entry.generation \in 1 .. generation
      BY DEF BatchOK, UpdateOK
    <3>3. \A q \in Prefixes : fib[q] # None => fib[q].generation \in 1 .. generation
      BY DEF FibOK, Programmed, EntryOf
    <3> QED
      BY <2>5, <3>1, <3>2, <3>3
  <2>10. YoungerOK'
    <3>1. \A i, j \in 1 .. Len(batch') :
             i < j /\ batch'[i].kind = "add" /\ batch'[j].kind = "add" =>
                 batch'[i].entry.generation < batch'[j].entry.generation
      BY <2>3, <2>9 DEF YoungerOK
    <3>2. \A q \in Prefixes, i \in 1 .. Len(batch') :
             fib'[q] # None /\ batch'[i].kind = "add" =>
                 fib'[q].generation < batch'[i].entry.generation
      BY <2>3, <2>4, <2>9 DEF YoungerOK
    <3> QED
      BY <3>1, <3>2 DEF YoungerOK
  <2>11. FibOK'
    BY <2>4, <2>5 DEF FibOK, Programmed
  <2> QED
    BY <2>8, <2>10, <2>11
<1>4. CASE Apply
  <2>1. PICK S : batch \in Seq(S)
    BY DEF BatchOK
  <2>h. Head(batch) = batch[1]
    BY <1>4, <2>1, BatchShrinks DEF Apply
  <2>2. /\ batch # << >> /\ batch' = Tail(batch)
        /\ UNCHANGED <<table, generation>>
        /\ fib' = [fib EXCEPT ![batch[1].prefix] =
                      IF batch[1].kind = "add" THEN batch[1].entry ELSE None]
    BY <1>4, <2>h DEF Apply
  <2>3. /\ batch' \in Seq(S) /\ Len(batch) \in Nat /\ Len(batch) >= 1
        /\ Len(batch') = Len(batch) - 1
        /\ \A i \in 1 .. Len(batch') :
              batch'[i] = batch[i + 1] /\ i + 1 \in 2 .. Len(batch)
    BY <2>1, <2>2, BatchShrinks
  <2>4. UpdateOK(batch[1])
    BY <2>3 DEF BatchOK
  <2>5. BatchOK'
    BY <2>2, <2>3 DEF BatchOK, UpdateOK
  <2>6. batch[1].kind = "add" => Programmed(batch[1].entry)
    <3> SUFFICES ASSUME batch[1].kind = "add"
                 PROVE  Programmed(batch[1].entry)
      OBVIOUS
    <3>1. /\ batch[1].prefix \in Prefixes
          /\ table[batch[1].prefix] # << >>
          /\ batch[1].entry = EntryOf(Head(table[batch[1].prefix]),
                                      batch[1].entry.generation)
          /\ batch[1].entry.generation \in 1 .. generation
      BY <2>4 DEF UpdateOK
    <3>2. Head(table[batch[1].prefix]) \in Routes
      BY <3>1, BestProperties DEF TableOK
    <3> QED
      BY <3>1, <3>2 DEF Programmed
  <2>7. \A q \in Prefixes : \/ fib'[q] = fib[q]
                            \/ fib'[q] = None
                            \/ batch[1].kind = "add" /\ fib'[q] = batch[1].entry
    BY <2>2 DEF FibOK
  <2>8. FibOK'
    <3>1. fib' = [q \in Prefixes |-> fib'[q]]
      BY <2>2 DEF FibOK
    <3>2. \A q \in Prefixes : fib'[q] = None \/ Programmed(fib'[q])
      BY <2>6, <2>7 DEF FibOK
    <3> QED
      BY <2>2, <3>1, <3>2 DEF FibOK, Programmed
  <2>9. YoungerOK'
    <3>1. \A i, j \in 1 .. Len(batch') :
             i < j /\ batch'[i].kind = "add" /\ batch'[j].kind = "add" =>
                 batch'[i].entry.generation < batch'[j].entry.generation
      BY <2>3 DEF YoungerOK
    <3>2. \A q \in Prefixes, i \in 1 .. Len(batch') :
             fib'[q] # None /\ batch'[i].kind = "add" =>
                 fib'[q].generation < batch'[i].entry.generation
      BY <2>3, <2>7 DEF YoungerOK
    <3> QED
      BY <3>1, <3>2 DEF YoungerOK
  <2> QED
    BY <2>5, <2>8, <2>9
<1>5. CASE UNCHANGED <<table, batch, generation, fib>>
  BY <1>5 DEF BatchOK, UpdateOK, YoungerOK, FibOK, Programmed
<1>6. ASSUME NEW p \in Prefixes, NEW routes, Update(p, routes)
      PROVE  batch' = << >> /\ UNCHANGED <<generation, fib>>
  BY <1>6 DEF Update, QueueOK
<1>7. CASE Clear
  BY <1>2, <1>7 DEF Clear, QueueOK
<1> QED
  BY <1>2, <1>3, <1>4, <1>5, <1>6, <1>7, Cases DEF StartFlush, Resolved, Applied

\* The counters' types.
StatsType == [marked : Nat, coalesced : Nat, adds : Nat, removes : Nat,
              updates_programmed : Nat]

\* A mark that was not coalesced is counted in one place at a time.
LEMMA CountsStep ==
  ASSUME TableOK, QueueOK, BatchOK, CountsOK, Next
  PROVE  CountsOK'
<1>c. /\ Cardinality(dirty) \in Nat /\ IsFiniteSet(dirty)
      /\ Len(batch) \in Nat
      /\ stats \in StatsType /\ MaxMarks \in Nat
  BY FS_CardinalityType, RibAssumption DEF QueueOK, BatchOK, CountsOK, StatsType
<1>n. /\ stats.marked \in Nat /\ stats.coalesced \in Nat /\ stats.adds \in Nat
      /\ stats.removes \in Nat /\ stats.updates_programmed \in Nat
  BY <1>c DEF StatsType
<1>k. /\ stats.marked = Cardinality(dirty) + Len(batch) + stats.updates_programmed
      /\ stats.adds + stats.removes = Len(batch) + stats.updates_programmed
      /\ generation = stats.adds
      /\ stats.marked + stats.coalesced <= MaxMarks
  BY DEF CountsOK, MarksAccountedFor, Marks
<1>s. CASE /\ stats' \in StatsType
           /\ stats'.marked = Cardinality(dirty') + Len(batch') + stats'.updates_programmed
           /\ stats'.adds + stats'.removes = Len(batch') + stats'.updates_programmed
           /\ generation' = stats'.adds
           /\ stats'.marked + stats'.coalesced <= MaxMarks
  BY <1>s DEF CountsOK, MarksAccountedFor, Marks, StatsType
<1> USE DEF rib, flushing
<1>1. ASSUME NEW p \in Prefixes, NEW routes, Update(p, routes)
      PROVE  CountsOK'
  <2>1. UNCHANGED <<batch, generation>> /\ stats.marked + stats.coalesced < MaxMarks
    BY <1>1 DEF Update, Marks
  <2>2. CASE UNCHANGED <<dirty, stats>>
    BY <1>c, <1>k, <1>s, <2>1, <2>2
  <2>3. CASE dirty' = dirty \cup {p} /\ stats' = Marked(p)
    <3>1. CASE p \in dirty
      <4>1. dirty' = dirty /\ stats' = [stats EXCEPT !.coalesced = @ + 1]
        BY <2>3, <3>1 DEF Marked
      <4>2. /\ stats' \in StatsType
            /\ stats'.marked = stats.marked
            /\ stats'.coalesced = stats.coalesced + 1
            /\ stats'.adds = stats.adds
            /\ stats'.removes = stats.removes
            /\ stats'.updates_programmed = stats.updates_programmed
        BY <1>c, <4>1 DEF StatsType
      <4> QED
        BY <1>c, <1>n, <1>k, <1>s, <2>1, <4>1, <4>2
    <3>2. CASE p \notin dirty
      <4>1. stats' = [stats EXCEPT !.marked = @ + 1]
        BY <2>3, <3>2 DEF Marked
      <4>2. Cardinality(dirty') = Cardinality(dirty) + 1
        BY <1>c, <2>3, <3>2, FS_AddElement
      <4>3. /\ stats' \in StatsType
            /\ stats'.marked = stats.marked + 1
            /\ stats'.coalesced = stats.coalesced
            /\ stats'.adds = stats.adds
            /\ stats'.removes = stats.removes
            /\ stats'.updates_programmed = stats.updates_programmed
        BY <1>c, <4>1 DEF StatsType
      <4>4. stats'.marked = Cardinality(dirty') + Len(batch') + stats'.updates_programmed
        BY <1>c, <1>n, <1>k, <2>1, <4>2, <4>3
      <4>5. /\ stats'.adds + stats'.removes = Len(batch') + stats'.updates_programmed
            /\ generation' = stats'.adds
        BY <1>k, <2>1, <4>3
      <4>6. stats'.marked + stats'.coalesced <= MaxMarks
        BY <1>c, <1>n, <2>1, <4>3
      <4> QED
        BY ONLY <1>s, <4>3, <4>4, <4>5, <4>6
    <3> QED
      BY <3>1, <3>2
  <2> QED
    BY <1>1, <2>2, <2>3 DEF Update
<1>2. CASE UNCHANGED <<dirty, batch, generation, stats>>
  BY <1>c, <1>k, <1>s, <1>2
<1>3. ASSUME NEW l, StartFlush(l), pc \in {"idle", "again"}
      PROVE  CountsOK'
  <2>1. UNCHANGED <<dirty, batch, generation, stats>>
    BY <1>3 DEF StartFlush, QueueOK
  <2> QED
    BY <1>2, <2>1
<1>4. ASSUME NEW p \in Prefixes, Resolve(p)
      PROVE  CountsOK'
  <2>1. PICK u :
            /\ batch' = Append(batch, u)
            /\ \/ /\ generation' = generation + 1
                  /\ stats' = [stats EXCEPT !.adds = @ + 1]
               \/ /\ generation' = generation
                  /\ stats' = [stats EXCEPT !.removes = @ + 1]
    BY <1>4, ResolveEffect
  <2>2. Len(batch') = Len(batch) + 1
    BY <2>1, BatchGrows DEF BatchOK
  <2>3. Cardinality(dirty') = Cardinality(dirty) - 1
    BY <1>4, <1>c, FS_RemoveElement DEF Resolve
  <2>4. CASE /\ generation' = generation + 1
             /\ stats' = [stats EXCEPT !.adds = @ + 1]
    <3>1. /\ stats' \in StatsType
          /\ stats'.marked = stats.marked
          /\ stats'.coalesced = stats.coalesced
          /\ stats'.adds = stats.adds + 1
          /\ stats'.removes = stats.removes
          /\ stats'.updates_programmed = stats.updates_programmed
      BY <1>c, <2>4 DEF StatsType
    <3>2. generation' = generation + 1
      BY <2>4
    <3>3. stats'.marked = Cardinality(dirty') + Len(batch') + stats'.updates_programmed
      <4>1. /\ Cardinality(dirty) \in Nat /\ Len(batch) \in Nat
            /\ stats.updates_programmed \in Nat
        BY <1>c, <1>n
      <4>2. Cardinality(dirty') + Len(batch') = Cardinality(dirty) + Len(batch)
        BY ONLY <2>2, <2>3, <4>1
      <4> QED
        BY <1>k, <3>1, <4>2
    <3>4. stats'.adds + stats'.removes = Len(batch') + stats'.updates_programmed
      <4>1. stats'.adds + stats'.removes = (stats.adds + stats.removes) + 1
        BY <1>n, <3>1
      <4>2. Len(batch') + stats'.updates_programmed
               = (Len(batch) + stats.updates_programmed) + 1
        <5>1. stats'.updates_programmed = stats.updates_programmed
          BY <3>1
        <5> QED
          BY ONLY <1>c, <1>n, <2>2, <5>1
      <4> QED
        BY <1>k, <4>1, <4>2
    <3> QED
      BY <1>n, <1>k, <1>s, <3>1, <3>2, <3>3, <3>4
  <2>5. CASE /\ generation' = generation
             /\ stats' = [stats EXCEPT !.removes = @ + 1]
    <3>1. /\ stats' \in StatsType
          /\ stats'.marked = stats.marked
          /\ stats'.coalesced = stats.coalesced
          /\ stats'.adds = stats.adds
          /\ stats'.removes = stats.removes + 1
          /\ stats'.updates_programmed = stats.updates_programmed
      BY <1>c, <2>5 DEF StatsType
    <3>2. generation' = generation
      BY <2>5
    <3>3. stats'.marked = Cardinality(dirty') + Len(batch') + stats'.updates_programmed
      <4>1. /\ Cardinality(dirty) \in Nat /\ Len(batch) \in Nat
            /\ stats.updates_programmed \in Nat
        BY <1>c, <1>n
      <4>2. Cardinality(dirty') + Len(batch') = Cardinality(dirty) + Len(batch)
        BY ONLY <2>2, <2>3, <4>1
      <4> QED
        BY <1>k, <3>1, <4>2
    <3>4. stats'.adds + stats'.removes = Len(batch') + stats'.updates_programmed
      <4>1. stats'.adds + stats'.removes = (stats.adds + stats.removes) + 1
        BY <1>n, <3>1
      <4>2. Len(batch') + stats'.updates_programmed
               = (Len(batch) + stats.updates_programmed) + 1
        <5>1. stats'.updates_programmed = stats.updates_programmed
          BY <3>1
        <5> QED
          BY ONLY <1>c, <1>n, <2>2, <5>1
      <4> QED
        BY <1>k, <4>1, <4>2
    <3> QED
      BY <1>n, <1>k, <1>s, <3>1, <3>2, <3>3, <3>4
  <2> QED
    BY <2>1, <2>4, <2>5
<1>5. CASE Apply
  <2>1. /\ batch # << >> /\ batch' = Tail(batch)
        /\ UNCHANGED <<dirty, generation>>
        /\ stats' = [stats EXCEPT !.updates_programmed = @ + 1]
    BY <1>5 DEF Apply
  <2>2. Len(batch') = Len(batch) - 1
    BY <2>1, BatchShrinks DEF BatchOK
  <2>3. /\ stats' \in StatsType
        /\ stats'.marked = stats.marked
        /\ stats'.coalesced = stats.coalesced
        /\ stats'.adds = stats.adds
        /\ stats'.removes = stats.removes
        /\ stats'.updates_programmed = stats.updates_programmed + 1
    BY <1>c, <2>1 DEF StatsType
  <2>4. stats'.marked = Cardinality(dirty') + Len(batch') + stats'.updates_programmed
    BY <1>c, <1>n, <1>k, <2>1, <2>2, <2>3
  <2>5. /\ stats'.adds + stats'.removes = Len(batch') + stats'.updates_programmed
        /\ generation' = stats'.adds
    BY <1>c, <1>n, <1>k, <2>1, <2>2, <2>3
  <2>6. stats'.marked + stats'.coalesced <= MaxMarks
    BY <1>k, <2>3
  <2> QED
    BY ONLY <1>s, <2>3, <2>4, <2>5, <2>6
<1> QED
  BY <1>1, <1>2, <1>3, <1>4, <1>5, Cases DEF Clear, Resolved, Applied

\* A prefix that is neither marked nor in the batch forwards as the RIB says.
LEMMA InStepStep ==
  ASSUME TableOK, TableOK', QueueOK, BatchOK, FibOK, InStep, Next
  PROVE  InStep'
<1> USE DEF rib, flushing
<1>1. ASSUME NEW p \in Prefixes, NEW routes, Ordered(routes), Update(p, routes)
      PROVE  InStep'
  <2>1. /\ \A q \in Prefixes : table'[q] = IF q = p THEN routes ELSE table[q]
        /\ UNCHANGED <<batch, fib>>
        /\ \/ p \in dirty' /\ dirty \subseteq dirty' /\ forgotten' = forgotten \ {p}
           \/ ~Changed(table[p], routes) /\ UNCHANGED <<dirty, forgotten>>
    BY <1>1 DEF Update, TableOK
  <2> SUFFICES ASSUME NEW q \in Prefixes \ (dirty' \cup forgotten'), ~InBatch(q)'
               PROVE  Agrees(fib[q], Best(table'[q]))
    BY <2>1 DEF InStep
  <2>2. q \notin dirty /\ q \notin forgotten /\ ~InBatch(q)
    BY <2>1 DEF InBatch
  <2>3. Agrees(fib[q], Best(table[q]))
    BY <2>2 DEF InStep
  <2>4. CASE q # p
    BY <2>1, <2>3, <2>4
  <2>5. CASE q = p
    <3>1. ~Changed(table[p], routes)
      BY <2>1, <2>5
    <3>2. /\ Best(table[p]) = None <=> table[p] = << >>
          /\ Best(routes) = None <=> routes = << >>
      BY <1>1, BestProperties DEF TableOK
    <3> QED
      BY <2>1, <2>3, <2>5, <3>1, <3>2 DEF Changed, Agrees
  <2> QED
    BY <2>4, <2>5
<1>2. CASE Clear
  <2>1. /\ table' = [p \in Prefixes |-> << >>]
        /\ forgotten' = forgotten \cup {p \in Prefixes : table[p] # << >>}
        /\ UNCHANGED <<dirty, batch, fib>>
    BY <1>2 DEF Clear
  <2> SUFFICES ASSUME NEW q \in Prefixes \ (dirty \cup forgotten'), ~InBatch(q)
               PROVE  Agrees(fib[q], Best(table'[q]))
    BY <2>1 DEF InStep, InBatch
  <2>2. table'[q] = table[q] /\ q \notin forgotten
    BY <2>1
  <2> QED
    BY <2>2 DEF InStep
<1>3. ASSUME NEW p \in Prefixes, Resolve(p)
      PROVE  InStep'
  <2>1. PICK u : batch' = Append(batch, u) /\ u.prefix = p
    BY <1>3, ResolveEffect
  <2>2. PICK S : batch \in Seq(S)
    BY DEF BatchOK
  <2>3. /\ Len(batch') = Len(batch) + 1 /\ Len(batch) \in Nat
        /\ \A i \in 1 .. Len(batch) : batch'[i] = batch[i]
        /\ batch'[Len(batch) + 1] = u
        /\ DOMAIN batch = 1 .. Len(batch) /\ DOMAIN batch' = 1 .. Len(batch')
    <3>1. batch' \in Seq(S \cup {u})
      BY <2>1, <2>2, BatchGrows
    <3> QED
      BY <2>1, <2>2, <3>1, BatchGrows
  <2>4. InBatch(p)' /\ \A q : InBatch(q) => InBatch(q)'
    BY <2>1, <2>3 DEF InBatch
  <2>5. dirty' = dirty \ {p} /\ UNCHANGED <<table, forgotten, fib>>
    BY <1>3 DEF Resolve
  <2> QED
    BY <2>4, <2>5 DEF InStep
<1>4. CASE Apply
  <2>1. PICK S : batch \in Seq(S)
    BY DEF BatchOK
  <2>2. /\ Len(batch) \in Nat /\ Len(batch) >= 1
        /\ Head(batch) = batch[1]
        /\ Len(batch') = Len(batch) - 1
        /\ \A i \in 1 .. Len(batch') : batch'[i] = batch[i + 1]
        /\ DOMAIN batch = 1 .. Len(batch) /\ DOMAIN batch' = 1 .. Len(batch')
    <3>1. batch # << >> /\ batch' = Tail(batch)
      BY <1>4 DEF Apply
    <3>2. batch' \in Seq(S)
      BY <2>1, <3>1, BatchShrinks
    <3> QED
      BY <2>1, <3>1, <3>2, BatchShrinks
  <2>3. /\ fib' = [fib EXCEPT ![batch[1].prefix] =
                      IF batch[1].kind = "add" THEN batch[1].entry ELSE None]
        /\ UNCHANGED <<table, dirty, forgotten>>
    BY <1>4, <2>2 DEF Apply
  <2>4. UpdateOK(batch[1])
    BY <2>2 DEF BatchOK
  <2> SUFFICES ASSUME NEW q \in Prefixes \ (dirty \cup forgotten), ~InBatch(q)'
               PROVE  Agrees(fib'[q], Best(table[q]))
    BY <2>3 DEF InStep
  <2>5. CASE q = batch[1].prefix
    <3>1. fib'[q] = IF batch[1].kind = "add" THEN batch[1].entry ELSE None
      BY <2>3, <2>5 DEF FibOK
    <3>2. /\ Best(table[q]) = None <=> table[q] = << >>
          /\ table[q] # << >> => Best(table[q]) = Head(table[q])
      BY BestProperties DEF TableOK
    <3>3. CASE batch[1].kind = "add"
      <4>1. /\ table[q] # << >>
            /\ batch[1].entry = EntryOf(Head(table[q]), batch[1].entry.generation)
        BY <2>4, <2>5, <3>3 DEF UpdateOK
      <4>2. /\ batch[1].entry.source = Head(table[q]).source
            /\ batch[1].entry.hop = Head(table[q]).hop
        BY <4>1 DEF EntryOf
      <4> QED
        BY <3>1, <3>2, <3>3, <4>1, <4>2 DEF Agrees
    <3>4. CASE batch[1].kind # "add"
      BY <2>4, <2>5, <3>1, <3>2, <3>4 DEF UpdateOK, Agrees
    <3> QED
      BY <3>3, <3>4
  <2>6. CASE q # batch[1].prefix
    <3>1. ~InBatch(q)
      <4> SUFFICES ASSUME NEW i \in 1 .. Len(batch), batch[i].prefix = q
                   PROVE  FALSE
        BY <2>2 DEF InBatch
      <4>1. i # 1
        BY <2>6
      <4>2. i - 1 \in 1 .. Len(batch') /\ batch'[i - 1] = batch[i]
        BY <2>2, <4>1
      <4> QED
        BY <2>2, <4>2 DEF InBatch
    <3>2. fib'[q] = fib[q]
      BY <2>3, <2>6 DEF FibOK
    <3> QED
      BY <3>1, <3>2 DEF InStep
  <2> QED
    BY <2>5, <2>6
<1>5. CASE UNCHANGED <<table, dirty, forgotten, batch, fib>>
  BY <1>5 DEF InStep, InBatch
<1>6. ASSUME NEW l, StartFlush(l), pc \in {"idle", "again"}
      PROVE  UNCHANGED <<table, dirty, forgotten, batch, fib>>
  BY <1>6 DEF StartFlush, QueueOK
<1> QED
  BY <1>1, <1>2, <1>3, <1>4, <1>5, <1>6, Cases DEF Resolved, Applied

-----------------------------------------------------------------------------
(* The inductive invariant, and what follows from it *)

\* InStep alone is not inductive: that a programmed entry is right needs the
\* batch to be right, and that needs ordered lists and an idle RIB.
RInv ==
    /\ TableOK
    /\ QueueOK
    /\ BatchOK
    /\ YoungerOK
    /\ FibOK
    /\ CountsOK
    /\ InStep

\* The empty table and the empty RIB agree.
LEMMA RInvInit == Init => RInv
<1> SUFFICES ASSUME Init
             PROVE  RInv
  OBVIOUS
<1>1. TableOK
  BY DEF Init, TableOK, Ordered
<1>2. IsFiniteSet({}) /\ Cardinality({}) = 0 /\ << >> \in Seq({}) /\ Len(<< >>) = 0
  BY FS_EmptySet
<1>3. QueueOK
  BY <1>2 DEF Init, QueueOK
<1>4. BatchOK /\ YoungerOK /\ FibOK
  BY <1>2 DEF Init, BatchOK, YoungerOK, FibOK
<1>5. CountsOK
  BY <1>2, RibAssumption DEF Init, CountsOK, MarksAccountedFor, Marks
<1>6. InStep
  BY DEF Init, InStep, Agrees, Best
<1> QED
  BY <1>1, <1>3, <1>4, <1>5, <1>6 DEF RInv

\* Every step of the control plane keeps the inductive invariant.
LEMMA RInvStep == RInv /\ [Next]_vars => RInv'
<1> SUFFICES ASSUME RInv, [Next]_vars
             PROVE  RInv'
  OBVIOUS
<1>1. CASE Next
  BY <1>1, TableStep, QueueStep, BatchStep, CountsStep, InStepStep DEF RInv
<1>2. CASE UNCHANGED vars
  <2> USE <1>2 DEF vars, RInv
  <2>1. TableOK' /\ QueueOK'
    BY DEF TableOK, Ordered, QueueOK
  <2>2. BatchOK' /\ YoungerOK' /\ FibOK'
    BY DEF BatchOK, UpdateOK, YoungerOK, FibOK, Programmed
  <2>3. CountsOK' /\ InStep'
    BY DEF CountsOK, MarksAccountedFor, Marks, InStep, InBatch
  <2> QED
    BY <2>1, <2>2, <2>3
<1> QED
  BY <1>1, <1>2

\* The parts together hold in every state of the RIB and its synchroniser.
LEMMA RInvInvariant == Spec => []RInv
BY RInvInit, RInvStep, PTL DEF Spec

\* A prefix that is not waiting to be programmed forwards as the RIB says, for
\* callers that mark on nothing but the result of add() and remove().
THEOREM ForwardsInStep == Spec => []InStep
<1>1. RInv => InStep
  BY DEF RInv
<1> QED
  BY <1>1, RInvInvariant, PTL

\* The coalescing counters are exact, also in the middle of a flush.
THEOREM MarksAreAccounted == Spec => []MarksAccountedFor
<1>1. RInv => MarksAccountedFor
  BY DEF RInv, CountsOK
<1> QED
  BY <1>1, RInvInvariant, PTL

\* The first route of an ordered list is beaten by none.
LEMMA HeadUnbeaten ==
  ASSUME NEW p \in Prefixes, Ordered(table[p]), table[p] # << >>
  PROVE  Head(table[p]) \in Unbeaten(p)
<1> DEFINE s == table[p]
<1>1. /\ Head(s) = s[1] /\ 1 \in DOMAIN s /\ DOMAIN s \subseteq Nat
      /\ \A i \in DOMAIN s : i >= 1 /\ s[i] \in Routes
  BY DEF Ordered
<1>2. ~Preferred(s[1], s[1])
  <2>1. Distances[s[1].source] \in Nat /\ s[1].metric \in Nat
    BY <1>1, RibAssumption, DistancesAreNat
  <2> QED
    BY <2>1 DEF Preferred
<1>3. \A j \in DOMAIN s : ~Preferred(s[j], s[1])
  <2> SUFFICES ASSUME NEW j \in DOMAIN s
               PROVE  ~Preferred(s[j], s[1])
    OBVIOUS
  <2>1. CASE j = 1
    BY <1>2, <2>1
  <2>2. CASE 1 < j
    BY <1>1, <2>2 DEF Ordered
  <2> QED
    BY <1>1, <2>1, <2>2
<1> QED
  BY <1>1, <1>3 DEF Unbeaten

\* The winner is first and there is one route for each protocol, whatever was
\* offered, replaced and withdrawn before.
THEOREM WinnersComeFirst == Spec => []WinnerFirst
<1>1. RInv => WinnerFirst
  BY HeadUnbeaten DEF RInv, TableOK, WinnerFirst, Ordered
<1> QED
  BY <1>1, RInvInvariant, PTL

\* What the first update of a batch does to the forwarding table.
LEMMA ApplyEffect ==
  ASSUME RInv, Apply
  PROVE  /\ 1 \in 1 .. Len(batch) /\ UpdateOK(batch[1])
         /\ fib' = [fib EXCEPT ![batch[1].prefix] =
                      IF batch[1].kind = "add" THEN batch[1].entry ELSE None]
<1>1. PICK S : batch \in Seq(S)
  BY DEF RInv, BatchOK
<1>2. /\ Head(batch) = batch[1] /\ Len(batch) \in Nat /\ Len(batch) >= 1
  BY <1>1, BatchShrinks DEF Apply
<1>3. 1 \in 1 .. Len(batch) /\ UpdateOK(batch[1])
  BY <1>2 DEF RInv, BatchOK
<1>4. fib' = [fib EXCEPT ![batch[1].prefix] =
                 IF batch[1].kind = "add" THEN batch[1].entry ELSE None]
  BY <1>2 DEF Apply
<1> QED
  BY <1>3, <1>4

\* Only winners of the moment, and withdrawals of prefixes without a route,
\* ever reach the forwarding table.
THEOREM WinnersAreProgrammed == Spec => OnlyWinnersProgrammed
<1>1. RInv /\ [Next]_vars => [ProgramsWinners]_vars
  <2> SUFFICES ASSUME RInv, Next
               PROVE  ProgramsWinners
    OBVIOUS
  <2>1. CASE Apply
    <3> SUFFICES ASSUME NEW p \in Prefixes, fib'[p] # fib[p]
                 PROVE  IF fib'[p] = None THEN table[p] = << >>
                        ELSE \E r \in Unbeaten(p) : Agrees(fib'[p], r)
      BY DEF ProgramsWinners
    <3>1. /\ UpdateOK(batch[1])
          /\ fib' = [fib EXCEPT ![batch[1].prefix] =
                      IF batch[1].kind = "add" THEN batch[1].entry ELSE None]
      BY <2>1, ApplyEffect
    <3>2. /\ p = batch[1].prefix
          /\ fib'[p] = IF batch[1].kind = "add" THEN batch[1].entry ELSE None
      BY <3>1 DEF RInv, FibOK
    <3>3. CASE batch[1].kind = "add"
      <4>1. /\ table[p] # << >>
            /\ fib'[p] = EntryOf(Head(table[p]), batch[1].entry.generation)
        BY <3>1, <3>2, <3>3 DEF UpdateOK
      <4>2. Head(table[p]) \in Unbeaten(p) /\ Head(table[p]) \in Routes
        BY <4>1, HeadUnbeaten, BestProperties DEF RInv, TableOK
      <4>3. /\ fib'[p].source = Head(table[p]).source
            /\ fib'[p].hop = Head(table[p]).hop
        BY <4>1 DEF EntryOf
      <4>4. fib'[p] # None
        BY <4>2, <4>3, RibAssumption DEF None, Distances
      <4> QED
        BY <4>2, <4>3, <4>4 DEF Agrees
    <3>4. CASE batch[1].kind # "add"
      BY <3>1, <3>2, <3>4 DEF UpdateOK
    <3> QED
      BY <3>3, <3>4
  <2>2. CASE fib' = fib
    BY <2>2 DEF ProgramsWinners
  <2> QED
    BY <2>1, <2>2, Cases DEF RInv, Update, Clear, StartFlush, Resolve, Resolved, Applied, flushing
<1> QED
  BY <1>1, RInvInvariant, PTL DEF Spec, OnlyWinnersProgrammed

\* An entry that reaches the forwarding table is younger than all that are in
\* it, so a generation tells two entries of a prefix apart.
THEOREM GenerationsGrow == Spec => GenerationsIncrease
<1>1. RInv /\ [Next]_vars => [ProgramsYounger]_vars
  <2> SUFFICES ASSUME RInv, Next
               PROVE  ProgramsYounger
    OBVIOUS
  <2>1. CASE Apply
    <3> SUFFICES ASSUME NEW p \in Prefixes, NEW q \in Prefixes,
                        fib'[p] \notin {fib[p], None}, fib[q] # None
                 PROVE  fib[q].generation < fib'[p].generation
      BY DEF ProgramsYounger
    <3>1. /\ 1 \in 1 .. Len(batch)
          /\ fib' = [fib EXCEPT ![batch[1].prefix] =
                      IF batch[1].kind = "add" THEN batch[1].entry ELSE None]
      BY <2>1, ApplyEffect
    <3>2. batch[1].kind = "add" /\ fib'[p] = batch[1].entry
      BY <3>1 DEF RInv, FibOK
    <3> QED
      BY <3>1, <3>2 DEF RInv, YoungerOK
  <2>2. CASE fib' = fib
    BY <2>2 DEF ProgramsYounger
  <2> QED
    BY <2>1, <2>2, Cases DEF RInv, Update, Clear, StartFlush, Resolve, Resolved, Applied, flushing
<1> QED
  BY <1>1, RInvInvariant, PTL DEF Spec, GenerationsIncrease

\* The types, and the bound that the number of marks puts on the generations.
THEOREM RibTypeCorrect == Spec => []TypeOK
<1>1. RInv => TypeOK
  <2> SUFFICES ASSUME RInv
               PROVE  TypeOK
    OBVIOUS
  <2>1. generation \in 0 .. MaxMarks
    <3>1. /\ Cardinality(dirty) \in Nat /\ MaxMarks \in Nat /\ Len(batch) \in Nat
      BY FS_CardinalityType, RibAssumption DEF RInv, QueueOK, BatchOK
    <3>2. /\ stats.marked \in Nat /\ stats.coalesced \in Nat /\ stats.adds \in Nat
          /\ stats.removes \in Nat /\ stats.updates_programmed \in Nat
      BY DEF RInv, CountsOK
    <3>3. /\ stats.marked = Cardinality(dirty) + Len(batch) + stats.updates_programmed
          /\ stats.adds + stats.removes = Len(batch) + stats.updates_programmed
          /\ generation = stats.adds
          /\ stats.marked + stats.coalesced <= MaxMarks
      BY DEF RInv, CountsOK, MarksAccountedFor, Marks
    <3> QED
      BY <3>1, <3>2, <3>3
  <2>2. fib \in [Prefixes -> Entries]
    <3>1. \A p \in Prefixes : fib[p] \in Entries
      <4> SUFFICES ASSUME NEW p \in Prefixes, fib[p] # None
                   PROVE  fib[p] \in Entries
        BY DEF Entries
      <4>1. PICK r \in Routes, g \in 1 .. generation : fib[p] = EntryOf(r, g)
        BY DEF RInv, FibOK, Programmed
      <4>2. g \in 1 .. MaxMarks
        BY <2>1, RibAssumption
      <4> QED
        BY <4>1, <4>2 DEF Entries, EntryOf
    <3> QED
      BY <3>1 DEF RInv, FibOK
  <2> QED
    BY <2>1, <2>2 DEF TypeOK, RInv, TableOK, Ordered, QueueOK
<1> QED
  BY <1>1, RInvInvariant, PTL
\* The forwarding table that the synchroniser assumes: a table of ForwardingTable
\* whose entries say what a route says.
Plain == INSTANCE ForwardingTable
    WITH table <- fib, NoEntry <- None, Entries <- Entries \ {None}

\* Whatever the RIB does, its synchroniser asks of the forwarding table only what
\* ForwardingTable offers: an insertion, or the removal of one prefix.  The tables of
\* Fib implement that same specification (FibImplementsTable), so the two models
\* fit together there.
THEOREM RibDrivesTable == Spec => Plain!Spec
<1>1. Init => Plain!Init
  BY DEF Init, Plain!Init
<1>2. RInv /\ TypeOK' /\ [Next]_vars => [Plain!Next]_fib
  <2> SUFFICES ASSUME RInv, TypeOK', Next, fib' # fib
               PROVE  Plain!Next
    BY DEF vars
  <2>1. Apply
    BY Cases DEF RInv, Update, Clear, StartFlush, Resolve, Resolved, Applied, flushing
  <2> DEFINE p == batch[1].prefix
             e == IF batch[1].kind = "add" THEN batch[1].entry ELSE None
  <2>2. p \in Prefixes /\ fib' = [fib EXCEPT ![p] = e]
    BY <2>1, ApplyEffect DEF UpdateOK
  <2> HIDE DEF p, e
  <2>3. fib = [q \in Prefixes |-> fib[q]] /\ fib'[p] = e /\ fib[p] # e
    BY <2>2 DEF RInv, FibOK
  <2>4. CASE e = None
    BY <2>2, <2>3, <2>4 DEF Plain!Next, Plain!Erase
  <2>5. CASE e # None
    <3>1. e \in Entries \ {None}
      BY <2>2, <2>3, <2>5 DEF TypeOK
    <3> QED
      BY <2>2, <3>1 DEF Plain!Next, Plain!Insert
  <2> QED
    BY <2>4, <2>5
<1> QED
  BY <1>1, <1>2, RInvInvariant, RibTypeCorrect, PTL DEF Spec, Plain!Spec
=============================================================================
