---------------------------- MODULE AddressProofs ----------------------------
(***************************************************************************)
(* Proofs about Address, for every shape of an address.                    *)
(***************************************************************************)
EXTENDS Address, Counting, SequenceTheorems

(* Words *)

IsShape(s) ==
    /\ s \in [word : Nat, used : Nat, count : Nat \ {0}]
    /\ s.used \in 1 .. s.word

LEMMA LeastIs ==
  ASSUME NEW S \in SUBSET Nat, NEW m \in S, \A n \in S : m <= n
  PROVE  Least(S) = m
<1>1. \A x \in S : (\A y \in S : x <= y) => x = m
  OBVIOUS
<1> QED
  BY <1>1 DEF Least

LEMMA LeastOf ==
  ASSUME NEW S \in SUBSET Nat, S # {}
  PROVE  Least(S) \in S /\ \A n \in S : Least(S) <= n
<1>1. PICK m \in S : \A n \in S : m <= n
  BY LeastNumber
<1> QED
  BY <1>1, LeastIs

\* A product grows with its factor.
LEMMA Grows ==
  ASSUME NEW i \in Nat, NEW j \in Nat, NEW u \in Nat, i <= j
  PROVE  i * u <= j * u
  OBVIOUS

\* Where a bit lies: the word before which there are q, and the place in it.
LEMMA Division ==
  ASSUME NEW u \in Nat \ {0}, NEW n \in Nat
  PROVE  /\ n \div u \in Nat /\ n % u \in 0 .. u - 1
         /\ n = (n \div u) * u + (n % u)
  OBVIOUS

LEMMA DivisionIs ==
  ASSUME NEW u \in Nat \ {0}, NEW q \in Nat, NEW r \in 0 .. u - 1
  PROVE  (q * u + r) \div u = q /\ (q * u + r) % u = r
  OBVIOUS

LEMMA Below ==
  ASSUME NEW u \in Nat \ {0}, NEW c \in Nat, NEW q \in Nat, NEW r \in Nat, q * u + r < c * u
  PROVE  q < c
  OBVIOUS

\* The words of an address, and what lies at the place of a bit.
LEMMA BitPlace ==
  ASSUME NEW s, IsShape(s), NEW a \in Words(s), NEW n \in 0 .. BitCount(s) - 1
  PROVE  /\ n \div s.used \in 0 .. s.count - 1 /\ n % s.used \in 0 .. s.used - 1
         /\ n = (n \div s.used) * s.used + (n % s.used)
         /\ (n \div s.used) + 1 \in 1 .. s.count
         /\ s.used - 1 - (n % s.used) \in 0 .. s.used - 1
         /\ s.used - 1 - (n % s.used) \in Positions(s)
         /\ Bit(s, a, n) \in {0, 1}
<1> DEFINE u == s.used
           q == n \div u
           r == n % u
<1>1. u \in Nat \ {0} /\ s.count \in Nat \ {0} /\ s.word \in Nat /\ u <= s.word
  BY DEF IsShape
<1>2. n \in Nat /\ n < s.count * u
  BY <1>1 DEF BitCount
<1>3. q \in Nat /\ r \in 0 .. u - 1 /\ n = q * u + r
  BY <1>1, <1>2, Division
<1> HIDE DEF u, q, r
<1>4. q < s.count
  BY <1>1, <1>2, <1>3, Below
<1>5. q \in 0 .. s.count - 1 /\ q + 1 \in 1 .. s.count /\ u - 1 - r \in 0 .. u - 1
  BY <1>1, <1>3, <1>4
<1>6. u - 1 - r \in Positions(s)
  BY <1>1, <1>5 DEF Positions
<1>7. a[q + 1][u - 1 - r] \in {0, 1}
  BY <1>5, <1>6 DEF Words
<1> QED
  BY <1>3, <1>5, <1>6, <1>7 DEF Bit, u, q, r

\* The bit in word q + 1 with r used bits of that word above it.
LEMMA BitOf ==
  ASSUME NEW s, IsShape(s), NEW a, NEW q \in 0 .. s.count - 1, NEW r \in 0 .. s.used - 1
  PROVE  /\ q * s.used + r \in 0 .. BitCount(s) - 1
         /\ (q * s.used + r) \div s.used = q /\ (q * s.used + r) % s.used = r
         /\ Bit(s, a, q * s.used + r) = a[q + 1][s.used - 1 - r]
<1> DEFINE u == s.used
<1>1. u \in Nat \ {0} /\ s.count \in Nat \ {0} /\ q \in Nat /\ r \in Nat /\ r < u
  BY DEF IsShape
<1> HIDE DEF u
<1>2. (q + 1) * u <= s.count * u
  BY <1>1, Grows
<1>3. q * u + r < (q + 1) * u /\ q * u + r \in Nat
  BY <1>1
<1>5. s.count * u \in Nat
  BY <1>1
<1>4. q * u + r \in 0 .. s.count * u - 1
  BY <1>2, <1>3, <1>5, <1>1
<1>6. (q * u + r) \div u = q /\ (q * u + r) % u = r
  <2>1. r \in 0 .. u - 1
    BY <1>1
  <2> QED
    BY <1>1, <2>1, DivisionIs
<1>7. BitCount(s) = s.count * u
  BY <1>1 DEF BitCount, u
<1> QED
  BY <1>4, <1>6, <1>7 DEF Bit, u

LEMMA WordTypes ==
  ASSUME NEW s, IsShape(s), NEW a \in Words(s), NEW i \in 1 .. s.count
  PROVE  /\ a[i] \in [Positions(s) -> {0, 1}]
         /\ \A p \in s.used .. s.word - 1 : a[i][p] = 0
         /\ DOMAIN a = 1 .. s.count
BY DEF Words

\* The leading bit of a word in which two words differ.
LEMMA WordsDiffer ==
  ASSUME NEW s, IsShape(s), NEW a \in Words(s), NEW b \in Words(s),
         NEW i \in 1 .. s.count, a[i] # b[i]
  PROVE  LET lead == CountlZero(s, Xor(s, a[i], b[i])) - Padding(s)
         IN  /\ lead \in 0 .. s.used - 1
             /\ a[i][s.used - 1 - lead] # b[i][s.used - 1 - lead]
             /\ \A r \in 0 .. s.used - 1 :
                    r < lead => a[i][s.used - 1 - r] = b[i][s.used - 1 - r]
<1> DEFINE u == s.used
           w == s.word
           x == Xor(s, a[i], b[i])
           N == {n \in 0 .. w : n = w \/ x[w - 1 - n] = 1}
           L == Least(N)
<1>1. u \in Nat \ {0} /\ w \in Nat /\ u <= w
  BY DEF IsShape
<1>2. /\ a[i] \in [Positions(s) -> {0, 1}] /\ \A p \in u .. w - 1 : a[i][p] = 0
      /\ b[i] \in [Positions(s) -> {0, 1}] /\ \A p \in u .. w - 1 : b[i][p] = 0
  BY WordTypes
<1>3. \A p \in 0 .. w - 1 : x[p] = IF a[i][p] = b[i][p] THEN 0 ELSE 1
  BY DEF Xor, Positions
<1>4. PICK p \in 0 .. w - 1 : a[i][p] # b[i][p]
  <2>1. \E p \in Positions(s) : a[i][p] # b[i][p]
    BY <1>2
  <2> QED
    BY <2>1 DEF Positions
<1>5. CountlZero(s, x) = L
  BY DEF CountlZero
<1>6. N \in SUBSET Nat /\ w - 1 - p \in N
  BY <1>1, <1>3, <1>4
<1> HIDE DEF x
<1>7. L \in N /\ \A n \in N : L <= n
  <2> HIDE DEF N
  <2> QED
    BY <1>6, LeastOf
<1>8. L \in 0 .. w - 1 /\ x[w - 1 - L] = 1
  <2>1. L <= w - 1 - p /\ L \in 0 .. w /\ (L = w \/ x[w - 1 - L] = 1)
    BY <1>6, <1>7
  <2> HIDE DEF L, N
  <2> QED
    BY <1>1, <1>4, <2>1
<1>9. \A n \in 0 .. w : n < L => x[w - 1 - n] # 1
  BY <1>1, <1>7, <1>8
<1> HIDE DEF N, L
<1>10. a[i][w - 1 - L] # b[i][w - 1 - L]
  BY <1>1, <1>3, <1>8
<1>11. ~(w - 1 - L >= u)
  BY <1>1, <1>2, <1>8, <1>10
<1> DEFINE lead == L - (w - u)
<1>12. lead \in 0 .. u - 1 /\ u - 1 - lead = w - 1 - L
  BY <1>1, <1>8, <1>11
<1>13. ASSUME NEW r \in 0 .. u - 1, r < lead
       PROVE  a[i][u - 1 - r] = b[i][u - 1 - r]
  <2>1. /\ r + (w - u) \in 0 .. w /\ r + (w - u) < L
        /\ w - 1 - (r + (w - u)) = u - 1 - r /\ u - 1 - r \in 0 .. w - 1
    BY <1>1, <1>8, <1>13
  <2>2. x[u - 1 - r] # 1
    BY <1>9, <2>1
  <2> QED
    BY <1>3, <2>1, <2>2
<1>14. CountlZero(s, x) - Padding(s) = lead
  BY <1>5 DEF Padding
<1> HIDE DEF lead
<1> QED
  BY <1>10, <1>12, <1>13, <1>14 DEF x, u

\* Two addresses part at one bit: it differs, and those before it do not.
LEMMA PartAt ==
  ASSUME NEW s, IsShape(s), NEW a \in Words(s), NEW b \in Words(s), a # b
  PROVE  LET d == CommonPrefixLength(s, a, b)
         IN  /\ d \in 0 .. BitCount(s) - 1
             /\ Bit(s, a, d) # Bit(s, b, d)
             /\ \A n \in 0 .. BitCount(s) - 1 : n < d => Bit(s, a, n) = Bit(s, b, n)
<1> DEFINE u == s.used
           differ == {i \in 1 .. s.count : a[i] # b[i]}
           i == Least(differ)
           lead == CountlZero(s, Xor(s, a[i], b[i])) - Padding(s)
           d == (i - 1) * u + lead
<1>1. u \in Nat \ {0} /\ s.count \in Nat \ {0}
  BY DEF IsShape
<1>2. differ # {} /\ differ \in SUBSET Nat
  <2>1. \E j \in 1 .. s.count : a[j] # b[j]
    <3> DEFINE X == {x \in [Positions(s) -> {0, 1}] : \A p \in s.used .. s.word - 1 : x[p] = 0}
    <3>1. a \in [1 .. s.count -> X] /\ b \in [1 .. s.count -> X]
      BY DEF Words
    <3> DEFINE C == 1 .. s.count
    <3> HIDE DEF X, C
    <3>3. a = [j \in C |-> a[j]] /\ b = [j \in C |-> b[j]]
      BY <3>1 DEF C
    <3>2. SUFFICES ASSUME \A j \in 1 .. s.count : a[j] = b[j]
                   PROVE  a = b
      BY <3>2
    <3>4. \A j \in C : a[j] = b[j]
      BY <3>2 DEF C
    <3>5. [j \in C |-> a[j]] = [j \in C |-> b[j]]
      BY <3>4
    <3> QED
      BY <3>3, <3>5
  <2> QED
    BY <2>1
<1>3. i \in differ /\ \A j \in differ : i <= j
  <2> HIDE DEF differ
  <2> QED
    BY <1>2, LeastOf
<1>4. i \in 1 .. s.count /\ a[i] # b[i]
  BY <1>3
<1>5. \A j \in 1 .. s.count : j < i => a[j] = b[j]
  BY <1>3, <1>4
<1> HIDE DEF i
<1>6. /\ lead \in 0 .. u - 1
      /\ a[i][u - 1 - lead] # b[i][u - 1 - lead]
      /\ \A r \in 0 .. u - 1 : r < lead => a[i][u - 1 - r] = b[i][u - 1 - r]
  BY <1>4, WordsDiffer
<1>7. CommonPrefixLength(s, a, b) = Least({d, BitCount(s)})
  BY <1>2 DEF CommonPrefixLength, i
<1> HIDE DEF lead, differ
<1>8. i - 1 \in 0 .. s.count - 1 /\ lead \in 0 .. s.used - 1 /\ i - 1 + 1 = i
  BY <1>1, <1>4, <1>6 DEF u
<1>9. /\ d \in 0 .. BitCount(s) - 1
      /\ Bit(s, a, d) = a[i][u - 1 - lead]
      /\ Bit(s, b, d) = b[i][u - 1 - lead]
  <2>1. Bit(s, a, d) = a[i - 1 + 1][u - 1 - lead] /\ d \in 0 .. BitCount(s) - 1
    BY <1>8, BitOf DEF u
  <2>2. Bit(s, b, d) = b[i - 1 + 1][u - 1 - lead]
    BY <1>8, BitOf DEF u
  <2> QED
    BY <1>8, <2>1, <2>2
<1>10. BitCount(s) \in Nat
  BY <1>1 DEF BitCount
<1>11. CommonPrefixLength(s, a, b) = d
  <2> HIDE DEF d
  <2>1. d \in Nat /\ d <= BitCount(s)
    BY <1>9, <1>10
  <2>2. Least({d, BitCount(s)}) = d
    BY <1>10, <2>1, LeastIs
  <2> QED
    BY <1>7, <2>2
<1>12. ASSUME NEW n \in 0 .. BitCount(s) - 1, n < d
       PROVE  Bit(s, a, n) = Bit(s, b, n)
  <2> DEFINE q == n \div u
             r == n % u
  <2>1. q \in 0 .. s.count - 1 /\ r \in 0 .. u - 1 /\ n = q * u + r /\ q + 1 \in 1 .. s.count
    BY BitPlace DEF u
  <2>2. Bit(s, a, n) = a[q + 1][u - 1 - r] /\ Bit(s, b, n) = b[q + 1][u - 1 - r]
    BY DEF Bit, u
  <2> HIDE DEF q, r, u
  <2>3. CASE q + 1 < i
    BY <1>5, <2>1, <2>2, <2>3
  <2>4. CASE q + 1 = i
    <3>1. q = i - 1
      BY <1>8, <2>1, <2>4
    <3>2. r < lead
      <4> DEFINE z == q * u
      <4>1. z \in Int /\ n = z + r /\ d = z + lead
        BY <1>1, <2>1, <3>1
      <4> HIDE DEF z, d
      <4> QED
        BY <1>12, <1>6, <2>1, <4>1
    <3> QED
      BY <1>6, <2>1, <2>2, <2>4, <3>2
  <2>5. CASE i < q + 1
    <3>1. i * u <= q * u
      <4>1. i \in Nat /\ q \in Nat /\ i <= q
        BY <1>4, <2>1, <2>5
      <4> QED
        BY <1>1, <4>1, Grows
    <3>2. (i - 1) * u = i * u - u /\ i * u \in Int /\ q * u \in Int
      BY <1>1, <1>4, <2>1
    <3> DEFINE y == i * u
               z == q * u
    <3>3. d = y - u + lead /\ n = z + r /\ y <= z /\ y \in Int /\ z \in Int
      BY <2>1, <3>1, <3>2
    <3> HIDE DEF y, z, d
    <3> QED
      BY <1>1, <1>6, <1>12, <2>1, <3>3
  <2> QED
    BY <1>4, <2>1, <2>3, <2>4, <2>5
<1> HIDE DEF d
<1> QED
  BY <1>6, <1>9, <1>11, <1>12

\* The first conjunct of WordsMatchBits.
LEMMA AgreeOnBits ==
  ASSUME NEW s, IsShape(s), NEW a \in Words(s), NEW b \in Words(s), NEW n \in 0 .. BitCount(s)
  PROVE  AgreeOn(s, a, b, n) <=> \A i \in 0 .. n - 1 : Bit(s, a, i) = Bit(s, b, i)
<1>1. BitCount(s) \in Nat
  BY DEF BitCount, IsShape
<1>2. CASE a = b
  <2>1. CommonPrefixLength(s, a, b) = BitCount(s)
    BY <1>2 DEF CommonPrefixLength
  <2> QED
    BY <1>1, <1>2, <2>1 DEF AgreeOn
<1>3. CASE a # b
  <2> DEFINE d == CommonPrefixLength(s, a, b)
  <2>1. /\ d \in 0 .. BitCount(s) - 1
        /\ Bit(s, a, d) # Bit(s, b, d)
        /\ \A i \in 0 .. BitCount(s) - 1 : i < d => Bit(s, a, i) = Bit(s, b, i)
    BY <1>3, PartAt
  <2>2. AgreeOn(s, a, b, n) <=> n = 0 \/ d >= n
    BY DEF AgreeOn
  <2> HIDE DEF d
  <2> QED
    BY <1>1, <2>1, <2>2
<1> QED
  BY <1>2, <1>3

\* The second.
LEMMA MaskedBits ==
  ASSUME NEW s, IsShape(s), NEW a \in Words(s),
         NEW n \in 0 .. BitCount(s), NEW i \in 0 .. BitCount(s) - 1
  PROVE  Bit(s, Masked(s, a, n), i) = IF i < n THEN Bit(s, a, i) ELSE 0
<1> DEFINE u == s.used
           q == i \div u
           r == i % u
           z == q * u
           keep == n - z
           p == u - 1 - r
           m == Masked(s, a, n)[q + 1]
<1>1. /\ u \in Nat \ {0} /\ s.count \in Nat \ {0} /\ q \in 0 .. s.count - 1
      /\ r \in 0 .. u - 1 /\ i = z + r /\ z \in Nat
      /\ p \in 0 .. u - 1 /\ p \in Positions(s) /\ q + 1 \in 1 .. s.count
  <2>1. u \in Nat \ {0} /\ s.count \in Nat \ {0}
    BY DEF IsShape
  <2>2. /\ q \in 0 .. s.count - 1 /\ r \in 0 .. u - 1 /\ i = z + r
        /\ q + 1 \in 1 .. s.count /\ p \in 0 .. u - 1 /\ p \in Positions(s)
    BY BitPlace
  <2>3. q \in Nat
    BY <2>1, <2>2
  <2>4. z \in Nat
    <3> HIDE DEF q, u
    <3> QED
      BY <2>1, <2>3
  <2> QED
    BY <2>1, <2>2, <2>4
<1>2. /\ Bit(s, Masked(s, a, n), i) = m[p]
      /\ Bit(s, a, i) = a[q + 1][p]
  BY DEF Bit
<1>3. m = IF keep >= u THEN a[q + 1]
          ELSE IF keep <= 0 THEN [j \in Positions(s) |-> 0]
          ELSE ClearBelow(s, a[q + 1], u - keep)
  <2> DEFINE Kept(j, left) ==
                 IF left >= u THEN a[j]
                 ELSE IF left <= 0 THEN [k \in Positions(s) |-> 0]
                 ELSE ClearBelow(s, a[j], u - left)
  <2>1. q + 1 - 1 = q
    <3> HIDE DEF q
    <3> QED
      BY <1>1
  <2>2. Masked(s, a, n) = [j \in 1 .. s.count |-> Kept(j, n - (j - 1) * u)]
    BY DEF Masked
  <2> HIDE DEF Kept, q
  <2>3. m = Kept(q + 1, n - (q + 1 - 1) * u)
    BY <1>1, <2>2
  <2>4. n - (q + 1 - 1) * u = keep
    BY <2>1
  <2> HIDE DEF m, keep, z
  <2>5. m = Kept(q + 1, keep)
    BY <2>3, <2>4
  <2> QED
    BY <2>5 DEF Kept
<1>4. n \in Nat
  BY <1>1 DEF BitCount
<1> HIDE DEF u, q, z, m
<1>5. CASE keep >= u
  <2>1. i < n
    BY <1>1, <1>4, <1>5
  <2> QED
    BY <1>2, <1>3, <1>5, <2>1
<1>6. CASE ~(keep >= u) /\ keep <= 0
  <2>1. ~(i < n)
    BY <1>1, <1>4, <1>6
  <2> QED
    BY <1>1, <1>2, <1>3, <1>6, <2>1
<1>7. CASE ~(keep >= u) /\ ~(keep <= 0)
  <2>1. m[p] = IF p < u - keep THEN 0 ELSE a[q + 1][p]
    BY <1>1, <1>3, <1>7 DEF ClearBelow
  <2>2. p < u - keep <=> ~(i < n)
    BY <1>1, <1>4
  <2> QED
    BY <1>2, <2>1, <2>2
<1> QED
  BY <1>5, <1>6, <1>7

-----------------------------------------------------------------------------
(* The specification *)

\* What a caller may ask about.
Asked ==
    \/ subject = Nothing
    \/ \E s \in Shapes : \E a, b \in Words(s) :
           subject = [is |-> "words", shape |-> s, a |-> a, b |-> b]
    \/ \E n \in 0 .. 255 : subject = [is |-> "number", n |-> n]
    \/ \E d \in DigitStrings : subject = [is |-> "digits", digits |-> d]
    \/ \E g \in Addresses6 : subject = [is |-> "groups", groups |-> g]
    \/ \E t \in Texts : subject = [is |-> "text", text |-> t]

\* Every subject is one that a caller may ask about.
THEOREM SubjectsAreAsked == AddressSpec => []Asked
<1>1. AddressInit => Asked
  BY DEF AddressInit, Asked
<1>2. Asked /\ [AddressNext]_subject => Asked'
  <2> SUFFICES ASSUME Asked, [AddressNext]_subject
               PROVE  Asked'
    OBVIOUS
  <2>1. CASE Ask
    BY <2>1 DEF Ask, Asked
  <2>2. CASE Answered
    BY <2>2 DEF Answered, Asked
  <2>3. CASE UNCHANGED subject
    BY <2>3 DEF Asked
  <2> QED
    BY <2>1, <2>2, <2>3 DEF AddressNext
<1> QED
  BY <1>1, <1>2, PTL DEF AddressSpec

\* common_prefix_length(), matches() and masked() (address.hpp:58-99) agree with
\* the bits that bit() reads, whatever the width of a word and of an address.
THEOREM WordsAreBits == AddressSpec => []WordsMatchBits
<1>1. Asked => WordsMatchBits
  <2> SUFFICES ASSUME Asked, subject.is = "words"
               PROVE  WordsMatchBits
    BY DEF WordsMatchBits
  <2>1. PICK s \in Shapes : \E a, b \in Words(s) :
           subject = [is |-> "words", shape |-> s, a |-> a, b |-> b]
    BY DEF Asked, Nothing
  <2>2. PICK a \in Words(s), b \in Words(s) :
           subject = [is |-> "words", shape |-> s, a |-> a, b |-> b]
    BY <2>1
  <2>3. subject.shape = s /\ subject.a = a /\ subject.b = b
    BY <2>2
  <2>4. IsShape(s)
    BY AddressAssumption DEF IsShape
  <2>5. ASSUME NEW n \in 0 .. BitCount(s)
        PROVE  /\ AgreeOn(s, a, b, n) <=> \A i \in 0 .. n - 1 : Bit(s, a, i) = Bit(s, b, i)
               /\ \A i \in 0 .. BitCount(s) - 1 :
                    Bit(s, Masked(s, a, n), i) = IF i < n THEN Bit(s, a, i) ELSE 0
    BY <2>4, AgreeOnBits, MaskedBits
  <2> QED
    BY <2>3, <2>5 DEF WordsMatchBits
<1> QED
  BY <1>1, SubjectsAreAsked, PTL

-----------------------------------------------------------------------------
(* Numbers *)

\* A number of up to three digits, as it is written.
Spelt(m) ==
    IF m < 10 THEN <<m>>
    ELSE IF m < 100 THEN <<m \div 10, m % 10>>
    ELSE <<m \div 100, (m \div 10) % 10, m % 10>>

LEMMA Appended ==
  ASSUME NEW x \in Nat, NEW y \in Nat, NEW z \in Nat
  PROVE  Append(<<x>>, y) = <<x, y>> /\ Append(<<x, y>>, z) = <<x, y, z>>
<1>1. <<x>> \in Seq(Nat) /\ <<x, y>> \in Seq(Nat)
  OBVIOUS
<1>2. Append(<<x>>, y) \in Seq(Nat) /\ Append(<<x, y>>, z) \in Seq(Nat)
  BY <1>1, AppendProperties
<1>3. /\ Len(Append(<<x>>, y)) = 2 /\ Append(<<x>>, y)[1] = x /\ Append(<<x>>, y)[2] = y
  BY <1>1, AppendProperties
<1>4. /\ Len(Append(<<x, y>>, z)) = 3
      /\ Append(<<x, y>>, z)[1] = x /\ Append(<<x, y>>, z)[2] = y /\ Append(<<x, y>>, z)[3] = z
  BY <1>1, AppendProperties
<1>5. /\ <<x, y, z>> \in Seq(Nat)
      /\ Len(<<x, y>>) = 2 /\ <<x, y>>[1] = x /\ <<x, y>>[2] = y
      /\ Len(<<x, y, z>>) = 3
      /\ <<x, y, z>>[1] = x /\ <<x, y, z>>[2] = y /\ <<x, y, z>>[3] = z
  OBVIOUS
<1>6. Append(<<x>>, y) = <<x, y>>
  <2>1. \A i \in 1 .. 2 : Append(<<x>>, y)[i] = <<x, y>>[i]
    BY <1>3, <1>5
  <2> QED
    BY <1>1, <1>2, <1>3, <1>5, <2>1, SeqEqual
<1>7. Append(<<x, y>>, z) = <<x, y, z>>
  <2>1. \A i \in 1 .. 3 : Append(<<x, y>>, z)[i] = <<x, y, z>>[i]
    BY <1>4, <1>5
  <2> QED
    BY <1>2, <1>4, <1>5, <2>1, SeqEqual
<1> QED
  BY <1>6, <1>7

LEMMA Hundreds ==
  ASSUME NEW x \in 0 .. 9, NEW y \in 0 .. 9, NEW z \in 0 .. 9
  PROVE  10 * (10 * x + y) + z = 100 * x + 10 * y + z
OBVIOUS

LEMMA DigitsAre ==
  ASSUME NEW n \in 0 .. 999
  PROVE  Digits(n) = Spelt(n)
<1> DEFINE Body(f) == [m \in 0 .. n |-> IF m < 10 THEN <<m>> ELSE Append(f[m \div 10], m % 10)]
           Text == CHOOSE f : f = Body(f)
           g == [m \in 0 .. n |-> Spelt(m)]
<1>1. ASSUME NEW m \in 0 .. n, ~(m < 10)
      PROVE  m \div 10 \in 0 .. n /\ m \div 10 < 100 /\ m \div 100 = (m \div 10) \div 10
  BY <1>1
<1>2. ASSUME NEW m \in 0 .. n, ~(m < 10)
      PROVE  Append(Spelt(m \div 10), m % 10) = Spelt(m)
  <2>1. CASE m < 100
    <3>1. m \div 10 < 10
      BY <2>1
    <3>2. Spelt(m \div 10) = <<m \div 10>>
      BY <3>1 DEF Spelt
    <3>3. Append(<<m \div 10>>, m % 10) = <<m \div 10, m % 10>>
      <4>1. m \div 10 \in Nat /\ m % 10 \in Nat
        OBVIOUS
      <4> QED
        BY <4>1, Appended
    <3> QED
      BY <1>2, <2>1, <3>2, <3>3 DEF Spelt
  <2>2. CASE ~(m < 100)
    <3>1. m \div 10 < 100 /\ ~(m \div 10 < 10) /\ m \div 100 = (m \div 10) \div 10
      BY <1>1, <1>2, <2>2
    <3>2. Spelt(m \div 10) = <<m \div 100, (m \div 10) % 10>>
      BY <3>1 DEF Spelt
    <3>3. Append(<<m \div 100, (m \div 10) % 10>>, m % 10)
            = <<m \div 100, (m \div 10) % 10, m % 10>>
      <4>1. m \div 100 \in Nat /\ (m \div 10) % 10 \in Nat /\ m % 10 \in Nat
        OBVIOUS
      <4> QED
        BY <4>1, Appended
    <3> QED
      BY <1>2, <2>2, <3>2, <3>3 DEF Spelt
  <2> QED
    BY <2>1, <2>2
<1>3. g = Body(g)
  <2>1. \A m \in 0 .. n : g[m] = IF m < 10 THEN <<m>> ELSE Append(g[m \div 10], m % 10)
    <3> SUFFICES ASSUME NEW m \in 0 .. n
                 PROVE  g[m] = IF m < 10 THEN <<m>> ELSE Append(g[m \div 10], m % 10)
      OBVIOUS
    <3>1. CASE m < 10
      BY <3>1 DEF Spelt
    <3>2. CASE ~(m < 10)
      <4>1. g[m \div 10] = Spelt(m \div 10) /\ g[m] = Spelt(m)
        BY <1>1, <3>2
      <4> HIDE DEF g
      <4> QED
        BY <1>2, <3>2, <4>1
    <3> QED
      BY <3>1, <3>2
  <2>2. g = [m \in 0 .. n |-> g[m]]
    OBVIOUS
  <2> HIDE DEF g
  <2> QED
    BY <2>1, <2>2
<1>4. Text = Body(Text)
  <2> HIDE DEF Body, g
  <2> QED
    BY <1>3
<1>5. Digits(n) = Text[n]
  BY DEF Digits
<1> HIDE DEF Text, g
<1>6. ASSUME NEW m \in 0 .. n
      PROVE  Text[m] = IF m < 10 THEN <<m>> ELSE Append(Text[m \div 10], m % 10)
  <2>1. Body(Text)[m] = IF m < 10 THEN <<m>> ELSE Append(Text[m \div 10], m % 10)
    OBVIOUS
  <2> HIDE DEF Body
  <2> QED
    BY <1>4, <2>1
<1> HIDE DEF Body
<1>7. ASSUME NEW m \in 0 .. n, m < 10
      PROVE  Text[m] = Spelt(m)
  BY <1>6, <1>7 DEF Spelt
<1>8. ASSUME NEW m \in 0 .. n, m < 100
      PROVE  Text[m] = Spelt(m)
  <2>1. CASE ~(m < 10)
    <3>1. m \div 10 \in 0 .. n /\ m \div 10 < 10
      BY <1>8, <2>1
    <3>2. Text[m] = Append(Text[m \div 10], m % 10)
      BY <1>6, <2>1
    <3>3. Text[m \div 10] = Spelt(m \div 10)
      BY <1>7, <3>1
    <3> QED
      BY <1>2, <2>1, <3>2, <3>3
  <2> QED
    BY <1>7, <2>1
<1>9. n \in 0 .. n
  OBVIOUS
<1>10. CASE n < 100
  BY <1>5, <1>8, <1>9, <1>10
<1>11. CASE ~(n < 100)
  <2>1. ~(n < 10)
    BY <1>11
  <2>2. n \div 10 \in 0 .. n /\ n \div 10 < 100
    BY <1>1, <1>9, <2>1
  <2>3. Text[n] = Append(Text[n \div 10], n % 10)
    BY <1>6, <1>9, <2>1
  <2>4. Text[n \div 10] = Spelt(n \div 10)
    BY <1>8, <2>2
  <2> QED
    BY <1>2, <1>5, <1>9, <2>1, <2>3, <2>4
<1> QED
  BY <1>10, <1>11

\* What up to three digits are worth.
Worth(d) ==
    IF Len(d) = 0 THEN 0
    ELSE IF Len(d) = 1 THEN d[1]
    ELSE IF Len(d) = 2 THEN 10 * d[1] + d[2]
    ELSE 100 * d[1] + 10 * d[2] + d[3]

LEMMA DecimalIs ==
  ASSUME NEW d \in Seq(0 .. 9), Len(d) <= 3
  PROVE  Decimal(d) = Worth(d)
<1> DEFINE Body(f) == [i \in 0 .. Len(d) |-> IF i = 0 THEN 0 ELSE 10 * f[i - 1] + d[i]]
           Value == CHOOSE f : f = Body(f)
           W(i) == IF i = 0 THEN 0 ELSE IF i = 1 THEN d[1] ELSE IF i = 2 THEN 10 * d[1] + d[2]
                   ELSE 100 * d[1] + 10 * d[2] + d[3]
           g == [i \in 0 .. Len(d) |-> W(i)]
<1>1. Len(d) \in 0 .. 3 /\ \A i \in 1 .. Len(d) : d[i] \in 0 .. 9
  <2>1. Len(d) \in Nat /\ d \in [1 .. Len(d) -> 0 .. 9]
    BY LenProperties
  <2> QED
    BY <2>1
<1>2. ASSUME NEW i \in 0 .. Len(d), i # 0
      PROVE  10 * W(i - 1) + d[i] = W(i) /\ i - 1 \in 0 .. Len(d)
  <2>1. i \in {1, 2, 3}
    BY <1>1, <1>2
  <2>2. 10 * 0 + d[1] = d[1]
    BY <1>1, <1>2, <2>1
  <2>3. i = 3 => 10 * (10 * d[1] + d[2]) + d[3] = 100 * d[1] + 10 * d[2] + d[3]
    <3> SUFFICES ASSUME i = 3
                 PROVE  10 * (10 * d[1] + d[2]) + d[3] = 100 * d[1] + 10 * d[2] + d[3]
      OBVIOUS
    <3> DEFINE x == d[1]
               y == d[2]
               z == d[3]
    <3>1. x \in 0 .. 9 /\ y \in 0 .. 9 /\ z \in 0 .. 9
      BY <1>1, <1>2
    <3> HIDE DEF x, y, z
    <3>2. 10 * (10 * x + y) + z = 100 * x + 10 * y + z
      BY <3>1, Hundreds
    <3> QED
      BY <3>2 DEF x, y, z
  <2>4. CASE i = 1
    BY <1>1, <2>2, <2>4
  <2>5. CASE i = 2
    BY <1>1, <2>5
  <2>6. CASE i = 3
    BY <1>1, <2>3, <2>6
  <2> QED
    BY <2>1, <2>4, <2>5, <2>6
<1> HIDE DEF W
<1>3. g = Body(g)
  <2>1. \A i \in 0 .. Len(d) : g[i] = IF i = 0 THEN 0 ELSE 10 * g[i - 1] + d[i]
    <3> SUFFICES ASSUME NEW i \in 0 .. Len(d)
                 PROVE  g[i] = IF i = 0 THEN 0 ELSE 10 * g[i - 1] + d[i]
      OBVIOUS
    <3>1. CASE i = 0
      BY <3>1 DEF W
    <3>2. CASE i # 0
      BY <1>2, <3>2
    <3> QED
      BY <3>1, <3>2
  <2>2. g = [i \in 0 .. Len(d) |-> g[i]]
    OBVIOUS
  <2> HIDE DEF g
  <2> QED
    BY <2>1, <2>2
<1>4. Value = Body(Value)
  <2> HIDE DEF Body, g
  <2> QED
    BY <1>3
<1>5. Decimal(d) = Value[Len(d)]
  BY DEF Decimal
<1> HIDE DEF Value, g
<1>6. ASSUME NEW i \in 0 .. Len(d)
      PROVE  Value[i] = IF i = 0 THEN 0 ELSE 10 * Value[i - 1] + d[i]
  <2>1. Body(Value)[i] = IF i = 0 THEN 0 ELSE 10 * Value[i - 1] + d[i]
    OBVIOUS
  <2> HIDE DEF Body
  <2> QED
    BY <1>4, <2>1
<1> HIDE DEF Body
<1> DEFINE S == {i \in 0 .. Len(d) : Value[i] = W(i)}
<1>7. 0 .. Len(d) \subseteq S
  <2>1. 0 \in S
    BY <1>1, <1>6 DEF W
  <2>2. ASSUME NEW i \in 1 .. Len(d), i - 1 \in S
        PROVE  i \in S
    <3>1. i \in 0 .. Len(d) /\ i # 0
      OBVIOUS
    <3> QED
      BY <1>2, <1>6, <2>2, <3>1
  <2> HIDE DEF S
  <2> QED
    BY <1>1, <2>1, <2>2, CountUp
<1>8. Value[Len(d)] = W(Len(d))
  BY <1>1, <1>7
<1> QED
  BY <1>5, <1>8 DEF W, Worth

\* What is written for a number up to 999, and that it reads back.
LEMMA DigitsRead ==
  ASSUME NEW n \in 0 .. 999
  PROVE  /\ Digits(n) \in Seq(0 .. 9) /\ Len(Digits(n)) <= 3 /\ Len(Digits(n)) >= 1
         /\ Len(Digits(n)) > 1 => Digits(n)[1] # 0
         /\ Decimal(Digits(n)) = n
<1> DEFINE d == Spelt(n)
<1>1. /\ d \in Seq(0 .. 9) /\ Len(d) <= 3 /\ Len(d) >= 1
      /\ Len(d) > 1 => d[1] # 0
      /\ Worth(d) = n
  <2>1. CASE n < 10
    <3>1. d = <<n>>
      BY <2>1 DEF Spelt
    <3>2. n \in 0 .. 9
      BY <2>1
    <3> HIDE DEF d
    <3> QED
      BY <3>1, <3>2 DEF Worth
  <2>2. CASE ~(n < 10) /\ n < 100
    <3> DEFINE x == n \div 10
               y == n % 10
    <3>1. d = <<x, y>>
      BY <2>2 DEF Spelt
    <3>2. x \in 1 .. 9 /\ y \in 0 .. 9 /\ 10 * x + y = n
      BY <2>2
    <3> HIDE DEF d, x, y
    <3>3. d \in Seq(0 .. 9)
      BY <3>1, <3>2
    <3> QED
      BY <3>1, <3>2, <3>3 DEF Worth
  <2>3. CASE ~(n < 100)
    <3> DEFINE x == n \div 100
               y == (n \div 10) % 10
               z == n % 10
    <3>1. d = <<x, y, z>>
      BY <2>3 DEF Spelt
    <3>2. x \in 1 .. 9 /\ y \in 0 .. 9 /\ z \in 0 .. 9 /\ 100 * x + 10 * y + z = n
      BY <2>3
    <3> HIDE DEF d, x, y, z
    <3>3. d \in Seq(0 .. 9)
      BY <3>1, <3>2
    <3> QED
      BY <3>1, <3>2, <3>3 DEF Worth
  <2> QED
    BY <2>1, <2>2, <2>3
<1>2. Digits(n) = d
  BY DigitsAre
<1> HIDE DEF d
<1>3. Decimal(d) = n
  <2>1. Len(d) <= 3
    BY <1>1
  <2> QED
    BY <1>1, <2>1, DecimalIs
<1> QED
  BY <1>1, <1>2, <1>3

\* An octet reads back.
LEMMA OctetReads ==
  ASSUME NEW n \in 0 .. 255
  PROVE  ParseOctet(Digits(n)) = n
<1> DEFINE d == Digits(n)
<1>1. n \in 0 .. 999
  OBVIOUS
<1>2. /\ d \in Seq(0 .. 9) /\ Len(d) <= 3 /\ Len(d) >= 1
      /\ Len(d) > 1 => d[1] # 0
      /\ Decimal(d) = n
  BY <1>1, DigitsRead
<1> HIDE DEF d
<1>3. d # << >> /\ ~(Len(d) > 8) /\ ~(n > 255)
  <2>1. ~(Len(d) > 8) /\ Len(d) # 0
    BY <1>2
  <2> QED
    BY <2>1
<1>4. ParseOctet(d) = n
  BY <1>2, <1>3 DEF ParseOctet
<1> QED
  BY <1>4 DEF d

LEMMA QuadReads ==
  ASSUME NEW a \in [1 .. 4 -> 0 .. 255]
  PROVE  ParseV4(FormatV4(a)) = a
<1> DEFINE parts == FormatV4(a)
<1>1. Len(parts) = 4 /\ \A i \in 1 .. 4 : parts[i] = Digits(a[i])
  BY DEF FormatV4
<1>2. ASSUME NEW i \in 1 .. 4
      PROVE  ParseOctet(parts[i]) = a[i] /\ a[i] # Malformed
  BY <1>1, OctetReads DEF Malformed
<1> HIDE DEF parts
<1>3. ParseV4(parts) = [i \in 1 .. 4 |-> ParseOctet(parts[i])]
  BY <1>1, <1>2 DEF ParseV4
<1>4. ParseV4(parts) = [i \in 1 .. 4 |-> a[i]]
  BY <1>2, <1>3
<1> QED
  BY <1>4 DEF parts

LEMMA LengthReads ==
  ASSUME NEW n \in 0 .. 255
  PROVE  ParseLength(Digits(n), 128) = IF n <= 128 THEN n ELSE Malformed
<1> DEFINE d == Digits(n)
<1>1. n \in 0 .. 999
  OBVIOUS
<1>2. d \in Seq(0 .. 9) /\ Len(d) <= 3 /\ Len(d) >= 1 /\ Decimal(d) = n
  BY <1>1, DigitsRead
<1> HIDE DEF d
<1>3. d # << >> /\ ~(Len(d) > 3)
  <2>1. ~(Len(d) > 3) /\ Len(d) # 0
    BY <1>2
  <2> QED
    BY <2>1
<1>4. ParseLength(d, 128) = IF n <= 128 THEN n ELSE Malformed
  BY <1>2, <1>3 DEF ParseLength
<1> QED
  BY <1>4 DEF d

\* What is accepted as an octet is its only spelling.
LEMMA OctetSpelling ==
  ASSUME NEW d \in DigitStrings, ParseOctet(d) # Malformed
  PROVE  d = Digits(ParseOctet(d))
<1>1. PICK k \in 0 .. 3 : d \in [1 .. k -> 0 .. 9]
  BY DEF DigitStrings
<1>2. d \in Seq(0 .. 9) /\ Len(d) = k
  BY <1>1
<1>3. Decimal(d) = Worth(d)
  BY <1>2, DecimalIs
<1>4. /\ ParseOctet(d) = Worth(d) /\ d # << >> /\ ~(Worth(d) > 255)
      /\ Len(d) > 1 => d[1] # 0
  BY <1>3 DEF ParseOctet
<1> DEFINE n == Worth(d)
<1>5. n \in 0 .. 999 /\ d = Spelt(n)
  <2>1. k # 0
    BY <1>2, <1>4
  <2>2. CASE k = 1
    <3>1. d[1] \in 0 .. 9 /\ n = d[1]
      BY <1>1, <1>2, <2>2 DEF Worth
    <3>2. n < 10
      BY <3>1
    <3>3. Spelt(n) = <<n>>
      BY <3>2 DEF Spelt
    <3> HIDE DEF n
    <3>4. <<n>> \in Seq(0 .. 9) /\ Len(<<n>>) = 1 /\ <<n>>[1] = n
      BY <3>1
    <3>5. d = <<n>>
      BY <1>2, <2>2, <3>1, <3>4, SeqEqual
    <3> QED
      BY <3>1, <3>3, <3>5
  <2>3. CASE k = 2
    <3> DEFINE x == d[1]
               y == d[2]
    <3>1. x \in 1 .. 9 /\ y \in 0 .. 9
      BY <1>1, <1>2, <1>4, <2>3
    <3>2. n = 10 * x + y
      BY <1>2, <2>3 DEF Worth
    <3> HIDE DEF n, x, y
    <3>3. ~(n < 10) /\ n < 100 /\ n \div 10 = x /\ n % 10 = y /\ n \in 0 .. 999
      BY <3>1, <3>2
    <3>4. Spelt(n) = <<x, y>>
      BY <3>3 DEF Spelt
    <3>5. <<x, y>> \in Seq(0 .. 9) /\ Len(<<x, y>>) = 2 /\ <<x, y>>[1] = x /\ <<x, y>>[2] = y
      BY <3>1
    <3>6. \A i \in 1 .. 2 : d[i] = <<x, y>>[i]
      BY <3>5 DEF x, y
    <3>7. d = <<x, y>>
      BY <1>2, <2>3, <3>5, <3>6, SeqEqual
    <3> QED
      BY <3>3, <3>4, <3>7
  <2>4. CASE k = 3
    <3> DEFINE x == d[1]
               y == d[2]
               z == d[3]
    <3>1. x \in 1 .. 9 /\ y \in 0 .. 9 /\ z \in 0 .. 9
      BY <1>1, <1>2, <1>4, <2>4
    <3>2. n = 100 * x + 10 * y + z
      BY <1>2, <2>4 DEF Worth
    <3> HIDE DEF n, x, y, z
    <3>3. /\ ~(n < 10) /\ ~(n < 100) /\ n \in 0 .. 999
          /\ n \div 100 = x /\ (n \div 10) % 10 = y /\ n % 10 = z
      BY <3>1, <3>2
    <3>4. Spelt(n) = <<x, y, z>>
      BY <3>3 DEF Spelt
    <3>5. /\ <<x, y, z>> \in Seq(0 .. 9) /\ Len(<<x, y, z>>) = 3
          /\ <<x, y, z>>[1] = x /\ <<x, y, z>>[2] = y /\ <<x, y, z>>[3] = z
      BY <3>1
    <3>6. \A i \in 1 .. 3 : d[i] = <<x, y, z>>[i]
      BY <3>5 DEF x, y, z
    <3>7. d = <<x, y, z>>
      BY <1>2, <2>4, <3>5, <3>6, SeqEqual
    <3> QED
      BY <3>3, <3>4, <3>7
  <2> QED
    BY <2>1, <2>2, <2>3, <2>4
<1> HIDE DEF n
<1>6. Digits(n) = d
  BY <1>5, DigitsAre
<1> QED
  BY <1>4, <1>6 DEF n

-----------------------------------------------------------------------------
(* The parser's loop *)

Tokens == {Colon} \cup Parts

States == [pos : Nat \ {0}, head : Seq(GroupValues), tail : Seq(GroupValues),
           compressed : BOOLEAN, ok : BOOLEAN]

\* A run of the loop.
IsRun(loop, text) ==
    /\ loop \in [0 .. Len(text) -> States]
    /\ loop[0] = Opening(text)
    /\ \A i \in 1 .. Len(text) : loop[i] = Turn(loop[i - 1], text)

LEMMA TokensDiffer ==
  /\ Colon[1] = "colon" /\ Junk[1] = "junk"
  /\ \A g \in GroupValues : Group(g)[1] = "group" /\ Group(g)[2] = g /\ Group(g) # Colon
  /\ \A g, h \in GroupValues :
        /\ Quad(g, h)[1] = "quad" /\ Quad(g, h) # Colon
        /\ Quad(g, h)[2] = g /\ Quad(g, h)[3] = h
  /\ Junk # Colon
BY DEF Colon, Group, Quad, Junk

LEMMA TokenKinds ==
  ASSUME NEW x \in Tokens
  PROVE  \/ x = Colon
         \/ x # Colon /\ x[1] = "group" /\ \E g \in GroupValues : x = Group(g)
         \/ x # Colon /\ x[1] = "quad" /\ x = Quad(0, 0)
         \/ x # Colon /\ x = Junk /\ x[1] = "junk"
<1>1. 0 \in GroupValues
  BY AddressAssumption
<1> QED
  BY <1>1, TokensDiffer DEF Tokens, Parts

\* Storing keeps the types.
LEMMA StoreKeeps ==
  ASSUME NEW s \in States, NEW g \in Seq(GroupValues)
  PROVE  /\ Store(s, g) \in States
         /\ Store(s, g).pos = s.pos /\ Store(s, g).ok = s.ok
         /\ Store(s, g).compressed = s.compressed
<1>1. s.tail \o g \in Seq(GroupValues) /\ s.head \o g \in Seq(GroupValues)
  BY ConcatProperties DEF States
<1> QED
  BY <1>1 DEF Store, States

LEMMA TurnKeeps ==
  ASSUME NEW text \in Seq(Tokens), NEW s \in States
  PROVE  Turn(s, text) \in States
<1>1. CASE ~(s.ok /\ s.pos <= Len(text))
  BY <1>1 DEF Turn
<1>2. CASE s.ok /\ s.pos <= Len(text)
  <2> DEFINE token == text[s.pos]
             end == Len(text) + 1
  <2>1. Turn(s, text) = ParseToken(s, text)
    BY <1>2 DEF Turn
  <2>2. /\ end \in Nat \ {0} /\ s.pos + 1 \in Nat \ {0} /\ s.pos + 2 \in Nat \ {0}
        /\ s.pos \in 1 .. Len(text)
    <3>1. s.pos \in Nat \ {0} /\ Len(text) \in Nat
      BY LenProperties DEF States
    <3> QED
      BY <1>2, <3>1
  <2>3. Fail(s) \in States
    BY DEF Fail, States
  <2>4. CASE token = Colon
    <3>1. ParseToken(s, text) = IF s.compressed THEN Fail(s)
                 ELSE [s EXCEPT !.compressed = TRUE, !.pos = @ + 1]
      BY <2>4, TokensDiffer DEF ParseToken
    <3>2. [s EXCEPT !.compressed = TRUE, !.pos = @ + 1] \in States
      BY <2>2 DEF States
    <3> QED
      BY <2>1, <2>3, <3>1, <3>2
  <2>5. CASE token = Quad(0, 0)
    <3> DEFINE g == <<token[2], token[3]>>
    <3>1. token # Colon /\ token[1] = "quad" /\ g = <<0, 0>> /\ 0 \in GroupValues
      BY <2>5, TokensDiffer, AddressAssumption
    <3>2. ParseToken(s, text) = IF ~RoomFor(s, 2) THEN Fail(s)
                 ELSE [Store(s, g) EXCEPT !.pos = end]
      BY <3>1 DEF ParseToken
    <3> HIDE DEF g, token, end
    <3>3. g \in Seq(GroupValues)
      BY <3>1
    <3>4. Store(s, g) \in States
      BY <3>3, StoreKeeps
    <3>5. [Store(s, g) EXCEPT !.pos = end] \in States
      BY <2>2, <3>4 DEF States
    <3> QED
      BY <2>1, <2>3, <3>2, <3>5
  <2>6. ASSUME NEW x \in GroupValues, token = Group(x)
        PROVE  Turn(s, text) \in States
    <3> DEFINE g == <<token[2]>>
               next == IF s.pos < Len(text) THEN s.pos + 2 ELSE end
    <3>1. token # Colon /\ token[1] = "group" /\ g = <<x>>
      BY <2>6, TokensDiffer
    <3>2. ParseToken(s, text) = IF ~RoomFor(s, 1) \/ Dangling(s, text) THEN Fail(s)
                 ELSE [Store(s, g) EXCEPT !.pos = IF s.pos < Len(text) THEN @ + 2 ELSE end]
      BY <3>1 DEF ParseToken
    <3>3. next \in Nat \ {0}
      BY <2>2
    <3> HIDE DEF g, token, end
    <3>4. g \in Seq(GroupValues)
      BY <3>1
    <3>5. Store(s, g) \in States /\ Store(s, g).pos = s.pos
      BY <3>4, StoreKeeps
    <3>6. [Store(s, g) EXCEPT !.pos = IF s.pos < Len(text) THEN @ + 2 ELSE end]
             = [Store(s, g) EXCEPT !.pos = next]
      BY <3>5
    <3> HIDE DEF next
    <3>7. [Store(s, g) EXCEPT !.pos = next] \in States
      BY <3>3, <3>5 DEF States
    <3> QED
      BY <2>1, <2>3, <3>2, <3>6, <3>7
  <2>7. CASE token = Junk
    <3>1. token # Colon /\ token[1] = "junk"
      BY <2>7, TokensDiffer
    <3>2. ParseToken(s, text) = Fail(s)
      BY <3>1 DEF ParseToken
    <3> QED
      BY <2>1, <2>3, <3>2
  <2>8. token \in Tokens
    BY <2>2, ElementOfSeq
  <2> HIDE DEF token
  <2> QED
    BY <2>4, <2>5, <2>6, <2>7, <2>8, TokenKinds
<1> QED
  BY <1>1, <1>2

Leading(text) == Len(text) >= 2 /\ text[1] = Colon /\ text[2] = Colon

\* The two arrays that are filled.
Stores == {"head", "tail"}

\* The state after some groups have gone to the array that is being filled: the
\* tail, once there is a "::" after the head h.
Reading(p, c, h, g) ==
    IF c = "tail" THEN [pos |-> p, head |-> h, tail |-> g, compressed |-> TRUE, ok |-> TRUE]
    ELSE [pos |-> p, head |-> g, tail |-> << >>, compressed |-> FALSE, ok |-> TRUE]

LEMMA OpeningIs ==
  ASSUME NEW text
  PROVE  /\ Opening(text) \in States
         /\ Leading(text) => Opening(text) = Reading(3, "tail", << >>, << >>)
         /\ ~Leading(text) => Opening(text) = Reading(1, "head", << >>, << >>)
<1>1. << >> \in Seq(GroupValues)
  BY EmptySeq
<1>2. CASE Leading(text)
  <2>1. Opening(text) = Reading(3, "tail", << >>, << >>)
    BY <1>2 DEF Opening, Leading, Reading
  <2>2. Reading(3, "tail", << >>, << >>) \in States
    BY <1>1 DEF Reading, States
  <2> QED
    BY <1>2, <2>1, <2>2
<1>3. CASE ~Leading(text)
  <2>1. Opening(text) = Reading(1, "head", << >>, << >>)
    BY <1>3 DEF Opening, Leading, Reading
  <2>2. Reading(1, "head", << >>, << >>) \in States
    BY <1>1 DEF Reading, States
  <2> QED
    BY <1>3, <2>1, <2>2
<1> QED
  BY <1>2, <1>3

\* The loop has a run, and the parser answers from its end.
LEMMA Runs ==
  ASSUME NEW text \in Seq(Tokens)
  PROVE  \E loop : IsRun(loop, text) /\ ParseV6(text) = Full(loop[Len(text)])
<1> DEFINE N == Len(text)
           step == [s \in States |-> Turn(s, text)]
           Body(f) == [i \in 0 .. N |-> IF i = 0 THEN Opening(text) ELSE Turn(f[i - 1], text)]
           Loop == CHOOSE f : f = Body(f)
<1>1. N \in Nat
  BY LenProperties
<1>2. step \in [States -> States] /\ \A s \in States : step[s] = Turn(s, text)
  BY TurnKeeps
<1>3. Opening(text) \in States
  BY OpeningIs
<1> HIDE DEF step
<1>4. PICK f : IsIteration(f, States, Opening(text), step, N)
  BY <1>1, <1>2, <1>3, Iterates
<1>5. /\ f \in [0 .. N -> States] /\ f[0] = Opening(text)
      /\ \A i \in 1 .. N : f[i] = step[f[i - 1]]
  BY <1>4 DEF IsIteration
<1>6. \A i \in 1 .. N : f[i] = Turn(f[i - 1], text)
  <2> SUFFICES ASSUME NEW i \in 1 .. N
               PROVE  f[i] = Turn(f[i - 1], text)
    OBVIOUS
  <2>1. i - 1 \in 0 .. N
    BY <1>1
  <2> QED
    BY <1>2, <1>5, <2>1
<1>7. f = Body(f)
  <2>1. \A i \in 0 .. N : f[i] = IF i = 0 THEN Opening(text) ELSE Turn(f[i - 1], text)
    BY <1>1, <1>5, <1>6
  <2>2. f = [i \in 0 .. N |-> f[i]]
    BY <1>5
  <2> QED
    BY <2>1, <2>2
<1>8. Loop = Body(Loop)
  <2> HIDE DEF Body
  <2> QED
    BY <1>7
<1>9. ParseV6(text) = Full(Loop[N])
  BY DEF ParseV6
<1> HIDE DEF Loop
<1>10. ASSUME NEW i \in 0 .. N
       PROVE  Loop[i] = IF i = 0 THEN Opening(text) ELSE Turn(Loop[i - 1], text)
  <2>1. Body(Loop)[i] = IF i = 0 THEN Opening(text) ELSE Turn(Loop[i - 1], text)
    OBVIOUS
  <2> HIDE DEF Body
  <2> QED
    BY <1>8, <2>1
<1> DEFINE S == {i \in 0 .. N : Loop[i] = f[i]}
<1>11. 0 .. N \subseteq S
  <2>1. 0 \in S
    BY <1>1, <1>5, <1>10
  <2>2. ASSUME NEW i \in 1 .. N, i - 1 \in S
        PROVE  i \in S
    <3>1. i \in 0 .. N /\ i # 0
      OBVIOUS
    <3> QED
      BY <1>6, <1>10, <2>2, <3>1
  <2> HIDE DEF S
  <2> QED
    BY <1>1, <2>1, <2>2, CountUp
<1>12. ParseV6(text) = Full(f[N])
  BY <1>1, <1>9, <1>11
<1>13. IsRun(f, text)
  BY <1>5, <1>6 DEF IsRun
<1> QED
  BY <1>12, <1>13

\* One turn at a colon, at a group and at a quad.
LEMMA AtColon ==
  ASSUME NEW text \in Seq(Tokens), NEW p \in 1 .. Len(text), text[p] = Colon,
         NEW g \in Seq(GroupValues)
  PROVE  Turn(Reading(p, "head", << >>, g), text) = Reading(p + 1, "tail", g, << >>)
<1> DEFINE s == Reading(p, "head", << >>, g)
<1>1. s.ok /\ s.pos = p /\ s.head = g /\ s.tail = << >> /\ s.compressed = FALSE
  BY DEF Reading
<1>2. p <= Len(text)
  BY LenProperties
<1>3. Turn(s, text) = [s EXCEPT !.compressed = TRUE, !.pos = @ + 1]
  BY <1>1, <1>2, TokensDiffer DEF Turn, ParseToken
<1> QED
  BY <1>3 DEF Reading

Stored(s, g, p) == [Store(s, g) EXCEPT !.pos = p]

LEMMA SameState ==
  ASSUME NEW s \in States, NEW t \in States,
         s.pos = t.pos, s.head = t.head, s.tail = t.tail,
         s.compressed = t.compressed, s.ok = t.ok
  PROVE  s = t
BY DEF States

IsReading(r, p, c, h, g) ==
    /\ r \in States /\ r.pos = p /\ r.ok
    /\ c = "tail" => r.compressed = TRUE /\ r.head = h /\ r.tail = g
    /\ c = "head" => r.compressed = FALSE /\ r.head = g /\ r.tail = << >>

LEMMA ReadingIs ==
  ASSUME NEW p \in Nat \ {0}, NEW c \in Stores,
         NEW h \in Seq(GroupValues), NEW g \in Seq(GroupValues)
  PROVE  IsReading(Reading(p, c, h, g), p, c, h, g)
<1>1. CASE c = "tail"
  BY <1>1 DEF IsReading, Reading, States
<1>2. CASE c = "head"
  BY <1>2, EmptySeq DEF IsReading, Reading, States
<1> QED
  BY <1>1, <1>2 DEF Stores

LEMMA StoreReading ==
  ASSUME NEW p \in Nat \ {0}, NEW q \in Nat \ {0}, NEW c \in Stores,
         NEW h \in Seq(GroupValues), NEW g \in Seq(GroupValues), NEW x \in Seq(GroupValues)
  PROVE  Stored(Reading(p, c, h, g), x, q) = Reading(q, c, h, g \o x)
<1> DEFINE u == g \o x
           r == Reading(p, c, h, g)
           t == Reading(q, c, h, u)
           s == Stored(r, x, q)
<1>1. u \in Seq(GroupValues)
  BY ConcatProperties
<1> HIDE DEF u
<1>2. /\ r \in States /\ r.ok
      /\ c = "tail" => r.compressed = TRUE /\ r.head = h /\ r.tail = g
      /\ c = "head" => r.compressed = FALSE /\ r.head = g /\ r.tail = << >>
  <2>1. IsReading(r, p, c, h, g)
    BY ReadingIs
  <2> HIDE DEF r
  <2> QED
    BY <2>1 DEF IsReading
<1>3. /\ t \in States /\ t.pos = q /\ t.ok
      /\ c = "tail" => t.compressed = TRUE /\ t.head = h /\ t.tail = u
      /\ c = "head" => t.compressed = FALSE /\ t.head = u /\ t.tail = << >>
  <2>1. IsReading(t, q, c, h, u)
    BY <1>1, ReadingIs
  <2> HIDE DEF t
  <2> QED
    BY <2>1 DEF IsReading
<1>4. r.compressed => Store(r, x) = [r EXCEPT !.tail = @ \o x]
  BY DEF Store
<1>5. ~r.compressed => Store(r, x) = [r EXCEPT !.head = @ \o x]
  BY DEF Store
<1> HIDE DEF r, t
<1>6. /\ s \in States /\ s.pos = q /\ s.ok = r.ok /\ s.compressed = r.compressed
      /\ r.compressed => s.head = r.head /\ s.tail = r.tail \o x
      /\ ~r.compressed => s.head = r.head \o x /\ s.tail = r.tail
  <2>1. Store(r, x) \in States /\ Store(r, x).ok = r.ok /\ Store(r, x).compressed = r.compressed
    BY <1>2, StoreKeeps
  <2>2. r.compressed => Store(r, x).head = r.head /\ Store(r, x).tail = r.tail \o x
    BY <1>2, <1>4 DEF States
  <2>3. ~r.compressed => Store(r, x).head = r.head \o x /\ Store(r, x).tail = r.tail
    BY <1>2, <1>5 DEF States
  <2> DEFINE w == Store(r, x)
  <2> HIDE DEF w
  <2>4. [w EXCEPT !.pos = q] \in States
    BY <2>1 DEF States, w
  <2>5. s = [w EXCEPT !.pos = q]
    BY DEF Stored, w
  <2>6. /\ s.pos = q /\ s.ok = w.ok /\ s.compressed = w.compressed
        /\ s.head = w.head /\ s.tail = w.tail
    BY <2>1, <2>5 DEF States, w
  <2> HIDE DEF s
  <2> QED
    BY <2>1, <2>2, <2>3, <2>4, <2>5, <2>6 DEF w
<1> HIDE DEF s
<1>7. CASE c = "tail"
  <2>1. s.head = t.head /\ s.tail = t.tail /\ s.compressed = t.compressed /\ s.ok = t.ok
    BY <1>2, <1>3, <1>6, <1>7 DEF u
  <2>2. s = t
    BY <1>3, <1>6, <2>1, SameState
  <2> QED
    BY <2>2 DEF s, t, r, u
<1>8. CASE c = "head"
  <2>1. s.head = t.head /\ s.tail = t.tail /\ s.compressed = t.compressed /\ s.ok = t.ok
    BY <1>2, <1>3, <1>6, <1>8 DEF u
  <2>2. s = t
    BY <1>3, <1>6, <2>1, SameState
  <2> QED
    BY <2>2 DEF s, t, r, u
<1> QED
  BY <1>7, <1>8 DEF Stores

\* What a turn makes of a group x at p, when g have been stored.
AfterGroup(s, text, p, c, h, g, x) ==
    /\ ~(Len(g) <= Groups - 1) \/ p + 1 = Len(text) => ~s.ok
    /\ Len(g) <= Groups - 1 /\ p = Len(text) => s = Reading(p + 1, c, h, g \o <<x>>)
    /\ Len(g) <= Groups - 1 /\ p + 1 < Len(text) => s = Reading(p + 2, c, h, g \o <<x>>)

LEMMA AtGroup ==
  ASSUME NEW text \in Seq(Tokens), NEW p \in 1 .. Len(text),
         NEW x \in GroupValues, text[p] = Group(x),
         NEW c \in Stores, NEW h \in Seq(GroupValues), NEW g \in Seq(GroupValues)
  PROVE  AfterGroup(Turn(Reading(p, c, h, g), text), text, p, c, h, g, x)
<1> DEFINE s == Reading(p, c, h, g)
           token == text[p]
<1>1. s.ok /\ s.pos = p /\ (IF s.compressed THEN s.tail ELSE s.head) = g
  BY DEF Reading
<1>2. p <= Len(text) /\ p \in Nat /\ Len(text) \in Nat
  BY LenProperties
<1>3. token # Colon /\ token[1] = "group" /\ <<token[2]>> = <<x>>
  BY TokensDiffer
<1> HIDE DEF token
<1>4. Turn(s, text) =
        IF ~RoomFor(s, 1) \/ Dangling(s, text) THEN Fail(s)
        ELSE [Store(s, <<token[2]>>) EXCEPT !.pos = IF s.pos < Len(text) THEN @ + 2 ELSE Len(text) + 1]
  BY <1>1, <1>2, <1>3 DEF Turn, ParseToken, token
<1>5. /\ RoomFor(s, 1) <=> Len(g) <= Groups - 1
      /\ Dangling(s, text) <=> p + 1 = Len(text)
  BY <1>1 DEF RoomFor, Dangling
<1>6. Store(s, <<token[2]>>) = Store(s, <<x>>) /\ Store(s, <<x>>).pos = p
  <2>1. Store(s, <<x>>).pos = s.pos
    BY DEF Store, Reading
  <2> QED
    BY <1>1, <1>3, <2>1
<1>7. Fail(s).ok = FALSE
  BY DEF Fail, Reading
<1> HIDE DEF s
<1>8. [Store(s, <<token[2]>>) EXCEPT !.pos = IF s.pos < Len(text) THEN @ + 2 ELSE Len(text) + 1]
        = Stored(s, <<x>>, IF p < Len(text) THEN p + 2 ELSE Len(text) + 1)
  <2> DEFINE w == Store(s, <<token[2]>>)
  <2>1. w = Store(s, <<x>>) /\ w.pos = p
    BY <1>6
  <2> HIDE DEF w
  <2>2. [w EXCEPT !.pos = IF s.pos < Len(text) THEN @ + 2 ELSE Len(text) + 1]
          = [w EXCEPT !.pos = IF p < Len(text) THEN p + 2 ELSE Len(text) + 1]
    BY <1>1, <2>1
  <2> QED
    BY <2>1, <2>2 DEF Stored, w
<1>9. Turn(s, text) =
        IF ~RoomFor(s, 1) \/ Dangling(s, text) THEN Fail(s)
        ELSE Reading(IF p < Len(text) THEN p + 2 ELSE Len(text) + 1, c, h, g \o <<x>>)
  <2> DEFINE next == IF p < Len(text) THEN p + 2 ELSE Len(text) + 1
  <2>1. <<x>> \in Seq(GroupValues) /\ p \in Nat \ {0} /\ next \in Nat \ {0}
    BY <1>2
  <2>2. Stored(s, <<x>>, next) = Reading(next, c, h, g \o <<x>>)
    <3> DEFINE y == <<x>>
    <3>1. y \in Seq(GroupValues)
      BY <2>1
    <3> HIDE DEF next, y
    <3>2. Stored(s, y, next) = Reading(next, c, h, g \o y)
      BY <2>1, <3>1, StoreReading DEF s
    <3> QED
      BY <3>2 DEF y
  <2> QED
    BY <1>4, <1>8, <2>2
<1> HIDE DEF s
<1>10. AfterGroup(Turn(s, text), text, p, c, h, g, x)
  BY <1>2, <1>5, <1>7, <1>9 DEF AfterGroup
<1> QED
  BY <1>10 DEF s

LEMMA AtQuad ==
  ASSUME NEW text \in Seq(Tokens), NEW p \in 1 .. Len(text), text[p] = Quad(0, 0),
         NEW c \in Stores, NEW h \in Seq(GroupValues), NEW g \in Seq(GroupValues)
  PROVE  LET s == Reading(p, c, h, g)
         IN  /\ ~(Len(g) <= Groups - 2) => ~Turn(s, text).ok
             /\ Len(g) <= Groups - 2 =>
                    Turn(s, text) = Reading(Len(text) + 1, c, h, g \o <<0, 0>>)
<1> DEFINE s == Reading(p, c, h, g)
           token == text[p]
<1>1. s.ok /\ s.pos = p /\ (IF s.compressed THEN s.tail ELSE s.head) = g
  BY DEF Reading
<1>2. p <= Len(text) /\ p \in Nat /\ Len(text) \in Nat
  BY LenProperties
<1>3. token # Colon /\ token[1] = "quad" /\ <<token[2], token[3]>> = <<0, 0>>
  BY TokensDiffer, AddressAssumption
<1> HIDE DEF token
<1>4. Turn(s, text) =
        IF ~RoomFor(s, 2) THEN Fail(s)
        ELSE [Store(s, <<token[2], token[3]>>) EXCEPT !.pos = Len(text) + 1]
  BY <1>1, <1>2, <1>3 DEF Turn, ParseToken, token
<1>5. RoomFor(s, 2) <=> Len(g) <= Groups - 2
  BY <1>1 DEF RoomFor
<1>6. Store(s, <<token[2], token[3]>>) = Store(s, <<0, 0>>)
  BY <1>3
<1>7. Fail(s).ok = FALSE
  BY DEF Fail, Reading
<1>8. [Store(s, <<0, 0>>) EXCEPT !.pos = Len(text) + 1]
         = Reading(Len(text) + 1, c, h, g \o <<0, 0>>)
  <2>1. Stored(s, <<0, 0>>, Len(text) + 1) = Reading(Len(text) + 1, c, h, g \o <<0, 0>>)
    <3> DEFINE x == <<0, 0>>
               q == Len(text) + 1
    <3>1. x \in Seq(GroupValues) /\ p \in Nat \ {0} /\ q \in Nat \ {0}
      BY <1>2, AddressAssumption
    <3> HIDE DEF x, q
    <3>2. Stored(s, x, q) = Reading(q, c, h, g \o x)
      BY <3>1, StoreReading
    <3> QED
      BY <3>2 DEF x, q
  <2> QED
    BY <2>1 DEF Stored
<1> HIDE DEF s
<1> QED
  BY <1>4, <1>5, <1>6, <1>7, <1>8 DEF s

\* Groups in the text from p on, a colon after each of them.
Laid(text, p, g) ==
    \A j \in 1 .. Len(g) : text[p + 2 * j - 2] = Group(g[j]) /\ text[p + 2 * j - 1] = Colon

\* They are read one at a time.
LEMMA StoreRun ==
  ASSUME NEW text \in Seq(Tokens), NEW loop, IsRun(loop, text),
         NEW p \in Nat \ {0}, NEW k \in Nat, k < p, NEW c \in Stores,
         NEW h \in Seq(GroupValues), NEW g \in Seq(GroupValues),
         loop[k] = Reading(p, c, h, << >>),
         Laid(text, p, g), p + 2 * Len(g) <= Len(text), Len(g) <= Groups
  PROVE  loop[k + Len(g)] = Reading(p + 2 * Len(g), c, h, g)
<1> DEFINE N == Len(text)
           n == Len(g)
           Pos(i) == p + 2 * i
           Front(i) == SubSeq(g, 1, i)
           S == {i \in 0 .. n : loop[k + i] = Reading(Pos(i), c, h, Front(i))}
<1>1. N \in Nat /\ n \in Nat /\ Groups \in Nat
  BY LenProperties, AddressAssumption
<1>2. \A i \in 0 .. n : Front(i) \in Seq(GroupValues) /\ Len(Front(i)) = i
  <2> SUFFICES ASSUME NEW i \in 0 .. n
               PROVE  Front(i) \in Seq(GroupValues) /\ Len(Front(i)) = i
    OBVIOUS
  <2>1. \A j \in 1 .. i : g[j] \in GroupValues
    BY <1>1, ElementOfSeq
  <2>2. i \in Int /\ (1 <= i => i - 1 + 1 = i) /\ (~(1 <= i) => i = 0)
    BY <1>1
  <2> QED
    BY <2>1, <2>2, SubSeqProperties
<1>3. Front(0) = << >> /\ Front(n) = g
  BY SubSeqEmpty, SubSeqFull
<1>4. \A i \in 1 .. n : Front(i) = Front(i - 1) \o <<g[i]>>
  <2> SUFFICES ASSUME NEW i \in 1 .. n
               PROVE  Front(i) = Front(i - 1) \o <<g[i]>>
    OBVIOUS
  <2>1. 1 \in 1 .. Len(g) /\ i \in 1 .. Len(g)
    BY <1>1
  <2> QED
    BY <2>1, SubSeqRecursiveSecond
<1> HIDE DEF Front
<1>5. 0 .. n \subseteq S
  <2>1. 0 \in S
    <3>1. k + 0 = k /\ Pos(0) = p /\ 0 \in 0 .. n
      BY <1>1
    <3> QED
      BY <1>3, <3>1
  <2>2. ASSUME NEW i \in 1 .. n, i - 1 \in S
        PROVE  i \in S
    <3> DEFINE q == Pos(i - 1)
               f == Front(i - 1)
               m == k + (i - 1)
               x == g[i]
    <3>1. loop[m] = Reading(q, c, h, f)
      BY <2>2
    <3>2. i \in 0 .. n /\ i - 1 \in 0 .. n /\ i \in 1 .. Len(g)
      BY <1>1
    <3>3. /\ q \in 1 .. N /\ q + 1 < N /\ q + 2 = Pos(i) /\ q = p + 2 * i - 2
          /\ k + i \in 1 .. N /\ (k + i) - 1 = m
      BY <1>1
    <3>4. f \in Seq(GroupValues) /\ Len(f) <= Groups - 1
      BY <1>1, <1>2, <3>2
    <3>5. g[i] \in GroupValues /\ text[q] = Group(g[i])
      BY <3>2, <3>3, ElementOfSeq DEF Laid
    <3>6. Front(i) = f \o <<g[i]>>
      BY <1>4
    <3>10. q \in 1 .. Len(text) /\ q + 1 < Len(text)
      BY <3>3
    <3> HIDE DEF q, f, m, S, Pos, N, n, x
    <3>7. Turn(Reading(q, c, h, f), text) = Reading(q + 2, c, h, f \o <<x>>)
      <4>1. AfterGroup(Turn(Reading(q, c, h, f), text), text, q, c, h, f, x)
        BY <3>4, <3>5, <3>10, AtGroup DEF x
      <4> QED
        BY <3>4, <3>10, <4>1 DEF AfterGroup
    <3>8. loop[k + i] = Turn(loop[(k + i) - 1], text)
      BY <3>3 DEF IsRun, N
    <3>9. loop[k + i] = Reading(Pos(i), c, h, Front(i))
      BY <3>1, <3>3, <3>6, <3>7, <3>8 DEF x
    <3> QED
      BY <3>2, <3>9 DEF S, n
  <2> HIDE DEF S
  <2> QED
    BY <1>1, <2>1, <2>2, CountUp
<1>6. n \in 0 .. n
  BY <1>1
<1>7. loop[k + n] = Reading(Pos(n), c, h, Front(n))
  BY <1>5, <1>6
<1> QED
  BY <1>3, <1>7

\* A state past the text stays.
LEMMA RunEnds ==
  ASSUME NEW text \in Seq(Tokens), NEW loop, IsRun(loop, text),
         NEW k \in 0 .. Len(text), ~(loop[k].pos <= Len(text))
  PROVE  loop[Len(text)] = loop[k]
<1> DEFINE N == Len(text)
           S == {i \in 0 .. N - k : loop[k + i] = loop[k]}
<1>1. N \in Nat
  BY LenProperties
<1>2. 0 .. N - k \subseteq S
  <2>1. 0 \in S
    BY <1>1
  <2>2. ASSUME NEW i \in 1 .. N - k, i - 1 \in S
        PROVE  i \in S
    <3>1. k + i \in 1 .. N /\ (k + i) - 1 = k + (i - 1) /\ i \in 0 .. N - k
      BY <1>1
    <3>2. loop[k + i] = Turn(loop[(k + i) - 1], text)
      BY <3>1 DEF IsRun
    <3>3. loop[(k + i) - 1] = loop[k]
      BY <2>2, <3>1
    <3>4. Turn(loop[k], text) = loop[k]
      BY DEF Turn
    <3> QED
      BY <3>1, <3>2, <3>3, <3>4
  <2>3. N - k \in Nat
    BY <1>1
  <2> HIDE DEF S
  <2> QED
    BY <2>1, <2>2, <2>3, CountUp
<1>3. N - k \in 0 .. N - k /\ k + (N - k) = N
  BY <1>1
<1>4. loop[k + (N - k)] = loop[k]
  BY <1>2, <1>3
<1> QED
  BY <1>3, <1>4

\* The text from p on is the groups g: none, or a last one after some that are
\* laid out, or a dotted quad after them, with whatever follows it.
Rest(text, p, g) ==
    \/ g = << >> /\ p = Len(text) + 1
    \/ \E f \in Seq(GroupValues), x \in GroupValues :
        /\ g = f \o <<x>> /\ Laid(text, p, f)
        /\ text[p + 2 * Len(f)] = Group(x) /\ Len(text) = p + 2 * Len(f)
    \/ \E f \in Seq(GroupValues) :
        /\ g = f \o <<0, 0>> /\ Laid(text, p, f)
        /\ text[p + 2 * Len(f)] = Quad(0, 0) /\ p + 2 * Len(f) <= Len(text)

LEMMA RunFinishes ==
  ASSUME NEW text \in Seq(Tokens), NEW loop, IsRun(loop, text),
         NEW p \in Nat \ {0}, NEW k \in Nat, k < p, NEW c \in Stores,
         NEW h \in Seq(GroupValues), NEW g \in Seq(GroupValues),
         loop[k] = Reading(p, c, h, << >>), Rest(text, p, g), Len(g) <= Groups
  PROVE  loop[Len(text)] = Reading(Len(text) + 1, c, h, g)
<1> DEFINE N == Len(text)
           end == N + 1
           last == Reading(end, c, h, g)
<1>1. N \in Nat /\ Groups \in Nat /\ end \in Nat \ {0}
  BY LenProperties, AddressAssumption
<1>2. last.pos = end
  <2> HIDE DEF end
  <2>1. IsReading(last, end, c, h, g)
    BY <1>1, ReadingIs
  <2> QED
    BY <2>1 DEF IsReading
<1>3. ASSUME NEW i \in 0 .. N, loop[i] = last
      PROVE  loop[N] = last
  <2>1. ~(loop[i].pos <= N)
    BY <1>1, <1>2, <1>3
  <2> QED
    BY <1>3, <2>1, RunEnds
<1>4. CASE g = << >> /\ p = end
  <2>1. k \in 0 .. N
    BY <1>1, <1>4
  <2> QED
    BY <1>3, <1>4, <2>1
<1>5. ASSUME NEW f \in Seq(GroupValues), NEW x \in GroupValues,
             g = f \o <<x>>, Laid(text, p, f),
             text[p + 2 * Len(f)] = Group(x), N = p + 2 * Len(f)
      PROVE  loop[N] = last
  <2> DEFINE n == Len(f)
             q == p + 2 * n
             i == k + n
  <2>1. n \in Nat
    BY LenProperties
  <2>2. Len(g) = n + 1
    <3>1. <<x>> \in Seq(GroupValues) /\ Len(<<x>>) = 1
      OBVIOUS
    <3> DEFINE y == <<x>>
    <3> HIDE DEF y
    <3>2. Len(f \o y) = n + Len(y)
      BY <3>1, ConcatProperties DEF y
    <3> QED
      BY <1>5, <3>1, <3>2 DEF y
  <2>3. n <= Groups /\ n <= Groups - 1 /\ q <= N /\ q \in 1 .. N /\ q = N /\ i + 1 \in 1 .. N /\ i + 1 - 1 = i
    BY <1>1, <1>5, <2>1, <2>2
  <2>4. loop[i] = Reading(q, c, h, f)
    BY <1>5, <2>3, StoreRun
  <2>9. q \in 1 .. Len(text) /\ q = Len(text) /\ text[q] = Group(x) /\ Len(f) <= Groups - 1
    BY <1>5, <2>3
  <2>10. (i + 1) - 1 = i
    BY <2>1
  <2> HIDE DEF n, q, i
  <2>5. Turn(Reading(q, c, h, f), text) = Reading(Len(text) + 1, c, h, f \o <<x>>)
    <3>1. AfterGroup(Turn(Reading(q, c, h, f), text), text, q, c, h, f, x)
      BY <2>9, AtGroup
    <3> QED
      BY <2>9, <3>1 DEF AfterGroup
  <2>6. loop[i + 1] = Turn(loop[i], text)
    <3>1. loop[i + 1] = Turn(loop[(i + 1) - 1], text)
      BY <2>3 DEF IsRun
    <3> QED
      BY <2>10, <3>1
  <2>7. loop[i + 1] = last
    BY <1>5, <2>4, <2>5, <2>6
  <2>8. i + 1 \in 0 .. N
    BY <1>1, <2>3
  <2> HIDE DEF last, N
  <2> QED
    BY <1>3, <2>7, <2>8
<1>6. ASSUME NEW f \in Seq(GroupValues),
             g = f \o <<0, 0>>, Laid(text, p, f),
             text[p + 2 * Len(f)] = Quad(0, 0), p + 2 * Len(f) <= N
      PROVE  loop[N] = last
  <2> DEFINE n == Len(f)
             q == p + 2 * n
             i == k + n
  <2>1. n \in Nat
    BY LenProperties
  <2>2. Len(g) = n + 2
    <3> DEFINE y == <<0, 0>>
    <3>1. y \in Seq(GroupValues) /\ Len(y) = 2
      BY AddressAssumption
    <3> HIDE DEF y
    <3>2. Len(f \o y) = n + Len(y)
      BY <3>1, ConcatProperties
    <3> QED
      BY <1>6, <3>1, <3>2 DEF y
  <2>3. n <= Groups /\ n <= Groups - 2 /\ q <= N /\ q \in 1 .. N /\ i + 1 \in 1 .. N /\ i + 1 - 1 = i
    BY <1>1, <1>6, <2>1, <2>2
  <2>4. loop[i] = Reading(q, c, h, f)
    BY <1>6, <2>3, StoreRun
  <2>9. q \in 1 .. Len(text) /\ text[q] = Quad(0, 0) /\ Len(f) <= Groups - 2
    BY <1>6, <2>3
  <2>10. (i + 1) - 1 = i
    BY <2>1
  <2> HIDE DEF n, q, i
  <2>5. Turn(Reading(q, c, h, f), text) = Reading(Len(text) + 1, c, h, f \o <<0, 0>>)
    BY <2>9, AtQuad
  <2>6. loop[i + 1] = Turn(loop[i], text)
    <3>1. loop[i + 1] = Turn(loop[(i + 1) - 1], text)
      BY <2>3 DEF IsRun
    <3> QED
      BY <2>10, <3>1
  <2>7. loop[i + 1] = last
    BY <1>6, <2>4, <2>5, <2>6
  <2>8. i + 1 \in 0 .. N
    BY <1>1, <2>3
  <2> HIDE DEF last, N
  <2> QED
    BY <1>3, <2>7, <2>8
<1> QED
  BY <1>4, <1>5, <1>6 DEF Rest

\* Where the tail begins after the head h and a "::", or a colon in front.
Base(text, h, p) ==
    \/ h = << >> /\ Leading(text) /\ p = 3
    \/ /\ Laid(text, 1, h) /\ 1 + 2 * Len(h) <= Len(text)
       /\ text[1 + 2 * Len(h)] = Colon /\ p = 2 + 2 * Len(h)
       /\ h = << >> => ~Leading(text)

Zeros(n) == [i \in 1 .. n |-> 0]

LEMMA ZerosAre ==
  ASSUME NEW n \in Nat
  PROVE  Zeros(n) \in Seq(GroupValues) /\ Len(Zeros(n)) = n /\ \A i \in 1 .. n : Zeros(n)[i] = 0
<1>1. Zeros(n) \in [1 .. n -> GroupValues]
  BY AddressAssumption DEF Zeros
<1> QED
  BY <1>1 DEF Zeros

LEMMA NoGroup == << >> \in Seq(GroupValues) /\ Len(<< >>) = 0
BY EmptySeq

LEMMA LaidStarts ==
  ASSUME NEW text, NEW h \in Seq(GroupValues), Laid(text, 1, h), h # << >>
  PROVE  text[1] # Colon
<1>1. 1 \in 1 .. Len(h) /\ 1 + 2 * 1 - 2 = 1
  BY LenProperties, EmptySeq
<1>2. text[1] = Group(h[1]) /\ h[1] \in GroupValues
  BY <1>1, ElementOfSeq DEF Laid
<1> QED
  BY <1>2, TokensDiffer

\* A text that starts with a group does not start with a colon.
LEMMA RestStarts ==
  ASSUME NEW text, NEW g \in Seq(GroupValues), Rest(text, 1, g), g # << >>
  PROVE  text[1] # Colon
<1>1. ASSUME NEW f \in Seq(GroupValues), Laid(text, 1, f), text[1 + 2 * Len(f)] # Colon
      PROVE  text[1] # Colon
  <2>1. CASE f = << >>
    <3>1. 1 + 2 * Len(f) = 1
      BY <2>1, NoGroup
    <3> QED
      BY <1>1, <3>1
  <2>2. CASE f # << >>
    BY <1>1, <2>2, LaidStarts
  <2> QED
    BY <2>1, <2>2
<1>2. \A x \in GroupValues : Group(x) # Colon
  BY TokensDiffer
<1>3. Quad(0, 0) # Colon
  BY TokensDiffer, AddressAssumption
<1> QED
  BY <1>1, <1>2, <1>3 DEF Rest

\* The groups of a text without "::" are the address.
LEMMA ReadsWhole ==
  ASSUME NEW text \in Seq(Tokens), NEW g \in Seq(GroupValues), Rest(text, 1, g), Len(g) = Groups
  PROVE  ParseV6(text) = g
<1> DEFINE N == Len(text)
           last == Reading(N + 1, "head", << >>, g)
<1>1. N \in Nat /\ Groups \in Nat /\ ~(Groups < 2)
  BY LenProperties, AddressAssumption
<1>2. PICK loop : IsRun(loop, text) /\ ParseV6(text) = Full(loop[N])
  BY Runs
<1>3. ~Leading(text)
  <2>1. g # << >>
    BY <1>1, NoGroup
  <2> QED
    BY <2>1, RestStarts DEF Leading
<1>4. loop[0] = Reading(1, "head", << >>, << >>)
  BY <1>2, <1>3, OpeningIs DEF IsRun
<1>5. loop[N] = last
  <2> DEFINE k == 0
             p == 1
             none == << >>
  <2>1. /\ k \in Nat /\ k < p /\ p \in Nat \ {0} /\ "head" \in Stores
        /\ none \in Seq(GroupValues)
        /\ loop[k] = Reading(p, "head", none, << >>) /\ Rest(text, p, g) /\ Len(g) <= Groups
    BY <1>1, <1>4, NoGroup DEF Stores
  <2> HIDE DEF k, p, none
  <2>2. loop[N] = Reading(N + 1, "head", none, g)
    BY <1>2, <2>1, RunFinishes
  <2> QED
    BY <2>2 DEF none
<1>6. last.ok /\ last.head = g /\ last.tail = << >> /\ last.compressed = FALSE
  BY DEF Reading
<1> HIDE DEF last
<1>7. Full(last) = g \o Zeros(0) \o << >>
  <2>1. Len(last.head) + Len(last.tail) = Groups /\ Groups - Groups = 0 /\ ~(Groups > Groups)
    BY <1>1, <1>6, NoGroup
  <2> QED
    BY <1>6, <2>1 DEF Full, Zeros
<1>8. Zeros(0) = << >>
  BY ZerosAre, EmptySeq
<1>9. g \o << >> \o << >> = g
  BY ConcatEmptySeq
<1> QED
  BY <1>2, <1>5, <1>7, <1>8, <1>9

\* A "::" stands for the zeros that are missing between the head and the tail.
LEMMA ReadsAround ==
  ASSUME NEW text \in Seq(Tokens), NEW h \in Seq(GroupValues), NEW g \in Seq(GroupValues),
         NEW p \in Nat, Base(text, h, p), Rest(text, p, g), Len(h) + Len(g) <= Groups
  PROVE  ParseV6(text) = h \o Zeros(Groups - (Len(h) + Len(g))) \o g
<1> DEFINE N == Len(text)
           n == Len(h)
           last == Reading(N + 1, "tail", h, g)
<1>1. /\ N \in Nat /\ Groups \in Nat /\ n \in Nat /\ Len(g) \in Nat
      /\ n <= Groups /\ Len(g) <= Groups
  BY LenProperties, AddressAssumption
<1>2. PICK loop : IsRun(loop, text) /\ ParseV6(text) = Full(loop[N])
  BY Runs
<1>3. loop[N] = last
  <2>1. CASE h = << >> /\ Leading(text) /\ p = 3
    <3>1. loop[0] = Reading(3, "tail", << >>, << >>)
      BY <1>2, <2>1, OpeningIs DEF IsRun
    <3>2. loop[0] = Reading(p, "tail", h, << >>)
      BY <2>1, <3>1
    <3>3. 0 \in Nat /\ 0 < p /\ p \in Nat \ {0} /\ "tail" \in Stores
      BY <2>1 DEF Stores
    <3> QED
      BY <1>1, <1>2, <3>2, <3>3, RunFinishes
  <2>2. CASE /\ Laid(text, 1, h) /\ 1 + 2 * n <= N
             /\ text[1 + 2 * n] = Colon /\ p = 2 + 2 * n
             /\ h = << >> => ~Leading(text)
    <3>1. ~Leading(text)
      <4>1. CASE h # << >>
        BY <2>2, <4>1, LaidStarts DEF Leading
      <4> QED
        BY <2>2, <4>1
    <3>2. loop[0] = Reading(1, "head", << >>, << >>)
      BY <1>2, <3>1, OpeningIs DEF IsRun
    <3> DEFINE q == 1 + 2 * n
    <3>3. loop[0 + n] = Reading(q, "head", << >>, h)
      <4> DEFINE k == 0
                 o == 1
                 none == << >>
      <4>1. /\ k \in Nat /\ k < o /\ o \in Nat \ {0} /\ "head" \in Stores
            /\ none \in Seq(GroupValues)
            /\ loop[k] = Reading(o, "head", none, << >>) /\ Laid(text, o, h)
            /\ o + 2 * Len(h) <= Len(text) /\ Len(h) <= Groups
        BY <1>1, <2>2, <3>2, NoGroup DEF Stores
      <4> HIDE DEF k, o, none
      <4>2. loop[k + Len(h)] = Reading(o + 2 * Len(h), "head", none, h)
        BY <1>2, <4>1, StoreRun
      <4> QED
        BY <4>2 DEF k, o, none
    <3>4. /\ q \in 1 .. N /\ q + 1 = p /\ 0 + n = n /\ n + 1 \in 1 .. N /\ (n + 1) - 1 = n
          /\ n + 1 \in Nat /\ n + 1 < p /\ p \in Nat \ {0}
      BY <1>1, <2>2
    <3>5. text[q] = Colon
      BY <2>2
    <3> HIDE DEF q, n
    <3>6. Turn(Reading(q, "head", << >>, h), text) = Reading(p, "tail", h, << >>)
      BY <3>4, <3>5, AtColon
    <3>7. loop[n + 1] = Turn(loop[(n + 1) - 1], text)
      BY <1>2, <3>4 DEF IsRun
    <3>8. loop[n + 1] = Reading(p, "tail", h, << >>)
      BY <3>3, <3>4, <3>6, <3>7
    <3> DEFINE k == n + 1
    <3>9. k \in Nat /\ k < p /\ p \in Nat \ {0} /\ "tail" \in Stores /\ loop[k] = Reading(p, "tail", h, << >>)
      BY <3>4, <3>8 DEF Stores
    <3> HIDE DEF k
    <3> QED
      BY <1>1, <1>2, <3>9, RunFinishes
  <2> QED
    BY <2>1, <2>2 DEF Base
<1>4. last.ok /\ last.head = h /\ last.tail = g /\ last.compressed = TRUE
  BY DEF Reading
<1> HIDE DEF last
<1>5. Full(last) = h \o Zeros(Groups - (Len(h) + Len(g))) \o g
  <2>1. ~(Len(last.head) + Len(last.tail) > Groups)
    BY <1>1, <1>4
  <2> QED
    BY <1>4, <2>1 DEF Full, Zeros
<1> QED
  BY <1>2, <1>3, <1>5

-----------------------------------------------------------------------------
(* Text that is written *)

\* The text u is found at p.
Spells(text, p, u) == \A i \in 1 .. Len(u) : text[p - 1 + i] = u[i]

JoinLength(g) == IF Len(g) = 0 THEN 0 ELSE 2 * Len(g) - 1

\* A position is that of a group or of the colon after one.
LEMMA OddOrEven ==
  ASSUME NEW i \in Nat \ {0}
  PROVE  \E j \in Nat \ {0} : i = 2 * j - 1 \/ i = 2 * j
<1>1. CASE i % 2 = 0
  <2>1. i \div 2 \in Nat \ {0} /\ i = 2 * (i \div 2)
    BY <1>1
  <2> QED
    BY <2>1
<1>2. CASE i % 2 # 0
  <2>1. (i + 1) \div 2 \in Nat \ {0} /\ i = 2 * ((i + 1) \div 2) - 1
    BY <1>2
  <2> QED
    BY <2>1
<1> QED
  BY <1>1, <1>2

LEMMA Halves ==
  ASSUME NEW j \in Nat
  PROVE  (2 * j - 1) % 2 = 1 /\ (2 * j) % 2 = 0 /\ (2 * j - 1 + 1) \div 2 = j
OBVIOUS

LEMMA GroupsAreTokens ==
  /\ Colon \in Tokens /\ Quad(0, 0) \in Tokens
  /\ \A x \in GroupValues : Group(x) \in Tokens
BY DEF Tokens, Parts

LEMMA JoinIs ==
  ASSUME NEW g \in Seq(GroupValues)
  PROVE  /\ Join(g) \in Seq(Tokens)
         /\ Len(Join(g)) = JoinLength(g) /\ JoinLength(g) \in Nat
         /\ \A j \in 1 .. Len(g) : Join(g)[2 * j - 1] = Group(g[j])
         /\ \A j \in 1 .. Len(g) : j < Len(g) => Join(g)[2 * j] = Colon
<1> DEFINE n == Len(g)
           m == IF g = << >> THEN 0 ELSE 2 * Len(g) - 1
           Token(i) == IF i % 2 = 0 THEN Colon ELSE Group(g[(i + 1) \div 2])
<1>1. n \in Nat /\ (g = << >> <=> n = 0)
  BY LenProperties, EmptySeq
<1>2. m = JoinLength(g) /\ m \in Nat
  BY <1>1 DEF JoinLength
<1>3. Join(g) = [i \in 1 .. m |-> Token(i)]
  BY DEF Join
<1> HIDE DEF m, Token
<1>4. ASSUME NEW j \in 1 .. n
      PROVE  Token(2 * j - 1) = Group(g[j]) /\ 2 * j - 1 \in 1 .. m
  <2>1. j \in Nat /\ m = 2 * n - 1
    BY <1>1, <1>2 DEF JoinLength
  <2>2. (2 * j - 1) % 2 = 1 /\ (2 * j - 1 + 1) \div 2 = j
    BY <2>1, Halves
  <2>3. 2 * j - 1 \in 1 .. m
    BY <1>1, <2>1
  <2> QED
    BY <2>2, <2>3 DEF Token
<1>5. ASSUME NEW j \in 1 .. n, j < n
      PROVE  Token(2 * j) = Colon /\ 2 * j \in 1 .. m
  <2>1. j \in Nat /\ m = 2 * n - 1
    BY <1>1, <1>2 DEF JoinLength
  <2>2. (2 * j) % 2 = 0
    BY <2>1, Halves
  <2>3. 2 * j \in 1 .. m
    BY <1>1, <1>5, <2>1
  <2> QED
    BY <2>2, <2>3 DEF Token
<1>6. ASSUME NEW i \in 1 .. m
      PROVE  Token(i) \in Tokens
  <2>1. PICK j \in Nat \ {0} : i = 2 * j - 1 \/ i = 2 * j
    <3>1. i \in Nat \ {0}
      BY <1>2
    <3> QED
      BY <3>1, OddOrEven
  <2>2. m = 2 * n - 1
    BY <1>2 DEF JoinLength
  <2>3. CASE i = 2 * j - 1
    <3>1. j \in 1 .. n
      BY <1>1, <2>2, <2>3
    <3>2. Token(i) = Group(g[j]) /\ g[j] \in GroupValues
      BY <1>4, <2>3, <3>1, ElementOfSeq
    <3> QED
      BY <3>2, GroupsAreTokens
  <2>4. CASE i = 2 * j
    <3>1. j \in 1 .. n /\ j < n
      BY <1>1, <2>2, <2>4
    <3>2. Token(i) = Colon
      BY <1>5, <2>4, <3>1
    <3> QED
      BY <3>2, GroupsAreTokens
  <2> QED
    BY <2>1, <2>3, <2>4
<1>7. Join(g) \in [1 .. m -> Tokens]
  BY <1>3, <1>6
<1>8. Join(g) \in Seq(Tokens) /\ Len(Join(g)) = m
  BY <1>2, <1>7
<1> QED
  BY <1>2, <1>3, <1>4, <1>5, <1>8

LEMMA WithQuadIs ==
  ASSUME NEW g \in Seq(GroupValues)
  PROVE  /\ WithQuad(g) \in Seq(Tokens)
         /\ Len(WithQuad(g)) = 2 * Len(g) + 1
         /\ \A j \in 1 .. Len(g) : WithQuad(g)[2 * j - 1] = Group(g[j])
         /\ \A j \in 1 .. Len(g) : WithQuad(g)[2 * j] = Colon
         /\ WithQuad(g)[2 * Len(g) + 1] = Quad(0, 0)
<1> DEFINE n == Len(g)
           c == IF g = << >> THEN << >> ELSE <<Colon>>
           q == <<Quad(0, 0)>>
           u == Join(g) \o c
<1>1. n \in Nat /\ (g = << >> <=> n = 0)
  BY LenProperties, EmptySeq
<1>2. /\ Join(g) \in Seq(Tokens) /\ Len(Join(g)) = JoinLength(g) /\ JoinLength(g) \in Nat
      /\ \A j \in 1 .. n : Join(g)[2 * j - 1] = Group(g[j])
      /\ \A j \in 1 .. n : j < n => Join(g)[2 * j] = Colon
  BY JoinIs
<1>3. q \in Seq(Tokens) /\ Len(q) = 1 /\ q[1] = Quad(0, 0)
  BY GroupsAreTokens
<1>4. /\ c \in Seq(Tokens)
      /\ n = 0 => Len(c) = 0
      /\ n # 0 => Len(c) = 1 /\ c[1] = Colon
  <2>1. CASE n = 0
    BY <1>1, <2>1, EmptySeq
  <2>2. CASE n # 0
    BY <1>1, <2>2, GroupsAreTokens
  <2> QED
    BY <2>1, <2>2
<1>5. WithQuad(g) = u \o q
  BY DEF WithQuad
<1> HIDE DEF c, q
<1>6. /\ u \in Seq(Tokens) /\ Len(u) = Len(Join(g)) + Len(c)
      /\ \A i \in 1 .. Len(Join(g)) + Len(c) :
            u[i] = IF i <= Len(Join(g)) THEN Join(g)[i] ELSE c[i - Len(Join(g))]
  BY <1>2, <1>4, ConcatProperties
<1>7. Len(u) = 2 * n
  <2> HIDE DEF u
  <2>1. CASE n = 0
    <3>1. Len(Join(g)) = 0 /\ Len(c) = 0
      BY <1>2, <1>4, <2>1 DEF JoinLength
    <3> QED
      BY <1>6, <2>1, <3>1
  <2>2. CASE n # 0
    <3>1. Len(Join(g)) = 2 * n - 1 /\ Len(c) = 1
      BY <1>2, <1>4, <2>2 DEF JoinLength
    <3> QED
      BY <1>1, <1>6, <2>2, <3>1
  <2> QED
    BY <2>1, <2>2
<1>12. u \in Seq(Tokens)
  BY <1>6
<1> HIDE DEF u
<1>8. /\ u \o q \in Seq(Tokens) /\ Len(u \o q) = Len(u) + 1
      /\ \A i \in 1 .. Len(u) + 1 : (u \o q)[i] = IF i <= Len(u) THEN u[i] ELSE q[i - Len(u)]
  <2>1. /\ u \o q \in Seq(Tokens) /\ Len(u \o q) = Len(u) + Len(q)
        /\ \A i \in 1 .. Len(u) + Len(q) : (u \o q)[i] = IF i <= Len(u) THEN u[i] ELSE q[i - Len(u)]
    BY <1>3, <1>12, ConcatProperties
  <2> QED
    BY <1>3, <2>1
<1> DEFINE w == u \o q
<1>9. w \in Seq(Tokens) /\ Len(w) = 2 * n + 1
  BY <1>7, <1>8
<1>10. /\ w[2 * n + 1] = Quad(0, 0)
       /\ \A i \in 1 .. 2 * n : w[i] = u[i]
  <2>1. 2 * n + 1 \in 1 .. Len(u) + 1 /\ ~(2 * n + 1 <= Len(u)) /\ 2 * n + 1 - Len(u) = 1
    BY <1>1, <1>7
  <2>2. \A i \in 1 .. 2 * n : i \in 1 .. Len(u) + 1 /\ i <= Len(u)
    BY <1>1, <1>7
  <2> QED
    BY <1>3, <1>8, <2>1, <2>2
<1> HIDE DEF w
<1>11. ASSUME NEW j \in 1 .. n
       PROVE  w[2 * j - 1] = Group(g[j]) /\ w[2 * j] = Colon
  <2> DEFINE m == Len(Join(g))
  <2>1. m = 2 * n - 1 /\ Len(c) = 1 /\ j \in Nat /\ c[1] = Colon
    BY <1>1, <1>2, <1>4 DEF JoinLength
  <2>2. 2 * j - 1 \in 1 .. m /\ 2 * j - 1 \in 1 .. 2 * n /\ 2 * j \in 1 .. 2 * n
    BY <1>1, <2>1
  <2> HIDE DEF m
  <2>3. \A i \in 1 .. 2 * n : u[i] = IF i <= m THEN Join(g)[i] ELSE c[i - m]
    BY <1>6, <1>7 DEF m
  <2> DEFINE i == 2 * j - 1
  <2>4. w[2 * j - 1] = Join(g)[2 * j - 1]
    <3>1. i \in 1 .. 2 * n /\ i <= m
      BY <2>2
    <3> HIDE DEF i
    <3>2. w[i] = Join(g)[i]
      BY <1>10, <2>3, <3>1
    <3> QED
      BY <3>2 DEF i
  <2>5. CASE j < n
    <3>1. 2 * j <= m
      BY <1>1, <2>1, <2>5
    <3> QED
      BY <1>2, <1>10, <2>2, <2>3, <2>4, <2>5, <3>1
  <2>6. CASE ~(j < n)
    <3>1. ~(2 * j <= m) /\ 2 * j - m = 1
      BY <1>1, <2>1, <2>6
    <3> QED
      BY <1>2, <1>10, <2>1, <2>2, <2>3, <2>4, <3>1
  <2> QED
    BY <2>5, <2>6
<1> QED
  BY <1>5, <1>9, <1>10, <1>11 DEF w

\* A part of a sequence.
LEMMA SliceIs ==
  ASSUME NEW S, NEW s \in Seq(S), NEW m \in Nat \ {0}, NEW n \in Nat,
         m <= n + 1, n <= Len(s)
  PROVE  /\ SubSeq(s, m, n) \in Seq(S) /\ Len(SubSeq(s, m, n)) = n - m + 1
         /\ \A i \in 1 .. n - m + 1 : SubSeq(s, m, n)[i] = s[m + i - 1]
<1>1. \A i \in m .. n : s[i] \in S
  <2> SUFFICES ASSUME NEW i \in m .. n
               PROVE  s[i] \in S
    OBVIOUS
  <2>1. i \in 1 .. Len(s)
    BY LenProperties
  <2> QED
    BY <2>1, ElementOfSeq
<1>2. m \in Int /\ n \in Int /\ (IF m <= n THEN n - m + 1 ELSE 0) = n - m + 1
  OBVIOUS
<1> QED
  BY <1>1, <1>2, SubSeqProperties

\* Written groups are what is left of the text.
LEMMA RestJoin ==
  ASSUME NEW text \in Seq(Tokens), NEW p \in Nat \ {0}, NEW g \in Seq(GroupValues),
         Len(text) = p - 1 + JoinLength(g), Spells(text, p, Join(g))
  PROVE  Rest(text, p, g)
<1> DEFINE n == Len(g)
<1>1. n \in Nat /\ (g = << >> <=> n = 0)
  BY LenProperties, EmptySeq
<1>2. CASE n = 0
  <2>1. g = << >> /\ p = Len(text) + 1
    BY <1>1, <1>2 DEF JoinLength
  <2> QED
    BY <2>1 DEF Rest
<1>3. CASE n # 0
  <2> DEFINE f == SubSeq(g, 1, n - 1)
             x == g[n]
             y == <<x>>
  <2>1. n \in 1 .. n /\ n - 1 \in 0 .. n /\ 1 \in Nat
    BY <1>1, <1>3
  <2>2. f \in Seq(GroupValues) /\ Len(f) = n - 1 /\ \A i \in 1 .. n - 1 : f[i] = g[i]
    <3> DEFINE k == n - 1
               o == 1
    <3>1. k \in Nat /\ o \in Nat \ {0} /\ o <= k + 1 /\ k <= n /\ k - o + 1 = k
      BY <1>1, <2>1
    <3>2. \A i \in 1 .. k : o + i - 1 = i
      BY <3>1
    <3> HIDE DEF k, o
    <3>3. /\ SubSeq(g, o, k) \in Seq(GroupValues) /\ Len(SubSeq(g, o, k)) = k
          /\ \A i \in 1 .. k : SubSeq(g, o, k)[i] = g[i]
      BY <3>1, <3>2, SliceIs
    <3> QED
      BY <3>3 DEF k, o
  <2>3. x \in GroupValues
    BY <2>1, ElementOfSeq
  <2>4. g = f \o y
    <3>1. SubSeq(g, 1, n) = SubSeq(g, 1, n - 1) \o <<g[n]>>
      BY <2>1, SubSeqRecursiveSecond
    <3>2. SubSeq(g, 1, n) = g
      BY SubSeqFull
    <3> QED
      BY <3>1, <3>2
  <2>5. /\ Len(Join(g)) = 2 * n - 1
        /\ \A j \in 1 .. n : Join(g)[2 * j - 1] = Group(g[j])
        /\ \A j \in 1 .. n : j < n => Join(g)[2 * j] = Colon
    BY <1>3, JoinIs DEF JoinLength
  <2> HIDE DEF f, x, y
  <2>6. ASSUME NEW j \in 1 .. n - 1
        PROVE  text[p + 2 * j - 2] = Group(f[j]) /\ text[p + 2 * j - 1] = Colon
    <3>1. /\ j \in 1 .. n /\ j < n /\ 2 * j - 1 \in 1 .. 2 * n - 1 /\ 2 * j \in 1 .. 2 * n - 1
          /\ p - 1 + (2 * j - 1) = p + 2 * j - 2 /\ p - 1 + 2 * j = p + 2 * j - 1
      BY <1>1
    <3>2. text[p - 1 + (2 * j - 1)] = Join(g)[2 * j - 1] /\ text[p - 1 + 2 * j] = Join(g)[2 * j]
      BY <2>5, <3>1 DEF Spells
    <3> QED
      BY <2>2, <2>5, <3>1, <3>2
  <2>7. text[p + 2 * (n - 1)] = Group(x) /\ Len(text) = p + 2 * (n - 1)
    <3>1. /\ 2 * n - 1 \in 1 .. 2 * n - 1 /\ p - 1 + (2 * n - 1) = p + 2 * (n - 1)
      BY <1>1, <1>3
    <3>2. text[p - 1 + (2 * n - 1)] = Join(g)[2 * n - 1]
      BY <2>5, <3>1 DEF Spells
    <3>3. Len(text) = p - 1 + (2 * n - 1)
      BY <1>3 DEF JoinLength
    <3> QED
      BY <2>1, <2>5, <3>1, <3>2, <3>3 DEF x
  <2>8. Laid(text, p, f)
    BY <2>2, <2>6 DEF Laid
  <2>9. /\ g = f \o <<x>> /\ Laid(text, p, f)
        /\ text[p + 2 * Len(f)] = Group(x) /\ Len(text) = p + 2 * Len(f)
    BY <2>2, <2>4, <2>7, <2>8 DEF y
  <2> QED
    BY <2>2, <2>3, <2>9 DEF Rest
<1> QED
  BY <1>2, <1>3

\* The text starts with the groups h and a "::".
Opens(text, h) ==
    /\ Len(text) >= JoinLength(h) + 2
    /\ Spells(text, 1, Join(h))
    /\ text[JoinLength(h) + 1] = Colon /\ text[JoinLength(h) + 2] = Colon

LEMMA OpensBase ==
  ASSUME NEW text \in Seq(Tokens), NEW h \in Seq(GroupValues), Opens(text, h)
  PROVE  Base(text, h, JoinLength(h) + 3)
<1> DEFINE n == Len(h)
           m == JoinLength(h)
<1>1. n \in Nat /\ (h = << >> <=> n = 0)
  BY LenProperties, EmptySeq
<1>2. /\ Join(h) \in Seq(Tokens) /\ Len(Join(h)) = m /\ m \in Nat
      /\ \A j \in 1 .. n : Join(h)[2 * j - 1] = Group(h[j])
      /\ \A j \in 1 .. n : j < n => Join(h)[2 * j] = Colon
  BY JoinIs
<1>3. /\ Len(text) >= m + 2 /\ text[m + 1] = Colon /\ text[m + 2] = Colon
      /\ \A i \in 1 .. m : text[i] = Join(h)[i]
  <2>1. \A i \in 1 .. m : 1 - 1 + i = i
    BY <1>2
  <2> QED
    BY <1>2, <2>1 DEF Opens, Spells
<1> HIDE DEF m
<1>4. CASE n = 0
  <2>1. h = << >> /\ m = 0
    BY <1>1, <1>4 DEF m, JoinLength
  <2>2. text[1] = Colon /\ text[2] = Colon /\ Len(text) >= 2 /\ m + 3 = 3
    BY <1>3, <2>1
  <2> QED
    BY <2>1, <2>2 DEF Base, Leading, m
<1>5. CASE n # 0
  <2>1. m = 2 * n - 1
    BY <1>5 DEF m, JoinLength
  <2>2. Laid(text, 1, h)
    <3> SUFFICES ASSUME NEW j \in 1 .. n
                 PROVE  text[1 + 2 * j - 2] = Group(h[j]) /\ text[1 + 2 * j - 1] = Colon
      BY DEF Laid
    <3>1. 1 + 2 * j - 2 = 2 * j - 1 /\ 1 + 2 * j - 1 = 2 * j /\ 2 * j - 1 \in 1 .. m
      BY <1>1, <2>1
    <3>2. text[2 * j - 1] = Group(h[j])
      BY <1>2, <1>3, <3>1
    <3>3. text[2 * j] = Colon
      <4>1. CASE j < n
        <5>1. 2 * j \in 1 .. m
          BY <1>1, <2>1, <4>1
        <5> QED
          BY <1>2, <1>3, <4>1, <5>1
      <4>2. CASE ~(j < n)
        <5>1. 2 * j = m + 1
          BY <1>1, <2>1, <4>2
        <5> QED
          BY <1>3, <5>1
      <4> QED
        BY <4>1, <4>2
    <3> QED
      BY <3>1, <3>2, <3>3
  <2>3. 1 + 2 * n = m + 2 /\ m + 3 = 2 + 2 * n /\ 1 + 2 * n <= Len(text)
    BY <1>1, <1>3, <2>1
  <2>4. text[1 + 2 * n] = Colon
    BY <1>3, <2>3
  <2> QED
    BY <1>1, <1>5, <2>2, <2>3, <2>4 DEF Base, m
<1> QED
  BY <1>4, <1>5

\* A text around "::".
LEMMA AroundIs ==
  ASSUME NEW h \in Seq(GroupValues), NEW u \in Seq(Tokens)
  PROVE  /\ Around(h, u) \in Seq(Tokens)
         /\ Len(Around(h, u)) = JoinLength(h) + 2 + Len(u)
         /\ Opens(Around(h, u), h)
         /\ Base(Around(h, u), h, JoinLength(h) + 3)
         /\ Spells(Around(h, u), JoinLength(h) + 3, u)
<1> DEFINE n == Len(h)
           m == JoinLength(h)
           c == <<Colon, Colon>>
           v == Join(h) \o c
           w == v \o u
<1>1. n \in Nat /\ (h = << >> <=> n = 0) /\ Len(u) \in Nat
  BY LenProperties, EmptySeq
<1>2. /\ Join(h) \in Seq(Tokens) /\ Len(Join(h)) = m /\ m \in Nat
      /\ \A j \in 1 .. n : Join(h)[2 * j - 1] = Group(h[j])
      /\ \A j \in 1 .. n : j < n => Join(h)[2 * j] = Colon
  BY JoinIs
<1>3. c \in Seq(Tokens) /\ Len(c) = 2 /\ c[1] = Colon /\ c[2] = Colon
  BY GroupsAreTokens
<1>4. Around(h, u) = w
  BY DEF Around
<1> HIDE DEF m, c
<1>5. /\ v \in Seq(Tokens) /\ Len(v) = m + 2
      /\ \A i \in 1 .. m + 2 : v[i] = IF i <= m THEN Join(h)[i] ELSE c[i - m]
  BY <1>2, <1>3, ConcatProperties
<1> HIDE DEF v
<1>6. /\ w \in Seq(Tokens) /\ Len(w) = m + 2 + Len(u)
      /\ \A i \in 1 .. m + 2 + Len(u) : w[i] = IF i <= m + 2 THEN v[i] ELSE u[i - (m + 2)]
  BY <1>5, ConcatProperties
<1> HIDE DEF w
<1>7. \A i \in 1 .. m : w[i] = Join(h)[i]
  <2> SUFFICES ASSUME NEW i \in 1 .. m
               PROVE  w[i] = Join(h)[i]
    OBVIOUS
  <2>1. i <= m /\ i <= m + 2 /\ i \in 1 .. m + 2 /\ i \in 1 .. m + 2 + Len(u)
    BY <1>1, <1>2
  <2> QED
    BY <1>5, <1>6, <2>1
<1>8. w[m + 1] = Colon /\ w[m + 2] = Colon
  <2> DEFINE x == m + 1
             y == m + 2
  <2>1. /\ x \in 1 .. m + 2 /\ x <= m + 2 /\ ~(x <= m) /\ x - m = 1 /\ x \in 1 .. m + 2 + Len(u)
        /\ y \in 1 .. m + 2 /\ y <= m + 2 /\ ~(y <= m) /\ y - m = 2 /\ y \in 1 .. m + 2 + Len(u)
    BY <1>1, <1>2
  <2> HIDE DEF x, y
  <2>2. w[x] = v[x] /\ w[y] = v[y]
    BY <1>6, <2>1
  <2>3. v[x] = c[1] /\ v[y] = c[2]
    BY <1>5, <2>1
  <2>4. w[x] = Colon /\ w[y] = Colon
    BY <1>3, <2>2, <2>3
  <2> QED
    BY <2>4 DEF x, y
<1>9. Spells(w, m + 3, u)
  <2> DEFINE b == m + 3
  <2>1. b = m + 3 /\ b \in Nat
    BY <1>2
  <2> HIDE DEF b
  <2>2. ASSUME NEW i \in 1 .. Len(u)
        PROVE  w[b - 1 + i] = u[i]
    <3> DEFINE k == b - 1 + i
    <3>1. k \in 1 .. m + 2 + Len(u) /\ ~(k <= m + 2) /\ k - (m + 2) = i
      BY <1>1, <1>2, <2>1
    <3> HIDE DEF k
    <3>2. w[k] = u[i]
      BY <1>6, <3>1
    <3> QED
      BY <3>2 DEF k
  <2>3. Spells(w, b, u)
    BY <2>2 DEF Spells
  <2> QED
    BY <2>1, <2>3
<1>10. Opens(w, h)
  <2>1. Len(w) >= m + 2
    BY <1>1, <1>2, <1>6
  <2>2. Spells(w, 1, Join(h))
    <3>1. \A i \in 1 .. m : 1 - 1 + i = i
      BY <1>2
    <3> QED
      BY <1>2, <1>7, <3>1 DEF Spells
  <2> QED
    BY <1>8, <2>1, <2>2 DEF Opens, m
<1>11. Base(w, h, m + 3)
  BY <1>6, <1>10, OpensBase DEF m
<1> QED
  BY <1>4, <1>6, <1>9, <1>10, <1>11 DEF m

-----------------------------------------------------------------------------
(* to_string() and back *)

LEMMA GroupsAre ==
  ASSUME NEW a \in Addresses6
  PROVE  /\ a \in Seq(GroupValues) /\ Len(a) = Groups /\ Groups \in Nat /\ Groups >= 2
         /\ \A i \in 1 .. Groups : a[i] \in GroupValues
<1>1. Groups \in Nat /\ Groups >= 2
  BY AddressAssumption
<1> QED
  BY <1>1 DEF Addresses6

LEMMA JoinReads ==
  ASSUME NEW a \in Addresses6
  PROVE  ParseV6(Join(a)) = a
<1> DEFINE text == Join(a)
           p == 1
<1>1. a \in Seq(GroupValues) /\ Len(a) = Groups
  BY GroupsAre
<1>2. /\ text \in Seq(Tokens) /\ Len(text) = JoinLength(a) /\ JoinLength(a) \in Nat
      /\ p \in Nat \ {0} /\ p - 1 = 0
  BY <1>1, JoinIs
<1>3. Len(text) = p - 1 + JoinLength(a)
  BY <1>2
<1>4. Spells(text, p, Join(a))
  <2>1. \A i \in 1 .. Len(text) : p - 1 + i = i
    BY <1>2
  <2> HIDE DEF p
  <2> QED
    BY <2>1 DEF Spells
<1> HIDE DEF text, p
<1>5. Rest(text, p, a)
  BY <1>1, <1>2, <1>3, <1>4, RestJoin
<1>6. Rest(text, 1, a)
  BY <1>5 DEF p
<1>7. ParseV6(text) = a
  BY <1>1, <1>2, <1>6, ReadsWhole
<1> QED
  BY <1>7 DEF text

\* What is between the first l and the last r groups is zero.
Hollow(a, l, r) == \A i \in l + 1 .. Groups - r : a[i] = 0

\* A spelling is read as the address it keeps, the rest of it zero.
LEMMA SpellingReads ==
  ASSUME NEW a \in Addresses6, NEW l \in Nat, NEW r \in Nat, l + r <= Groups
  PROVE  ParseV6(Spelling(a, l, r)) = a <=> Hollow(a, l, r)
<1> DEFINE e == Groups - r + 1
           h == SubSeq(a, 1, l)
           g == SubSeq(a, e, Groups)
           u == Join(g)
           text == Around(h, u)
           z == Zeros(Groups - (l + r))
           p == JoinLength(h) + 3
<1>1. /\ a \in Seq(GroupValues) /\ Len(a) = Groups /\ Groups \in Nat
      /\ \A i \in 1 .. Groups : a[i] \in GroupValues
  BY GroupsAre
<1>2. Spelling(a, l, r) = text
  <2>1. l + 1 - 1 = l /\ l + 1 + (Groups - l - r) = e
    BY <1>1
  <2>2. Spelling(a, l, r) = Around(SubSeq(a, 1, l + 1 - 1),
                                   Join(SubSeq(a, l + 1 + (Groups - l - r), Groups)))
    BY DEF Spelling, Compressed, Around
  <2> QED
    BY <2>1, <2>2
<1>3. h \in Seq(GroupValues) /\ Len(h) = l /\ \A i \in 1 .. l : h[i] = a[i]
  <2> DEFINE o == 1
  <2>1. o \in Nat \ {0} /\ o <= l + 1 /\ l <= Groups /\ l - o + 1 = l /\ \A i \in 1 .. l : o + i - 1 = i
    BY <1>1
  <2> HIDE DEF o
  <2>2. SubSeq(a, o, l) \in Seq(GroupValues) /\ Len(SubSeq(a, o, l)) = l /\ \A i \in 1 .. l : SubSeq(a, o, l)[i] = a[i]
    BY <1>1, <2>1, SliceIs
  <2> QED
    BY <2>2 DEF o
<1>4. g \in Seq(GroupValues) /\ Len(g) = r /\ \A i \in 1 .. r : g[i] = a[Groups - r + i]
  <2>1. e \in Nat \ {0} /\ e <= Groups + 1 /\ Groups - e + 1 = r /\ \A i \in 1 .. r : e + i - 1 = Groups - r + i
    BY <1>1
  <2> HIDE DEF e
  <2> QED
    BY <1>1, <2>1, SliceIs
<1> HIDE DEF h, g
<1>5. u \in Seq(Tokens) /\ Len(u) = JoinLength(g)
  BY <1>4, JoinIs
<1>6. p \in Nat \ {0} /\ p - 1 = JoinLength(h) + 2
  BY <1>3, JoinIs
<1> HIDE DEF u
<1>7. /\ text \in Seq(Tokens) /\ Len(text) = JoinLength(h) + 2 + JoinLength(g)
      /\ Base(text, h, p) /\ Spells(text, p, u)
  BY <1>3, <1>5, AroundIs
<1> HIDE DEF p, text
<1>8. Rest(text, p, g)
  <2>1. Len(text) = p - 1 + JoinLength(g)
    BY <1>6, <1>7
  <2>2. Spells(text, p, Join(g))
    BY <1>7 DEF u
  <2> QED
    BY <1>4, <1>6, <1>7, <2>1, <2>2, RestJoin
<1>9. ParseV6(text) = h \o z \o g
  <2>1. p \in Nat /\ Len(h) + Len(g) <= Groups /\ Len(h) + Len(g) = l + r
    BY <1>3, <1>4, <1>6
  <2>2. ParseV6(text) = h \o Zeros(Groups - (Len(h) + Len(g))) \o g
    BY <1>3, <1>4, <1>7, <1>8, <2>1, ReadsAround
  <2> QED
    BY <2>1, <2>2
<1> DEFINE k == Groups - (l + r)
<1>10. k \in Nat /\ k + (l + r) = Groups
  BY <1>1
<1>11. z \in Seq(GroupValues) /\ Len(z) = k /\ \A i \in 1 .. k : z[i] = 0
  BY <1>10, ZerosAre
<1> HIDE DEF k, z
<1> DEFINE v == h \o z
           w == v \o g
<1>12. /\ v \in Seq(GroupValues) /\ Len(v) = l + k
       /\ \A i \in 1 .. l + k : v[i] = IF i <= l THEN h[i] ELSE z[i - l]
  BY <1>3, <1>11, ConcatProperties
<1> HIDE DEF v
<1>13. /\ w \in Seq(GroupValues) /\ Len(w) = l + k + r
       /\ \A i \in 1 .. l + k + r : w[i] = IF i <= l + k THEN v[i] ELSE g[i - (l + k)]
  <2> DEFINE d == l + k
  <2>1. Len(v) = d /\ d \in Nat /\ v \in Seq(GroupValues)
    BY <1>10, <1>12
  <2> HIDE DEF d
  <2>2. /\ w \in Seq(GroupValues) /\ Len(w) = d + r
        /\ \A i \in 1 .. d + r : w[i] = IF i <= d THEN v[i] ELSE g[i - d]
    BY <1>4, <2>1, ConcatProperties
  <2> QED
    BY <2>2 DEF d
<1> HIDE DEF w
<1>14. ASSUME NEW i \in 1 .. Groups
       PROVE  w[i] = IF i \in l + 1 .. Groups - r THEN 0 ELSE a[i]
  <2>1. i \in 1 .. l + k + r
    BY <1>1, <1>10
  <2>2. CASE i <= l
    <3>1. i \in 1 .. l + k /\ i <= l + k /\ i \in 1 .. l /\ ~(i \in l + 1 .. Groups - r)
      BY <1>1, <1>10, <2>2
    <3> QED
      BY <1>3, <1>12, <1>13, <2>1, <2>2, <3>1
  <2>3. CASE ~(i <= l) /\ i <= l + k
    <3>1. i \in 1 .. l + k /\ i - l \in 1 .. k /\ i \in l + 1 .. Groups - r
      BY <1>1, <1>10, <2>3
    <3> QED
      BY <1>11, <1>12, <1>13, <2>1, <2>3, <3>1
  <2>4. CASE ~(i <= l + k)
    <3> DEFINE j == i - (l + k)
    <3>1. j \in 1 .. r /\ Groups - r + j = i /\ ~(i \in l + 1 .. Groups - r)
      BY <1>1, <1>10, <2>4
    <3> HIDE DEF j
    <3>2. w[i] = g[j]
      BY <1>13, <2>1, <2>4 DEF j
    <3> QED
      BY <1>4, <3>1, <3>2
  <2> QED
    BY <2>2, <2>3, <2>4
<1>15. w = a <=> \A i \in 1 .. Groups : w[i] = a[i]
  <2>1. Len(w) = Groups
    BY <1>1, <1>10, <1>13
  <2> QED
    BY <1>1, <1>13, <2>1, SeqEqual
<1>16. w = a <=> Hollow(a, l, r)
  <2>1. \A i \in l + 1 .. Groups - r : i \in 1 .. Groups
    BY <1>1
  <2> QED
    BY <1>14, <1>15, <2>1 DEF Hollow
<1> QED
  BY <1>2, <1>9, <1>16 DEF w, v

\* Of the runs of zeros there is one that no other is better than.
LEMMA BestRun ==
  ASSUME NEW a \in Addresses6, ZeroRuns(a) # {}
  PROVE  \E r \in ZeroRuns(a) : \A q \in ZeroRuns(a) : ~BetterRun(q, r)
<1> DEFINE Z == ZeroRuns(a)
           Lengths == {n \in 0 .. Groups : \E r \in Z : n = Groups - r.len}
<1>1. Groups \in Nat
  BY AddressAssumption
<1>2. \A r \in Z : r.start \in 1 .. Groups /\ r.len \in 2 .. Groups
  BY DEF ZeroRuns
<1> HIDE DEF Z
<1>3. Lengths # {} /\ Lengths \subseteq Nat
  <2>1. PICK r : r \in Z
    BY DEF Z
  <2>2. Groups - r.len \in 0 .. Groups
    BY <1>1, <1>2, <2>1
  <2>3. Groups - r.len \in Lengths
    BY <2>1, <2>2
  <2> QED
    BY <1>1, <2>3
<1> HIDE DEF Lengths
<1>4. PICK n \in Lengths : \A m \in Lengths : n <= m
  BY <1>3, LeastOf
<1> DEFINE Starts == {i \in 1 .. Groups : \E r \in Z : i = r.start /\ n = Groups - r.len}
<1>5. Starts # {} /\ Starts \subseteq Nat
  BY <1>1, <1>2, <1>4 DEF Lengths
<1> HIDE DEF Starts
<1>6. PICK i \in Starts : \A j \in Starts : i <= j
  BY <1>5, LeastOf
<1>7. PICK r \in Z : i = r.start /\ n = Groups - r.len
  BY <1>6 DEF Starts
<1>8. ASSUME NEW q \in Z
      PROVE  ~BetterRun(q, r)
  <2>1. /\ q.len \in Nat /\ r.len \in Nat /\ q.start \in Nat /\ r.start \in Nat
        /\ q.start \in 1 .. Groups /\ Groups - q.len \in 0 .. Groups
    BY <1>1, <1>2
  <2>2. Groups - q.len \in Lengths
    BY <2>1 DEF Lengths
  <2>3. Groups - r.len <= Groups - q.len
    BY <1>4, <1>7, <2>2
  <2>4. q.len = r.len => q.start \in Starts
    BY <1>7, <2>1 DEF Starts
  <2>5. q.len = r.len => r.start <= q.start
    BY <1>6, <1>7, <2>4
  <2> QED
    BY <1>1, <2>1, <2>3, <2>5 DEF BetterRun
<1> QED
  BY <1>8 DEF Z

\* The run between the first l and the last r groups.
RunAt(l, r) == [start |-> l + 1, len |-> Groups - l - r]

LEMMA HollowIsRun ==
  ASSUME NEW a \in Addresses6, NEW l \in 0 .. Groups, NEW r \in 0 .. Groups, l + r < Groups - 1
  PROVE  Hollow(a, l, r) <=> RunAt(l, r) \in ZeroRuns(a)
<1> DEFINE q == RunAt(l, r)
<1>1. Groups \in Nat
  BY AddressAssumption
<1>2. /\ q \in [start : 1 .. Groups, len : 2 .. Groups]
      /\ q.start = l + 1 /\ q.len = Groups - l - r
      /\ q.start + q.len - 1 = Groups - r /\ Groups - r <= Groups
  BY <1>1 DEF RunAt
<1> HIDE DEF q
<1>3. q \in ZeroRuns(a) <=> \A i \in q.start .. q.start + q.len - 1 : a[i] = 0
  BY <1>2 DEF ZeroRuns
<1>4. q \in ZeroRuns(a) <=> \A i \in l + 1 .. Groups - r : a[i] = 0
  BY <1>2, <1>3
<1> QED
  BY <1>4 DEF q, Hollow

LEMMA RunIsHollow ==
  ASSUME NEW a \in Addresses6, NEW q \in ZeroRuns(a)
  PROVE  \E l, r \in 0 .. Groups :
            /\ l + r < Groups - 1 /\ q = RunAt(l, r) /\ Hollow(a, l, r)
            /\ q.start = l + 1 /\ q.len = Groups - l - r
<1>1. Groups \in Nat
  BY AddressAssumption
<1>2. /\ q \in [start : 1 .. Groups, len : 2 .. Groups]
      /\ q.start + q.len - 1 <= Groups
      /\ \A i \in q.start .. q.start + q.len - 1 : a[i] = 0
  BY DEF ZeroRuns
<1> DEFINE l == q.start - 1
           r == Groups - l - q.len
<1>3. /\ q.start \in 1 .. Groups /\ q.len \in 2 .. Groups /\ q = [start |-> q.start, len |-> q.len]
  BY <1>2
<1>4. /\ l \in 0 .. Groups /\ r \in 0 .. Groups /\ l + r < Groups - 1
      /\ q.start = l + 1 /\ q.len = Groups - l - r /\ q.start + q.len - 1 = Groups - r
  BY <1>1, <1>2, <1>3
<1> HIDE DEF l, r
<1>5. q = RunAt(l, r)
  BY <1>3, <1>4 DEF RunAt
<1>6. Hollow(a, l, r)
  BY <1>2, <1>4 DEF Hollow
<1> QED
  BY <1>4, <1>5, <1>6

\* What to_string() writes is read back and is the canonical spelling.
LEMMA FormatIsCanonical ==
  ASSUME NEW a \in Addresses6
  PROVE  ParseV6(FormatV6(a)) = a /\ IsCanonical(a, FormatV6(a))
<1> DEFINE shorter == {k \in (0 .. Groups) \X (0 .. Groups) :
                            /\ k[1] + k[2] < Groups - 1
                            /\ ParseV6(Spelling(a, k[1], k[2])) = a}
<1>1. Groups \in Nat
  BY AddressAssumption
<1>2. ASSUME NEW k \in (0 .. Groups) \X (0 .. Groups)
      PROVE  k \in shorter <=> k[1] + k[2] < Groups - 1 /\ RunAt(k[1], k[2]) \in ZeroRuns(a)
  <2> DEFINE l == k[1]
             r == k[2]
  <2>1. l \in 0 .. Groups /\ r \in 0 .. Groups
    OBVIOUS
  <2>2. k \in shorter <=> l + r < Groups - 1 /\ ParseV6(Spelling(a, l, r)) = a
    OBVIOUS
  <2> HIDE DEF l, r, shorter
  <2>3. ASSUME l + r < Groups - 1
        PROVE  ParseV6(Spelling(a, l, r)) = a <=> RunAt(l, r) \in ZeroRuns(a)
    <3>1. l \in Nat /\ r \in Nat /\ l + r <= Groups
      BY <1>1, <2>1, <2>3
    <3> QED
      BY <2>1, <2>3, <3>1, SpellingReads, HollowIsRun
  <2> QED
    BY <2>2, <2>3 DEF l, r
<1>3. \A k \in shorter : k \in (0 .. Groups) \X (0 .. Groups)
  OBVIOUS
<1> HIDE DEF shorter
<1>4. CASE ZeroRuns(a) = {}
  <2>1. FormatV6(a) = Join(a) /\ shorter = {}
    BY <1>2, <1>3, <1>4 DEF FormatV6
  <2>2. ParseV6(Join(a)) = a
    BY JoinReads
  <2> QED
    BY <2>1, <2>2 DEF IsCanonical, shorter
<1>5. CASE ZeroRuns(a) # {}
  <2> DEFINE q == CHOOSE x \in ZeroRuns(a) : \A y \in ZeroRuns(a) : ~BetterRun(y, x)
  <2>1. q \in ZeroRuns(a) /\ \A y \in ZeroRuns(a) : ~BetterRun(y, q)
    BY <1>5, BestRun
  <2>2. FormatV6(a) = Compressed(a, q)
    BY <1>5 DEF FormatV6
  <2> HIDE DEF q
  <2>3. PICK l \in 0 .. Groups, r \in 0 .. Groups :
            /\ l + r < Groups - 1 /\ q = RunAt(l, r) /\ Hollow(a, l, r)
            /\ q.start = l + 1 /\ q.len = Groups - l - r
    BY <2>1, RunIsHollow
  <2>4. FormatV6(a) = Spelling(a, l, r)
    BY <2>2, <2>3 DEF Spelling, RunAt
  <2>5. ParseV6(Spelling(a, l, r)) = a
    <3>1. l \in Nat /\ r \in Nat /\ l + r <= Groups
      BY <1>1, <2>3
    <3> QED
      BY <2>3, <3>1, SpellingReads
  <2> DEFINE k == <<l, r>>
  <2>6. k \in (0 .. Groups) \X (0 .. Groups) /\ k[1] = l /\ k[2] = r
    OBVIOUS
  <2> HIDE DEF k
  <2>7. k \in shorter
    BY <1>2, <2>1, <2>3, <2>6
  <2>8. ASSUME NEW m \in shorter \ {k}
        PROVE  \/ k[1] + k[2] < m[1] + m[2]
               \/ k[1] + k[2] = m[1] + m[2] /\ k[1] < m[1]
    <3> DEFINE y == RunAt(m[1], m[2])
    <3>1. m \in (0 .. Groups) \X (0 .. Groups) /\ m # k
      BY <1>3
    <3>2. m[1] \in 0 .. Groups /\ m[2] \in 0 .. Groups /\ m = <<m[1], m[2]>>
      BY <3>1
    <3>3. m[1] + m[2] < Groups - 1 /\ y \in ZeroRuns(a)
      BY <1>2, <3>1
    <3>4. y.start = m[1] + 1 /\ y.len = Groups - m[1] - m[2]
      BY DEF RunAt
    <3> HIDE DEF y
    <3>5. ~(y.len > q.len \/ (y.len = q.len /\ y.start < q.start))
      BY <2>1, <3>3 DEF BetterRun
    <3>6. ~(m[1] = l /\ m[2] = r)
      BY <2>6, <3>1, <3>2 DEF k
    <3> QED
      BY <1>1, <2>3, <2>6, <3>2, <3>4, <3>5, <3>6
  <2>9. IsCanonical(a, FormatV6(a))
    BY <2>4, <2>6, <2>7, <2>8 DEF IsCanonical, shorter
  <2> QED
    BY <2>4, <2>5, <2>9
<1> QED
  BY <1>4, <1>5

\* The address of IPv4 that is tried, the length, and the octet.
LEMMA NumbersReadBack ==
  ASSUME NEW n \in 0 .. 255
  PROVE  /\ ParseV4(FormatV4(<<n, 0, 255, n>>)) = <<n, 0, 255, n>>
         /\ ParseLength(Digits(n), 128) = IF n <= 128 THEN n ELSE Malformed
<1> DEFINE a == <<n, 0, 255, n>>
<1>1. a \in [1 .. 4 -> 0 .. 255]
  <2>1. a = [i \in 1 .. 4 |-> IF i = 2 THEN 0 ELSE IF i = 3 THEN 255 ELSE n]
    OBVIOUS
  <2> QED
    BY <2>1
<1> HIDE DEF a
<1>2. ParseV4(FormatV4(a)) = a
  BY <1>1, QuadReads
<1> QED
  BY <1>2, LengthReads DEF a

\* TextRoundTrip: what to_string() writes (address.cpp:121-173) parse() reads
\* back, in the canonical spelling of RFC 5952; and an octet and a prefix length
\* have one spelling and their own number.
THEOREM TextReadsBack == AddressSpec => []TextRoundTrip
<1>1. Asked => TextRoundTrip
  <2> SUFFICES ASSUME Asked
               PROVE  TextRoundTrip
    OBVIOUS
  <2>1. ASSUME subject.is = "groups"
        PROVE  subject.groups \in Addresses6
    BY <2>1 DEF Asked, Nothing
  <2>2. ASSUME subject.is = "number"
        PROVE  subject.n \in 0 .. 255
    BY <2>2 DEF Asked, Nothing
  <2>3. ASSUME subject.is = "digits"
        PROVE  subject.digits \in DigitStrings
    BY <2>3 DEF Asked, Nothing
  <2> QED
    BY <2>1, <2>2, <2>3, FormatIsCanonical, NumbersReadBack, OctetSpelling DEF TextRoundTrip
<1> QED
  BY <1>1, SubjectsAreAsked, PTL

-----------------------------------------------------------------------------
(* The texts that are accepted *)

\* Two parts have a colon between them.
Regular(text) == \A i \in 1 .. Len(text) : \A j \in 1 .. Len(text) :
                    j = i + 1 => text[i] = Colon \/ text[j] = Colon

\* The loop is at p and has the groups g from the text that starts at b: they are
\* laid out, or they are all that the text has.
Progress(text, b, p, g) ==
    \/ Laid(text, b, g) /\ p = b + 2 * Len(g) /\ (p <= Len(text) \/ (g = << >> /\ p = Len(text) + 1))
    \/ p = Len(text) + 1 /\ Rest(text, b, g)

\* What the state s of the loop says of the text.
Reached(text, s, c, h, g, b) ==
    /\ s = Reading(s.pos, c, h, g)
    /\ c = "head" => ~Leading(text) /\ b = 1
    /\ c = "tail" => Base(text, h, b)
    /\ Progress(text, b, s.pos, g)

Sound(text, s) ==
    s.ok => \E c \in Stores, h \in Seq(GroupValues), g \in Seq(GroupValues), b \in Nat \ {0} :
                Reached(text, s, c, h, g, b)

LEMMA LaidNone ==
  ASSUME NEW text, NEW p \in Nat
  PROVE  Laid(text, p, << >>) /\ p + 2 * Len(<< >>) = p
BY NoGroup DEF Laid

LEMMA LaidMore ==
  ASSUME NEW text \in Seq(Tokens), NEW b \in Nat \ {0}, NEW p \in Nat,
         NEW g \in Seq(GroupValues), NEW x \in GroupValues,
         Laid(text, b, g), p = b + 2 * Len(g), text[p] = Group(x), text[p + 1] = Colon
  PROVE  /\ g \o <<x>> \in Seq(GroupValues) /\ Len(g \o <<x>>) = Len(g) + 1
         /\ Laid(text, b, g \o <<x>>)
<1> DEFINE n == Len(g)
           y == <<x>>
           w == g \o y
<1>1. n \in Nat
  BY LenProperties
<1>2. y \in Seq(GroupValues) /\ Len(y) = 1 /\ y[1] = x
  OBVIOUS
<1> HIDE DEF y
<1>3. /\ w \in Seq(GroupValues) /\ Len(w) = n + 1
      /\ \A i \in 1 .. n + 1 : w[i] = IF i <= n THEN g[i] ELSE y[i - n]
  <2>1. /\ w \in Seq(GroupValues) /\ Len(w) = Len(g) + Len(y)
        /\ \A i \in 1 .. Len(g) + Len(y) : w[i] = IF i <= Len(g) THEN g[i] ELSE y[i - Len(g)]
    BY <1>2, ConcatProperties
  <2> QED
    BY <1>2, <2>1
<1> HIDE DEF w
<1>4. ASSUME NEW j \in 1 .. n + 1
      PROVE  text[b + 2 * j - 2] = Group(w[j]) /\ text[b + 2 * j - 1] = Colon
  <2>1. CASE j <= n
    <3>1. j \in 1 .. n /\ w[j] = g[j]
      BY <1>1, <1>3, <2>1
    <3> QED
      BY <3>1 DEF Laid
  <2>2. CASE ~(j <= n)
    <3>1. j - n = 1 /\ b + 2 * j - 2 = p /\ b + 2 * j - 1 = p + 1
      BY <1>1, <2>2
    <3>2. w[j] = x
      BY <1>2, <1>3, <2>2, <3>1
    <3> QED
      BY <3>1, <3>2
  <2> QED
    BY <2>1, <2>2
<1>5. Laid(text, b, w)
  BY <1>3, <1>4 DEF Laid
<1> QED
  BY <1>3, <1>5 DEF w, y

LEMMA OpeningSound ==
  ASSUME NEW text \in Seq(Tokens)
  PROVE  Sound(text, Opening(text))
<1> DEFINE s == Opening(text)
           none == << >>
           one == 1
           three == 3
           N == Len(text)
<1>1. N \in Nat /\ none \in Seq(GroupValues) /\ Len(none) = 0
  BY LenProperties, NoGroup
<1>2. CASE Leading(text)
  <2>1. s = Reading(three, "tail", none, none) /\ s.pos = three
    BY <1>2, OpeningIs DEF Reading
  <2>2. Base(text, none, three)
    BY <1>2 DEF Base
  <2>3. Progress(text, three, three, none)
    <3>1. three <= Len(text) \/ three = Len(text) + 1
      BY <1>1, <1>2 DEF Leading
    <3>2. Laid(text, three, none) /\ three = three + 2 * Len(none)
      BY LaidNone
    <3>3. none = << >>
      OBVIOUS
    <3> HIDE DEF three, none
    <3> QED
      BY <3>1, <3>2, <3>3 DEF Progress
  <2>4. three \in Nat \ {0} /\ "tail" \in Stores
    BY DEF Stores
  <2> HIDE DEF s, none, three
  <2>5. Reached(text, s, "tail", none, none, three)
    BY <2>1, <2>2, <2>3 DEF Reached
  <2> QED
    BY <1>1, <2>4, <2>5 DEF Sound, s
<1>3. CASE ~Leading(text)
  <2>1. s = Reading(one, "head", none, none) /\ s.pos = one
    BY <1>3, OpeningIs DEF Reading
  <2>2. Progress(text, one, one, none)
    <3>1. one <= Len(text) \/ one = Len(text) + 1
      BY <1>1
    <3>2. Laid(text, one, none) /\ one = one + 2 * Len(none)
      BY LaidNone
    <3>3. none = << >>
      OBVIOUS
    <3> HIDE DEF one, none
    <3> QED
      BY <3>1, <3>2, <3>3 DEF Progress
  <2>3. one \in Nat \ {0} /\ "head" \in Stores /\ one = 1
    BY DEF Stores
  <2> HIDE DEF s, none, one
  <2>4. Reached(text, s, "head", none, none, one)
    BY <1>3, <2>1, <2>2, <2>3 DEF Reached
  <2> QED
    BY <1>1, <2>3, <2>4 DEF Sound, s
<1> QED
  BY <1>2, <1>3

\* One turn says no more than the text has, and goes on.
LEMMA TurnSound ==
  ASSUME NEW text \in Seq(Tokens), Regular(text), NEW s \in States, Sound(text, s)
  PROVE  LET t == Turn(s, text)
         IN  Sound(text, t) /\ (t.ok => t.pos > s.pos \/ t.pos = Len(text) + 1)
<1> DEFINE N == Len(text)
           t == Turn(s, text)
           p == s.pos
           Goes(q) == Sound(text, q) /\ (q.ok => q.pos > s.pos \/ q.pos = N + 1)
<1>1. N \in Nat /\ p \in Nat \ {0}
  BY LenProperties DEF States
<1>2. ASSUME ~t.ok
      PROVE  Goes(t)
  BY <1>2 DEF Sound
<1>3. CASE ~s.ok
  <2>1. t = s
    BY <1>3 DEF Turn
  <2> QED
    BY <1>2, <1>3, <2>1
<1>4. ASSUME s.ok, NEW c \in Stores, NEW h \in Seq(GroupValues), NEW g \in Seq(GroupValues),
             NEW b \in Nat \ {0}, Reached(text, s, c, h, g, b)
      PROVE  Goes(t)
  <2>1. /\ s = Reading(p, c, h, g) /\ Progress(text, b, p, g)
        /\ c = "head" => ~Leading(text) /\ b = 1
        /\ c = "tail" => Base(text, h, b)
    BY <1>4 DEF Reached
  <2>2. CASE ~(p <= N)
    <3>1. t = s
      BY <2>2 DEF Turn
    <3>2. p = N + 1
      BY <2>1, <2>2 DEF Progress
    <3> QED
      BY <3>1, <3>2
  <2>3. CASE p <= N
    <3>1. p \in 1 .. N /\ text[p] \in Tokens
      BY <1>1, <2>3, ElementOfSeq
    <3>2. Laid(text, b, g) /\ p = b + 2 * Len(g)
      BY <1>1, <2>1, <2>3 DEF Progress
    <3>3. ASSUME NEW q \in Nat \ {0}, NEW d \in Stores, NEW i \in Seq(GroupValues),
                 NEW f \in Seq(GroupValues), NEW o \in Nat \ {0}, t = Reading(q, d, i, f),
                 d = "head" => ~Leading(text) /\ o = 1,
                 d = "tail" => Base(text, i, o),
                 Progress(text, o, q, f), q > p \/ q = N + 1
          PROVE  Goes(t)
      <4>1. t.pos = q
        <5>1. IsReading(Reading(q, d, i, f), q, d, i, f)
          BY <3>3, ReadingIs
        <5> QED
          BY <3>3, <5>1 DEF IsReading
      <4> HIDE DEF t
      <4>2. Reached(text, t, d, i, f, o)
        BY <3>3, <4>1 DEF Reached
      <4> QED
        BY <3>3, <4>1, <4>2 DEF Sound
    <3> HIDE DEF Goes
    <3>4. CASE text[p] = Colon
      <4>1. CASE c = "head"
        <5> DEFINE none == << >>
                   q == p + 1
        <5>1. h = h /\ Reading(p, c, h, g) = Reading(p, "head", << >>, g)
          BY <4>1 DEF Reading
        <5>2. t = Reading(q, "tail", g, none)
          BY <2>1, <3>1, <3>4, <5>1, AtColon
        <5>3. q \in Nat \ {0} /\ q > p /\ "tail" \in Stores /\ none \in Seq(GroupValues)
          BY <1>1, NoGroup DEF Stores
        <5>6. none = << >>
          OBVIOUS
        <5>4. Base(text, g, q)
          <6>1. b = 1 /\ ~Leading(text)
            BY <2>1, <4>1
          <6>2. q = 2 + 2 * Len(g) /\ 1 + 2 * Len(g) = p
            BY <3>2, <6>1, LenProperties
          <6> QED
            BY <2>3, <3>2, <3>4, <6>1, <6>2 DEF Base
        <5>5. Progress(text, q, q, none)
          <6>1. q <= N \/ q = N + 1
            BY <1>1, <2>3
          <6>2. Laid(text, q, none) /\ q = q + 2 * Len(none)
            BY <5>3, LaidNone
          <6> HIDE DEF q, none
          <6> QED
            BY <5>6, <6>1, <6>2 DEF Progress
        <5> HIDE DEF q, none, t
        <5> QED
          BY <3>3, <5>2, <5>3, <5>4, <5>5
      <4>2. CASE c = "tail"
        <5>1. s.ok /\ s.compressed
          BY <2>1, <4>2 DEF Reading
        <5>2. t = Fail(s)
          BY <2>3, <3>4, <5>1, TokensDiffer DEF Turn, ParseToken
        <5>3. ~t.ok
          BY <5>2 DEF Fail, States
        <5> QED
          BY <1>2, <5>3
      <4> QED
        BY <4>1, <4>2 DEF Stores
    <3>5. CASE text[p] # Colon /\ \E x \in GroupValues : text[p] = Group(x)
      <4>1. PICK x \in GroupValues : text[p] = Group(x)
        BY <3>5
      <4> DEFINE y == <<x>>
                 f == g \o y
      <4>2. AfterGroup(t, text, p, c, h, g, x)
        BY <2>1, <3>1, <4>1, AtGroup
      <4>3. CASE ~(Len(g) <= Groups - 1) \/ p + 1 = N
        BY <1>2, <4>2, <4>3 DEF AfterGroup
      <4>4. CASE Len(g) <= Groups - 1 /\ p = N
        <5> DEFINE q == p + 1
        <5>1. t = Reading(q, c, h, f)
          BY <4>2, <4>4 DEF AfterGroup
        <5>2. f \in Seq(GroupValues)
          BY ConcatProperties
        <5>3. Rest(text, b, f)
          BY <3>2, <4>1, <4>4 DEF Rest
        <5>4. q = N + 1 /\ q \in Nat \ {0}
          BY <1>1, <4>4
        <5> HIDE DEF f, q, t
        <5>5. Progress(text, b, q, f)
          BY <5>3, <5>4 DEF Progress
        <5> QED
          BY <2>1, <3>3, <5>1, <5>2, <5>4, <5>5
      <4>5. CASE Len(g) <= Groups - 1 /\ p + 1 < N
        <5> DEFINE q == p + 2
        <5>1. t = Reading(q, c, h, f)
          BY <4>2, <4>5 DEF AfterGroup
        <5>2. text[p + 1] = Colon
          <6> DEFINE j == p + 1
          <6>1. j = p + 1 /\ j \in 1 .. N
            BY <1>1, <4>5
          <6> HIDE DEF j
          <6>2. text[j] = Colon
            BY <3>1, <3>5, <6>1 DEF Regular
          <6> QED
            BY <6>1, <6>2
        <5>3. f \in Seq(GroupValues) /\ Len(f) = Len(g) + 1 /\ Laid(text, b, f)
          BY <1>1, <3>2, <4>1, <5>2, LaidMore
        <5> HIDE DEF f
        <5>4. q = b + 2 * Len(f) /\ q <= N /\ q > p /\ q \in Nat \ {0}
          BY <1>1, <3>2, <4>5, <5>3, LenProperties
        <5> HIDE DEF q, t
        <5>5. Progress(text, b, q, f)
          <6>1. Laid(text, b, f) /\ q = b + 2 * Len(f) /\ q <= Len(text)
            BY <5>3, <5>4
          <6> QED
            BY <6>1 DEF Progress
        <5> QED
          BY <2>1, <3>3, <5>1, <5>3, <5>4, <5>5
      <4> QED
        BY <1>1, <2>3, <4>3, <4>4, <4>5
    <3>6. CASE text[p] = Quad(0, 0)
      <4> DEFINE y == <<0, 0>>
                 f == g \o y
                 q == N + 1
      <4>1. /\ ~(Len(g) <= Groups - 2) => ~t.ok
            /\ Len(g) <= Groups - 2 => t = Reading(q, c, h, f)
        BY <2>1, <3>1, <3>6, AtQuad
      <4>2. f \in Seq(GroupValues)
        <5>1. y \in Seq(GroupValues)
          BY AddressAssumption
        <5> HIDE DEF y
        <5> QED
          BY <5>1, ConcatProperties
      <4>3. Rest(text, b, f)
        BY <2>3, <3>2, <3>6 DEF Rest
      <4>4. q = N + 1 /\ q \in Nat \ {0}
        BY <1>1
      <4> HIDE DEF f, q, t
      <4>5. Progress(text, b, q, f)
        BY <4>3, <4>4 DEF Progress
      <4>6. CASE Len(g) <= Groups - 2
        BY <2>1, <3>3, <4>1, <4>2, <4>4, <4>5, <4>6
      <4> QED
        BY <1>2, <4>1, <4>6
    <3>7. CASE text[p] # Colon /\ text[p] = Junk /\ text[p][1] = "junk"
      <4>1. t = Fail(s)
        BY <1>4, <2>3, <3>7 DEF Turn, ParseToken
      <4>2. ~t.ok
        BY <4>1 DEF Fail, States
      <4> QED
        BY <1>2, <4>2
    <3> QED
      BY <3>1, <3>4, <3>5, <3>6, <3>7, TokenKinds
  <2> QED
    BY <2>2, <2>3
<1>5. Goes(t)
  BY <1>3, <1>4 DEF Sound
<1> QED
  BY <1>5

Whole(text, g) == Rest(text, 1, g) /\ Len(g) = Groups

Split(text, h, g, p) == Base(text, h, p) /\ Rest(text, p, g) /\ Len(h) + Len(g) <= Groups

Accepted(text) ==
    \/ \E g \in Seq(GroupValues) : Whole(text, g)
    \/ \E h \in Seq(GroupValues), g \in Seq(GroupValues), p \in Nat \ {0} : Split(text, h, g, p)

LEMMA AcceptedIsRead ==
  ASSUME NEW text \in Seq(Tokens), Accepted(text)
  PROVE  ParseV6(text) # << >>
<1>1. Groups \in Nat /\ Groups >= 2
  BY AddressAssumption
<1>2. Len(<< >>) = 0
  BY NoGroup
<1>3. ASSUME NEW g \in Seq(GroupValues), Whole(text, g)
      PROVE  ParseV6(text) # << >>
  <2>1. ParseV6(text) = g /\ Len(g) = Groups
    BY <1>3, ReadsWhole DEF Whole
  <2>2. Len(g) # 0
    BY <1>1, <2>1
  <2> QED
    BY <1>2, <2>1, <2>2
<1>4. ASSUME NEW h \in Seq(GroupValues), NEW g \in Seq(GroupValues), NEW p \in Nat \ {0},
             Split(text, h, g, p)
      PROVE  ParseV6(text) # << >>
  <2> DEFINE k == Groups - (Len(h) + Len(g))
             z == Zeros(k)
             v == h \o z
             w == v \o g
  <2>1. ParseV6(text) = w
    BY <1>4, ReadsAround DEF Split
  <2>2. k \in Nat /\ k + (Len(h) + Len(g)) = Groups
    BY <1>1, <1>4, LenProperties DEF Split
  <2>3. z \in Seq(GroupValues) /\ Len(z) = k
    BY <2>2, ZerosAre
  <2> HIDE DEF z, k
  <2>4. v \in Seq(GroupValues) /\ Len(v) = Len(h) + k
    BY <2>3, ConcatProperties
  <2> HIDE DEF v
  <2>5. w \in Seq(GroupValues) /\ Len(w) = Len(v) + Len(g)
    BY <2>4, ConcatProperties
  <2> HIDE DEF w
  <2>6. Len(w) = Groups
    BY <2>2, <2>4, <2>5, LenProperties
  <2>7. Len(w) # 0
    BY <1>1, <2>6
  <2> QED
    BY <1>2, <2>1, <2>7
<1> QED
  BY <1>3, <1>4 DEF Accepted

LEMMA ReadIsAccepted ==
  ASSUME NEW text \in Seq(Tokens), Regular(text), ParseV6(text) # << >>
  PROVE  Accepted(text)
<1> DEFINE N == Len(text)
           Goes(s, i) == Sound(text, s) /\ (s.ok => s.pos > i \/ s.pos = N + 1)
<1>1. N \in Nat
  BY LenProperties
<1>2. PICK loop : IsRun(loop, text) /\ ParseV6(text) = Full(loop[N])
  BY Runs
<1>3. /\ loop \in [0 .. N -> States] /\ loop[0] = Opening(text)
      /\ \A i \in 1 .. N : loop[i] = Turn(loop[i - 1], text)
  BY <1>2 DEF IsRun
<1> DEFINE S == {i \in 0 .. N : Goes(loop[i], i)}
<1>4. 0 .. N \subseteq S
  <2>1. 0 \in S
    <3>1. 0 \in 0 .. N /\ Opening(text).pos > 0
      BY <1>1 DEF Opening
    <3>2. Sound(text, Opening(text))
      BY OpeningSound
    <3> QED
      BY <1>3, <3>1, <3>2
  <2>2. ASSUME NEW i \in 1 .. N, i - 1 \in S
        PROVE  i \in S
    <3> DEFINE s == loop[i - 1]
               t == Turn(s, text)
    <3>1. i - 1 \in 0 .. N /\ i \in 0 .. N
      BY <2>2
    <3>2. s \in States /\ loop[i] = t /\ t \in States
      BY <1>3, <3>1, TurnKeeps
    <3>3. Goes(s, i - 1)
      BY <2>2
    <3>4. Sound(text, t) /\ (t.ok => t.pos > s.pos \/ t.pos = N + 1)
      BY <3>2, <3>3, TurnSound
    <3>5. ~s.ok => t = s
      BY DEF Turn
    <3>6. s.pos \in Nat /\ t.pos \in Nat
      BY <3>2 DEF States
    <3>7. s.pos = N + 1 => t = s
      BY <1>1 DEF Turn
    <3> HIDE DEF s, t
    <3>8. t.ok => t.pos > i \/ t.pos = N + 1
      BY <1>1, <3>3, <3>4, <3>5, <3>6, <3>7
    <3> QED
      BY <3>1, <3>2, <3>4, <3>8
  <2> HIDE DEF S
  <2> QED
    BY <1>1, <2>1, <2>2, CountUp
<1> DEFINE s == loop[N]
<1>5. N \in 0 .. N
  BY <1>1
<1>6. Sound(text, s) /\ (s.ok => s.pos > N \/ s.pos = N + 1) /\ s \in States
  BY <1>3, <1>4, <1>5
<1> HIDE DEF s
<1>7. /\ s.ok /\ ~(Len(s.head) + Len(s.tail) > Groups)
      /\ s.compressed \/ Len(s.head) = Groups
  BY <1>2 DEF Full, s
<1>8. PICK c \in Stores, h \in Seq(GroupValues), g \in Seq(GroupValues), b \in Nat \ {0} :
          Reached(text, s, c, h, g, b)
  BY <1>6, <1>7 DEF Sound
<1>9. /\ s = Reading(s.pos, c, h, g) /\ Progress(text, b, s.pos, g)
      /\ c = "head" => ~Leading(text) /\ b = 1
      /\ c = "tail" => Base(text, h, b)
  BY <1>8 DEF Reached
<1>10. Rest(text, b, g)
  <2>1. ~(s.pos <= N) /\ s.pos \in Nat
    BY <1>1, <1>6, <1>7 DEF States
  <2>2. CASE g = << >> /\ s.pos = N + 1 /\ s.pos = b + 2 * Len(g)
    <3>1. b = N + 1
      BY <2>2, NoGroup
    <3> QED
      BY <2>2, <3>1 DEF Rest
  <2> QED
    BY <1>9, <2>1, <2>2 DEF Progress
<1>11. CASE c = "head"
  <2>1. s.head = g /\ ~s.compressed
    BY <1>9, <1>11 DEF Reading
  <2>2. Whole(text, g)
    BY <1>7, <1>9, <1>10, <1>11, <2>1 DEF Whole
  <2> QED
    BY <2>2 DEF Accepted
<1>12. CASE c = "tail"
  <2>1. s.head = h /\ s.tail = g
    BY <1>9, <1>12 DEF Reading
  <2>2. Split(text, h, g, b)
    BY <1>7, <1>9, <1>10, <1>12, <2>1, LenProperties, AddressAssumption DEF Split
  <2> QED
    BY <2>2 DEF Accepted
<1> QED
  BY <1>11, <1>12 DEF Stores

\* The spelling of one colon in front as two.
Doubling(text) == Len(text) >= 1 /\ text[1] = Colon /\ (Len(text) = 1 \/ text[2] # Colon)

Doubled(text) == IF Doubling(text) THEN <<Colon>> \o text ELSE text

LEMMA BaseOpens ==
  ASSUME NEW text \in Seq(Tokens), NEW h \in Seq(GroupValues), NEW p \in Nat,
         Base(text, h, p), h = << >> => Leading(text)
  PROVE  Opens(text, h) /\ p = JoinLength(h) + 3
<1> DEFINE n == Len(h)
           m == JoinLength(h)
<1>1. n \in Nat /\ (h = << >> <=> n = 0)
  BY LenProperties, EmptySeq
<1>2. /\ Join(h) \in Seq(Tokens) /\ Len(Join(h)) = m /\ m \in Nat
      /\ \A j \in 1 .. n : Join(h)[2 * j - 1] = Group(h[j])
      /\ \A j \in 1 .. n : j < n => Join(h)[2 * j] = Colon
  BY JoinIs
<1>3. CASE h = << >>
  <2>1. m = 0 /\ Len(Join(h)) = 0
    BY <1>1, <1>2, <1>3 DEF JoinLength
  <2>2. Spells(text, 1, Join(h))
    BY <2>1 DEF Spells
  <2>3. p = 3
    BY <1>3 DEF Base
  <2>4. /\ Len(text) >= m + 2 /\ text[m + 1] = Colon /\ text[m + 2] = Colon /\ p = m + 3
    BY <1>3, <2>1, <2>3 DEF Leading
  <2> QED
    BY <2>2, <2>4 DEF Opens
<1>4. CASE h # << >>
  <2>1. /\ Laid(text, 1, h) /\ 1 + 2 * n <= Len(text)
        /\ text[1 + 2 * n] = Colon /\ p = 2 + 2 * n
    BY <1>4 DEF Base
  <2>2. m = 2 * n - 1 /\ n # 0
    BY <1>1, <1>4 DEF JoinLength
  <2> HIDE DEF m
  <2>3. ASSUME NEW j \in 1 .. n
        PROVE  text[2 * j - 1] = Group(h[j]) /\ text[2 * j] = Colon
    <3>1. 1 + 2 * j - 2 = 2 * j - 1 /\ 1 + 2 * j - 1 = 2 * j
      BY <1>1
    <3> QED
      BY <2>1, <3>1 DEF Laid
  <2>4. ASSUME NEW i \in 1 .. m
        PROVE  text[i] = Join(h)[i]
    <3>1. PICK j \in Nat \ {0} : i = 2 * j - 1 \/ i = 2 * j
      <4>1. i \in Nat \ {0}
        BY <1>2
      <4> QED
        BY <4>1, OddOrEven
    <3>2. CASE i = 2 * j - 1
      <4>1. j \in 1 .. n
        BY <1>1, <2>2, <3>2
      <4> QED
        BY <1>2, <2>3, <3>2, <4>1
    <3>3. CASE i = 2 * j
      <4>1. j \in 1 .. n /\ j < n
        BY <1>1, <2>2, <3>3
      <4> QED
        BY <1>2, <2>3, <3>3, <4>1
    <3> QED
      BY <3>1, <3>2, <3>3
  <2>5. Spells(text, 1, Join(h))
    <3>1. \A i \in 1 .. m : 1 - 1 + i = i
      BY <1>2
    <3> QED
      BY <1>2, <2>4, <3>1 DEF Spells
  <2>6. text[m + 1] = Colon
    <3>1. n \in 1 .. n /\ 2 * n = m + 1
      BY <1>1, <2>2
    <3>2. text[2 * n] = Colon
      BY <2>3, <3>1
    <3> QED
      BY <3>1, <3>2
  <2>7. 1 + 2 * n = m + 2 /\ p = m + 3
    BY <1>1, <2>1, <2>2
  <2> QED
    BY <2>1, <2>5, <2>6, <2>7 DEF Opens, m
<1> QED
  BY <1>3, <1>4

\* A colon more in front of a text.
LEMMA OneMore ==
  ASSUME NEW text \in Seq(Tokens)
  PROVE  LET d == <<Colon>> \o text
         IN  /\ d \in Seq(Tokens) /\ Len(d) = Len(text) + 1 /\ d[1] = Colon
             /\ \A i \in Nat, j \in Nat : i >= 1 /\ i <= Len(text) /\ j = i + 1 => d[j] = text[i]
<1> DEFINE c == <<Colon>>
           d == c \o text
<1>1. c \in Seq(Tokens) /\ Len(c) = 1 /\ c[1] = Colon /\ Len(text) \in Nat
  BY GroupsAreTokens, LenProperties
<1> HIDE DEF c
<1>2. /\ d \in Seq(Tokens) /\ Len(d) = Len(c) + Len(text)
      /\ \A i \in 1 .. Len(c) + Len(text) : d[i] = IF i <= Len(c) THEN c[i] ELSE text[i - Len(c)]
  BY <1>1, ConcatProperties
<1> HIDE DEF d
<1>3. d[1] = Colon
  BY <1>1, <1>2
<1>4. ASSUME NEW i \in Nat, NEW j \in Nat, i >= 1, i <= Len(text), j = i + 1
      PROVE  d[j] = text[i]
  <2>1. j \in 1 .. Len(c) + Len(text) /\ ~(j <= Len(c)) /\ j - Len(c) = i
    BY <1>1, <1>4
  <2> QED
    BY <1>2, <2>1
<1>5. /\ d \in Seq(Tokens) /\ Len(d) = Len(text) + 1 /\ d[1] = Colon
      /\ \A i \in Nat, j \in Nat : i >= 1 /\ i <= Len(text) /\ j = i + 1 => d[j] = text[i]
  BY <1>1, <1>2, <1>3, <1>4
<1> QED
  BY <1>5 DEF d, c

\* The same text one place further.
Shifted(d, text) ==
    /\ Len(d) = Len(text) + 1
    /\ \A i \in Nat, j \in Nat : i >= 1 /\ i <= Len(text) /\ j = i + 1 => d[j] = text[i]

SameLaid(d, q, text, p, f) ==
    /\ Laid(d, q, f) <=> Laid(text, p, f)
    /\ d[q + 2 * Len(f)] = text[p + 2 * Len(f)]

LEMMA LaidShifted ==
  ASSUME NEW d \in Seq(Tokens), NEW text \in Seq(Tokens), Shifted(d, text),
         NEW p \in Nat \ {0}, NEW q \in Nat \ {0}, q = p + 1,
         NEW f \in Seq(GroupValues), p + 2 * Len(f) <= Len(text)
  PROVE  SameLaid(d, q, text, p, f)
<1>1. Len(f) \in Nat /\ Len(text) \in Nat
  BY LenProperties
<1>2. ASSUME NEW i \in 1 .. Len(text), NEW j \in Nat, j = i + 1
      PROVE  d[j] = text[i]
  <2>1. i \in Nat /\ i >= 1 /\ i <= Len(text)
    BY <1>1
  <2> QED
    BY <1>2, <2>1 DEF Shifted
<1>3. ASSUME NEW j \in 1 .. Len(f)
      PROVE  d[q + 2 * j - 2] = text[p + 2 * j - 2] /\ d[q + 2 * j - 1] = text[p + 2 * j - 1]
  <2>1. /\ p + 2 * j - 2 \in 1 .. Len(text) /\ q + 2 * j - 2 \in Nat /\ q + 2 * j - 2 = (p + 2 * j - 2) + 1
        /\ p + 2 * j - 1 \in 1 .. Len(text) /\ q + 2 * j - 1 \in Nat /\ q + 2 * j - 1 = (p + 2 * j - 1) + 1
    BY <1>1
  <2> QED
    BY <1>2, <2>1
<1>4. d[q + 2 * Len(f)] = text[p + 2 * Len(f)]
  <2>1. /\ p + 2 * Len(f) \in 1 .. Len(text) /\ q + 2 * Len(f) \in Nat
        /\ q + 2 * Len(f) = (p + 2 * Len(f)) + 1
    BY <1>1
  <2> QED
    BY <1>2, <2>1
<1>5. Laid(d, q, f) <=> Laid(text, p, f)
  BY <1>3 DEF Laid
<1> QED
  BY <1>4, <1>5 DEF SameLaid

LEMMA RestShifted ==
  ASSUME NEW d \in Seq(Tokens), NEW text \in Seq(Tokens), Shifted(d, text),
         NEW p \in Nat \ {0}, NEW q \in Nat \ {0}, q = p + 1, NEW g \in Seq(GroupValues)
  PROVE  Rest(d, q, g) <=> Rest(text, p, g)
<1>1. Len(d) = Len(text) + 1 /\ Len(text) \in Nat
  BY LenProperties DEF Shifted
<1>2. q = Len(d) + 1 <=> p = Len(text) + 1
  BY <1>1
<1>3. ASSUME NEW f \in Seq(GroupValues)
      PROVE  /\ Len(d) = q + 2 * Len(f) <=> Len(text) = p + 2 * Len(f)
             /\ q + 2 * Len(f) <= Len(d) <=> p + 2 * Len(f) <= Len(text)
             /\ Len(text) = p + 2 * Len(f) => p + 2 * Len(f) <= Len(text)
             /\ p + 2 * Len(f) <= Len(text) =>
                    /\ Laid(d, q, f) <=> Laid(text, p, f)
                    /\ d[q + 2 * Len(f)] = text[p + 2 * Len(f)]
  <2>1. Len(f) \in Nat
    BY LenProperties
  <2>2. ASSUME p + 2 * Len(f) <= Len(text)
        PROVE  /\ Laid(d, q, f) <=> Laid(text, p, f)
               /\ d[q + 2 * Len(f)] = text[p + 2 * Len(f)]
    <3>1. SameLaid(d, q, text, p, f)
      BY <2>2, LaidShifted
    <3> QED
      BY <3>1 DEF SameLaid
  <2>3. /\ Len(d) = q + 2 * Len(f) <=> Len(text) = p + 2 * Len(f)
        /\ q + 2 * Len(f) <= Len(d) <=> p + 2 * Len(f) <= Len(text)
        /\ Len(text) = p + 2 * Len(f) => p + 2 * Len(f) <= Len(text)
    BY <1>1, <2>1
  <2> QED
    BY <2>2, <2>3
<1>4. ASSUME Rest(text, p, g)
      PROVE  Rest(d, q, g)
  BY <1>2, <1>3, <1>4 DEF Rest
<1>5. ASSUME Rest(d, q, g)
      PROVE  Rest(text, p, g)
  BY <1>2, <1>3, <1>5 DEF Rest
<1> QED
  BY <1>4, <1>5

\* An address with one colon in front or none.
Proper(text) ==
    \/ \E g \in Seq(GroupValues) : Whole(text, g)
    \/ \E h \in Seq(GroupValues), g \in Seq(GroupValues) :
          Opens(text, h) /\ Rest(text, JoinLength(h) + 3, g) /\ Len(h) + Len(g) <= Groups

LEMMA DoubledIsProper ==
  ASSUME NEW text \in Seq(Tokens)
  PROVE  Doubled(text) \in Seq(Tokens) /\ (Accepted(text) <=> Proper(Doubled(text)))
<1>1. \A h \in Seq(GroupValues) : JoinLength(h) \in Nat
  BY JoinIs
<1>2. ASSUME NEW d \in Seq(Tokens), NEW g \in Seq(GroupValues), Whole(d, g)
      PROVE  d[1] # Colon
  <2>1. g # << >>
    BY <1>2, NoGroup, AddressAssumption DEF Whole
  <2> QED
    BY <1>2, <2>1, RestStarts DEF Whole
<1>3. CASE ~Doubling(text)
  <2>1. Doubled(text) = text
    BY <1>3 DEF Doubled
  <2>2. ASSUME NEW h \in Seq(GroupValues), NEW g \in Seq(GroupValues), NEW p \in Nat \ {0},
               Split(text, h, g, p)
        PROVE  Proper(text)
    <3>1. h = << >> => Leading(text)
      <4>1. ASSUME h = << >>, Laid(text, 1, h), 1 + 2 * Len(h) <= Len(text),
                   text[1 + 2 * Len(h)] = Colon, ~Leading(text)
            PROVE  FALSE
        <5>1. 1 + 2 * Len(h) = 1
          BY <4>1, NoGroup
        <5>2. Len(text) >= 1 /\ text[1] = Colon /\ Len(text) \in Nat
          BY <4>1, <5>1, LenProperties
        <5>3. Len(text) = 1 \/ text[2] # Colon
          <6>1. ~(Len(text) >= 2 /\ text[1] = Colon /\ text[2] = Colon)
            BY <4>1 DEF Leading
          <6>2. Len(text) # 1 => Len(text) >= 2
            <7> DEFINE n == Len(text)
            <7>1. n \in Nat /\ n >= 1
              BY <5>2
            <7> HIDE DEF n
            <7>2. n # 1 => n >= 2
              BY <7>1
            <7> QED
              BY <7>2 DEF n
          <6> QED
            BY <5>2, <6>1, <6>2, Zenon
        <5> QED
          BY <1>3, <5>2, <5>3 DEF Doubling
      <4> QED
        BY <2>2, <4>1 DEF Split, Base
    <3>2. Opens(text, h) /\ p = JoinLength(h) + 3
      BY <2>2, <3>1, BaseOpens DEF Split
    <3> QED
      BY <2>2, <3>2 DEF Split, Proper
  <2>3. ASSUME NEW h \in Seq(GroupValues), NEW g \in Seq(GroupValues),
               Opens(text, h), Rest(text, JoinLength(h) + 3, g), Len(h) + Len(g) <= Groups
        PROVE  Accepted(text)
    <3> DEFINE p == JoinLength(h) + 3
    <3>1. p \in Nat \ {0} /\ Base(text, h, p) /\ Rest(text, p, g)
      BY <1>1, <2>3, OpensBase
    <3> HIDE DEF p
    <3>2. Split(text, h, g, p)
      BY <2>3, <3>1 DEF Split
    <3> QED
      BY <3>1, <3>2 DEF Accepted
  <2> QED
    BY <2>1, <2>2, <2>3 DEF Accepted, Proper
<1>4. CASE Doubling(text)
  <2> DEFINE d == <<Colon>> \o text
             none == << >>
             two == 2
             three == 3
  <2>1. Doubled(text) = d
    BY <1>4 DEF Doubled
  <2>2. d \in Seq(Tokens) /\ Len(d) = Len(text) + 1 /\ d[1] = Colon /\ Shifted(d, text)
    BY OneMore DEF Shifted
  <2>3. /\ Len(text) >= 1 /\ text[1] = Colon /\ ~Leading(text) /\ Len(text) \in Nat
    BY <1>4, LenProperties DEF Doubling, Leading
  <2> HIDE DEF d
  <2>4. d[2] = Colon
    <3>1. 1 \in Nat /\ 2 \in Nat /\ 1 >= 1 /\ 1 <= Len(text) /\ 2 = 1 + 1
      BY <2>3
    <3> QED
      BY <2>2, <2>3, <3>1 DEF Shifted
  <2>5. ASSUME NEW g \in Seq(GroupValues)
        PROVE  Rest(d, 3, g) <=> Rest(text, 2, g)
    <3>1. two \in Nat \ {0} /\ three \in Nat \ {0} /\ three = two + 1
      OBVIOUS
    <3> HIDE DEF two, three
    <3>2. Rest(d, three, g) <=> Rest(text, two, g)
      BY <2>2, <3>1, RestShifted
    <3> QED
      BY <3>2 DEF two, three
  <2>6. /\ none \in Seq(GroupValues) /\ Len(none) = 0 /\ JoinLength(none) = 0
        /\ none = << >> /\ Len(Join(none)) = 0
    BY NoGroup, JoinIs DEF JoinLength
  <2>7. Opens(d, none)
    <3> HIDE DEF none
    <3>1. Spells(d, 1, Join(none))
      BY <2>6 DEF Spells
    <3> QED
      BY <2>2, <2>3, <2>4, <2>6, <3>1 DEF Opens
  <2>8. Base(text, none, 2)
    <3>1. Laid(text, 1, none)
      BY LaidNone
    <3> HIDE DEF none
    <3> QED
      BY <2>3, <2>6, <3>1 DEF Base
  <2> HIDE DEF none, two, three
  <2>9. ASSUME NEW h \in Seq(GroupValues), NEW g \in Seq(GroupValues), NEW p \in Nat \ {0},
               Split(text, h, g, p)
        PROVE  Proper(d)
    <3>1. h = none
      <4>1. h # << >> => Laid(text, 1, h)
        BY <2>9 DEF Split, Base
      <4> QED
        BY <2>3, <2>6, <4>1, LaidStarts
    <3>2. p = 2
      BY <2>3, <2>6, <2>9, <3>1 DEF Split, Base
    <3>3. Rest(d, JoinLength(none) + 3, g)
      BY <2>5, <2>6, <2>9, <3>2 DEF Split
    <3> QED
      BY <2>6, <2>7, <2>9, <3>1, <3>3 DEF Split, Proper
  <2>10. ASSUME NEW h \in Seq(GroupValues), NEW g \in Seq(GroupValues),
                Opens(d, h), Rest(d, JoinLength(h) + 3, g), Len(h) + Len(g) <= Groups
         PROVE  Accepted(text)
    <3>1. h = << >>
      <4>1. Base(d, h, JoinLength(h) + 3)
        BY <2>2, <2>10, OpensBase
      <4>2. h # << >> => Laid(d, 1, h)
        BY <4>1 DEF Base
      <4> QED
        BY <2>2, <4>2, LaidStarts
    <3>2. Rest(text, 2, g)
      BY <2>5, <2>6, <2>10, <3>1
    <3> DEFINE p == 2
    <3>3. Split(text, h, g, p) /\ p \in Nat \ {0}
      BY <2>6, <2>8, <2>10, <3>1, <3>2 DEF Split
    <3> HIDE DEF p
    <3> QED
      BY <3>3 DEF Accepted
  <2>11. ~(\E g \in Seq(GroupValues) : Whole(text, g)) /\ ~(\E g \in Seq(GroupValues) : Whole(d, g))
    BY <1>2, <2>2, <2>3
  <2> QED
    BY <2>1, <2>2, <2>9, <2>10, <2>11 DEF Accepted, Proper
<1> QED
  BY <1>3, <1>4

-----------------------------------------------------------------------------
(* What a text is that ends in groups *)

LEMMA QuadKind ==
  /\ \A x \in Tokens : x[1] = "quad" <=> x = Quad(0, 0)
  /\ Colon # Quad(0, 0)
  /\ \A g \in GroupValues : Group(g) # Quad(0, 0)
<1>1. /\ Colon[1] # "quad" /\ \A g \in GroupValues : Group(g)[1] # "quad"
      /\ Quad(0, 0)[1] = "quad" /\ Junk[1] # "quad"
  BY TokensDiffer, AddressAssumption
<1>2. \A x \in Tokens : x[1] = "quad" <=> x = Quad(0, 0)
  BY <1>1, TokenKinds
<1> QED
  BY <1>1, <1>2

LEMMA JoinHasNoQuad ==
  ASSUME NEW g \in Seq(GroupValues), NEW i \in 1 .. Len(Join(g))
  PROVE  Join(g)[i] # Quad(0, 0)
<1> DEFINE n == Len(g)
           m == Len(Join(g))
<1>1. n \in Nat
  BY LenProperties
<1>2. /\ m = JoinLength(g) /\ m \in Nat
      /\ \A j \in 1 .. n : Join(g)[2 * j - 1] = Group(g[j])
      /\ \A j \in 1 .. n : j < n => Join(g)[2 * j] = Colon
  BY JoinIs
<1> HIDE DEF m
<1>3. m = 2 * n - 1 /\ i \in Nat \ {0} /\ i <= m
  BY <1>2 DEF JoinLength, m
<1>4. PICK j \in Nat \ {0} : i = 2 * j - 1 \/ i = 2 * j
  BY <1>3, OddOrEven
<1>5. CASE i = 2 * j - 1
  <2>1. j \in 1 .. n
    BY <1>1, <1>3, <1>5
  <2>2. Join(g)[i] = Group(g[j]) /\ g[j] \in GroupValues
    BY <1>2, <1>5, <2>1, ElementOfSeq
  <2> QED
    BY <2>2, QuadKind
<1>6. CASE i = 2 * j
  <2>1. j \in 1 .. n /\ j < n
    BY <1>1, <1>3, <1>6
  <2>2. Join(g)[i] = Colon
    BY <1>2, <1>6, <2>1
  <2> QED
    BY <2>2, QuadKind
<1> QED
  BY <1>4, <1>5, <1>6

\* RestJoin, the other way.
LEMMA LastJoin ==
  ASSUME NEW text \in Seq(Tokens), NEW p \in Nat \ {0}, NEW g \in Seq(GroupValues),
         NEW f \in Seq(GroupValues), NEW x \in GroupValues, g = f \o <<x>>,
         Laid(text, p, f), text[p + 2 * Len(f)] = Group(x)
  PROVE  Spells(text, p, Join(g)) /\ JoinLength(g) = 2 * Len(f) + 1
<1> DEFINE k == Len(f)
           y == <<x>>
<1>1. k \in Nat
  BY LenProperties
<1>2. y \in Seq(GroupValues) /\ Len(y) = 1 /\ y[1] = x
  OBVIOUS
<1>3. g = f \o y
  OBVIOUS
<1> HIDE DEF y
<1>4. Len(g) = k + 1 /\ \A i \in 1 .. k + 1 : g[i] = IF i <= k THEN f[i] ELSE y[i - k]
  <2>1. /\ Len(g) = Len(f) + Len(y)
        /\ \A i \in 1 .. Len(f) + Len(y) : g[i] = IF i <= Len(f) THEN f[i] ELSE y[i - Len(f)]
    BY <1>2, <1>3, ConcatProperties
  <2> QED
    BY <1>2, <2>1
<1>5. JoinLength(g) = 2 * k + 1
  BY <1>1, <1>4 DEF JoinLength
<1>6. /\ Len(Join(g)) = 2 * k + 1
      /\ \A j \in 1 .. k + 1 : Join(g)[2 * j - 1] = Group(g[j])
      /\ \A j \in 1 .. k + 1 : j < k + 1 => Join(g)[2 * j] = Colon
  BY <1>4, <1>5, JoinIs
<1>7. ASSUME NEW i \in 1 .. 2 * k + 1
      PROVE  text[p - 1 + i] = Join(g)[i]
  <2>1. PICK j \in Nat \ {0} : i = 2 * j - 1 \/ i = 2 * j
    <3>1. i \in Nat \ {0}
      BY <1>1
    <3> QED
      BY <3>1, OddOrEven
  <2>2. CASE i = 2 * j - 1 /\ j <= k
    <3>1. j \in 1 .. k /\ j \in 1 .. k + 1 /\ p - 1 + i = p + 2 * j - 2
      BY <1>1, <2>1, <2>2
    <3>2. Join(g)[i] = Group(f[j])
      BY <1>4, <1>6, <2>2, <3>1
    <3> QED
      BY <3>1, <3>2 DEF Laid
  <2>3. CASE i = 2 * j - 1 /\ ~(j <= k)
    <3>1. j = k + 1 /\ j \in 1 .. k + 1 /\ j - k = 1 /\ p - 1 + i = p + 2 * k
      <4> HIDE DEF k
      <4>1. 2 * j - 1 <= 2 * k + 1 /\ j > k
        BY <1>1, <2>1, <2>3
      <4>2. j = k + 1
        BY <1>1, <2>1, <4>1
      <4> QED
        BY <1>1, <2>3, <4>2
    <3>2. Join(g)[i] = Group(x)
      BY <1>2, <1>4, <1>6, <2>3, <3>1
    <3> QED
      BY <3>1, <3>2
  <2>4. CASE i = 2 * j
    <3>1. j \in 1 .. k /\ j \in 1 .. k + 1 /\ j < k + 1 /\ p - 1 + i = p + 2 * j - 1
      BY <1>1, <2>1, <2>4
    <3>2. Join(g)[i] = Colon
      BY <1>6, <2>4, <3>1
    <3> QED
      BY <3>1, <3>2 DEF Laid
  <2> QED
    BY <2>1, <2>2, <2>3, <2>4
<1> QED
  BY <1>5, <1>6, <1>7 DEF Spells

LEMMA SpellsQuad ==
  ASSUME NEW text \in Seq(Tokens), NEW p \in Nat \ {0}, NEW f \in Seq(GroupValues)
  PROVE  Spells(text, p, WithQuad(f)) <=> Laid(text, p, f) /\ text[p + 2 * Len(f)] = Quad(0, 0)
<1> DEFINE k == Len(f)
           w == WithQuad(f)
<1>1. k \in Nat
  BY LenProperties
<1>2. /\ Len(w) = 2 * k + 1
      /\ \A j \in 1 .. k : w[2 * j - 1] = Group(f[j])
      /\ \A j \in 1 .. k : w[2 * j] = Colon
      /\ w[2 * k + 1] = Quad(0, 0)
  BY WithQuadIs
<1> HIDE DEF w
<1>3. \A j \in 1 .. k :
        /\ 2 * j - 1 \in 1 .. 2 * k + 1 /\ 2 * j \in 1 .. 2 * k + 1
        /\ p - 1 + (2 * j - 1) = p + 2 * j - 2 /\ p - 1 + 2 * j = p + 2 * j - 1
  BY <1>1
<1>4. 2 * k + 1 \in 1 .. 2 * k + 1 /\ p - 1 + (2 * k + 1) = p + 2 * k
  BY <1>1
<1>5. ASSUME Spells(text, p, w)
      PROVE  Laid(text, p, f) /\ text[p + 2 * k] = Quad(0, 0)
  <2>1. \A i \in 1 .. 2 * k + 1 : text[p - 1 + i] = w[i]
    BY <1>2, <1>5 DEF Spells
  <2>2. text[p + 2 * k] = Quad(0, 0)
    <3>1. text[p - 1 + (2 * k + 1)] = w[2 * k + 1]
      BY <1>4, <2>1
    <3> QED
      BY <1>2, <1>4, <3>1
  <2>3. ASSUME NEW j \in 1 .. k
        PROVE  text[p + 2 * j - 2] = Group(f[j]) /\ text[p + 2 * j - 1] = Colon
    <3>1. text[p - 1 + (2 * j - 1)] = w[2 * j - 1] /\ text[p - 1 + 2 * j] = w[2 * j]
      BY <1>3, <2>1
    <3> QED
      BY <1>2, <1>3, <3>1
  <2> QED
    BY <2>2, <2>3 DEF Laid
<1>6. ASSUME Laid(text, p, f), text[p + 2 * k] = Quad(0, 0)
      PROVE  Spells(text, p, w)
  <2>1. ASSUME NEW i \in 1 .. 2 * k + 1
        PROVE  text[p - 1 + i] = w[i]
    <3>1. PICK j \in Nat \ {0} : i = 2 * j - 1 \/ i = 2 * j
      <4>1. i \in Nat \ {0}
        BY <1>1
      <4> QED
        BY <4>1, OddOrEven
    <3>2. CASE i = 2 * k + 1
      BY <1>2, <1>4, <1>6, <3>2
    <3>3. CASE i # 2 * k + 1
      <4>1. j \in 1 .. k
        BY <1>1, <3>1, <3>3
      <4>2. text[p + 2 * j - 2] = Group(f[j]) /\ text[p + 2 * j - 1] = Colon
        BY <1>6, <4>1 DEF Laid
      <4> QED
        BY <1>2, <1>3, <3>1, <4>1, <4>2
    <3> QED
      BY <3>2, <3>3
  <2> QED
    BY <1>2, <2>1 DEF Spells
<1> QED
  BY <1>5, <1>6 DEF w

\* t is the text d up to its first quad.
IsCut(t, d) ==
    \/ t = d /\ \A i \in 1 .. Len(d) : d[i] # Quad(0, 0)
    \/ \E q \in 1 .. Len(d) :
          /\ d[q] = Quad(0, 0) /\ \A i \in 1 .. Len(d) : i < q => d[i] # Quad(0, 0)
          /\ Len(t) = q /\ \A i \in 1 .. q : t[i] = d[i]

Cut(d) ==
    LET quads == {i \in DOMAIN d : d[i][1] = "quad"}
    IN  IF quads = {} THEN d ELSE SubSeq(d, 1, Least(quads))

LEMMA CutIs ==
  ASSUME NEW d \in Seq(Tokens)
  PROVE  Cut(d) \in Seq(Tokens) /\ IsCut(Cut(d), d)
<1> DEFINE N == Len(d)
           quads == {i \in DOMAIN d : d[i][1] = "quad"}
<1>1. N \in Nat /\ DOMAIN d = 1 .. N /\ \A i \in 1 .. N : d[i] \in Tokens
  BY LenProperties, ElementOfSeq
<1>2. \A i \in 1 .. N : i \in quads <=> d[i] = Quad(0, 0)
  BY <1>1, QuadKind
<1>3. quads \subseteq 1 .. N
  BY <1>1
<1>4. Cut(d) = IF quads = {} THEN d ELSE SubSeq(d, 1, Least(quads))
  BY DEF Cut
<1> HIDE DEF quads
<1>5. CASE quads = {}
  BY <1>2, <1>4, <1>5 DEF IsCut
<1>6. CASE quads # {}
  <2> DEFINE q == Least(quads)
             one == 1
             t == SubSeq(d, one, q)
  <2>1. quads \in SUBSET Nat
    BY <1>1, <1>3
  <2>2. q \in quads /\ \A i \in quads : q <= i
    BY <1>6, <2>1, LeastOf
  <2> HIDE DEF q
  <2>3. q \in 1 .. N /\ q \in Nat
    BY <1>1, <1>3, <2>2
  <2>4. d[q] = Quad(0, 0) /\ \A i \in 1 .. N : i < q => d[i] # Quad(0, 0)
    <3>1. \A i \in 1 .. N : i < q => ~(q <= i)
      BY <2>3
    <3> QED
      BY <1>2, <2>2, <2>3, <3>1
  <2>5. /\ one \in Nat \ {0} /\ one <= q + 1 /\ q <= Len(d) /\ q - one + 1 = q
        /\ \A i \in 1 .. q : one + i - 1 = i
    BY <1>1, <2>3
  <2>6. Cut(d) = t
    BY <1>4, <1>6 DEF q
  <2> HIDE DEF one
  <2>7. t \in Seq(Tokens) /\ Len(t) = q /\ \A i \in 1 .. q : t[i] = d[i]
    BY <2>3, <2>5, SliceIs
  <2> HIDE DEF t
  <2>8. IsCut(t, d)
    BY <2>3, <2>4, <2>7 DEF IsCut
  <2> QED
    BY <2>6, <2>7, <2>8
<1> QED
  BY <1>5, <1>6

\* The text t ends, from p on, in the groups g or with a quad.
Ends(t, p, g) ==
    \/ Len(t) = p - 1 + JoinLength(g) /\ Spells(t, p, Join(g))
    \/ \E f \in Seq(GroupValues) :
          g = f \o <<0, 0>> /\ Len(t) = p + 2 * Len(f) /\ Spells(t, p, WithQuad(f))

NoQuadBefore(t, p) == \A i \in 1 .. Len(t) : i < p => t[i] # Quad(0, 0)

\* The beginning of t, before p, is that of d.
SameStart(t, d, p) == \A i \in 1 .. p - 1 : i <= Len(t) /\ i <= Len(d) /\ t[i] = d[i]

LEMMA CutEnds ==
  ASSUME NEW d \in Seq(Tokens), NEW t \in Seq(Tokens), IsCut(t, d),
         NEW p \in Nat \ {0}, NEW g \in Seq(GroupValues),
         Rest(d, p, g), NoQuadBefore(d, p), p <= Len(d) + 1
  PROVE  Ends(t, p, g) /\ SameStart(t, d, p)
<1> DEFINE N == Len(d)
<1>1. N \in Nat
  BY LenProperties
<1>2. ASSUME \A i \in 1 .. N : i >= p => d[i] # Quad(0, 0)
      PROVE  t = d
  <2>1. \A i \in 1 .. N : d[i] # Quad(0, 0)
    <3> SUFFICES ASSUME NEW i \in 1 .. N
                 PROVE  d[i] # Quad(0, 0)
      OBVIOUS
    <3>1. i < p \/ i >= p
      BY <1>1
    <3> QED
      BY <1>2, <3>1 DEF NoQuadBefore
  <2> QED
    BY <2>1 DEF IsCut
<1>3. t = d => SameStart(t, d, p)
  <2>1. \A i \in 1 .. p - 1 : i <= N
    BY <1>1
  <2> QED
    BY <2>1 DEF SameStart
<1>4. CASE g = << >> /\ p = N + 1
  <2>1. \A i \in 1 .. N : ~(i >= p)
    BY <1>1, <1>4
  <2>2. t = d
    BY <1>2, <2>1
  <2>3. JoinLength(g) = 0 /\ Len(Join(g)) = 0
    BY <1>4, NoGroup, JoinIs DEF JoinLength
  <2>4. Spells(t, p, Join(g))
    BY <2>3 DEF Spells
  <2>5. Len(t) = p - 1 + JoinLength(g)
    BY <1>1, <1>4, <2>2, <2>3
  <2> QED
    BY <1>3, <2>2, <2>4, <2>5 DEF Ends
<1>5. ASSUME NEW f \in Seq(GroupValues), NEW x \in GroupValues,
             g = f \o <<x>>, Laid(d, p, f),
             d[p + 2 * Len(f)] = Group(x), N = p + 2 * Len(f)
      PROVE  Ends(t, p, g) /\ SameStart(t, d, p)
  <2>1. Spells(d, p, Join(g)) /\ JoinLength(g) = 2 * Len(f) + 1
    BY <1>5, LastJoin
  <2>2. Len(f) \in Nat /\ Len(Join(g)) = JoinLength(g)
    BY JoinIs, LenProperties
  <2>3. N = p - 1 + JoinLength(g)
    BY <1>5, <2>1, <2>2
  <2>4. t = d
    <3>1. ASSUME NEW i \in 1 .. N, i >= p
          PROVE  d[i] # Quad(0, 0)
      <4> DEFINE j == i - p + 1
      <4>1. j \in 1 .. Len(Join(g)) /\ p - 1 + j = i
        BY <1>1, <2>2, <2>3, <3>1
      <4> HIDE DEF j
      <4>2. d[p - 1 + j] = Join(g)[j]
        BY <2>1, <4>1 DEF Spells
      <4> QED
        BY <4>1, <4>2, JoinHasNoQuad
    <3> QED
      BY <1>2, <3>1
  <2> QED
    BY <1>3, <2>1, <2>3, <2>4 DEF Ends
<1>6. ASSUME NEW f \in Seq(GroupValues),
             g = f \o <<0, 0>>, Laid(d, p, f),
             d[p + 2 * Len(f)] = Quad(0, 0), p + 2 * Len(f) <= N
      PROVE  Ends(t, p, g) /\ SameStart(t, d, p)
  <2> DEFINE k == Len(f)
             r == p + 2 * k
  <2>1. k \in Nat /\ r \in 1 .. N /\ r \in Nat
    BY <1>1, <1>6, LenProperties
  <2>2. ASSUME NEW i \in 1 .. N, i < r
        PROVE  d[i] # Quad(0, 0)
    <3>1. CASE i < p
      BY <3>1 DEF NoQuadBefore
    <3>2. CASE ~(i < p)
      <4> DEFINE o == i - p + 1
      <4>1. o \in Nat \ {0} /\ i = p + o - 1
        BY <3>2
      <4>2. PICK j \in Nat \ {0} : o = 2 * j - 1 \/ o = 2 * j
        BY <4>1, OddOrEven
      <4> HIDE DEF o
      <4>3. j \in 1 .. k /\ (i = p + 2 * j - 2 \/ i = p + 2 * j - 1)
        BY <2>1, <2>2, <4>1, <4>2
      <4>4. /\ d[p + 2 * j - 2] = Group(f[j]) /\ d[p + 2 * j - 1] = Colon
            /\ f[j] \in GroupValues
        BY <1>6, <4>3, ElementOfSeq DEF Laid
      <4> QED
        BY <4>3, <4>4, QuadKind
    <3> QED
      BY <3>1, <3>2
  <2>3. Len(t) = r /\ \A i \in 1 .. r : t[i] = d[i]
    <3>1. d[r] = Quad(0, 0)
      BY <1>6
    <3> HIDE DEF r
    <3>2. PICK q \in 1 .. N :
              /\ d[q] = Quad(0, 0) /\ \A i \in 1 .. N : i < q => d[i] # Quad(0, 0)
              /\ Len(t) = q /\ \A i \in 1 .. q : t[i] = d[i]
      BY <2>1, <3>1 DEF IsCut
    <3>3. q = r
      BY <1>1, <2>1, <2>2, <3>1, <3>2
    <3> QED
      BY <3>2, <3>3
  <2>4. SameStart(t, d, p)
    <3> SUFFICES ASSUME NEW i \in 1 .. p - 1
                 PROVE  i <= Len(t) /\ i <= Len(d) /\ t[i] = d[i]
      BY DEF SameStart
    <3>1. i \in 1 .. r /\ i <= r /\ r <= N /\ i <= N
      BY <1>1, <2>1
    <3> HIDE DEF r
    <3> QED
      BY <2>3, <3>1
  <2>5. Laid(t, p, f) /\ t[p + 2 * k] = Quad(0, 0)
    <3>1. ASSUME NEW j \in 1 .. k
          PROVE  t[p + 2 * j - 2] = Group(f[j]) /\ t[p + 2 * j - 1] = Colon
      <4>1. p + 2 * j - 2 \in 1 .. r /\ p + 2 * j - 1 \in 1 .. r
        BY <2>1
      <4>2. d[p + 2 * j - 2] = Group(f[j]) /\ d[p + 2 * j - 1] = Colon
        BY <1>6 DEF Laid
      <4> HIDE DEF r
      <4> QED
        BY <2>3, <4>1, <4>2
    <3>2. r \in 1 .. r
      BY <2>1
    <3>3. t[p + 2 * k] = Quad(0, 0)
      BY <1>6, <2>3, <3>2
    <3> QED
      BY <3>1, <3>3 DEF Laid
  <2>6. Spells(t, p, WithQuad(f))
    BY <2>5, SpellsQuad
  <2> QED
    BY <1>6, <2>3, <2>4, <2>6 DEF Ends
<1> QED
  BY <1>4, <1>5, <1>6 DEF Rest

LEMMA EndsOfCut ==
  ASSUME NEW d \in Seq(Tokens), NEW t \in Seq(Tokens), IsCut(t, d),
         NEW p \in Nat \ {0}, NEW g \in Seq(GroupValues),
         Ends(t, p, g), NoQuadBefore(t, p), p <= Len(t) + 1
  PROVE  Rest(d, p, g) /\ SameStart(t, d, p)
<1> DEFINE N == Len(d)
           m == Len(t)
<1>1. N \in Nat /\ m \in Nat
  BY LenProperties
<1>2. m <= N /\ \A i \in 1 .. m : t[i] = d[i]
  <2>1. CASE t = d
    BY <1>1, <2>1
  <2>2. CASE t # d
    BY <1>1, <2>2 DEF IsCut
  <2> QED
    BY <2>1, <2>2
<1>3. SameStart(t, d, p)
  <2> SUFFICES ASSUME NEW i \in 1 .. p - 1
               PROVE  i <= Len(t) /\ i <= Len(d) /\ t[i] = d[i]
    BY DEF SameStart
  <2>1. i \in 1 .. m /\ i <= m /\ i <= N
    BY <1>1, <1>2
  <2> QED
    BY <1>2, <2>1
<1>4. CASE Len(t) = p - 1 + JoinLength(g) /\ Spells(t, p, Join(g))
  <2>1. Len(Join(g)) = JoinLength(g) /\ JoinLength(g) \in Nat
    BY JoinIs
  <2>2. \A i \in 1 .. m : t[i] # Quad(0, 0)
    <3> SUFFICES ASSUME NEW i \in 1 .. m
                 PROVE  t[i] # Quad(0, 0)
      OBVIOUS
    <3>1. CASE i < p
      BY <3>1 DEF NoQuadBefore
    <3>2. CASE ~(i < p)
      <4> DEFINE j == i - p + 1
      <4>1. j \in 1 .. Len(Join(g)) /\ p - 1 + j = i
        BY <1>1, <1>4, <2>1, <3>2
      <4> HIDE DEF j
      <4>2. t[p - 1 + j] = Join(g)[j]
        BY <1>4, <4>1 DEF Spells
      <4> QED
        BY <4>1, <4>2, JoinHasNoQuad
    <3> QED
      BY <3>1, <3>2
  <2>3. t = d
    <3>1. ASSUME NEW q \in 1 .. N, d[q] = Quad(0, 0), m = q, \A i \in 1 .. q : t[i] = d[i]
          PROVE  FALSE
      <4>1. q \in 1 .. q /\ q \in 1 .. m
        BY <1>1, <3>1
      <4> QED
        BY <2>2, <3>1, <4>1
    <3> QED
      BY <3>1 DEF IsCut
  <2>4. Rest(t, p, g)
    BY <1>4, RestJoin
  <2> QED
    BY <1>3, <2>3, <2>4
<1>5. ASSUME NEW f \in Seq(GroupValues),
             g = f \o <<0, 0>>, Len(t) = p + 2 * Len(f), Spells(t, p, WithQuad(f))
      PROVE  Rest(d, p, g)
  <2> DEFINE k == Len(f)
             r == p + 2 * k
  <2>1. k \in Nat /\ r \in Nat /\ r = m /\ r \in 1 .. m
    BY <1>1, <1>5, LenProperties
  <2>2. Laid(t, p, f) /\ t[r] = Quad(0, 0)
    BY <1>5, SpellsQuad
  <2>3. ASSUME NEW j \in 1 .. k
        PROVE  d[p + 2 * j - 2] = Group(f[j]) /\ d[p + 2 * j - 1] = Colon
    <3>1. p + 2 * j - 2 \in 1 .. m /\ p + 2 * j - 1 \in 1 .. m
      BY <1>1, <2>1
    <3> QED
      BY <1>2, <2>2, <3>1 DEF Laid
  <2>4. d[r] = Quad(0, 0) /\ r <= N
    BY <1>1, <1>2, <2>1, <2>2
  <2>5. Laid(d, p, f)
    BY <2>3 DEF Laid
  <2> QED
    BY <1>5, <2>4, <2>5 DEF Rest
<1> QED
  BY <1>3, <1>4, <1>5 DEF Ends

LEMMA OpensHasNoQuad ==
  ASSUME NEW t \in Seq(Tokens), NEW h \in Seq(GroupValues), Opens(t, h)
  PROVE  NoQuadBefore(t, JoinLength(h) + 3)
<1> DEFINE m == JoinLength(h)
<1>1. m \in Nat /\ Len(Join(h)) = m
  BY JoinIs
<1>2. t[m + 1] = Colon /\ t[m + 2] = Colon /\ \A i \in 1 .. m : t[i] = Join(h)[i]
  <2>1. \A i \in 1 .. m : 1 - 1 + i = i
    BY <1>1
  <2> QED
    BY <1>1, <2>1 DEF Opens, Spells
<1> HIDE DEF m
<1>3. ASSUME NEW i \in 1 .. Len(t), i < m + 3
      PROVE  t[i] # Quad(0, 0)
  <2>1. CASE i \in 1 .. m
    BY <1>1, <1>2, <2>1, JoinHasNoQuad
  <2>2. CASE i = m + 1 \/ i = m + 2
    BY <1>2, <2>2, QuadKind
  <2> QED
    BY <1>1, <1>3, <2>1, <2>2
<1> QED
  BY <1>3 DEF NoQuadBefore, m

LEMMA OpensSame ==
  ASSUME NEW t \in Seq(Tokens), NEW d \in Seq(Tokens), NEW h \in Seq(GroupValues),
         Opens(d, h), SameStart(t, d, JoinLength(h) + 3) \/ SameStart(d, t, JoinLength(h) + 3)
  PROVE  Opens(t, h)
<1> DEFINE m == JoinLength(h)
<1>1. m \in Nat /\ Len(Join(h)) = m
  BY JoinIs
<1> HIDE DEF m
<1>2. \A i \in 1 .. m + 2 : i \in 1 .. (m + 3) - 1
  BY <1>1
<1>3. \A i \in 1 .. m + 2 : i <= Len(t) /\ t[i] = d[i]
  <2> DEFINE p == m + 3
  <2>1. \A i \in 1 .. m + 2 : i \in 1 .. p - 1
    BY <1>2
  <2>2. SameStart(t, d, p) \/ SameStart(d, t, p)
    BY DEF m
  <2> HIDE DEF p
  <2>3. \A i \in 1 .. p - 1 : i <= Len(t) /\ t[i] = d[i]
    BY <2>2 DEF SameStart
  <2> QED
    BY <2>1, <2>3
<1>4. /\ d[m + 1] = Colon /\ d[m + 2] = Colon /\ Spells(d, 1, Join(h))
  BY DEF Opens, m
<1>5. m + 1 \in 1 .. m + 2 /\ m + 2 \in 1 .. m + 2
  BY <1>1
<1>6. Len(t) >= m + 2
  BY <1>1, <1>3, <1>5, LenProperties
<1>7. t[m + 1] = Colon /\ t[m + 2] = Colon
  BY <1>3, <1>4, <1>5
<1>8. Spells(t, 1, Join(h))
  <2>1. \A i \in 1 .. m : 1 - 1 + i = i /\ i \in 1 .. m + 2
    BY <1>1
  <2>2. \A i \in 1 .. m : d[i] = Join(h)[i]
    BY <1>1, <1>4, <2>1 DEF Spells
  <2>3. \A i \in 1 .. m : t[i] = Join(h)[i]
    BY <1>3, <2>1, <2>2
  <2> QED
    BY <1>1, <2>1, <2>3 DEF Spells
<1> QED
  BY <1>6, <1>7, <1>8 DEF Opens, m

\* A text with the groups of an address, in full or around "::".
Written(t) ==
    \/ \E g \in Seq(GroupValues) : Len(g) = Groups /\ Ends(t, 1, g)
    \/ \E h \in Seq(GroupValues), g \in Seq(GroupValues) :
          Opens(t, h) /\ Ends(t, JoinLength(h) + 3, g) /\ Len(h) + Len(g) <= Groups

LEMMA CutIsWritten ==
  ASSUME NEW d \in Seq(Tokens), NEW t \in Seq(Tokens), IsCut(t, d)
  PROVE  Proper(d) <=> Written(t)
<1> DEFINE one == 1
<1>1. /\ one \in Nat \ {0} /\ one <= Len(d) + 1 /\ one <= Len(t) + 1
      /\ NoQuadBefore(d, one) /\ NoQuadBefore(t, one)
  BY LenProperties DEF NoQuadBefore
<1>2. one = 1
  OBVIOUS
<1> HIDE DEF one
<1>3. ASSUME NEW g \in Seq(GroupValues)
      PROVE  Rest(d, 1, g) <=> Ends(t, 1, g)
  <2>1. Rest(d, one, g) => Ends(t, one, g)
    BY <1>1, CutEnds
  <2>2. Ends(t, one, g) => Rest(d, one, g)
    BY <1>1, EndsOfCut
  <2> QED
    BY <1>2, <2>1, <2>2
<1>4. ASSUME NEW h \in Seq(GroupValues), NEW g \in Seq(GroupValues)
      PROVE  Opens(d, h) /\ Rest(d, JoinLength(h) + 3, g)
                <=> Opens(t, h) /\ Ends(t, JoinLength(h) + 3, g)
  <2> DEFINE p == JoinLength(h) + 3
  <2>1. JoinLength(h) \in Nat
    BY JoinIs
  <2>2. p \in Nat \ {0} /\ p = JoinLength(h) + 3
    BY <2>1
  <2>3. Len(d) \in Nat /\ Len(t) \in Nat
    BY LenProperties
  <2> HIDE DEF p
  <2>4. ASSUME Opens(d, h), Rest(d, p, g)
        PROVE  Opens(t, h) /\ Ends(t, p, g)
    <3>1. p <= Len(d) + 1
      BY <2>1, <2>2, <2>3, <2>4 DEF Opens
    <3>2. NoQuadBefore(d, p)
      BY <2>2, <2>4, OpensHasNoQuad
    <3>3. Ends(t, p, g) /\ SameStart(t, d, p)
      BY <2>2, <2>4, <3>1, <3>2, CutEnds
    <3> QED
      BY <2>2, <2>4, <3>3, OpensSame
  <2>5. ASSUME Opens(t, h), Ends(t, p, g)
        PROVE  Opens(d, h) /\ Rest(d, p, g)
    <3>1. p <= Len(t) + 1
      BY <2>1, <2>2, <2>3, <2>5 DEF Opens
    <3>2. NoQuadBefore(t, p)
      BY <2>2, <2>5, OpensHasNoQuad
    <3>3. Rest(d, p, g) /\ SameStart(t, d, p)
      BY <2>2, <2>5, <3>1, <3>2, EndsOfCut
    <3> QED
      BY <2>2, <2>5, <3>3, OpensSame
  <2> QED
    BY <2>2, <2>4, <2>5
<1> QED
  BY <1>3, <1>4 DEF Proper, Written, Whole

LEMMA SameText ==
  ASSUME NEW t \in Seq(Tokens), NEW u \in Seq(Tokens)
  PROVE  t = u <=> Len(t) = Len(u) /\ Spells(t, 1, u)
<1>1. \A i \in 1 .. Len(u) : 1 - 1 + i = i
  BY LenProperties
<1>2. ASSUME Len(t) = Len(u), Spells(t, 1, u)
      PROVE  t = u
  <2>1. \A i \in 1 .. Len(t) : t[i] = u[i]
    BY <1>1, <1>2 DEF Spells
  <2> QED
    BY <1>2, <2>1, SeqEqual
<1>3. ASSUME t = u
      PROVE  Len(t) = Len(u) /\ Spells(t, 1, u)
  BY <1>1, <1>3 DEF Spells
<1> QED
  BY <1>2, <1>3

LEMMA AroundText ==
  ASSUME NEW t \in Seq(Tokens), NEW u \in Seq(Tokens), NEW h \in Seq(GroupValues)
  PROVE  t = Around(h, u) <=>
            /\ Opens(t, h) /\ Len(t) = JoinLength(h) + 2 + Len(u)
            /\ Spells(t, JoinLength(h) + 3, u)
<1> DEFINE m == JoinLength(h)
           w == Around(h, u)
<1>1. /\ w \in Seq(Tokens) /\ Len(w) = m + 2 + Len(u) /\ Opens(w, h) /\ Spells(w, m + 3, u)
  BY AroundIs
<1>2. m \in Nat /\ Len(Join(h)) = m /\ Len(u) \in Nat
  BY JoinIs, LenProperties
<1> DEFINE p == m + 3
<1>4. p = m + 3 /\ p \in Nat
  BY <1>2
<1> HIDE DEF m, w, p
<1>3. ASSUME Opens(t, h), Len(t) = m + 2 + Len(u), Spells(t, m + 3, u)
      PROVE  t = w
  <2>1. ASSUME NEW v \in Seq(Tokens), Opens(v, h), Spells(v, p, u)
        PROVE  /\ v[m + 1] = Colon /\ v[m + 2] = Colon /\ \A i \in 1 .. m : v[i] = Join(h)[i]
               /\ \A i \in 1 .. Len(u) : v[p - 1 + i] = u[i]
    <3>1. \A i \in 1 .. m : 1 - 1 + i = i
      BY <1>2
    <3>2. \A i \in 1 .. m : v[i] = Join(h)[i]
      BY <1>2, <2>1, <3>1 DEF Opens, Spells
    <3>3. \A i \in 1 .. Len(u) : v[p - 1 + i] = u[i]
      BY <2>1 DEF Spells
    <3> QED
      BY <2>1, <3>2, <3>3 DEF Opens, m
  <2>2. /\ t[m + 1] = Colon /\ t[m + 2] = Colon /\ \A i \in 1 .. m : t[i] = Join(h)[i]
        /\ \A i \in 1 .. Len(u) : t[p - 1 + i] = u[i]
    BY <1>3, <1>4, <2>1
  <2>3. /\ w[m + 1] = Colon /\ w[m + 2] = Colon /\ \A i \in 1 .. m : w[i] = Join(h)[i]
        /\ \A i \in 1 .. Len(u) : w[p - 1 + i] = u[i]
    BY <1>1, <1>4, <2>1
  <2>4. ASSUME NEW i \in 1 .. Len(t)
        PROVE  t[i] = w[i]
    <3>1. CASE i \in 1 .. m
      BY <2>2, <2>3, <3>1
    <3>2. CASE i = m + 1 \/ i = m + 2
      BY <2>2, <2>3, <3>2
    <3>3. CASE i > m + 2
      <4> DEFINE j == i - (m + 2)
      <4>1. j \in 1 .. Len(u) /\ p - 1 + j = i
        BY <1>2, <1>3, <1>4, <3>3
      <4> HIDE DEF j
      <4>2. t[p - 1 + j] = u[j] /\ w[p - 1 + j] = u[j]
        BY <2>2, <2>3, <4>1
      <4> QED
        BY <4>1, <4>2
    <3> QED
      BY <1>2, <1>3, <3>1, <3>2, <3>3
  <2> QED
    BY <1>1, <1>3, <2>4, SeqEqual
<1> QED
  BY <1>1, <1>3 DEF m, w

LEMMA UpToIs ==
  ASSUME NEW n \in Int, NEW g
  PROVE  g \in UpTo(n) <=> g \in Seq(GroupValues) /\ Len(g) <= n
<1>1. ASSUME NEW m \in 0 .. n, g \in [1 .. m -> GroupValues]
      PROVE  g \in Seq(GroupValues) /\ Len(g) <= n
  <2>1. m \in Nat
    OBVIOUS
  <2>2. g \in Seq(GroupValues) /\ Len(g) = m
    BY <1>1, <2>1
  <2> QED
    BY <2>2
<1>2. ASSUME g \in Seq(GroupValues), Len(g) <= n
      PROVE  g \in UpTo(n)
  <2> DEFINE m == Len(g)
  <2>1. m \in 0 .. n /\ g \in [1 .. m -> GroupValues]
    BY <1>2, LenProperties
  <2> HIDE DEF m
  <2> QED
    BY <2>1 DEF UpTo
<1> QED
  BY <1>1, <1>2 DEF UpTo

LEMMA TuplesAre ==
  ASSUME NEW n \in Nat, NEW g
  PROVE  g \in [1 .. n -> GroupValues] <=> g \in Seq(GroupValues) /\ Len(g) = n
<1>1. ASSUME g \in [1 .. n -> GroupValues]
      PROVE  g \in Seq(GroupValues) /\ Len(g) = n
  BY <1>1
<1>2. ASSUME g \in Seq(GroupValues), Len(g) = n
      PROVE  g \in [1 .. n -> GroupValues]
  BY <1>2, LenProperties
<1> QED
  BY <1>1, <1>2

LEMMA QuadGroups ==
  ASSUME NEW f \in Seq(GroupValues)
  PROVE  f \o <<0, 0>> \in Seq(GroupValues) /\ Len(f \o <<0, 0>>) = Len(f) + 2
<1> DEFINE y == <<0, 0>>
<1>1. y \in Seq(GroupValues) /\ Len(y) = 2
  BY AddressAssumption
<1> HIDE DEF y
<1>2. f \o y \in Seq(GroupValues) /\ Len(f \o y) = Len(f) + 2
  <2>1. f \o y \in Seq(GroupValues) /\ Len(f \o y) = Len(f) + Len(y)
    BY <1>1, ConcatProperties
  <2> QED
    BY <1>1, <2>1
<1> QED
  BY <1>2 DEF y

\* A text that ends in groups, or in a quad, as one of the four kinds of spelling.
Ended(t, p, u) == Len(t) = p - 1 + Len(u) /\ Spells(t, p, u)

LEMMA EndsAre ==
  ASSUME NEW t \in Seq(Tokens), NEW p \in Nat \ {0}, NEW g \in Seq(GroupValues)
  PROVE  Ends(t, p, g) <=>
            \/ Ended(t, p, Join(g))
            \/ \E f \in Seq(GroupValues) : g = f \o <<0, 0>> /\ Ended(t, p, WithQuad(f))
<1>1. Len(Join(g)) = JoinLength(g)
  BY JoinIs
<1>2. \A f \in Seq(GroupValues) :
        Len(t) = p - 1 + Len(WithQuad(f)) <=> Len(t) = p + 2 * Len(f)
  <2> SUFFICES ASSUME NEW f \in Seq(GroupValues)
               PROVE  Len(t) = p - 1 + Len(WithQuad(f)) <=> Len(t) = p + 2 * Len(f)
    OBVIOUS
  <2>1. Len(WithQuad(f)) = 2 * Len(f) + 1 /\ Len(f) \in Nat /\ Len(t) \in Nat
    BY WithQuadIs, LenProperties
  <2> DEFINE l == Len(f)
             n == Len(t)
             k == Len(WithQuad(f))
  <2>2. k = 2 * l + 1 /\ l \in Nat /\ n \in Nat
    BY <2>1
  <2> HIDE DEF l, n, k
  <2>3. n = p - 1 + k <=> n = p + 2 * l
    BY <2>2
  <2> QED
    BY <2>3 DEF l, n, k
<1>3. Ended(t, p, Join(g)) <=> Len(t) = p - 1 + JoinLength(g) /\ Spells(t, p, Join(g))
  BY <1>1 DEF Ended
<1>4. \A f \in Seq(GroupValues) :
        Ended(t, p, WithQuad(f)) <=> Len(t) = p + 2 * Len(f) /\ Spells(t, p, WithQuad(f))
  BY <1>2 DEF Ended
<1> QED
  BY <1>3, <1>4 DEF Ends

LEMMA WholeText ==
  ASSUME NEW t \in Seq(Tokens), NEW u \in Seq(Tokens)
  PROVE  Ended(t, 1, u) <=> t = u
<1>1. 1 - 1 + Len(u) = Len(u)
  BY LenProperties
<1> QED
  BY <1>1, SameText DEF Ended

LEMMA SplitText ==
  ASSUME NEW t \in Seq(Tokens), NEW u \in Seq(Tokens), NEW h \in Seq(GroupValues)
  PROVE  Opens(t, h) /\ Ended(t, JoinLength(h) + 3, u) <=> t = Around(h, u)
<1>1. JoinLength(h) \in Nat /\ Len(u) \in Nat
  BY JoinIs, LenProperties
<1>2. (JoinLength(h) + 3) - 1 + Len(u) = JoinLength(h) + 2 + Len(u)
  BY <1>1
<1>3. Ended(t, JoinLength(h) + 3, u) <=>
        Len(t) = JoinLength(h) + 2 + Len(u) /\ Spells(t, JoinLength(h) + 3, u)
  BY <1>2 DEF Ended
<1> QED
  BY <1>3, AroundText

\* The four kinds.
Full6(t) == \E g \in Seq(GroupValues) : Len(g) = Groups /\ t = Join(g)
Quad6(t) == \E f \in Seq(GroupValues) : Len(f) = Groups - 2 /\ t = WithQuad(f)
Short6(t) == \E h \in Seq(GroupValues), g \in Seq(GroupValues) :
                Len(h) + Len(g) <= Groups /\ t = Around(h, Join(g))
ShortQuad6(t) == \E h \in Seq(GroupValues), f \in Seq(GroupValues) :
                    Len(h) + Len(f) <= Groups - 2 /\ t = Around(h, WithQuad(f))

LEMMA SpellingsAre ==
  ASSUME NEW t
  PROVE  t \in Spellings <=> Full6(t) \/ Quad6(t) \/ Short6(t) \/ ShortQuad6(t)
<1>1. Groups \in Nat /\ Groups - 2 \in Nat
  BY AddressAssumption
<1>2. t \in {Join(g) : g \in Addresses6} <=> Full6(t)
  BY <1>1, TuplesAre DEF Full6, Addresses6
<1>3. t \in {WithQuad(g) : g \in [1 .. Groups - 2 -> GroupValues]} <=> Quad6(t)
  <2> DEFINE n == Groups - 2
  <2>1. n \in Nat
    BY <1>1
  <2> HIDE DEF n
  <2>2. t \in {WithQuad(g) : g \in [1 .. n -> GroupValues]}
            <=> \E f \in Seq(GroupValues) : Len(f) = n /\ t = WithQuad(f)
    BY <2>1, TuplesAre
  <2> QED
    BY <2>2 DEF n, Quad6
<1>4. t \in UNION {{Around(h, Join(g)) : g \in UpTo(Groups - Len(h))} : h \in UpTo(Groups)}
        <=> Short6(t)
  <2>1. ASSUME NEW h \in UpTo(Groups), NEW g \in UpTo(Groups - Len(h)), t = Around(h, Join(g))
        PROVE  Short6(t)
    <3>1. h \in Seq(GroupValues) /\ Len(h) \in Nat
      BY <1>1, UpToIs, LenProperties
    <3>2. Groups - Len(h) \in Int
      BY <1>1, <3>1
    <3>3. g \in Seq(GroupValues) /\ Len(g) <= Groups - Len(h)
      BY <3>2, UpToIs
    <3>4. Len(h) + Len(g) <= Groups
      BY <1>1, <3>1, <3>3, LenProperties
    <3> QED
      BY <2>1, <3>1, <3>3, <3>4 DEF Short6
  <2>2. ASSUME NEW h \in Seq(GroupValues), NEW g \in Seq(GroupValues),
               Len(h) + Len(g) <= Groups
        PROVE  h \in UpTo(Groups) /\ g \in UpTo(Groups - Len(h))
    <3>1. Len(h) \in Nat /\ Len(g) \in Nat
      BY LenProperties
    <3>2. Groups - Len(h) \in Int /\ Len(h) <= Groups /\ Len(g) <= Groups - Len(h)
      BY <1>1, <2>2, <3>1
    <3> QED
      BY <1>1, <3>2, UpToIs
  <2> QED
    BY <2>1, <2>2 DEF Short6
<1>5. t \in UNION {{Around(h, WithQuad(g)) : g \in UpTo(Groups - 2 - Len(h))} :
                      h \in UpTo(Groups - 2)}
        <=> ShortQuad6(t)
  <2> DEFINE n == Groups - 2
  <2>1. n \in Nat
    BY <1>1
  <2>2. n = Groups - 2
    OBVIOUS
  <2> HIDE DEF n
  <2>3. ASSUME NEW h \in UpTo(n), NEW g \in UpTo(n - Len(h)), t = Around(h, WithQuad(g))
        PROVE  ShortQuad6(t)
    <3>1. h \in Seq(GroupValues) /\ Len(h) \in Nat
      BY <2>1, UpToIs, LenProperties
    <3>2. n - Len(h) \in Int
      BY <2>1, <3>1
    <3>3. g \in Seq(GroupValues) /\ Len(g) <= n - Len(h)
      BY <3>2, UpToIs
    <3>4. Len(h) + Len(g) <= n
      BY <2>1, <3>1, <3>3, LenProperties
    <3> QED
      BY <2>2, <2>3, <3>1, <3>3, <3>4 DEF ShortQuad6
  <2>4. ASSUME NEW h \in Seq(GroupValues), NEW g \in Seq(GroupValues), Len(h) + Len(g) <= n
        PROVE  h \in UpTo(n) /\ g \in UpTo(n - Len(h))
    <3>1. Len(h) \in Nat /\ Len(g) \in Nat
      BY LenProperties
    <3>2. n - Len(h) \in Int /\ Len(h) <= n /\ Len(g) <= n - Len(h)
      BY <2>1, <2>4, <3>1
    <3> QED
      BY <2>1, <3>2, UpToIs
  <2>5. t \in UNION {{Around(h, WithQuad(g)) : g \in UpTo(n - Len(h))} : h \in UpTo(n)}
        <=> ShortQuad6(t)
    BY <2>2, <2>3, <2>4 DEF ShortQuad6
  <2> QED
    BY <2>5 DEF n
<1> DEFINE A == {Join(g) : g \in Addresses6}
           B == {WithQuad(g) : g \in [1 .. Groups - 2 -> GroupValues]}
           C == UNION {{Around(h, Join(g)) : g \in UpTo(Groups - Len(h))} : h \in UpTo(Groups)}
           D == UNION {{Around(h, WithQuad(g)) : g \in UpTo(Groups - 2 - Len(h))} :
                          h \in UpTo(Groups - 2)}
<1>6. Spellings = A \cup B \cup C \cup D
  BY DEF Spellings, Complete, Shortened
<1> HIDE DEF A, B, C, D
<1>7. t \in Spellings <=> t \in A \/ t \in B \/ t \in C \/ t \in D
  BY <1>6
<1> QED
  BY <1>2, <1>3, <1>4, <1>5, <1>7 DEF A, B, C, D

LEMMA WrittenIsSpelling ==
  ASSUME NEW t \in Seq(Tokens)
  PROVE  Written(t) <=> t \in Spellings
<1> DEFINE one == 1
<1>1. /\ \A g \in Seq(GroupValues) : Join(g) \in Seq(Tokens) /\ JoinLength(g) \in Nat
      /\ \A f \in Seq(GroupValues) : WithQuad(f) \in Seq(Tokens)
  BY JoinIs, WithQuadIs
<1>2. one \in Nat \ {0} /\ one = 1
  OBVIOUS
<1> HIDE DEF one
<1>3. ASSUME NEW g \in Seq(GroupValues)
      PROVE  Ends(t, 1, g) <=>
                \/ t = Join(g)
                \/ \E f \in Seq(GroupValues) : g = f \o <<0, 0>> /\ t = WithQuad(f)
  <2>1. Ends(t, one, g) <=>
            \/ Ended(t, one, Join(g))
            \/ \E f \in Seq(GroupValues) : g = f \o <<0, 0>> /\ Ended(t, one, WithQuad(f))
    BY <1>2, EndsAre
  <2>2. /\ Ended(t, 1, Join(g)) <=> t = Join(g)
        /\ \A f \in Seq(GroupValues) : Ended(t, 1, WithQuad(f)) <=> t = WithQuad(f)
    BY <1>1, WholeText
  <2> QED
    BY <1>2, <2>1, <2>2
<1>4. ASSUME NEW h \in Seq(GroupValues), NEW g \in Seq(GroupValues)
      PROVE  Opens(t, h) /\ Ends(t, JoinLength(h) + 3, g) <=>
                \/ t = Around(h, Join(g))
                \/ \E f \in Seq(GroupValues) : g = f \o <<0, 0>> /\ t = Around(h, WithQuad(f))
  <2> DEFINE p == JoinLength(h) + 3
  <2>1. p \in Nat \ {0} /\ p = JoinLength(h) + 3
    BY <1>1
  <2> HIDE DEF p
  <2>2. Ends(t, p, g) <=>
            \/ Ended(t, p, Join(g))
            \/ \E f \in Seq(GroupValues) : g = f \o <<0, 0>> /\ Ended(t, p, WithQuad(f))
    BY <2>1, EndsAre
  <2>3. \A u \in Seq(Tokens) : Opens(t, h) /\ Ended(t, p, u) <=> t = Around(h, u)
    BY <2>1, SplitText
  <2> QED
    BY <1>1, <2>1, <2>2, <2>3
<1>5. Groups \in Nat
  BY AddressAssumption
<1>6. ASSUME NEW f \in Seq(GroupValues), NEW g, g = f \o <<0, 0>>
      PROVE  g \in Seq(GroupValues) /\ Len(g) = Len(f) + 2 /\ Len(f) \in Nat
  BY <1>6, QuadGroups, LenProperties
<1>7. ASSUME Written(t)
      PROVE  Full6(t) \/ Quad6(t) \/ Short6(t) \/ ShortQuad6(t)
  <2>1. ASSUME NEW g \in Seq(GroupValues), Len(g) = Groups, Ends(t, 1, g)
        PROVE  Full6(t) \/ Quad6(t)
    <3>1. CASE t = Join(g)
      BY <2>1, <3>1 DEF Full6
    <3>2. ASSUME NEW f \in Seq(GroupValues), g = f \o <<0, 0>>, t = WithQuad(f)
          PROVE  Quad6(t)
      <4>1. Len(f) = Groups - 2
        BY <1>5, <1>6, <2>1, <3>2
      <4> QED
        BY <3>2, <4>1 DEF Quad6
    <3> QED
      BY <1>3, <2>1, <3>1, <3>2
  <2>2. ASSUME NEW h \in Seq(GroupValues), NEW g \in Seq(GroupValues),
               Opens(t, h), Ends(t, JoinLength(h) + 3, g), Len(h) + Len(g) <= Groups
        PROVE  Short6(t) \/ ShortQuad6(t)
    <3>1. CASE t = Around(h, Join(g))
      BY <2>2, <3>1 DEF Short6
    <3>2. ASSUME NEW f \in Seq(GroupValues), g = f \o <<0, 0>>, t = Around(h, WithQuad(f))
          PROVE  ShortQuad6(t)
      <4>1. Len(h) + Len(f) <= Groups - 2
        BY <1>5, <1>6, <2>2, <3>2, LenProperties
      <4> QED
        BY <3>2, <4>1 DEF ShortQuad6
    <3> QED
      BY <1>4, <2>2, <3>1, <3>2
  <2> QED
    BY <1>7, <2>1, <2>2 DEF Written
<1>8. ASSUME Full6(t) \/ Quad6(t) \/ Short6(t) \/ ShortQuad6(t)
      PROVE  Written(t)
  <2>1. ASSUME Full6(t)
        PROVE  Written(t)
    BY <1>3, <2>1 DEF Full6, Written
  <2>2. ASSUME Quad6(t)
        PROVE  Written(t)
    <3>1. PICK f \in Seq(GroupValues) : Len(f) = Groups - 2 /\ t = WithQuad(f)
      BY <2>2 DEF Quad6
    <3> DEFINE g == f \o <<0, 0>>
    <3>2. g \in Seq(GroupValues) /\ g = f \o <<0, 0>> /\ Len(g) = Groups
      <4>1. g = f \o <<0, 0>>
        OBVIOUS
      <4> HIDE DEF g
      <4>2. g \in Seq(GroupValues) /\ Len(g) = Len(f) + 2 /\ Len(f) \in Nat
        BY <1>6, <4>1
      <4> QED
        BY <1>5, <3>1, <4>1, <4>2
    <3> HIDE DEF g
    <3>3. Ends(t, 1, g)
      BY <1>3, <3>1, <3>2
    <3> QED
      BY <3>2, <3>3 DEF Written
  <2>3. ASSUME Short6(t)
        PROVE  Written(t)
    BY <1>4, <2>3 DEF Short6, Written
  <2>4. ASSUME ShortQuad6(t)
        PROVE  Written(t)
    <3>1. PICK h \in Seq(GroupValues), f \in Seq(GroupValues) :
              Len(h) + Len(f) <= Groups - 2 /\ t = Around(h, WithQuad(f))
      BY <2>4 DEF ShortQuad6
    <3> DEFINE g == f \o <<0, 0>>
    <3>2. g \in Seq(GroupValues) /\ g = f \o <<0, 0>> /\ Len(g) = Len(f) + 2 /\ Len(f) \in Nat
      BY <1>6
    <3> HIDE DEF g
    <3>3. Opens(t, h) /\ Ends(t, JoinLength(h) + 3, g)
      BY <1>4, <3>1, <3>2
    <3>4. Len(h) + Len(g) <= Groups
      BY <1>5, <3>1, <3>2, LenProperties
    <3> QED
      BY <3>2, <3>3, <3>4 DEF Written
  <2> QED
    BY <1>8, <2>1, <2>2, <2>3, <2>4
<1> QED
  BY <1>7, <1>8, SpellingsAre

-----------------------------------------------------------------------------
(* What the parser takes *)

LEMMA AppendIs ==
  ASSUME NEW t \in Seq(Tokens), NEW x \in Tokens, NEW n \in Nat \ {0}, Len(t) = n - 1
  PROVE  /\ Append(t, x) \in Seq(Tokens) /\ Len(Append(t, x)) = n
         /\ Append(t, x)[n] = x /\ \A i \in 1 .. n - 1 : Append(t, x)[i] = t[i]
<1> DEFINE w == Append(t, x)
<1>1. /\ w \in Seq(Tokens) /\ Len(w) = Len(t) + 1
      /\ \A i \in 1 .. Len(t) : w[i] = t[i]
      /\ w[Len(t) + 1] = x
  BY AppendProperties
<1>2. Len(t) + 1 = n
  OBVIOUS
<1> HIDE DEF w
<1>3. w \in Seq(Tokens) /\ Len(w) = n /\ w[n] = x /\ \A i \in 1 .. n - 1 : w[i] = t[i]
  BY <1>1, <1>2
<1> QED
  BY <1>3 DEF w

RegularOf(n) == {t \in Seq(Tokens) : Len(t) = n /\ Regular(t)}

LEMMA RegularGrows ==
  ASSUME NEW n \in Nat \ {0}
  PROVE  RegularOf(n) =
            {Append(t, Colon) : t \in RegularOf(n - 1)}
            \cup {Append(t, p) : t \in {u \in RegularOf(n - 1) : u = << >> \/ u[n - 1] = Colon},
                                 p \in Parts}
<1> DEFINE A == {Append(t, Colon) : t \in RegularOf(n - 1)}
           B == {Append(t, p) : t \in {u \in RegularOf(n - 1) : u = << >> \/ u[n - 1] = Colon},
                                p \in Parts}
<1>1. n - 1 \in Nat
  OBVIOUS
<1>2. ASSUME NEW t \in RegularOf(n - 1), NEW x \in Tokens,
             x = Colon \/ t = << >> \/ t[n - 1] = Colon
      PROVE  Append(t, x) \in RegularOf(n)
  <2> DEFINE w == Append(t, x)
  <2>1. t \in Seq(Tokens) /\ Len(t) = n - 1 /\ Regular(t)
    BY DEF RegularOf
  <2>2. w \in Seq(Tokens) /\ Len(w) = n /\ w[n] = x /\ \A i \in 1 .. n - 1 : w[i] = t[i]
    BY <2>1, AppendIs
  <2> HIDE DEF w
  <2>3. ASSUME NEW i \in 1 .. n, NEW j \in 1 .. n, j = i + 1
        PROVE  w[i] = Colon \/ w[j] = Colon
    <3>1. i \in 1 .. n - 1
      BY <2>3
    <3>2. CASE j \in 1 .. n - 1
      BY <2>1, <2>2, <2>3, <3>1, <3>2 DEF Regular
    <3>3. CASE j = n
      <4>1. i = n - 1
        BY <2>3, <3>3
      <4>2. t # << >>
        BY <2>1, <3>1, <4>1, EmptySeq
      <4> QED
        BY <1>2, <2>2, <3>1, <3>3, <4>1, <4>2
    <3> QED
      BY <3>2, <3>3
  <2>4. Regular(w)
    BY <2>2, <2>3 DEF Regular
  <2> QED
    BY <2>2, <2>4 DEF RegularOf, w
<1>3. Colon \in Tokens /\ Parts \subseteq Tokens /\ \A x \in Tokens : x # Colon => x \in Parts
  BY DEF Tokens
<1>4. A \subseteq RegularOf(n)
  BY <1>2, <1>3
<1>5. ASSUME NEW w \in B
      PROVE  w \in RegularOf(n)
  <2>1. PICK t \in {u \in RegularOf(n - 1) : u = << >> \/ u[n - 1] = Colon}, p \in Parts :
            w = Append(t, p)
    OBVIOUS
  <2>2. t \in RegularOf(n - 1) /\ (t = << >> \/ t[n - 1] = Colon)
    OBVIOUS
  <2>3. p \in Tokens
    BY <1>3
  <2> QED
    BY <1>2, <2>1, <2>2, <2>3
<1>6. ASSUME NEW w \in RegularOf(n)
      PROVE  w \in A \/ w \in B
  <2> DEFINE k == n - 1
             one == 1
             t == SubSeq(w, one, k)
             x == w[n]
             v == Append(t, x)
  <2>1. w \in Seq(Tokens) /\ Len(w) = n /\ Regular(w)
    BY DEF RegularOf
  <2>2. /\ one \in Nat \ {0} /\ k \in Nat /\ one <= k + 1 /\ k <= Len(w) /\ k - one + 1 = k
        /\ \A i \in 1 .. k : one + i - 1 = i
    BY <2>1
  <2> HIDE DEF one
  <2>3. t \in Seq(Tokens) /\ Len(t) = k /\ \A i \in 1 .. k : t[i] = w[i]
    BY <2>1, <2>2, SliceIs
  <2> HIDE DEF t
  <2>4. x \in Tokens
    BY <2>1, ElementOfSeq
  <2> HIDE DEF x
  <2>5. v \in Seq(Tokens) /\ Len(v) = n /\ v[n] = x /\ \A i \in 1 .. n - 1 : v[i] = t[i]
    BY <2>3, <2>4, AppendIs
  <2> HIDE DEF v
  <2>6. v = w
    <3>1. \A i \in 1 .. Len(v) : v[i] = w[i]
      <4> SUFFICES ASSUME NEW i \in 1 .. Len(v)
                   PROVE  v[i] = w[i]
        OBVIOUS
      <4>1. i \in 1 .. n - 1 \/ i = n
        BY <2>5
      <4> QED
        BY <2>3, <2>5, <4>1 DEF x
    <3> QED
      BY <2>1, <2>5, <3>1, SeqEqual
  <2>7. Regular(t)
    <3>1. ASSUME NEW i \in 1 .. k, NEW j \in 1 .. k, j = i + 1
          PROVE  t[i] = Colon \/ t[j] = Colon
      <4>1. i \in 1 .. n /\ j \in 1 .. n
        OBVIOUS
      <4> QED
        BY <2>1, <2>3, <3>1, <4>1 DEF Regular
    <3> HIDE DEF k
    <3> QED
      BY <2>3, <3>1 DEF Regular
  <2>8. t \in RegularOf(n - 1)
    BY <2>3, <2>7 DEF RegularOf
  <2>9. x = Colon \/ t = << >> \/ t[n - 1] = Colon
    <3>1. CASE n = 1
      BY <2>3, <3>1, EmptySeq
    <3>2. CASE n # 1
      <4>1. n - 1 \in 1 .. n /\ n \in 1 .. n /\ n = (n - 1) + 1 /\ n - 1 \in 1 .. k
        BY <3>2
      <4>2. w[n - 1] = Colon \/ w[n] = Colon
        BY <2>1, <4>1 DEF Regular
      <4> QED
        BY <2>3, <4>1, <4>2 DEF x
    <3> QED
      BY <3>1, <3>2
  <2>10. CASE x = Colon
    BY <2>6, <2>8, <2>10 DEF v
  <2>11. CASE x # Colon
    <3>1. x \in Parts
      BY <1>3, <2>4, <2>11
    <3> QED
      BY <2>6, <2>8, <2>9, <2>11, <3>1 DEF v
  <2> QED
    BY <2>10, <2>11
<1> HIDE DEF A, B
<1>7. RegularOf(n) = A \cup B
  BY <1>4, <1>5, <1>6
<1> QED
  BY <1>7 DEF A, B

LEMMA RegularNone == RegularOf(0) = {<< >>}
<1>1. << >> \in Seq(Tokens) /\ Len(<< >>) = 0
  BY EmptySeq
<1>2. Regular(<< >>)
  BY <1>1 DEF Regular
<1>3. \A t \in RegularOf(0) : t = << >>
  BY EmptySeq DEF RegularOf
<1>4. << >> \in RegularOf(0)
  BY <1>1, <1>2 DEF RegularOf
<1> QED
  BY <1>3, <1>4

\* The texts that are tried are those in which two parts have a colon between
\* them.
LEMMA TextsAre ==
  ASSUME NEW text \in Texts
  PROVE  text \in Seq(Tokens) /\ Regular(text)
<1> DEFINE N == MaxTokens
           Next(S, n) == {Append(t, Colon) : t \in S}
                         \cup {Append(t, p) : t \in {u \in S : u = << >> \/ u[n - 1] = Colon},
                                              p \in Parts}
           Body(f) == [n \in 0 .. N |-> IF n = 0 THEN {<< >>} ELSE Next(f[n - 1], n)]
           Of == CHOOSE f : f = Body(f)
           known == [n \in 0 .. N |-> RegularOf(n)]
<1>1. N \in Nat
  BY AddressAssumption
<1>2. known = Body(known)
  <2>1. ASSUME NEW n \in 0 .. N
        PROVE  RegularOf(n) = IF n = 0 THEN {<< >>} ELSE Next(known[n - 1], n)
    <3>1. CASE n = 0
      BY <3>1, RegularNone
    <3>2. CASE n # 0
      <4>1. n \in Nat \ {0} /\ n - 1 \in 0 .. N
        <5> HIDE DEF N, Next, known
        <5> QED
          BY <1>1, <3>2
      <4>2. known[n - 1] = RegularOf(n - 1)
        BY <4>1
      <4>3. RegularOf(n) = Next(RegularOf(n - 1), n)
        BY <4>1, RegularGrows
      <4> HIDE DEF Next, known
      <4> QED
        BY <3>2, <4>2, <4>3
    <3> HIDE DEF Next, known
    <3> QED
      BY <3>1, <3>2
  <2> HIDE DEF Next
  <2> QED
    BY <2>1
<1>3. Of = Body(Of)
  <2> HIDE DEF known, Next
  <2> QED
    BY <1>2
<1>4. Texts = UNION {Of[n] : n \in 0 .. N}
  BY DEF Texts
<1> HIDE DEF Of
<1>5. ASSUME NEW n \in 0 .. N
      PROVE  Of[n] = IF n = 0 THEN {<< >>} ELSE Next(Of[n - 1], n)
  <2> HIDE DEF Next
  <2>1. Body(Of)[n] = IF n = 0 THEN {<< >>} ELSE Next(Of[n - 1], n)
    OBVIOUS
  <2> QED
    BY <1>3, <2>1
<1> DEFINE S == {n \in 0 .. N : Of[n] = RegularOf(n)}
<1>6. 0 .. N \subseteq S
  <2>1. 0 \in S
    <3>1. 0 \in 0 .. N
      BY <1>1
    <3> HIDE DEF Next
    <3>2. Of[0] = {<< >>}
      BY <1>5, <3>1
    <3> QED
      BY <3>1, <3>2, RegularNone
  <2>2. ASSUME NEW n \in 1 .. N, n - 1 \in S
        PROVE  n \in S
    <3>1. n \in Nat \ {0} /\ n \in 0 .. N /\ n # 0
      OBVIOUS
    <3>2. RegularOf(n) = Next(RegularOf(n - 1), n)
      BY <3>1, RegularGrows
    <3> HIDE DEF Next
    <3>3. Of[n] = Next(Of[n - 1], n)
      BY <1>5, <3>1
    <3>4. Of[n - 1] = RegularOf(n - 1)
      BY <2>2
    <3> QED
      BY <3>1, <3>2, <3>3, <3>4
  <2> HIDE DEF S
  <2> QED
    BY <1>1, <2>1, <2>2, CountUp
<1>7. PICK n \in 0 .. N : text \in Of[n]
  BY <1>4
<1>8. text \in RegularOf(n)
  BY <1>6, <1>7
<1> QED
  BY <1>8 DEF RegularOf

LEMMA LooksIsCut ==
  ASSUME NEW text
  PROVE  LooksLike(text) = Cut(Doubled(text))
<1>1. Doubled(text) = IF Len(text) >= 1 /\ text[1] = Colon /\ (Len(text) = 1 \/ text[2] # Colon)
                      THEN <<Colon>> \o text ELSE text
  BY DEF Doubled, Doubling
<1> DEFINE d == Doubled(text)
<1>2. LooksLike(text) = LET quads == {i \in DOMAIN d : d[i][1] = "quad"}
                        IN  IF quads = {} THEN d ELSE SubSeq(d, 1, Least(quads))
  BY <1>1 DEF LooksLike
<1> HIDE DEF d
<1>3. LooksLike(text) = Cut(d)
  BY <1>2 DEF Cut
<1> QED
  BY <1>3 DEF d

\* ParserLanguage: parse_v6() (address.cpp:43-117) takes the spellings of RFC 4291
\* and no other text but those of three liberties: one colon in front taken for
\* two, anything after a dotted quad and its colon, and "::" for no group at all.
THEOREM ParserTakesSpellings == AddressSpec => []ParserLanguage
<1>1. ASSUME NEW text \in Texts
      PROVE  ParseV6(text) # << >> <=> LooksLike(text) \in Spellings
  <2> DEFINE d == Doubled(text)
             t == Cut(d)
  <2>1. text \in Seq(Tokens) /\ Regular(text)
    BY TextsAre
  <2>2. ParseV6(text) # << >> <=> Accepted(text)
    BY <2>1, AcceptedIsRead, ReadIsAccepted
  <2>3. d \in Seq(Tokens) /\ (Accepted(text) <=> Proper(d))
    BY <2>1, DoubledIsProper
  <2>4. LooksLike(text) = t
    BY LooksIsCut
  <2> HIDE DEF d
  <2>5. t \in Seq(Tokens) /\ IsCut(t, d)
    BY <2>3, CutIs
  <2> HIDE DEF t
  <2>6. Proper(d) <=> Written(t)
    BY <2>3, <2>5, CutIsWritten
  <2>7. Written(t) <=> t \in Spellings
    BY <2>5, WrittenIsSpelling
  <2> QED
    BY <2>2, <2>3, <2>4, <2>6, <2>7
<1>2. Asked => ParserLanguage
  <2> SUFFICES ASSUME Asked, subject.is = "text"
               PROVE  ParserLanguage
    BY DEF ParserLanguage
  <2>1. PICK t \in Texts : subject = [is |-> "text", text |-> t]
    BY DEF Asked, Nothing
  <2>2. subject.text \in Texts
    BY <2>1
  <2> QED
    BY <1>1, <2>2 DEF ParserLanguage
<1> QED
  BY <1>2, SubjectsAreAsked, PTL
=============================================================================
