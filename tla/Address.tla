------------------------------- MODULE Address -------------------------------
(***************************************************************************)
(* basic_address (src/include/rcufib/address.hpp, src/src/address.cpp) as  *)
(* it is stored, in words, and as it is written, in text.                  *)
(*                                                                         *)
(* A shape says how an address lies in its words: `word` bits in a word,   *)
(* of which the lowest `used` hold bits of the address, `count` words.     *)
(* IPv4 uses half of one 64-bit word, IPv6 all of two.                     *)
(*                                                                         *)
(* Text is a sequence of tokens: the parser looks at a colon and at the    *)
(* part up to the next colon, which is a group, a dotted quad (worth two   *)
(* groups) or neither.  A group is what parse_uint() takes for one, which  *)
(* may have eight digits where the RFC has four.                           *)
(***************************************************************************)
EXTENDS Integers, Sequences

CONSTANTS
    Shapes,       \* the shapes whose arithmetic is compared with bits
    Groups,       \* groups of an IPv6 address, 8 in the code
    GroupValues,  \* some values of a group, 0 one of them
    MaxTokens     \* the longest text given to the parser

ASSUME AddressAssumption ==
    /\ Shapes \subseteq [word : Nat, used : Nat, count : Nat \ {0}]
    /\ \A s \in Shapes : s.used \in 1 .. s.word
    /\ Groups \in Nat \ {0, 1} /\ MaxTokens \in Nat
    /\ GroupValues \subseteq Nat /\ 0 \in GroupValues

VARIABLE subject   \* what is being converted

Least(S) == CHOOSE x \in S : \A y \in S : x <= y

-----------------------------------------------------------------------------
(* Words.  Word 1 holds the most significant bits of the address; the bits *)
(* of a word are at positions, 0 the lowest.                               *)

BitCount(s) == s.used * s.count

Positions(s) == 0 .. s.word - 1

\* An address is kept in the lowest bits of its words; the others are zero.
Words(s) ==
    [1 .. s.count -> {x \in [Positions(s) -> {0, 1}] :
                         \A p \in s.used .. s.word - 1 : x[p] = 0}]

\* Bit `index`, from 0, the most significant one that is used.
Bit(s, a, index) == a[(index \div s.used) + 1][s.used - 1 - (index % s.used)]

Xor(s, x, y) == [p \in Positions(s) |-> IF x[p] = y[p] THEN 0 ELSE 1]

\* std::countl_zero over a whole word.
CountlZero(s, x) ==
    Least({n \in 0 .. s.word : n = s.word \/ x[s.word - 1 - n] = 1})

\* Mutant: the bits that a 32-bit address does not use are counted.
PaddingForgotten(s) == 0

Padding(s) == s.word - s.used

CommonPrefixLength(s, a, b) ==
    LET differ == {i \in 1 .. s.count : a[i] # b[i]}
        i == Least(differ)
        lead == CountlZero(s, Xor(s, a[i], b[i])) - Padding(s)
    IN  IF differ = {} THEN BitCount(s)
        ELSE Least({(i - 1) * s.used + lead, BitCount(s)})

AgreeOn(s, a, b, length) == length = 0 \/ CommonPrefixLength(s, a, b) >= length

\* A word with its bits below `shift` cleared: & (~word_type{0} << shift).
ClearBelow(s, x, shift) == [p \in Positions(s) |-> IF p < shift THEN 0 ELSE x[p]]

Masked(s, a, length) ==
    [i \in 1 .. s.count |->
        LET keep == length - (i - 1) * s.used
        IN  IF keep >= s.used THEN a[i]
            ELSE IF keep <= 0 THEN [p \in Positions(s) |-> 0]
            ELSE ClearBelow(s, a[i], s.used - keep)]

-----------------------------------------------------------------------------
(* Decimal numbers, as sequences of digits *)

Malformed == -1

Decimal(d) == LET Value[i \in 0 .. Len(d)] ==
                      IF i = 0 THEN 0 ELSE 10 * Value[i - 1] + d[i]
              IN  Value[Len(d)]

\* %u
Digits(n) == LET Text[m \in 0 .. n] == IF m < 10 THEN <<m>>
                                       ELSE Append(Text[m \div 10], m % 10)
             IN  Text[n]

\* An octet in parse_v4: "010" is ambiguous, and refused.
ParseOctet(d) ==
    IF d = << >> \/ Len(d) > 8 \/ (Len(d) > 1 /\ d[1] = 0) \/ Decimal(d) > 255
    THEN Malformed ELSE Decimal(d)

\* The parts between the dots: four octets and no trailing junk.
ParseV4(parts) ==
    IF Len(parts) = 4 /\ \A i \in 1 .. 4 : ParseOctet(parts[i]) # Malformed
    THEN [i \in 1 .. 4 |-> ParseOctet(parts[i])] ELSE << >>

FormatV4(a) == [i \in 1 .. 4 |-> Digits(a[i])]

\* The mask length in basic_prefix::parse; leading zeros are accepted here.
ParseLength(d, max) ==
    IF d = << >> \/ Len(d) > 3 \/ Decimal(d) > max THEN Malformed ELSE Decimal(d)

-----------------------------------------------------------------------------
(* parse_v6 *)

Colon == <<"colon">>
Group(g) == <<"group", g>>
Quad(g, h) == <<"quad", g, h>>
Junk == <<"junk">>

\* There is room for n more groups in the array being filled.
RoomFor(s, n) == Len(IF s.compressed THEN s.tail ELSE s.head) <= Groups - n

\* (*store)[(*target)++] = ...
Store(s, g) == IF s.compressed THEN [s EXCEPT !.tail = @ \o g]
                               ELSE [s EXCEPT !.head = @ \o g]

Fail(s) == [s EXCEPT !.ok = FALSE]

\* Mutant: a colon at the end is overlooked.
DanglingNever(s, text) == FALSE

\* A colon, and nothing after it.
Dangling(s, text) == s.pos + 1 = Len(text)

\* One turn of the loop, at a position inside the text.
ParseToken(s, text) ==
    LET token == text[s.pos]
        more == s.pos < Len(text)
        end == Len(text) + 1
    IN  CASE token = Colon ->
                IF s.compressed THEN Fail(s)
                ELSE [s EXCEPT !.compressed = TRUE, !.pos = @ + 1]
          [] token[1] = "quad" ->
                IF ~RoomFor(s, 2) THEN Fail(s)
                ELSE [Store(s, <<token[2], token[3]>>) EXCEPT !.pos = end]
          [] token[1] = "group" ->
                IF ~RoomFor(s, 1) \/ Dangling(s, text) THEN Fail(s)
                ELSE [Store(s, <<token[2]>>) EXCEPT !.pos = IF more THEN @ + 2 ELSE end]
          [] OTHER -> Fail(s)

\* Before the loop: what follows a leading "::" is a suffix.
Opening(text) ==
    LET leading == Len(text) >= 2 /\ text[1] = Colon /\ text[2] = Colon
    IN  [pos |-> IF leading THEN 3 ELSE 1, head |-> << >>, tail |-> << >>,
         compressed |-> leading, ok |-> TRUE]

Turn(s, text) == IF s.ok /\ s.pos <= Len(text) THEN ParseToken(s, text) ELSE s

\* The address that has been read, or << >> for std::nullopt.
Full(s) ==
    LET groups == Len(s.head) + Len(s.tail)
    IN  IF ~s.ok \/ groups > Groups \/ (~s.compressed /\ Len(s.head) # Groups)
        THEN << >>
        ELSE s.head \o [i \in 1 .. Groups - groups |-> 0] \o s.tail

\* Each turn takes a token at least, until the text is over.
ParseV6(text) ==
    LET Loop[i \in 0 .. Len(text)] ==
            IF i = 0 THEN Opening(text) ELSE Turn(Loop[i - 1], text)
    IN  Full(Loop[Len(text)])

-----------------------------------------------------------------------------
(* to_string, 128 bits *)

\* Mutant: the last of the longest runs is compressed.
BetterLater(q, r) == q.len > r.len \/ (q.len = r.len /\ q.start > r.start)

BetterRun(q, r) == q.len > r.len \/ (q.len = r.len /\ q.start < r.start)

ZeroRuns(a) ==
    {r \in [start : 1 .. Groups, len : 2 .. Groups] :
        /\ r.start + r.len - 1 <= Groups
        /\ \A i \in r.start .. r.start + r.len - 1 : a[i] = 0}

\* Groups with a colon between them.
Join(g) == [i \in 1 .. (IF g = << >> THEN 0 ELSE 2 * Len(g) - 1) |->
               IF i % 2 = 0 THEN Colon ELSE Group(g[(i + 1) \div 2])]

\* The address with one of its runs compressed.
Compressed(a, run) ==
    Join(SubSeq(a, 1, run.start - 1)) \o <<Colon, Colon>>
        \o Join(SubSeq(a, run.start + run.len, Groups))

FormatV6(a) ==
    IF ZeroRuns(a) = {} THEN Join(a)
    ELSE Compressed(a, CHOOSE r \in ZeroRuns(a) :
                           \A q \in ZeroRuns(a) : ~BetterRun(q, r))

-----------------------------------------------------------------------------
(* What the conversions are tried on *)

Addresses6 == [1 .. Groups -> GroupValues]

Parts == {Group(g) : g \in GroupValues} \cup {Quad(0, 0), Junk}

Texts ==
    LET Of[n \in 0 .. MaxTokens] ==
            IF n = 0 THEN {<< >>}
            ELSE {Append(t, Colon) : t \in Of[n - 1]}
                 \cup {Append(t, p) : t \in {u \in Of[n - 1] : u = << >> \/ u[n - 1] = Colon},
                                      p \in Parts}
    IN  UNION {Of[n] : n \in 0 .. MaxTokens}

DigitStrings == UNION {[1 .. n -> 0 .. 9] : n \in 0 .. 3}

Nothing == [is |-> "nothing"]

\* A caller's value: two addresses in words, a number or digits, an address in
\* groups or a text.
Ask ==
    /\ subject = Nothing
    /\ \/ \E s \in Shapes : \E a, b \in Words(s) :
            subject' = [is |-> "words", shape |-> s, a |-> a, b |-> b]
       \/ \E n \in 0 .. 255 : subject' = [is |-> "number", n |-> n]
       \/ \E d \in DigitStrings : subject' = [is |-> "digits", digits |-> d]
       \/ \E g \in Addresses6 : subject' = [is |-> "groups", groups |-> g]
       \/ \E t \in Texts : subject' = [is |-> "text", text |-> t]

Answered == subject # Nothing /\ subject' = Nothing

AddressInit == subject = Nothing

AddressNext == Ask \/ Answered

AddressSpec == AddressInit /\ [][AddressNext]_subject

-----------------------------------------------------------------------------
(* Properties *)

\* The trie walks bits (address.hpp:7-11): the arithmetic on words, its padding
\* and its masks agree with the definition of a leading bit, in both widths.
WordsMatchBits ==
    subject.is = "words" =>
        LET s == subject.shape
            a == subject.a
            b == subject.b
        IN  \A n \in 0 .. BitCount(s) :
                /\ AgreeOn(s, a, b, n) <=> \A i \in 0 .. n - 1 : Bit(s, a, i) = Bit(s, b, i)
                /\ \A i \in 0 .. BitCount(s) - 1 :
                    Bit(s, Masked(s, a, n), i) = IF i < n THEN Bit(s, a, i) ELSE 0

\* The spelling of an address that keeps its first l and last r groups.
Spelling(a, l, r) == Compressed(a, [start |-> l + 1, len |-> Groups - l - r])

\* to_string() writes an address as RFC 5952 wants it (address.cpp:137-138): of
\* all the spellings that parse() takes for this address it is the one with the
\* longest run of zeros compressed, the leftmost on a tie, and one zero is left.
IsCanonical(a, text) ==
    LET shorter == {k \in (0 .. Groups) \X (0 .. Groups) :
                        /\ k[1] + k[2] < Groups - 1
                        /\ ParseV6(Spelling(a, k[1], k[2])) = a}
    IN  \/ shorter = {} /\ text = Join(a)
        \/ \E k \in shorter :
            /\ text = Spelling(a, k[1], k[2])
            /\ \A m \in shorter \ {k} :
                \/ k[1] + k[2] < m[1] + m[2]
                \/ k[1] + k[2] = m[1] + m[2] /\ k[1] < m[1]

\* What to_string() writes, parse() reads back: addresses of both kinds, in
\* the canonical spelling, and the length of a prefix.  An octet has one
\* spelling only (address.cpp:31-32).
TextRoundTrip ==
    /\ subject.is = "groups" =>
        LET text == FormatV6(subject.groups)
        IN  ParseV6(text) = subject.groups /\ IsCanonical(subject.groups, text)
    /\ subject.is = "number" =>
        LET n == subject.n
        IN  /\ ParseV4(FormatV4(<<n, 0, 255, n>>)) = <<n, 0, 255, n>>
            /\ ParseLength(Digits(n), 128) = IF n <= 128 THEN n ELSE Malformed
    /\ subject.is = "digits" =>
        LET n == ParseOctet(subject.digits)
        IN  n # Malformed => subject.digits = Digits(n)

\* Up to n groups; groups before a dotted quad; groups around "::".
UpTo(n) == UNION {[1 .. m -> GroupValues] : m \in 0 .. n}
WithQuad(g) == Join(g) \o (IF g = << >> THEN << >> ELSE <<Colon>>) \o <<Quad(0, 0)>>
Around(h, text) == Join(h) \o <<Colon, Colon>> \o text

\* Texts with "::" and up to n groups around it.
Shortened(n) ==
    (UNION {{Around(h, Join(g)) : g \in UpTo(n - Len(h))} : h \in UpTo(n)})
    \cup (UNION {{Around(h, WithQuad(g)) : g \in UpTo(n - 2 - Len(h))} : h \in UpTo(n - 2)})

Complete == {Join(g) : g \in Addresses6}
                \cup {WithQuad(g) : g \in [1 .. Groups - 2 -> GroupValues]}

\* The spellings of RFC 4291: "::" stands for one group of zeros at least.
WellFormed == Complete \cup Shortened(Groups - 1)

\* The same, and those whose "::" stands for no group at all.
Spellings == Complete \cup Shortened(Groups)

\* One colon in front counts as two, and what follows a quad is not looked at.
LooksLike(text) ==
    LET doubled == IF Len(text) >= 1 /\ text[1] = Colon /\ (Len(text) = 1 \/ text[2] # Colon)
                   THEN <<Colon>> \o text ELSE text
        quads == {i \in DOMAIN doubled : doubled[i][1] = "quad"}
    IN  IF quads = {} THEN doubled ELSE SubSeq(doubled, 1, Least(quads))

\* What parse_v6() takes (address.cpp:43-117): the spellings of the RFC and, by
\* three liberties, more.  One colon in front is taken for two, what follows a
\* dotted quad and its colon is not looked at, and "::" may stand for no group.
ParserLanguage ==
    subject.is = "text" =>
        ((ParseV6(subject.text) # << >>) <=> LooksLike(subject.text) \in Spellings)

\* parse(): "Returns nullopt on malformed input" (address.hpp:110): what it takes
\* is a spelling of an address.
MalformedIsRefused ==
    subject.is = "text" /\ ParseV6(subject.text) # << >> => subject.text \in WellFormed
=============================================================================
