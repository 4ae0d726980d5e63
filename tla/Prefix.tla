------------------------------- MODULE Prefix -------------------------------
(***************************************************************************)
(* basic_prefix (src/include/rcufib/prefix.hpp) and the questions that it  *)
(* asks a basic_address: a prefix is the sequence of its `length` leading  *)
(* bits, which leaves the host bits out as masking clears them, and an     *)
(* address is a sequence of full width.                                    *)
(***************************************************************************)
EXTENDS Integers, Sequences

CONSTANT Width   \* max_bits, 32 or 128 in the code

Bits == {0, 1}

Keys == UNION {[1 .. n -> Bits] : n \in 0 .. Width}

Hosts == [1 .. Width -> Bits]

\* basic_prefix(address, length)
PrefixOf(a, length) == SubSeq(a, 1, length)

\* basic_address::matches over the first Len(k) bits.
Matches(k, a) == Len(k) <= Len(a) /\ \A i \in 1 .. Len(k) : k[i] = a[i]

Shorter(a, b) == IF Len(a) < Len(b) THEN Len(a) ELSE Len(b)

\* common_prefix_length, cut at the bits that the two keys both have.
Shared(a, b) ==
    CHOOSE n \in 0 .. Shorter(a, b) :
        /\ \A i \in 1 .. n : a[i] = b[i]
        /\ n < Shorter(a, b) => a[n + 1] # b[n + 1]

\* address.bit(length) of the key's first bit past the first n.
BitAt(k, n) == k[n + 1]

\* address(): the bits of the prefix, then the zeros that masking left.
FirstHost(p) == [i \in 1 .. Width |-> IF i <= Len(p) THEN p[i] ELSE 0]

\* The first bit where two different addresses part.
Below(a, b) == a # b /\ LET n == Shared(a, b) IN BitAt(a, n) < BitAt(b, n)

\* operator<=>: by address, then by length.
Before(p, q) ==
    \/ Below(FirstHost(p), FirstHost(q))
    \/ FirstHost(p) = FirstHost(q) /\ Len(p) < Len(q)
=============================================================================
