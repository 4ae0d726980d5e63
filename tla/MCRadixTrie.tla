---------------------------- MODULE MCRadixTrie ----------------------------
(* Instances of RadixTrie for TLC. *)
EXTENDS RadixTrie

\* A default route, two routes that need a branch node between them, and the
\* route that the branch node may hold.
FourPrefixes == {<< >>, <<0>>, <<0, 0>>, <<0, 1>>}

MCAddresses == {<<0, 0>>}

\* Two addresses for what a lookup of <<0, 0>> walks over, one in use and one
\* retired, and one for the rest.
NodeKeys == << << >>, << >>, <<0, 0>>, <<0, 0>>, <<0>>, <<0>>, <<0, 1>> >>
ValueKeys == << << >>, << >>, <<0, 0>>, <<0, 0>>, <<0>>, <<0, 1>> >>
FourNodes == 1 .. 7
FourValues == 8 .. 13
FourEntries == [b \in FourValues |-> ValueKeys[b - 7]]
=============================================================================
