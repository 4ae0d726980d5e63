------------------------------- MODULE MCFib -------------------------------
(* Instances of Fib for TLC. *)
EXTENDS Fib

\* A default route and a route below it.
TwoPrefixes == {<< >>, <<0>>}
MCAddresses == {<<0>>}
TwoKeys == << << >>, << >>, <<0>>, <<0>> >>
TwoNodes == 1 .. 4
TwoValues == 5 .. 8
TwoEntries == [b \in TwoValues |-> TwoKeys[b - 4]]
=============================================================================
