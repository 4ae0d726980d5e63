------------------------------- MODULE MCRib -------------------------------
(* Instances of Rib for TLC. *)
EXTENDS Rib

Offering(s, h, m) == [source |-> s, hop |-> h, metric |-> m]

\* Two protocols of the same distance, one with a metric to lose the tie on,
\* and one that loses to both and changes its next hop.
FiveRoutes == {
    Offering("connected", 1, 0), Offering("local", 1, 0), Offering("local", 2, 1),
    Offering("bgp", 1, 0), Offering("bgp", 2, 0)}
=============================================================================
