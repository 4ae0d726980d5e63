------------------------------ MODULE TrieWalks ------------------------------
(***************************************************************************)
(* The questions that radix_trie answers for a caller who keeps writers    *)
(* out (src/include/rcufib/trie.hpp): lookup and find_exact in one piece,  *)
(* for_each, measure_depth, and the destructor.                            *)
(***************************************************************************)
EXTENDS RadixTrie

\* lookup() when nothing changes under it.
Lookup(a) ==
    LET Step[i \in 0 .. Width + 1] ==
            IF i = 0 THEN [at |-> link[RootSlot], best |-> Null]
            ELSE LET s == Step[i - 1]
                 IN  IF s.at = Null \/ ~Matches(KeyOf[s.at], a)
                     THEN [s EXCEPT !.at = Null]
                     ELSE [at |-> IF Len(KeyOf[s.at]) >= Width THEN Null
                                  ELSE link[<<s.at, BitAt(a, Len(KeyOf[s.at]))>>],
                           best |-> IF value[s.at] # Null THEN value[s.at]
                                                          ELSE s.best]
    IN  Step[Width + 1].best

\* Mutant: the value where the walk stops, whatever prefix it is for.
FindNearest(p) == IF StopNode(p) # Null THEN value[StopNode(p)] ELSE Null

\* find_exact(): erase()'s walk, and the value of the node it ends at.
FindExact(p) == IF IsRoute(StopNode(p), p) THEN value[StopNode(p)] ELSE Null

Own(n) == IF value[n] # Null THEN <<KeyOf[n]>> ELSE << >>

\* Mutant: a node is visited between its children.
VisitInfix(n, left, right) == left \o Own(n) \o right

\* A node before its children, and 0 before 1.
Visit(n, left, right) == Own(n) \o left \o right

\* for_each(): the prefixes in the order that walk() calls the visitor.
Walked ==
    LET Under[i \in 0 .. Width + 1] ==
            [n \in Nodes \cup {Null} |->
                IF n = Null \/ i = 0 THEN << >>
                ELSE Visit(n, Under[i - 1][link[<<n, 0>>]], Under[i - 1][link[<<n, 1>>]])]
    IN  Under[Width + 1][link[RootSlot]]

Depths == 0 .. Width + 1

\* Mutant: the root is at depth 0.
RootDepthZero == 0

RootDepth == 1

\* measure_depth(): how many stored prefixes are at each depth.
Histogram ==
    LET Level[d \in Depths] ==
            IF d < RootDepth THEN {}
            ELSE IF d = RootDepth THEN {link[RootSlot]} \ {Null}
            ELSE {link[s] : s \in Level[d - 1] \X Bits} \ {Null}
    IN  [d \in Depths |-> Cardinality({n \in Level[d] : value[n] # Null})]

\* The nodes that find_exact() loads to get to prefix p.
Cost(p) ==
    LET Nth[i \in Depths] ==
            IF i = 0 THEN link[RootSlot]
            ELSE LET n == Nth[i - 1]
                 IN  IF n = Null \/ KeyOf[n] = p THEN Null
                     ELSE link[<<n, BitAt(p, Len(KeyOf[n]))>>]
    IN  Cardinality({i \in Depths : Nth[i] # Null})

\* ~radix_trie(): every node goes, and takes its value with it.
Destroy ==
    /\ wpc = "idle"
    /\ LET gone == WithValues(Tree(link))
       IN  life' = [o \in Allocations |-> IF o \in gone THEN "free" ELSE life[o]]
    /\ link' = [s \in Slots |-> Null] /\ value' = [n \in Nodes |-> Null]
    /\ size' = 0 /\ nodes' = 0
    /\ UNCHANGED <<writer, reader, history>>

-----------------------------------------------------------------------------
(* Properties *)

Stored == {p \in Prefixes : table[p] # Null}

\* "Visit every stored prefix in lexicographic order" (trie.hpp:141): each one
\* once, in the order of prefix.hpp, whatever history gave the trie its shape.
WalkInOrder ==
    LET w == Walked
    IN  /\ {w[i] : i \in DOMAIN w} = Stored
        /\ \A i, j \in DOMAIN w : i < j => Before(w[i], w[j])

\* "How many nodes a lookup traverses to reach each stored prefix"
\* (trie.hpp:155): the histogram counts the loads that find_exact() makes, and
\* path compression keeps the nodes below twice the routes.
DepthIsLookupCost ==
    wpc = "idle" =>
        LET h == Histogram
            cost == [p \in Stored |-> Cost(p)]
        IN  /\ \A d \in Depths : h[d] = Cardinality({p \in Stored : cost[p] = d})
            /\ size > 0 => nodes < 2 * size

\* find_exact() answers for the very prefix it is asked, not for one that the
\* walk to it happens to stop at, and lookup() answers the longest match:
\* between any two stores of the writer.
WalksFindTheTable ==
    LET now == table
    IN  /\ \A p \in Keys : FindExact(p) = IF p \in Prefixes THEN now[p] ELSE Null
        /\ \A a \in Addresses : Lookup(a) = LongestMatch(now, a)
=============================================================================
