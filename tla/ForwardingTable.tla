-------------------------- MODULE ForwardingTable --------------------------
(***************************************************************************)
(* A forwarding table without a trie: what insert, erase and clear of      *)
(* radix_trie (trie.hpp) do to the set of routes a lookup can see.         *)
(***************************************************************************)
CONSTANTS Prefixes, Entries, NoEntry

VARIABLE table

Init == table = [p \in Prefixes |-> NoEntry]

\* insert(): a new entry, or a replacement.
Insert(p, e) == table' = [table EXCEPT ![p] = e]

\* erase(): the prefix was present.
Erase(p) == table[p] # NoEntry /\ table' = [table EXCEPT ![p] = NoEntry]

\* clear()
Clear == table' = [p \in Prefixes |-> NoEntry]

Next ==
    \/ \E p \in Prefixes : Erase(p) \/ \E e \in Entries : Insert(p, e)
    \/ Clear

Spec == Init /\ [][Next]_table
=============================================================================
