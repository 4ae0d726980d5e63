----------------------------- MODULE RadixTrie -----------------------------
(***************************************************************************)
(* The path-compressed trie of src/include/rcufib/trie.hpp: one writer,    *)
(* readers that walk without a lock, and memory handed to a Reclaimer.     *)
(*                                                                         *)
(* A step is one load or store of a pointer that the other side may touch. *)
(* The writer walks down through memory that only it changes, so its walk  *)
(* is part of the step that publishes.                                     *)
(*                                                                         *)
(* Epoch reclamation is used through its contract (GracePeriod): a retired *)
(* object is deleted when no guard that was alive while the object was     *)
(* reachable is alive any more.                                            *)
(***************************************************************************)
EXTENDS Prefix, FiniteSets

CONSTANTS
    Prefixes,     \* the prefixes the writer inserts and erases
    Addresses,    \* the addresses looked up
    Nodes,        \* the addresses of nodes, positive numbers
    KeyOf,        \* KeyOf[n]: the immutable key of the node at address n
    Values,       \* the addresses of boxed values, other positive numbers
    EntryOf,      \* EntryOf[b]: the prefix that the value at b is bound to
    MaxChanges,   \* operations of the writer during one lookup
    Readers

\* nullptr
Null == 0

ASSUME TrieAssumption ==
    /\ Width \in Nat /\ MaxChanges \in Nat
    /\ Prefixes \subseteq Keys
    /\ Addresses \subseteq Hosts
    /\ Nodes \subseteq Nat \ {Null} /\ Values \subseteq Nat \ {Null}
    /\ IsFiniteSet(Nodes) /\ Nodes \cap Values = {}
    /\ KeyOf \in [Nodes -> Keys] /\ EntryOf \in [Values -> Prefixes]

Allocations == Nodes \cup Values

\* A std::atomic<node*>: root_, or child[d] of node n.
RootSlot == <<Null, 0>>
Slots == {RootSlot} \cup (Nodes \X Bits)

VARIABLES
    link,      \* what each slot points to
    value,     \* node::value
    size,      \* size_
    nodes,     \* nodes_
    life,      \* what the allocator and the Reclaimer know of an allocation
    deferred,  \* the Reclaimer is epoch_reclaim, not immediate_reclaim
    wpc,       \* the writer's next step
    doomed,    \* what the writer is about to retire
    place,     \* erase(): the slot of the erased node and the slot above it
    rpc,       \* a reader's next step
    addr,      \* the address it looks up
    at,        \* lookup(): current
    best,      \* lookup(): best
    mayHold,   \* history: what was reachable since the reader's guard began
    stable,    \* history: matching prefixes bound ever since the lookup began
    changes,   \* history: how often the table changed during the lookup
    could      \* history: the answers that were right since the lookup began

memory == <<link, value>>
counters == <<size, nodes>>
writer == <<wpc, doomed, place>>
reader == <<rpc, addr, at, best>>
history == <<mayHold, stable, changes, could>>
trieVars == <<memory, counters, life, deferred, writer, reader, history>>

-----------------------------------------------------------------------------
(* What can be reached through the slots *)

\* Level[i]: the nodes i links below root_.
Tree(lnk) ==
    LET Level[i \in 0 .. Width] ==
            IF i = 0 THEN {lnk[RootSlot]} \ {Null}
            ELSE {lnk[s] : s \in Level[i - 1] \X Bits} \ {Null}
    IN  UNION {Level[i] : i \in 0 .. Width}

Reachable(lnk, val) == Tree(lnk) \cup ({val[n] : n \in Tree(lnk)} \ {Null})

\* The routing table that a walk from root_ sees.
Table(lnk, val) ==
    LET tree == Tree(lnk)
    IN  [p \in Prefixes |->
            IF \E n \in tree : KeyOf[n] = p
            THEN val[CHOOSE n \in tree : KeyOf[n] = p] ELSE Null]

Bound(tbl, a) == {p \in Prefixes : tbl[p] # Null /\ Matches(p, a)}

\* Longest-prefix match, the answer lookup() is there to give.
LongestMatch(tbl, a) ==
    IF Bound(tbl, a) = {} THEN Null
    ELSE tbl[CHOOSE p \in Bound(tbl, a) :
                \A q \in Bound(tbl, a) : Len(q) <= Len(p)]

table == Table(link, value)

Guarded(r) == rpc[r] # "idle"

\* The readers' histories after a step of the writer.
Watch ==
    LET now == Table(link', value')
    IN  /\ mayHold' = [r \in Readers |->
               IF Guarded(r) THEN mayHold[r] \cup Reachable(link', value')
                             ELSE {}]
        /\ stable' = [r \in Readers |->
               IF Guarded(r) THEN stable[r] \cap Bound(now, addr[r]) ELSE {}]
        /\ changes' = [r \in Readers |->
               IF Guarded(r) /\ now # table THEN changes[r] + 1 ELSE changes[r]]
        /\ could' = [r \in Readers |->
               IF Guarded(r) THEN could[r] \cup {LongestMatch(now, addr[r])}
                             ELSE {}]

-----------------------------------------------------------------------------
(* The allocator and the Reclaimer *)

\* operator delete: a node takes the value it still owns with it.
WithValues(S) == S \cup ({value[n] : n \in S \cap Nodes} \ {Null})

Delete(S) ==
    LET gone == WithValues(S)
    IN  /\ life' = [o \in Allocations |-> IF o \in gone THEN "free" ELSE life[o]]
        /\ value' = [n \in Nodes |-> IF n \in gone THEN Null ELSE value[n]]
        /\ link' = [s \in Slots |-> IF s[1] \in gone THEN Null ELSE link[s]]

\* retire(): deleted on the spot, or queued until the grace period is over.
Retire(S) ==
    \/ /\ deferred
       /\ life' = [o \in Allocations |-> IF o \in S THEN "retired" ELSE life[o]]
       /\ UNCHANGED memory
    \/ ~deferred /\ Delete(S)

\* What no guard protects any more.
Unprotected ==
    {o \in Allocations : life[o] = "retired" /\ \A r \in Readers : o \notin mayHold[r]}

\* The epoch domain runs the deleters of what the grace period made safe.
Reclaim ==
    /\ Unprotected # {}
    /\ Delete(Unprotected)
    /\ UNCHANGED <<counters, deferred, writer, reader, history>>

\* operator new: a free address for a node with key k, or a value for p.
FreeNodes(k) == {n \in Nodes : KeyOf[n] = k /\ life[n] = "free"}
FreeValues(p) == {b \in Values : EntryOf[b] = p /\ life[b] = "free"}

\* One address is as good as another.
Lowest(S) == CHOOSE o \in S : \A u \in S : o <= u
NewNode(k) == Lowest(FreeNodes(k))
NewValue(p) == Lowest(FreeValues(p))
Room(k, p) == FreeNodes(k) # {} /\ FreeValues(p) # {}

-----------------------------------------------------------------------------
(* insert and erase: the writer's walk *)

\* The slot the walk for prefix p has reached after i moves, and the one above.
Walk(p) ==
    LET Step[i \in 0 .. Width + 1] ==
            IF i = 0 THEN [slot |-> RootSlot, above |-> RootSlot]
            ELSE LET s == Step[i - 1].slot
                     n == link[s]
                 IN  IF n # Null /\ Len(KeyOf[n]) < Len(p) /\ Matches(KeyOf[n], p)
                     THEN [slot |-> <<n, BitAt(p, Len(KeyOf[n]))>>, above |-> s]
                     ELSE Step[i - 1]
    IN  Step[Width + 1]

StopSlot(p) == Walk(p).slot
StopNode(p) == link[StopSlot(p)]

\* The writer is free for another insert, erase or clear.  (Garbage that no
\* guard protects is deleted before, which keeps the instances small.)
MayBegin ==
    /\ wpc = "idle"
    /\ \A r \in Readers : changes[r] < MaxChanges
    /\ Unprotected = {}

\* The new nodes are filled before the store to the slot publishes them.
Publish(lnk, p, n, more) ==
    /\ link' = lnk
    /\ value' = [value EXCEPT ![n] = NewValue(p)]
    /\ life' = [o \in Allocations |->
                   IF o \in {n, NewValue(p)} \cup more THEN "live" ELSE life[o]]
    /\ size' = size + 1
    /\ nodes' = nodes + 1 + Cardinality(more)
    /\ UNCHANGED <<deferred, writer, reader>>
    /\ Watch

\* insert_boxed() at a null slot.
InsertLeaf(p) ==
    /\ MayBegin /\ Room(p, p)
    /\ StopNode(p) = Null
    /\ LET n == NewNode(p)
       IN  Publish([link EXCEPT ![StopSlot(p)] = n], p, n, {})

\* Mutant: the branch is published before the old subtree is linked to it.
SplitLinksHalf(slot, branch, old, oldBit, leaf) ==
    [link EXCEPT ![<<branch, 1 - oldBit>>] = leaf, ![slot] = branch]

\* The slots after split(): one store publishes both new nodes.
SplitLinks(slot, branch, old, oldBit, leaf) ==
    [link EXCEPT ![<<branch, oldBit>>] = old,
                 ![<<branch, 1 - oldBit>>] = leaf,
                 ![slot] = branch]

\* split(): the keys diverge, and a branch node goes above the two of them.
InsertSplit(p) ==
    /\ MayBegin
    /\ StopNode(p) # Null
    /\ LET old == StopNode(p)
           shared == Shared(KeyOf[old], p)
           branch == NewNode(SubSeq(p, 1, shared))
           leaf == NewNode(p)
       IN  /\ shared < Shorter(KeyOf[old], p)
           /\ Room(p, p) /\ Room(SubSeq(p, 1, shared), p)
           /\ Publish(SplitLinks(StopSlot(p), branch, old,
                                 BitAt(KeyOf[old], shared), leaf),
                      p, leaf, {branch})

\* The new prefix contains the node where the walk ends: it goes above it.
InsertAbove(p) ==
    /\ MayBegin /\ Room(p, p)
    /\ StopNode(p) # Null
    /\ LET old == StopNode(p)
           n == NewNode(p)
       IN  /\ Len(p) < Len(KeyOf[old]) /\ Matches(p, KeyOf[old])
           /\ Publish([link EXCEPT ![<<n, BitAt(KeyOf[old], Len(p))>>] = old,
                                   ![StopSlot(p)] = n], p, n, {})

\* The node exists: its value is exchanged, and the old one retired if any.
InsertExchange(p) ==
    /\ MayBegin /\ FreeValues(p) # {}
    /\ StopNode(p) # Null /\ KeyOf[StopNode(p)] = p
    /\ value' = [value EXCEPT ![StopNode(p)] = NewValue(p)]
    /\ life' = [life EXCEPT ![NewValue(p)] = "live"]
    /\ \/ /\ value[StopNode(p)] = Null
          /\ size' = size + 1
          /\ UNCHANGED writer
       \/ /\ value[StopNode(p)] # Null
          /\ doomed' = {value[StopNode(p)]}
          /\ wpc' = "replaced"
          /\ UNCHANGED <<size, place>>
    /\ UNCHANGED <<link, nodes, deferred, reader>>
    /\ Watch

WriterDone ==
    /\ wpc' = "idle"
    /\ doomed' = {}
    /\ place' = [slot |-> RootSlot, above |-> RootSlot]

RetireReplaced ==
    /\ wpc = "replaced"
    /\ Retire(doomed)
    /\ WriterDone
    /\ UNCHANGED <<counters, deferred, reader, history>>

-----------------------------------------------------------------------------
(* erase and prune *)

\* The walk ended at a node that holds a route for p.
IsRoute(n, p) == n # Null /\ KeyOf[n] = p /\ value[n] # Null

Erase(p) ==
    /\ MayBegin
    /\ LET n == StopNode(p)
       IN  /\ IsRoute(n, p)
           /\ value' = [value EXCEPT ![n] = Null]
           /\ doomed' = {value[n]}
    /\ place' = Walk(p)
    /\ wpc' = "erased"
    /\ UNCHANGED <<link, counters, life, deferred, reader>>
    /\ Watch

\* Mutant: the route is not subtracted from the size.
RetireErasedUncounted ==
    /\ wpc = "erased"
    /\ Retire(doomed)
    /\ doomed' = {}
    /\ wpc' = "prune"
    /\ UNCHANGED <<size, nodes, deferred, place, reader, history>>

RetireErased ==
    /\ wpc = "erased"
    /\ Retire(doomed)
    /\ doomed' = {}
    /\ size' = size - 1
    /\ wpc' = "prune"
    /\ UNCHANGED <<nodes, deferred, place, reader, history>>

Children(n) == {link[<<n, d>>] : d \in Bits} \ {Null}

\* Mutant: the right child is overlooked.
SurvivorLeft(n) == link[<<n, 0>>]

\* left if it is not null, else right.
Survivor(n) == IF link[<<n, 0>>] # Null THEN link[<<n, 0>>] ELSE link[<<n, 1>>]

\* The node still branches, so it stays as an internal node.
PruneNothing ==
    /\ wpc = "prune"
    /\ Cardinality(Children(link[place.slot])) = 2
    /\ WriterDone
    /\ UNCHANGED <<memory, counters, life, deferred, reader, history>>

\* Mutant: the node is retired without being unlinked.
UnlinkForgotten(slot) == UNCHANGED link

\* The store that takes the node in a slot out of the trie.
Unlink(slot) == link' = [link EXCEPT ![slot] = Survivor(link[slot])]

Prune ==
    /\ wpc = "prune"
    /\ Cardinality(Children(link[place.slot])) < 2
    /\ Unlink(place.slot)
    /\ doomed' = {link[place.slot]}
    /\ wpc' = "pruned"
    /\ UNCHANGED <<value, counters, life, deferred, place, reader>>
    /\ Watch

RetirePruned ==
    /\ wpc = "pruned"
    /\ Retire(doomed)
    /\ doomed' = {}
    /\ nodes' = nodes - 1
    /\ wpc' = "collapse"
    /\ UNCHANGED <<size, deferred, place, reader, history>>

\* Mutant: the parent is never collapsed.
CollapsibleNever(n) == FALSE

\* A valueless node with one child does not earn its place.
Collapsible(n) ==
    n # Null /\ value[n] = Null /\ Cardinality(Children(n)) < 2

CollapseNothing ==
    /\ wpc = "collapse"
    /\ ~Collapsible(place.slot[1])
    /\ WriterDone
    /\ UNCHANGED <<memory, counters, life, deferred, reader, history>>

Collapse ==
    /\ wpc = "collapse"
    /\ Collapsible(place.slot[1])
    /\ Unlink(place.above)
    /\ doomed' = {place.slot[1]}
    /\ wpc' = "collapsed"
    /\ UNCHANGED <<value, counters, life, deferred, place, reader>>
    /\ Watch

RetireCollapsed ==
    /\ wpc = "collapsed"
    /\ Retire(doomed)
    /\ nodes' = nodes - 1
    /\ WriterDone
    /\ UNCHANGED <<size, deferred, reader, history>>

-----------------------------------------------------------------------------
(* clear *)

Clear ==
    /\ MayBegin
    /\ doomed' = Tree(link)
    /\ link' = [link EXCEPT ![RootSlot] = Null]
    /\ wpc' = "cleared"
    /\ UNCHANGED <<value, counters, life, deferred, place, reader>>
    /\ Watch

\* retire_subtree() walks in post-order: of the nodes that are left, the next is
\* the leftmost one that has no child left.
Childless == {n \in doomed : Children(n) \cap doomed = {}}
RetiresNext(n) == n \in Childless /\ \A m \in Childless \ {n} : Before(KeyOf[n], KeyOf[m])

\* Each node takes its value with it.
RetireSubtree ==
    /\ wpc = "cleared"
    /\ \E n \in doomed :
        /\ RetiresNext(n)
        /\ Retire({n})
        /\ doomed' = doomed \ {n}
    /\ UNCHANGED <<counters, deferred, wpc, place, reader, history>>

\* The counters are stored when all is retired.
CountCleared ==
    /\ wpc = "cleared" /\ doomed = {}
    /\ size' = 0 /\ nodes' = 0
    /\ WriterDone
    /\ UNCHANGED <<memory, life, deferred, reader, history>>

-----------------------------------------------------------------------------
(* lookup, inside a guard *)

Goto(r, l) == rpc' = [rpc EXCEPT ![r] = l]

Enter(r, a) ==
    /\ rpc[r] = "idle"
    /\ Goto(r, "root")
    /\ addr' = [addr EXCEPT ![r] = a]
    /\ mayHold' = [mayHold EXCEPT ![r] = Reachable(link, value)]
    /\ stable' = [stable EXCEPT ![r] = Bound(table, a)]
    /\ could' = [could EXCEPT ![r] = {LongestMatch(table, a)}]
    /\ UNCHANGED <<memory, counters, life, deferred, writer, at, best, changes>>

LoadRoot(r) ==
    /\ rpc[r] = "root"
    /\ at' = [at EXCEPT ![r] = link[RootSlot]]
    /\ Goto(r, "value")
    /\ UNCHANGED <<memory, counters, life, deferred, writer, addr, best,
                   history>>

\* Mutant: the walk trusts the branch bits and never compares the keys.
OnPathBlindly(r) == at[r] # Null

\* The current node's key is a prefix of the address.
OnPath(r) == at[r] # Null /\ Matches(KeyOf[at[r]], addr[r])

\* Mutant: the first match is kept.
BetterFirst(r) == IF best[r] # Null THEN best[r] ELSE value[at[r]]

\* Deeper matches overwrite, which is the longest-prefix rule.
Better(r) == IF value[at[r]] # Null THEN value[at[r]] ELSE best[r]

LoadValue(r) ==
    /\ rpc[r] = "value" /\ OnPath(r)
    /\ best' = [best EXCEPT ![r] = Better(r)]
    /\ Goto(r, IF Len(KeyOf[at[r]]) >= Width THEN "done" ELSE "child")
    /\ UNCHANGED <<memory, counters, life, deferred, writer, addr, at, history>>

WalkEnds(r) ==
    /\ rpc[r] = "value" /\ ~OnPath(r)
    /\ Goto(r, "done")
    /\ UNCHANGED <<memory, counters, life, deferred, writer, addr, at, best,
                   history>>

LoadChild(r) ==
    /\ rpc[r] = "child"
    /\ at' = [at EXCEPT ![r] = link[<<at[r], BitAt(addr[r], Len(KeyOf[at[r]]))>>]]
    /\ Goto(r, "value")
    /\ UNCHANGED <<memory, counters, life, deferred, writer, addr, best,
                   history>>

\* The caller uses the result, and only then leaves its guard.
Leave(r) ==
    /\ rpc[r] = "done"
    /\ Goto(r, "idle")
    /\ addr' = [addr EXCEPT ![r] = << >>]
    /\ at' = [at EXCEPT ![r] = Null]
    /\ best' = [best EXCEPT ![r] = Null]
    /\ mayHold' = [mayHold EXCEPT ![r] = {}]
    /\ stable' = [stable EXCEPT ![r] = {}]
    /\ could' = [could EXCEPT ![r] = {}]
    /\ changes' = [changes EXCEPT ![r] = 0]
    /\ UNCHANGED <<memory, counters, life, deferred, writer>>

-----------------------------------------------------------------------------
TrieInit ==
    /\ link = [s \in Slots |-> Null]
    /\ value = [n \in Nodes |-> Null]
    /\ size = 0 /\ nodes = 0
    /\ life = [o \in Allocations |-> "free"]
    /\ wpc = "idle"
    /\ doomed = {}
    /\ place = [slot |-> RootSlot, above |-> RootSlot]
    /\ rpc = [r \in Readers |-> "idle"]
    /\ addr = [r \in Readers |-> << >>]
    /\ at = [r \in Readers |-> Null]
    /\ best = [r \in Readers |-> Null]
    /\ mayHold = [r \in Readers |-> {}]
    /\ stable = [r \in Readers |-> {}]
    /\ could = [r \in Readers |-> {}]
    /\ changes = [r \in Readers |-> 0]

Init == TrieInit /\ deferred = TRUE

Insert(p) ==
    InsertLeaf(p) \/ InsertSplit(p) \/ InsertAbove(p) \/ InsertExchange(p)

InsertErase(p) == Insert(p) \/ Erase(p)

\* The rest of an insert(), erase() or clear() that has begun.
WriterStep ==
    \/ RetireReplaced \/ RetireErased \/ PruneNothing \/ Prune \/ RetirePruned
    \/ CollapseNothing \/ Collapse \/ RetireCollapsed
    \/ RetireSubtree \/ CountCleared

\* The loads of a lookup().
ReaderStep(r) ==
    LoadRoot(r) \/ LoadValue(r) \/ WalkEnds(r) \/ LoadChild(r)

Next ==
    \/ \E p \in Prefixes : InsertErase(p)
    \/ Clear
    \/ WriterStep
    \/ \E r \in Readers :
        (\E a \in Addresses : Enter(r, a)) \/ ReaderStep(r) \/ Leave(r)
    \/ Reclaim

Spec == Init /\ [][Next]_trieVars

-----------------------------------------------------------------------------
(* Properties *)

WriterSteps == {"idle", "replaced", "erased", "prune", "pruned", "collapse",
                "collapsed", "cleared"}

\* The shape of the trie, of its writer and of its readers.
TypeOK ==
    /\ link \in [Slots -> Nodes \cup {Null}]
    /\ value \in [Nodes -> Values \cup {Null}]
    /\ size \in 0 .. Cardinality(Prefixes)
    /\ nodes \in 0 .. Cardinality(Nodes)
    /\ life \in [Allocations -> {"free", "live", "retired"}]
    /\ deferred \in BOOLEAN
    /\ wpc \in WriterSteps
    /\ doomed \in SUBSET Allocations
    /\ place \in [slot : Slots, above : Slots]
    /\ rpc \in [Readers -> {"idle", "root", "value", "child", "done"}]
    /\ addr \in [Readers -> Addresses \cup {<< >>}]
    /\ at \in [Readers -> Nodes \cup {Null}]
    /\ best \in [Readers -> Values \cup {Null}]
    /\ mayHold \in [Readers -> SUBSET Allocations]
    /\ stable \in [Readers -> SUBSET Prefixes]
    /\ changes \in [Readers -> 0 .. MaxChanges]
    /\ could \in [Readers -> SUBSET (Values \cup {Null})]

\* prune(): a reader that arrived before the unlinking store "is covered by
\* the reclaimer's grace period" (trie.hpp:309-311).  No lookup stands on a
\* deleted node or returns a deleted value.
NothingDangles ==
    \A r \in Readers : \A o \in {at[r], best[r]} \ {Null} : life[o] # "free"

\* Path compression (trie.hpp:5-13): once an operation is over, a node without
\* a value branches in two, keys only get longer downwards on the side of
\* their next bit, and the counters tell what is really there.
Canonical ==
    wpc = "idle" =>
        /\ \A n \in Tree(link) :
            /\ value[n] = Null => Cardinality(Children(n)) = 2
            /\ \A d \in Bits : link[<<n, d>>] # Null =>
                  LET k == KeyOf[link[<<n, d>>]]
                  IN  /\ Len(k) > Len(KeyOf[n]) /\ Matches(KeyOf[n], k)
                      /\ BitAt(k, Len(KeyOf[n])) = d
        /\ size = Cardinality({n \in Tree(link) : value[n] # Null})
        /\ nodes = Cardinality(Tree(link))

\* Every allocation is owned once: a node by the slot that links it, by the
\* writer or by the Reclaimer, and a value by a node, by the writer or by the
\* Reclaimer, so nothing is leaked or deleted twice.
OwnedOnce ==
    /\ \A o \in Allocations :
        (life[o] = "live") <=>
            \/ o \in Tree(link) \cup doomed
            \/ \E n \in Nodes : life[n] # "free" /\ value[n] = o
    /\ \A n \in Nodes : value[n] # Null =>
        /\ life[value[n]] = "live" /\ value[n] \notin doomed
        /\ \A m \in Nodes \ {n} : value[m] # value[n]

\* A lookup that overlaps any number of updates returns an entry that covers
\* the address, was bound at some moment of the lookup, and is at least as
\* specific as every route that was there all along.
NoStableRouteMissed ==
    \A r \in Readers : rpc[r] = "done" =>
        /\ best[r] # Null =>
            /\ Matches(EntryOf[best[r]], addr[r])
            /\ best[r] \in mayHold[r]
        /\ \A p \in stable[r] :
            best[r] # Null /\ Len(EntryOf[best[r]]) >= Len(p)

\* "A reader observes either the old shape or the new one" (trie.hpp:18-20):
\* a lookup during which the table changed at most once returns what was right
\* before or after the change, however many stores the update takes.
OneUpdateIsAtomic ==
    \A r \in Readers :
        rpc[r] = "done" /\ changes[r] < 2 => best[r] \in could[r]

\* What a walk from root_ sees changes as ForwardingTable says, however the
\* writer restructures the trie to get there.
Abstract == INSTANCE ForwardingTable WITH NoEntry <- Null, Entries <- Values
ImplementsTable == Abstract!Spec
=============================================================================
