----------------------------- MODULE FibProofs -----------------------------
(***************************************************************************)
(* Proofs about Fib: the trie's invariant under each of the four ways to   *)
(* keep readers and writer apart, and what the three of them that exclude  *)
(* or detect writers add to it.                                            *)
(***************************************************************************)
EXTENDS Fib, RadixTrieProofs

(* The invariant *)

\* What a lookup knows of the sequence number it loaded first.
Loaded == {"unread", "same", "moved", "valid"}

\* The types of the tables' own variables.
FibTyped ==
    /\ variant \in Variants
    /\ section \in BOOLEAN
    /\ before \in [Readers -> Loaded]
    /\ outside \in [Prefixes -> Values \cup {Null}]
    /\ settled \in [Readers -> SUBSET (Values \cup {Null})]

\* The variants that exclude: their readers hold a lock (fib.hpp:62, 131).
Locked == variant \in {"mutex", "shared_mutex"}

\* An operation is part of a write section, and where memory is deleted on the
\* spot, a write section keeps the readers out.
LockOK ==
    /\ deferred <=> ~Locked
    /\ wpc # "idle" => section
    /\ Locked /\ section => \A r \in Readers : ~Guarded(r)

\* The table that the histories remember.
OutsideOK ==
    /\ ~section => outside = table
    /\ \A r \in Readers :
          Guarded(r) => LongestMatch(outside, addr[r]) \in settled[r]

\* No write section has begun since the lookup did: the lock keeps them out,
\* or the sequence number would have moved.
Steady(r) == Guarded(r) /\ (Locked \/ before[r] = "same")

\* The reader walks the tree as it is now, every route that covers its address
\* is behind it or still ahead of it, and its result is one of them.
OnTable(r) ==
    /\ at[r] # Null => at[r] \in Tree(link)
    /\ best[r] # Null => \E n \in Tree(link) : value[n] = best[r]
    /\ AheadOf(r, Bound(table, addr[r]))

\* What a lookup is entitled to when it is handed over.
SteadyOK ==
    \A r \in Readers :
        /\ Steady(r) => ~section /\ OnTable(r)
        /\ before[r] \in {"same", "valid"} => variant = "seqlock"
        /\ before[r] = "valid" => rpc[r] = "done" /\ best[r] \in settled[r]
        /\ ~Guarded(r) => before[r] = "unread"

\* The inductive invariant of the four tables.
FibInv == TrieInv /\ FibTyped /\ LockOK /\ OutsideOK /\ SteadyOK
-----------------------------------------------------------------------------
(* The trie inside its table *)

\* Every step of a table is a step of the trie or leaves it alone, but for the
\* seqlock's second look at it.
LEMMA FibTrieStep ==
  ASSUME FibInv, [FibNext]_vars
  PROVE  TrieInv' /\ deferred' = deferred
<1>1. TrieInv /\ LockOK
  BY DEF FibInv
<1>2. CASE Write
  <2>1. Alone
    BY <1>1, <1>2 DEF Write, LockOK, Alone
  <2>2. [Next]_trieVars
    BY <1>2 DEF Write, Next
  <2> QED
    BY <1>1, <2>1, <2>2, TrieStep
<1>3. ASSUME NEW r \in Readers, Retry(r)
      PROVE  TrieInv' /\ deferred' = deferred
  <2>1. SafeInv /\ RoutesInv /\ BranchOK /\ CountOK /\ ChangesOK
    BY <1>1 DEF TrieInv
  <2>2. Guarded(r) /\ Moves(r, "root", Null, Null)
    BY <1>3 DEF Retry, Goto, Guarded, Moves
  <2>3. SafeInv'
    BY <2>1, <2>2, MovesSafe
  <2>4. /\ rpc'[r] = "root" /\ best'[r] = Null /\ stable' = stable /\ addr' = addr
        /\ table' = table
    BY <2>1, <2>2 DEF SafeInv, Typed, Moves, memory, history, table
  <2>5. stable[r] \subseteq Bound(table, addr[r])
    BY <2>1 DEF RoutesInv, Ahead
  <2>6. Ahead(r)'
    BY <2>4, <2>5 DEF Ahead, AheadOf
  <2>7. RoutesInv'
    BY <2>1, <2>2, <2>6, MovesRoutes
  <2>8. /\ UNCHANGED <<memory, counters, life, writer, changes, deferred>>
    BY <2>2 DEF Moves, history
  <2>9. BranchOK' /\ CountOK' /\ ChangesOK'
    BY <2>1, <2>4, <2>8
       DEF BranchOK, CountOK, ChangesOK, Branching, Excused, LiveNodes, memory, counters, writer
  <2> QED
    BY <2>3, <2>7, <2>8, <2>9 DEF TrieInv
<1>4. CASE \/ BeginWrite \/ EndWrite \/ Housekeeping \/ UNCHANGED vars
           \/ \E r \in Readers :
                 \/ LoadSequence(r) \/ Lookup(r) \/ ValidateSequence(r) \/ EndRead(r)
                 \/ \E a \in Addresses : BeginRead(r, a)
  <2>1. \/ Reclaim
        \/ \E r \in Readers :
              (\E a \in Addresses : Enter(r, a)) \/ ReaderStep(r) \/ Leave(r)
        \/ UNCHANGED trieVars
    BY <1>4 DEF BeginWrite, EndWrite, Housekeeping, LoadSequence, Lookup,
                ValidateSequence, EndRead, BeginRead, vars
  <2> QED
    BY <1>1, <2>1, QuietStep
<1> QED
  BY <1>2, <1>3, <1>4 DEF FibNext, Reading

\* The answers that a table can give.
LEMMA LongestType ==
  ASSUME NEW tbl \in [Prefixes -> Values \cup {Null}], NEW a
  PROVE  LongestMatch(tbl, a) \in Values \cup {Null}
BY LongestLemma DEF Bound

\* The tables' own variables keep their types.
LEMMA FibTypedStep ==
  ASSUME FibInv, [FibNext]_vars
  PROVE  FibTyped'
<1>1. FibTyped /\ table \in [Prefixes -> Values \cup {Null}]
  BY TableTyped DEF FibInv, TrieInv
<1>2. CASE BeginWrite
  <2>1. before' \in [Readers -> Loaded]
    BY <1>1, <1>2 DEF BeginWrite, MoveSequence, FibTyped, Loaded
  <2> QED
    BY <1>1, <1>2, <2>1 DEF BeginWrite, FibTyped
<1>3. CASE EndWrite
  <2>1. before' \in [Readers -> Loaded]
    BY <1>1, <1>3 DEF EndWrite, MoveSequence, FibTyped, Loaded
  <2>2. settled' \in [Readers -> SUBSET (Values \cup {Null})]
    BY <1>1, <1>3, LongestType DEF EndWrite, FibTyped
  <2> QED
    BY <1>1, <1>3, <2>1, <2>2 DEF EndWrite, FibTyped
<1>4. CASE Write \/ Housekeeping \/ UNCHANGED vars
  BY <1>1, <1>4 DEF Write, Housekeeping, vars, fibVars, FibTyped
<1>5. ASSUME NEW r \in Readers, NEW a \in Addresses, BeginRead(r, a)
      PROVE  FibTyped'
  <2>1. LongestMatch(outside, a) \in Values \cup {Null}
    BY <1>1, LongestType DEF FibTyped
  <2> QED
    BY <1>1, <1>5, <2>1 DEF BeginRead, FibTyped
<1>6. ASSUME NEW r \in Readers, Reading(r)
      PROVE  FibTyped'
  BY <1>1, <1>6 DEF Reading, LoadSequence, Lookup, ValidateSequence, Retry, Reload, EndRead,
                    fibVars, FibTyped, Loaded
<1> QED
  BY <1>2, <1>3, <1>4, <1>5, <1>6 DEF FibNext

\* The lock of each variant does what its readers and its writer count on.
LEMMA LockStep ==
  ASSUME FibInv, [FibNext]_vars
  PROVE  LockOK'
<1>1. /\ LockOK /\ deferred' = deferred /\ section \in BOOLEAN /\ variant \in Variants
      /\ rpc \in [Readers -> {"idle", "root", "value", "child", "done"}]
  BY FibTrieStep DEF FibInv, FibTyped, TrieInv, SafeInv, Typed
<1>2. CASE BeginWrite
  BY <1>1, <1>2 DEF BeginWrite, ReadersAllow, LockOK, Locked, Guarded, trieVars, writer, reader
<1>3. CASE Write
  <2>1. rpc' = rpc /\ variant' = variant /\ section' = section /\ section
    BY <1>3 DEF Write, fibVars, WriterStep, RetireReplaced, RetireErased, PruneNothing, Prune,
       RetirePruned, CollapseNothing, Collapse, RetireCollapsed, RetireSubtree,
       CountCleared, InsertErase,
       Insert, InsertLeaf, InsertSplit, InsertAbove, InsertExchange, Erase, Publish, reader
  <2> QED
    BY <1>1, <2>1 DEF LockOK, Locked, Guarded
<1>4. CASE EndWrite
  BY <1>1, <1>4 DEF EndWrite, LockOK, Locked, trieVars, writer
<1>5. CASE Housekeeping \/ UNCHANGED vars
  <2>1. UNCHANGED <<rpc, wpc, variant, section>>
    BY <1>5 DEF Housekeeping, Reclaim, vars, fibVars, trieVars, writer, reader
  <2> QED
    BY <1>1, <2>1 DEF LockOK, Locked, Guarded
<1>6. ASSUME NEW r \in Readers, NEW a \in Addresses, BeginRead(r, a)
      PROVE  LockOK'
  <2>1. /\ UNCHANGED <<wpc, variant, section>>
        /\ \A q \in Readers : q # r => rpc'[q] = rpc[q]
        /\ Admitted(r)
    BY <1>1, <1>6 DEF BeginRead, Enter, Goto, writer
  <2>2. Locked => ~section
    BY <2>1 DEF Admitted, Locked
  <2> QED
    BY <1>1, <2>1, <2>2 DEF LockOK, Locked
<1>7. ASSUME NEW r \in Readers, Reading(r)
      PROVE  LockOK'
  <2>1. UNCHANGED <<wpc, variant, section>>
    BY <1>7 DEF Reading, LoadSequence, Lookup, ValidateSequence, Retry, EndRead, fibVars,
       trieVars, ReaderStep, LoadRoot, LoadValue, WalkEnds, LoadChild, Leave, writer
  <2>2. Guarded(r) \/ rpc' = rpc
    BY <1>7 DEF Reading, LoadSequence, Lookup, ValidateSequence, Retry, EndRead, fibVars,
       trieVars, ReaderStep, LoadRoot, LoadValue, WalkEnds, LoadChild, Leave, reader, Guarded
  <2>3. \A q \in Readers : q # r => rpc'[q] = rpc[q]
    BY <1>1, <1>7 DEF Reading, LoadSequence, Lookup, ValidateSequence, Retry, EndRead, fibVars,
       trieVars, ReaderStep, LoadRoot, LoadValue, WalkEnds, LoadChild, Leave, reader, Goto
  <2> QED
    BY <1>1, <2>1, <2>2, <2>3 DEF LockOK, Locked, Guarded
<1> QED
  BY <1>2, <1>3, <1>4, <1>5, <1>6, <1>7 DEF FibNext

-----------------------------------------------------------------------------
(* Lookups that no write section disturbs *)

\* A walk of the tree as it is finds the longest match.
LEMMA AnswersRight ==
  ASSUME SafeInv, NEW r \in Readers, OnTable(r), rpc[r] = "done"
  PROVE  best[r] = LongestMatch(table, addr[r])
<1>1. /\ link \in Links /\ Ordered(link) /\ ValuesOK /\ Tree(link) \subseteq Nodes
      /\ best[r] \in Values \cup {Null}
  BY TreeLemma DEF SafeInv, Typed, HeapOK
<1>2. \A p \in Bound(table, addr[r]) : LongEnough(r, p)
  BY DEF OnTable, AheadOf
<1>3. CASE best[r] = Null
  <2>1. Bound(table, addr[r]) = {}
    BY <1>2, <1>3 DEF LongEnough
  <2> QED
    BY <1>3, <2>1, LongestLemma
<1>4. CASE best[r] # Null
  <2>1. PICK n \in Tree(link) : value[n] = best[r]
    BY <1>4 DEF OnTable
  <2> DEFINE q == EntryOf[best[r]]
  <2>2. KeyOf[n] = q /\ q \in Prefixes /\ Matches(q, addr[r])
    BY <1>1, <1>4, <2>1, TrieAssumption DEF ValuesOK, OnTable, AheadOf
  <2>3. table[q] = best[r]
    BY <1>1, <2>1, <2>2, TableLemma DEF table
  <2>4. q \in Bound(table, addr[r])
    BY <1>4, <2>2, <2>3 DEF Bound
  <2>5. PICK p \in Bound(table, addr[r]) :
           /\ LongestMatch(table, addr[r]) = table[p]
           /\ \A o \in Bound(table, addr[r]) : Len(o) <= Len(p)
    BY <2>4, LongestLemma
  <2>6. Len(q) >= Len(p) /\ Len(q) <= Len(p)
    BY <1>2, <2>4, <2>5 DEF LongEnough
  <2>7. /\ p \in Keys /\ q \in Keys /\ addr[r] \in Keys /\ Width \in Nat
        /\ Len(p) \in Nat /\ Len(q) \in Nat /\ Matches(p, addr[r])
    <3>1. p \in Prefixes /\ p \in Keys /\ q \in Keys /\ Matches(p, addr[r])
      BY <2>2, <2>5, TrieAssumption DEF Bound
    <3>2. addr[r] \in Keys
      <4>1. addr[r] \in Hosts
        BY TrieAssumption DEF SafeInv, StandsOK, Guarded
      <4> QED
        BY <4>1, HostsAreKeys, TrieAssumption
    <3> QED
      BY <3>1, <3>2, KeyTypes, TrieAssumption
  <2> HIDE DEF q
  <2>8. p = q
    BY <2>2, <2>6, <2>7, MatchOrder
  <2> QED
    BY <2>3, <2>5, <2>8
<1> QED
  BY <1>3, <1>4

\* The loads of a lookup keep to the tree.
LEMMA OnTableStep ==
  ASSUME SafeInv, NEW r \in Readers, OnTable(r), ReaderStep(r)
  PROVE  OnTable(r)'
<1>1. /\ link \in Links /\ Ordered(link) /\ Closed(link, Tree(link))
      /\ Tree(link) \subseteq Nodes
  BY TreeLemma DEF SafeInv, Typed, HeapOK
<1>2. Guarded(r) /\ \E l, n, b : Moves(r, l, n, b)
  BY ReaderMoves
<1>3. link' = link /\ value' = value /\ addr' = addr /\ table' = table
  BY <1>2 DEF Moves, memory, table
<1> DEFINE S == Bound(table, addr[r])
<1>4. WalksFor(r, S)
  <2>1. ASSUME NEW p \in S
        PROVE  /\ p \in Keys /\ Len(p) \in Nat /\ Len(p) <= Width /\ Matches(p, addr[r])
               /\ p \in Prefixes /\ Table(link, value)[p] # Null
    <3>1. p \in Prefixes /\ p \in Keys /\ Table(link, value)[p] # Null /\ Matches(p, addr[r])
      BY TrieAssumption DEF Bound, table
    <3> QED
      BY <3>1, KeyTypes, TrieAssumption
  <2>2. \A p \in S : link[RootSlot] # Null /\ Matches(KeyOf[link[RootSlot]], p)
    BY <1>1, <2>1, RootLeadsOn
  <2>3. ASSUME at[r] # Null, NEW p \in S
        PROVE  LeadsTo(at[r], p)
    <3>1. at[r] \in Tree(link)
      BY <2>3 DEF OnTable
    <3> QED
      BY <1>1, <2>1, <3>1, TreeLeadsOn DEF LeadsTo
  <2> HIDE DEF S
  <2> QED
    BY <2>1, <2>2, <2>3 DEF WalksFor
<1>5. S' = S
  BY <1>3 DEF Bound
<1>6. AheadOf(r, Bound(table, addr[r]))'
  <2>1. AheadOf(r, S)
    BY DEF OnTable
  <2> HIDE DEF S
  <2>2. AheadOf(r, S)'
    BY <1>4, <1>5, <2>1, ReaderStepAhead DEF AheadOf, LongEnough
  <2> QED
    BY <2>2 DEF S
<1>7. /\ at'[r] # Null => at'[r] \in Tree(link)
      /\ best'[r] # Null => \E n \in Tree(link) : value[n] = best'[r]
  <2>0. /\ at[r] # Null => at[r] \in Tree(link)
        /\ best[r] # Null => \E n \in Tree(link) : value[n] = best[r]
        /\ at \in [Readers -> Nodes \cup {Null}] /\ best \in [Readers -> Values \cup {Null}]
    BY DEF OnTable, SafeInv, Typed
  <2>1. CASE LoadRoot(r) /\ Moves(r, "value", link[RootSlot], best[r])
    <3>1. at'[r] = link[RootSlot] /\ best'[r] = best[r]
      BY <2>0, <2>1 DEF Moves
    <3> QED
      BY <1>1, <2>0, <3>1 DEF Closed
  <2>2. CASE /\ LoadValue(r) /\ at[r] # Null
             /\ Moves(r, IF Len(KeyOf[at[r]]) >= Width THEN "done" ELSE "child",
                      at[r], Better(r))
    <3>1. at'[r] = at[r] /\ best'[r] = Better(r)
      BY <2>0, <2>2 DEF Moves
    <3> QED
      BY <2>0, <2>2, <3>1 DEF Better
  <2>3. CASE WalkEnds(r) /\ Moves(r, "done", at[r], best[r])
    BY <2>0, <2>3 DEF Moves
  <2>4. CASE /\ LoadChild(r) /\ at[r] # Null
             /\ Moves(r, "value", link[<<at[r], BitAt(addr[r], Len(KeyOf[at[r]]))>>], best[r])
    <3> DEFINE d == BitAt(addr[r], Len(KeyOf[at[r]]))
    <3>1. d \in Bits /\ at[r] \in Tree(link)
      BY <2>0, <2>4, NextBit DEF LoadChild
    <3>2. at'[r] = link[<<at[r], d>>] /\ best'[r] = best[r]
      BY <2>0, <2>4 DEF Moves
    <3> HIDE DEF d
    <3> QED
      BY <1>1, <2>0, <3>1, <3>2 DEF Closed
  <2> QED
    BY <2>1, <2>2, <2>3, <2>4, ReaderMoves
<1> QED
  BY <1>3, <1>6, <1>7 DEF OnTable

\* What does not touch the reader or the tree leaves it there.
LEMMA OnTableKept ==
  ASSUME NEW r \in Readers, OnTable(r), Tree(link') = Tree(link),
         \A n \in Tree(link) : value'[n] = value[n], table' = table,
         rpc'[r] = rpc[r], addr'[r] = addr[r], at'[r] = at[r], best'[r] = best[r]
  PROVE  OnTable(r)'
<1>1. Bound(table, addr[r])' = Bound(table, addr[r])
  BY DEF Bound
<1>2. AheadOf(r, Bound(table, addr[r]))'
  BY <1>1 DEF OnTable, AheadOf, LongEnough
<1> QED
  BY <1>2 DEF OnTable

\* The histories remember the table as it is between the write sections.
LEMMA OutsideStep ==
  ASSUME FibInv, [FibNext]_vars
  PROVE  OutsideOK'
<1>1. /\ OutsideOK /\ section \in BOOLEAN /\ SafeInv
      /\ addr \in [Readers -> Addresses \cup {<< >>}]
      /\ rpc \in [Readers -> {"idle", "root", "value", "child", "done"}]
      /\ settled \in [Readers -> SUBSET (Values \cup {Null})]
  BY DEF FibInv, FibTyped, TrieInv, SafeInv, Typed
<1>2. CASE BeginWrite
  BY <1>1, <1>2 DEF BeginWrite, OutsideOK, Guarded, trieVars, reader
<1>3. CASE Write
  <2>1. UNCHANGED <<rpc, addr, section, outside, settled>> /\ section
    BY <1>3 DEF Write, fibVars, WriterStep, RetireReplaced, RetireErased, PruneNothing, Prune,
       RetirePruned, CollapseNothing, Collapse, RetireCollapsed, RetireSubtree,
       CountCleared, InsertErase,
       Insert, InsertLeaf, InsertSplit, InsertAbove, InsertExchange, Erase, Publish, reader
  <2> QED
    BY <1>1, <2>1 DEF OutsideOK, Guarded
<1>4. CASE EndWrite
  <2>1. UNCHANGED <<rpc, addr, link, value>> /\ table' = table /\ outside' = table
    BY <1>4 DEF EndWrite, trieVars, reader, memory, table
  <2>2. \A r \in Readers : Guarded(r) => LongestMatch(table, addr[r]) \in settled'[r]
    BY <1>4 DEF EndWrite
  <2>3. \A r \in Readers : Guarded(r)' <=> Guarded(r)
    BY <2>1 DEF Guarded
  <2> HIDE DEF table
  <2>4. \A r \in Readers : Guarded(r)' => LongestMatch(outside', addr'[r]) \in settled'[r]
    BY <2>1, <2>2, <2>3
  <2> QED
    BY <2>1, <2>4 DEF OutsideOK
<1>5. CASE Housekeeping \/ UNCHANGED vars
  <2>1. UNCHANGED <<rpc, addr, section, outside, settled>>
    BY <1>5 DEF Housekeeping, Reclaim, vars, fibVars, trieVars, reader
  <2>2. table' = table
    BY <1>1, <1>5, QuietTable DEF Housekeeping, vars
  <2> QED
    BY <1>1, <2>1, <2>2 DEF OutsideOK, Guarded
<1>6. ASSUME NEW r \in Readers, NEW a \in Addresses, BeginRead(r, a)
      PROVE  OutsideOK'
  <2>1. /\ UNCHANGED <<section, outside>>
        /\ \A q \in Readers : q # r => UNCHANGED <<rpc[q], addr[q], settled[q]>>
        /\ addr'[r] = a /\ settled'[r] = {LongestMatch(outside, a)}
    BY <1>1, <1>6 DEF BeginRead, Enter, Goto
  <2>2. table' = table
    BY <1>1, <1>6, QuietTable DEF BeginRead
  <2> QED
    BY <1>1, <2>1, <2>2 DEF OutsideOK, Guarded
<1>7. ASSUME NEW r \in Readers, Reading(r)
      PROVE  OutsideOK'
  <2>1. UNCHANGED <<section, outside>>
    BY <1>7 DEF Reading, LoadSequence, Lookup, ValidateSequence, Retry, EndRead, fibVars
  <2>2. \A q \in Readers : q # r => UNCHANGED <<rpc[q], addr[q], settled[q]>>
    BY <1>1, <1>7 DEF Reading, LoadSequence, Lookup, ValidateSequence, Retry, EndRead, fibVars,
       trieVars, ReaderStep, LoadRoot, LoadValue, WalkEnds, LoadChild, Leave, reader, Goto
  <2>3. \/ rpc'[r] = "idle"
        \/ Guarded(r) /\ UNCHANGED <<addr[r], settled[r]>>
    BY <1>1, <1>7 DEF Reading, LoadSequence, Lookup, ValidateSequence, Retry, EndRead, fibVars,
       trieVars, ReaderStep, LoadRoot, LoadValue, WalkEnds, LoadChild, Leave, reader, Goto,
       Guarded
  <2>4. table' = table
    <3>1. CASE Retry(r)
      BY <3>1 DEF Retry, memory, table
    <3>2. CASE ~Retry(r)
      <4>1. ReaderStep(r) \/ Leave(r) \/ UNCHANGED trieVars
        BY <1>7, <3>2 DEF Reading, LoadSequence, Lookup, ValidateSequence, EndRead
      <4> QED
        BY <1>1, <4>1, QuietTable
    <3> QED
      BY <3>1, <3>2
  <2>5. ASSUME NEW q \in Readers, Guarded(q)'
        PROVE  LongestMatch(outside', addr'[q]) \in settled'[q]
    <3>1. Guarded(q) /\ UNCHANGED <<addr[q], settled[q]>>
      BY <2>2, <2>3, <2>5 DEF Guarded
    <3> QED
      BY <1>1, <2>1, <3>1 DEF OutsideOK
  <2> QED
    BY <1>1, <2>1, <2>4, <2>5 DEF OutsideOK
<1> QED
  BY <1>2, <1>3, <1>4, <1>5, <1>6, <1>7 DEF FibNext

\* Readers that no step of a writer has disturbed still are where they should
\* be, and what was handed over stays right.
LEMMA SteadyStep ==
  ASSUME FibInv, [FibNext]_vars
  PROVE  SteadyOK'
<1>1. /\ SteadyOK /\ LockOK /\ OutsideOK /\ SafeInv /\ Typed /\ StandsOK
      /\ variant \in Variants /\ section \in BOOLEAN
      /\ before \in [Readers -> Loaded]
      /\ settled \in [Readers -> SUBSET (Values \cup {Null})]
      /\ rpc \in [Readers -> {"idle", "root", "value", "child", "done"}]
      /\ at \in [Readers -> Nodes \cup {Null}] /\ best \in [Readers -> Values \cup {Null}]
      /\ addr \in [Readers -> Addresses \cup {<< >>}]
  BY DEF FibInv, FibTyped, TrieInv, SafeInv, Typed
<1>2. CASE BeginWrite
  <2>1. /\ UNCHANGED <<rpc, best, variant, settled>>
        /\ Locked => \A r \in Readers : ~Guarded(r)
        /\ \A r \in Readers :
              /\ before'[r] # "same"
              /\ before'[r] = "valid" => before[r] = "valid"
              /\ before[r] = "unread" => before'[r] = "unread"
    BY <1>2 DEF BeginWrite, MoveSequence, ReadersAllow, Locked, trieVars, reader
  <2> QED
    BY <1>1, <2>1 DEF SteadyOK, Steady, Guarded, Locked
<1>3. CASE Write
  <2>1. UNCHANGED <<rpc, best, variant, section, before, settled>> /\ section
    BY <1>3 DEF Write, fibVars, WriterStep, RetireReplaced, RetireErased, PruneNothing, Prune,
       RetirePruned, CollapseNothing, Collapse, RetireCollapsed, RetireSubtree,
       CountCleared, InsertErase,
       Insert, InsertLeaf, InsertSplit, InsertAbove, InsertExchange, Erase, Publish, reader
  <2>2. \A r \in Readers : ~Steady(r) /\ (Steady(r)' <=> Steady(r))
    BY <1>1, <2>1 DEF SteadyOK, Steady, Guarded, Locked
  <2> QED
    BY <1>1, <2>1, <2>2 DEF SteadyOK, Guarded
<1>4. CASE EndWrite
  <2>1. /\ UNCHANGED <<rpc, best, variant>>
        /\ Locked => \A r \in Readers : ~Guarded(r)
        /\ \A r \in Readers :
              /\ before'[r] # "same"
              /\ before'[r] = "valid" => before[r] = "valid"
              /\ before[r] = "unread" => before'[r] = "unread"
              /\ Guarded(r) => settled[r] \subseteq settled'[r]
    BY <1>1, <1>4 DEF EndWrite, MoveSequence, LockOK, trieVars, reader
  <2>2. \A r \in Readers : before'[r] = "valid" =>
           rpc'[r] = "done" /\ best'[r] \in settled'[r]
    BY <1>1, <2>1 DEF SteadyOK, Guarded
  <2> QED
    BY <1>1, <2>1, <2>2 DEF SteadyOK, Steady, Guarded, Locked
<1>5. CASE Housekeeping \/ UNCHANGED vars
  <2>1. UNCHANGED <<rpc, addr, at, best, variant, section, before, settled>>
    BY <1>5 DEF Housekeeping, Reclaim, vars, fibVars, trieVars, reader
  <2>2. /\ table' = table /\ Tree(link') = Tree(link)
        /\ \A n \in Tree(link) : value'[n] = value[n]
    <3>1. table' = table
      BY <1>1, <1>5, QuietTable DEF Housekeeping, vars
    <3>2. CASE Reclaim
      BY <1>1, <3>1, <3>2, ReclaimSafe DEF TreeKept
    <3>3. CASE UNCHANGED memory
      BY <3>1, <3>3 DEF memory
    <3> QED
      BY <1>5, <3>2, <3>3 DEF Housekeeping, vars, trieVars
  <2>3. \A r \in Readers : OnTable(r) => OnTable(r)'
    BY <2>1, <2>2, OnTableKept
  <2>4. \A r \in Readers : Steady(r)' <=> Steady(r)
    BY <2>1 DEF Steady, Guarded, Locked
  <2> QED
    BY <1>1, <2>1, <2>3, <2>4 DEF SteadyOK, Guarded
<1>6. ASSUME NEW r \in Readers,
             \/ Reading(r)
             \/ \E a \in Addresses : BeginRead(r, a)
      PROVE  SteadyOK'
  <2>1. /\ UNCHANGED <<link, value, variant, section>> /\ table' = table
        /\ \A q \in Readers : q # r =>
              UNCHANGED <<rpc[q], addr[q], at[q], best[q], before[q], settled[q]>>
    <3>1. UNCHANGED <<link, value, variant, section>>
      BY <1>6 DEF Reading, LoadSequence, Lookup, ValidateSequence, Retry, EndRead, BeginRead,
         Enter, fibVars, trieVars, ReaderStep, LoadRoot, LoadValue, WalkEnds, LoadChild, Leave,
         memory
    <3>2. \A q \in Readers : q # r =>
             UNCHANGED <<rpc[q], addr[q], at[q], best[q], before[q], settled[q]>>
      BY <1>1, <1>6 DEF Reading, LoadSequence, Lookup, ValidateSequence, Retry, Reload, EndRead,
         BeginRead, Enter, fibVars, trieVars, ReaderStep, LoadRoot, LoadValue, WalkEnds,
         LoadChild, Leave, reader, Goto
    <3> QED
      BY <3>1, <3>2 DEF table
  <2>2. ASSUME NEW q \in Readers, q # r
        PROVE  /\ Steady(q)' => ~section' /\ OnTable(q)'
               /\ before'[q] \in {"same", "valid"} => variant' = "seqlock"
               /\ before'[q] = "valid" => rpc'[q] = "done" /\ best'[q] \in settled'[q]
               /\ ~Guarded(q)' => before'[q] = "unread"
    <3>1. Steady(q)' <=> Steady(q)
      BY <2>1, <2>2 DEF Steady, Guarded, Locked
    <3>2. OnTable(q) => OnTable(q)'
      BY <2>1, <2>2, OnTableKept
    <3> QED
      BY <1>1, <2>1, <2>2, <3>1, <3>2 DEF SteadyOK, Guarded
  <2> SUFFICES /\ Steady(r)' => ~section' /\ OnTable(r)'
               /\ before'[r] \in {"same", "valid"} => variant' = "seqlock"
               /\ before'[r] = "valid" => rpc'[r] = "done" /\ best'[r] \in settled'[r]
               /\ ~Guarded(r)' => before'[r] = "unread"
    BY <2>2 DEF SteadyOK
  <2>3. ASSUME NEW a \in Addresses, BeginRead(r, a)
        PROVE  /\ Steady(r)' => ~section' /\ OnTable(r)'
               /\ before'[r] = "unread"
    <3>1. /\ rpc[r] = "idle" /\ rpc'[r] = "root" /\ UNCHANGED <<at, best, before>>
          /\ Admitted(r)
      BY <1>1, <2>3 DEF BeginRead, Enter, Goto
    <3>2. at[r] = Null /\ best[r] = Null /\ before[r] = "unread"
      BY <1>1, <3>1 DEF StandsOK, SteadyOK, Guarded
    <3>3. OnTable(r)'
      BY <3>1, <3>2 DEF OnTable, AheadOf
    <3>4. Locked => ~section
      BY <3>1 DEF Admitted, Locked
    <3> QED
      BY <2>1, <3>1, <3>2, <3>3, <3>4 DEF Steady, Locked
  <2>4. CASE LoadSequence(r)
    <3>1. /\ rpc[r] = "root" /\ UNCHANGED <<rpc, at, best>> /\ ~section
          /\ variant = "seqlock" /\ before'[r] = "same"
      BY <1>1, <2>4 DEF LoadSequence, SequenceEven, trieVars, reader
    <3>2. OnTable(r)'
      BY <1>1, <3>1 DEF OnTable, AheadOf, StandsOK
    <3> QED
      BY <2>1, <3>1, <3>2 DEF Guarded
  <2>5. CASE Lookup(r)
    <3>1. ReaderStep(r) /\ UNCHANGED <<before, settled>>
      BY <2>5 DEF Lookup, fibVars
    <3>2. Guarded(r) /\ Guarded(r)' /\ rpc[r] # "done"
      BY <1>1, <3>1 DEF ReaderStep, LoadRoot, LoadValue, WalkEnds, LoadChild, Goto, Guarded
    <3>3. Steady(r)' <=> Steady(r)
      BY <2>1, <3>1, <3>2 DEF Steady, Locked
    <3>4. OnTable(r) => OnTable(r)'
      BY <1>1, <3>1, OnTableStep
    <3> QED
      BY <1>1, <2>1, <3>1, <3>2, <3>3, <3>4 DEF SteadyOK
  <2>6. CASE ValidateSequence(r)
    <3>1. /\ rpc[r] = "done" /\ UNCHANGED <<rpc, addr, best, settled>>
          /\ variant = "seqlock" /\ before[r] = "same" /\ before'[r] = "valid"
      BY <1>1, <2>6 DEF ValidateSequence, trieVars, reader
    <3>2. Steady(r) /\ Guarded(r)
      BY <3>1 DEF Steady, Guarded
    <3>3. best[r] = LongestMatch(table, addr[r]) /\ ~section
      BY <1>1, <3>1, <3>2, AnswersRight DEF SteadyOK
    <3>4. best[r] \in settled[r]
      BY <1>1, <3>2, <3>3 DEF OutsideOK
    <3> QED
      BY <2>1, <3>1, <3>4 DEF Steady, Guarded, Locked
  <2>7. CASE Retry(r)
    <3>1. variant = "seqlock" /\ before'[r] = "unread"
      BY <1>1, <2>7 DEF Retry, MustRetry, Reload
    <3> QED
      BY <2>1, <3>1 DEF Steady, Locked
  <2>8. CASE EndRead(r)
    <3>1. rpc'[r] = "idle" /\ before'[r] = "unread"
      BY <1>1, <2>8 DEF EndRead, Leave, Goto
    <3> QED
      BY <3>1 DEF Steady, Guarded
  <2> QED
    BY <1>6, <2>3, <2>4, <2>5, <2>6, <2>7, <2>8 DEF Reading
<1> QED
  BY <1>2, <1>3, <1>4, <1>5, <1>6 DEF FibNext

-----------------------------------------------------------------------------
(* The theorems *)

\* The four tables before anything happens.
LEMMA FibStart ==
  ASSUME FibInit
  PROVE  FibInv
<1>1. deferred \in BOOLEAN /\ TrieInit
  BY DEF FibInit
<1>2. TrieInv /\ table \in [Prefixes -> Values \cup {Null}]
  BY <1>1, TrieStart, TableTyped DEF TrieInv
<1>3. FibTyped
  BY <1>2 DEF FibInit, FibTyped, Loaded
<1>4. LockOK
  BY DEF FibInit, TrieInit, LockOK, Locked, Variants
<1>5. OutsideOK /\ SteadyOK
  BY DEF FibInit, TrieInit, OutsideOK, SteadyOK, Steady, Guarded
<1> QED
  BY <1>2, <1>3, <1>4, <1>5 DEF FibInv

\* The inductive invariant of the four tables.
THEOREM FibAlways == FibSpec => []FibInv
<1>1. FibInit => FibInv
  BY FibStart
<1>2. FibInv /\ [FibNext]_vars => FibInv'
  BY FibTrieStep, FibTypedStep, LockStep, OutsideStep, SteadyStep DEF FibInv
<1> QED
  BY <1>1, <1>2, PTL DEF FibSpec

\* The shape of the four tables and of their locks (fib.hpp).
THEOREM FibTypeCorrect == FibSpec => []FibTypeOK
<1>1. FibInv => FibTypeOK
  BY InvTyped DEF FibInv, FibTyped, FibTypeOK, Loaded
<1> QED
  BY <1>1, FibAlways, PTL

\* A lock that keeps writers out (basic_locked_fib), or a guard that the
\* deleters wait for (seqlock_fib and rcu_fib), is enough: no lookup of any
\* variant stands on a deleted node or returns a deleted value.
THEOREM FibReadersNeverDangle == FibSpec => []NothingDangles
<1>1. FibInv => NothingDangles
  BY SafeNothingDangles DEF FibInv, TrieInv
<1> QED
  BY <1>1, FibAlways, PTL

\* The mutex, the shared mutex and the seqlock hand over what the table held
\* before or after the write sections that the lookup overlaps: apply() with
\* any number of updates (fib.hpp) is one update to their readers.
THEOREM BatchesStayAtomic == FibSpec => []BatchesAreAtomic
<1>1. FibInv => BatchesAreAtomic
  <2> SUFFICES ASSUME FibInv, variant # "rcu", NEW r \in Readers, InUse(r)
               PROVE  best[r] \in settled[r]
    BY DEF BatchesAreAtomic
  <2>1. /\ rpc[r] = "done" /\ Guarded(r) /\ (variant = "seqlock" => before[r] = "valid")
        /\ SteadyOK /\ OutsideOK /\ SafeInv /\ variant \in Variants
    BY DEF InUse, Validated, Guarded, FibInv, FibTyped, TrieInv
  <2>2. CASE variant = "seqlock"
    BY <2>1, <2>2 DEF SteadyOK
  <2>3. CASE Locked
    <3>1. ~section /\ OnTable(r)
      BY <2>1, <2>3 DEF SteadyOK, Steady
    <3>2. best[r] = LongestMatch(table, addr[r]) /\ outside = table
      BY <2>1, <3>1, AnswersRight DEF OutsideOK
    <3> QED
      BY <2>1, <3>2 DEF OutsideOK
  <2> QED
    BY <2>1, <2>2, <2>3 DEF Variants, Locked
<1> QED
  BY <1>1, FibAlways, PTL

\* What the trie promises to one writer and readers without locks holds in
\* each of the four tables (fib.hpp), also where retire() deletes on the spot:
\* every allocation has one owner, the trie is compressed and counted between
\* operations, and no lookup misses a route that was there all along.
THEOREM TablesKeepTheTrie == FibSpec => [](OwnedOnce /\ Canonical /\ NoStableRouteMissed)
<1>1. FibInv => OwnedOnce /\ Canonical /\ NoStableRouteMissed
  BY SafeOwnedOnce, InvCanonical, RoutesNotMissed DEF FibInv, TrieInv
<1> QED
  BY <1>1, FibAlways, PTL

\* Whatever a table locks, its trie implements the plain table of
\* ForwardingTable: one store for each insert(), erase() or update of apply().
THEOREM FibImplementsTable == FibSpec => ImplementsTable
<1>1. FibInit => Abstract!Init
  BY TableStart DEF FibInit
<1>2. FibInv /\ [FibNext]_vars => [Abstract!Next]_table
  <2> SUFFICES ASSUME FibInv, [FibNext]_vars
               PROVE  [Abstract!Next]_table
    OBVIOUS
  <2>1. SafeInv /\ LockOK
    BY DEF FibInv, TrieInv
  <2>2. CASE Write
    <3>1. Alone /\ (WriterStep \/ \E p \in Prefixes : InsertErase(p))
      BY <2>1, <2>2 DEF Write, LockOK, Alone
    <3> QED
      BY <2>1, <3>1, TableStep
  <2>3. CASE \E r \in Readers : Retry(r)
    BY <2>3 DEF Retry, memory, table
  <2>4. CASE ~Write /\ ~(\E r \in Readers : Retry(r))
    <3>1. \/ Reclaim
          \/ \E r \in Readers :
                (\E a \in Addresses : Enter(r, a)) \/ ReaderStep(r) \/ Leave(r)
          \/ UNCHANGED trieVars
      BY <2>4 DEF FibNext, Reading, BeginWrite, EndWrite, Housekeeping, LoadSequence, Lookup,
                  ValidateSequence, EndRead, BeginRead, vars
    <3> QED
      BY <2>1, <3>1, TableStep
  <2> QED
    BY <2>2, <2>3, <2>4
<1> QED
  BY <1>1, <1>2, FibAlways, PTL DEF FibSpec, ImplementsTable, Abstract!Spec
=============================================================================
