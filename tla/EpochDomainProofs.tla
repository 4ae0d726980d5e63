------------------------- MODULE EpochDomainProofs -------------------------
(***************************************************************************)
(* Proofs about EpochDomain, for every number of threads, objects,         *)
(* records, every nesting depth and every epoch; what is left of them on a *)
(* machine with store buffers; and what synchronize() does free.           *)
(***************************************************************************)
EXTENDS StoreBuffers, SyncPromise, FiniteSetTheorems, TLAPS

-----------------------------------------------------------------------------
(* Types, and what a thread's program counter says of its local variables *)

LocalsOK(t) ==
    /\ pc[t] \in {"find", "reuse"} =>
           call[t] \in {"pin", "retire", "reclaim", "sync"}
    /\ pc[t] \in {"adv_load", "adv_head", "adv_scan"} =>
           call[t] \in {"reclaim", "sync"}
    /\ pc[t] \in {"adv_load", "adv_head", "adv_scan"} /\ call[t] = "sync" =>
           rotation[t] < Rotations
    /\ pc[t] = "sync_free" => call[t] = "sync"
    /\ pc[t] \in {"find", "reuse"} /\ call[t] = "sync" =>
           rotation[t] = Rotations
    /\ pc[t] = "sync_free" => rotation[t] = Rotations
    /\ pc[t] \in {"find", "reuse", "dead"} => rec[t] = NoRecord
    /\ pc[t] \in {"pin_load", "pin_store", "pin_fence", "ret_load", "ret_push",
                  "rec_load", "rec_free", "sync_free", "orphans", "exit_unpin",
                  "exit_release"} => rec[t] # NoRecord
    /\ pc[t] \in {"find", "reuse"} /\ call[t] = "retire" => arg[t] \in Objects
    /\ pc[t] \in {"ret_load", "ret_push"} => arg[t] \in Objects

Typed == TypeOK /\ \A t \in Threads : LocalsOK(t)

\* The initial state has the type, and no thread is inside a call.
LEMMA TypedInit == Init => Typed
  BY BoundsAssumption DEF Init, Typed, TypeOK, RecordTypes, LocalTypes, HistoryTypes, LocalsOK, Ring, Records, PCs, Statuses,
     Rotations, epoch_ring_size, NoTag, NoRecord, Unpinned, NoObject

\* Every step of every thread keeps the type of every variable.
LEMMA TypeStep ==
  ASSUME Typed, NEW t \in Threads, Step(t) \/ Begin(t)
  PROVE  TypeOK'
<1> USE BoundsAssumption DEF Typed, TypeOK, RecordTypes, LocalTypes,
        HistoryTypes, LocalsOK, CallNames, PCs, Statuses,
        shared, locals, history, Goto, NoRecord
<1>r. rec[t] # NoRecord => rec[t] \in Records
  BY DEF Records
<1>g. rec[t] # NoRecord => Garbage(rec[t]) \in SUBSET Objects
  BY <1>r DEF Garbage
<1>z. Rotations = 4
  BY DEF Rotations, epoch_ring_size
<1>1. CASE FindHead(t)
  BY <1>1 DEF FindHead
<1>2. CASE SkipRecord(t)
  BY <1>2 DEF SkipRecord
<1>3. CASE ReuseRecord(t)
  BY <1>3 DEF ReuseRecord, AfterRecord, Records
<1>4. CASE NewRecord(t)
  BY <1>4 DEF NewRecord, AfterRecord, Records
<1>5. CASE PinLoad(t)
  BY <1>5 DEF PinLoad
<1>6. CASE PinStore(t)
  <2> USE <1>6 DEF PinStore, Records
  <2>1. RecordTypes'
    BY <1>r
  <2>2. LocalTypes'
    BY <1>z
  <2>3. HistoryTypes'
    OBVIOUS
  <2> QED
    BY <2>1, <2>2, <2>3
<1>30. CASE PinFence(t)
  <2> USE <1>30 DEF PinFence, Fenced, Return, Linked, Records
  <2>1. RecordTypes'
    BY <1>r
  <2>2. LocalTypes'
    BY <1>z
  <2>3. HistoryTypes'
    OBVIOUS
  <2> QED
    BY <2>1, <2>2, <2>3
<1>7. CASE RetireLoad(t)
  BY <1>7 DEF RetireLoad
<1>8. CASE RetirePush(t)
  <2> USE <1>8 DEF RetirePush, Return, BagOf, epoch_ring_size, Ring
  <2>1. RecordTypes'
    <3>1. rec[t] \in Records /\ arg[t] \in Objects
      BY <1>r
    <3>2. bags[rec[t]] \in [Ring -> SUBSET Objects]
      BY <3>1
    <3>3. [bags[rec[t]] EXCEPT ![BagOf(epoch[t])] = @ \cup {arg[t]}]
             \in [Ring -> SUBSET Objects]
      <4> DEFINE b == bags[rec[t]]
                 i == BagOf(epoch[t])
      <4>1. i \in Ring
        <5>1. epoch[t] \in Nat
          OBVIOUS
        <5> QED
          BY ONLY <5>1 DEF i, BagOf, Ring, epoch_ring_size
      <4>2. b \in [Ring -> SUBSET Objects] /\ b[i] \cup {arg[t]} \in SUBSET Objects
        BY <3>1, <3>2, <4>1
      <4> HIDE DEF b, i
      <4>3. [b EXCEPT ![i] = b[i] \cup {arg[t]}] \in [Ring -> SUBSET Objects]
        BY ONLY <4>2
      <4> QED
        BY ONLY <4>3 DEF b, i
    <3> QED
      BY <3>1, <3>3
  <2>2. LocalTypes'
    <3>1. CASE since_attempt + 1 >= ReclaimInterval
      BY <3>1, <1>z
    <3>2. CASE Return(t)
      BY <3>2, <1>z
    <3> QED
      BY <3>1, <3>2
  <2>3. HistoryTypes'
    OBVIOUS
  <2> QED
    BY <2>1, <2>2, <2>3
<1>9. CASE RetireReset(t)
  BY <1>9 DEF RetireReset
<1>10. CASE AdvanceLoad(t)
  BY <1>10 DEF AdvanceLoad
<1>11. CASE AdvanceHead(t)
  BY <1>11 DEF AdvanceHead
<1>12. CASE AdvanceScan(t)
  BY <1>12 DEF AdvanceScan
<1>13. CASE AdvanceBlocked(t)
  <2> USE <1>13 DEF AdvanceBlocked, Return
  <2>1. RecordTypes'
    BY <1>r
  <2>2. LocalTypes'
    <3>1. CASE call[t] = "sync"
      BY <3>1, <1>z
    <3>2. CASE Return(t)
      BY <3>2, <1>z
    <3> QED
      BY <3>1, <3>2
  <2>3. HistoryTypes'
    OBVIOUS
  <2> QED
    BY <2>1, <2>2, <2>3
<1>14. CASE AdvanceCas(t)
  <2> USE <1>14 DEF AdvanceCas, LocalRecord, AfterRecord, Rotations, epoch_ring_size
  <2>1. RecordTypes'
    BY <1>r
  <2>2. LocalTypes'
    <3>1. pc' \in [Threads -> PCs]
      BY <1>z
    <3>2. rotation' \in [Threads -> 0 .. Rotations]
      BY <1>z
    <3> QED
      BY <3>1, <3>2
  <2>3. HistoryTypes'
    OBVIOUS
  <2> QED
    BY <2>1, <2>2, <2>3
<1>15. CASE ReclaimLoad(t)
  BY <1>15 DEF ReclaimLoad
<1>16. CASE ReclaimFree(t)
  BY <1>16 DEF ReclaimFree, Freed, Ring
<1>17. CASE SyncFree(t)
  BY <1>17 DEF SyncFree, Freed
<1>18. CASE TakeOrphans(t)
  <2> USE <1>18 DEF TakeOrphans, Freed, Return
  <2>1. RecordTypes'
    BY <1>r
  <2>2. LocalTypes'
    BY <1>z
  <2>3. HistoryTypes'
    OBVIOUS
  <2> QED
    BY <2>1, <2>2, <2>3
<1>31. CASE ExitUnpin(t)
  <2> USE <1>31 DEF ExitUnpin, Unpinned
  <2>1. RecordTypes'
    BY <1>r
  <2>2. LocalTypes'
    BY <1>z
  <2>3. HistoryTypes'
    OBVIOUS
  <2> QED
    BY <2>1, <2>2, <2>3
<1>19. CASE ExitRelease(t)
  <2> USE <1>19 DEF ExitRelease
  <2>1. RecordTypes'
    BY <1>r
  <2>2. LocalTypes'
    BY <1>z
  <2>3. HistoryTypes'
    OBVIOUS
  <2> QED
    BY <2>1, <2>2, <2>3
<1>20. CASE Enter(t)
  BY <1>20 DEF Enter, LocalRecord, AfterRecord, May
<1>21. CASE EnterNested(t)
  <2> USE <1>21 DEF EnterNested, May, Pinned
  <2>1. RecordTypes'
    BY <1>r
  <2>2. LocalTypes'
    BY <1>z
  <2>3. HistoryTypes'
    OBVIOUS
  <2> QED
    BY <2>1, <2>2, <2>3
<1>22. CASE LeaveNested(t)
  <2> USE <1>22 DEF LeaveNested, Pinned
  <2>1. RecordTypes'
    BY <1>r
  <2>2. LocalTypes'
    BY <1>z
  <2>3. HistoryTypes'
    OBVIOUS
  <2> QED
    BY <2>1, <2>2, <2>3
<1>23. CASE Leave(t)
  <2> USE <1>23 DEF Leave, Unpinned, Pinned
  <2>1. RecordTypes'
    BY <1>r
  <2>2. LocalTypes'
    BY <1>z
  <2>3. HistoryTypes'
    OBVIOUS
  <2> QED
    BY <2>1, <2>2, <2>3
<1>24. ASSUME NEW o \in Objects, Publish(t, o)
      PROVE  TypeOK'
  BY <1>24 DEF Publish, May
<1>25. ASSUME NEW o \in Objects, Unlink(t, o)
      PROVE  TypeOK'
  BY <1>25 DEF Unlink, LocalRecord, AfterRecord, May
<1>26. CASE TryReclaim(t)
  BY <1>26 DEF TryReclaim, May
<1>27. CASE Synchronize(t)
  BY <1>27 DEF Synchronize, May, Rotations, epoch_ring_size
<1>28. CASE Exit(t)
  BY <1>28 DEF Exit, May
<1>29. CASE ExitHandOver(t)
  <2> USE <1>29 DEF ExitHandOver, May, Records, Ring
  <2>1. RecordTypes'
    BY <1>r, <1>g
  <2>2. LocalTypes'
    BY <1>z
  <2>3. HistoryTypes'
    BY <1>g
  <2> QED
    BY <2>1, <2>2, <2>3
<1> QED
  BY <1>1, <1>2, <1>3, <1>4, <1>5, <1>6, <1>7, <1>8, <1>9, <1>10, <1>11, <1>12, <1>13, <1>14, <1>15, <1>16, <1>17, <1>18, <1>19, <1>20, <1>21, <1>22, <1>23, <1>24, <1>25, <1>26, <1>27, <1>28, <1>29,
     <1>30, <1>31 DEF Step, Begin

\* Every step leaves every thread's program counter and local variables in
\* agreement: in the list walk it has no record yet, in free_bag it has one.
LEMMA LocalsStep ==
  ASSUME Typed, NEW t \in Threads, Step(t) \/ Begin(t)
  PROVE  \A u \in Threads : LocalsOK(u)'
<1> USE BoundsAssumption DEF Typed, TypeOK, RecordTypes, LocalTypes, LocalsOK, CallNames,
        shared, locals, history, Goto, NoRecord
<1>1. CASE FindHead(t)
  BY <1>1 DEF FindHead
<1>2. CASE SkipRecord(t)
  BY <1>2 DEF SkipRecord
<1>3. CASE ReuseRecord(t)
  BY <1>3 DEF ReuseRecord, AfterRecord, Records
<1>4. CASE NewRecord(t)
  BY <1>4 DEF NewRecord, AfterRecord, Records
<1>5. CASE PinLoad(t)
  BY <1>5 DEF PinLoad
<1>6. CASE PinStore(t)
  BY <1>6 DEF PinStore
<1>30. CASE PinFence(t)
  BY <1>30 DEF PinFence, Fenced, Return
<1>7. CASE RetireLoad(t)
  BY <1>7 DEF RetireLoad
<1>8. CASE RetirePush(t)
  BY <1>8 DEF RetirePush, Return
<1>9. CASE RetireReset(t)
  BY <1>9 DEF RetireReset
<1>10. CASE AdvanceLoad(t)
  BY <1>10 DEF AdvanceLoad
<1>11. CASE AdvanceHead(t)
  BY <1>11 DEF AdvanceHead
<1>12. CASE AdvanceScan(t)
  BY <1>12 DEF AdvanceScan
<1>13. CASE AdvanceBlocked(t)
  BY <1>13 DEF AdvanceBlocked, Return
<1>14. CASE AdvanceCas(t)
  BY <1>14 DEF AdvanceCas, LocalRecord, AfterRecord, Rotations, epoch_ring_size
<1>15. CASE ReclaimLoad(t)
  BY <1>15 DEF ReclaimLoad
<1>16. CASE ReclaimFree(t)
  BY <1>16 DEF ReclaimFree
<1>17. CASE SyncFree(t)
  BY <1>17 DEF SyncFree
<1>18. CASE TakeOrphans(t)
  BY <1>18 DEF TakeOrphans, Return
<1>31. CASE ExitUnpin(t)
  BY <1>31 DEF ExitUnpin
<1>19. CASE ExitRelease(t)
  BY <1>19 DEF ExitRelease
<1>20. CASE Enter(t)
  BY <1>20 DEF Enter, LocalRecord, AfterRecord, May
<1>21. CASE EnterNested(t)
  BY <1>21 DEF EnterNested
<1>22. CASE LeaveNested(t)
  BY <1>22 DEF LeaveNested
<1>23. CASE Leave(t)
  BY <1>23 DEF Leave
<1>24. ASSUME NEW o \in Objects, Publish(t, o)
      PROVE  \A u \in Threads : LocalsOK(u)'
  BY <1>24 DEF Publish, May
<1>25. ASSUME NEW o \in Objects, Unlink(t, o)
      PROVE  \A u \in Threads : LocalsOK(u)'
  BY <1>25 DEF Unlink, LocalRecord, AfterRecord, May
<1>26. CASE TryReclaim(t)
  BY <1>26 DEF TryReclaim, May
<1>27. CASE Synchronize(t)
  BY <1>27 DEF Synchronize, May, Rotations, epoch_ring_size
<1>28. CASE Exit(t)
  BY <1>28 DEF Exit, May
<1>29. CASE ExitHandOver(t)
  BY <1>29 DEF ExitHandOver, May
<1> QED
  BY <1>1, <1>2, <1>3, <1>4, <1>5, <1>6, <1>7, <1>8, <1>9, <1>10, <1>11, <1>12, <1>13, <1>14, <1>15, <1>16, <1>17, <1>18, <1>19, <1>20, <1>21, <1>22, <1>23, <1>24, <1>25, <1>26, <1>27, <1>28, <1>29,
     <1>30, <1>31 DEF Step, Begin

\* The domain is in an initial state, or a step leaves it typed.
LEMMA TypedInvariant == Spec => []Typed
<1>1. Typed /\ [Next]_vars => Typed'
  <2> SUFFICES ASSUME Typed, [Next]_vars
               PROVE  Typed'
    OBVIOUS
  <2>1. CASE UNCHANGED vars
    BY <2>1 DEF vars, shared, locals, history, Typed, TypeOK, RecordTypes,
       LocalTypes, HistoryTypes, LocalsOK
  <2>2. CASE Next
    BY <2>2, TypeStep, LocalsStep DEF Next, Typed
  <2> QED
    BY <2>1, <2>2
<1> QED
  BY <1>1, TypedInit, PTL DEF Spec

\* Every state of the program has the shape TypeOK gives it.
THEOREM TypeCorrect == Spec => []TypeOK
<1>1. Typed => TypeOK
  BY DEF Typed
<1> QED
  BY <1>1, TypedInvariant, PTL

-----------------------------------------------------------------------------
(* What a thread has read of a counter or of the list is never ahead of it *)

BoundsOK ==
    /\ \A t \in Threads : cursor[t] <= records /\ epoch[t] <= global_epoch
    /\ \A r \in Records : state[r] <= global_epoch

\* No local epoch, announcement, tag or cursor ever runs ahead of the epoch
\* and the record list it was read from.
LEMMA BoundsStep ==
  ASSUME Typed, BoundsOK, NEW t \in Threads, Step(t) \/ Begin(t)
  PROVE  BoundsOK'
<1>a. /\ rec \in [Threads -> 0 .. MaxRecords]
      /\ epoch \in [Threads -> Nat]
      /\ cursor \in [Threads -> 0 .. MaxRecords]
      /\ state \in [Records -> Nat \cup {Unpinned}]
      /\ records \in 0 .. MaxRecords
      /\ MaxRecords \in Nat
      /\ global_epoch \in Nat
  BY BoundsAssumption DEF Typed, TypeOK, RecordTypes, LocalTypes
<1> USE DEF BoundsOK, Records, Unpinned, shared, locals, history, Goto
<1>1. CASE FindHead(t)
  BY <1>1, <1>a DEF FindHead
<1>2. CASE SkipRecord(t)
  BY <1>2, <1>a DEF SkipRecord, Claimable
<1>3. CASE ReuseRecord(t)
  BY <1>3, <1>a DEF ReuseRecord, AfterRecord, Claimable
<1>4. CASE NewRecord(t)
  BY <1>4, <1>a DEF NewRecord, AfterRecord
<1>5. CASE PinLoad(t)
  BY <1>5, <1>a DEF PinLoad
<1>6. CASE PinStore(t)
  BY <1>6, <1>a DEF PinStore
<1>19. CASE PinFence(t)
  BY <1>19, <1>a DEF PinFence, Fenced, Return
<1>7. CASE RetireLoad(t)
  BY <1>7, <1>a DEF RetireLoad
<1>8. CASE RetirePush(t)
  <2>1. CASE Return(t)
    BY <1>8, <2>1, <1>a DEF RetirePush, Return
  <2>2. CASE UNCHANGED <<call, epoch, cursor, rotation>>
    BY <1>8, <2>2, <1>a DEF RetirePush, Return
  <2> QED
    BY <1>8, <2>1, <2>2 DEF RetirePush, Return
<1>9. CASE AdvanceLoad(t)
  BY <1>9, <1>a DEF AdvanceLoad
<1>10. CASE AdvanceHead(t)
  BY <1>10, <1>a DEF AdvanceHead
<1>11. CASE AdvanceScan(t)
  BY <1>11, <1>a DEF AdvanceScan
<1>12. CASE AdvanceBlocked(t)
  <2>1. CASE Return(t)
    BY <1>12, <2>1, <1>a DEF AdvanceBlocked, Return
  <2>2. CASE UNCHANGED <<call, epoch, cursor, rotation>>
    BY <1>12, <2>2, <1>a DEF AdvanceBlocked, Return
  <2> QED
    BY <1>12, <2>1, <2>2 DEF AdvanceBlocked, Return
<1>13. CASE AdvanceCas(t)
  <2>1. global_epoch' >= global_epoch
    BY <1>13, <1>a DEF AdvanceCas
  <2> QED
    BY <1>13, <1>a, <2>1 DEF AdvanceCas
<1>14. CASE ReclaimLoad(t)
  BY <1>14, <1>a DEF ReclaimLoad
<1>15. CASE TakeOrphans(t)
  BY <1>15, <1>a DEF TakeOrphans, Return
<1>20. CASE ExitUnpin(t)
  BY <1>20, <1>a DEF ExitUnpin
<1>16. CASE ExitRelease(t)
  BY <1>16, <1>a DEF ExitRelease
<1>17. CASE Leave(t)
  BY <1>17, <1>a DEF Leave
<1>18. CASE RetireReset(t) \/ ReclaimFree(t) \/ SyncFree(t) \/ Enter(t) \/ EnterNested(t)
         \/ LeaveNested(t) \/ (\E o \in Objects : Publish(t, o)) \/ (\E o \in
         Objects : Unlink(t, o)) \/ TryReclaim(t) \/ Synchronize(t) \/ Exit(t)
         \/ ExitHandOver(t)
  <2>1. UNCHANGED <<records, global_epoch, cursor, epoch, state>>
    BY <1>18 DEF RetireReset, ReclaimFree, SyncFree, Enter, LocalRecord,
       AfterRecord, May, EnterNested, LeaveNested, Publish, Unlink,
       TryReclaim, Synchronize, Exit, ExitHandOver
  <2> QED
    BY <2>1, <1>a
<1> QED
  BY <1>1, <1>2, <1>3, <1>4, <1>5, <1>6, <1>7, <1>8, <1>9, <1>10, <1>11,
     <1>12, <1>13, <1>14, <1>15, <1>16, <1>17, <1>18, <1>19, <1>20
     DEF Step, Begin

-----------------------------------------------------------------------------
(* Who owns a record *)

\* A record in use has one owner, and records not yet pushed have none.
OwnersOK ==
    /\ \A t, u \in Threads : t # u /\ rec[t] = rec[u] => rec[t] = NoRecord
    /\ \A r \in Records : in_use[r] <=> \E t \in Threads : rec[t] = r
    /\ \A r \in Records : r > records => ~in_use[r]

\* The compare-exchange of in_use keeps a record to one thread, and thread
\* exit gives it up as a whole.
LEMMA OwnersStep ==
  ASSUME Typed, BoundsOK, OwnersOK, NEW t \in Threads, Step(t) \/ Begin(t)
  PROVE  OwnersOK'
<1>a. /\ in_use \in [Records -> BOOLEAN]
      /\ rec \in [Threads -> 0 .. MaxRecords]
      /\ cursor \in [Threads -> 0 .. MaxRecords]
      /\ records \in 0 .. MaxRecords
      /\ MaxRecords \in Nat
  BY BoundsAssumption DEF Typed, TypeOK, RecordTypes, LocalTypes
<1>b. /\ pc[t] = "reuse" => rec[t] = NoRecord
      /\ pc[t] = "exit_release" => rec[t] # NoRecord
  BY DEF Typed, LocalsOK
<1> USE DEF OwnersOK, Records, NoRecord, shared, locals, history, Goto
<1>1. CASE ReuseRecord(t)
  <2> USE <1>1 DEF ReuseRecord, AfterRecord, Claimable
  <2>1. /\ cursor[t] \in Records
        /\ \A u \in Threads : rec[u] # cursor[t]
    BY <1>a
  <2>2. \A u, v \in Threads :
           u # v /\ rec'[u] = rec'[v] => rec'[u] = NoRecord
    BY <1>a, <2>1
  <2>3. \A r \in Records : in_use'[r] <=> \E u \in Threads : rec'[u] = r
    BY <1>a, <1>b, <2>1
  <2>4. cursor[t] <= records
    BY DEF BoundsOK
  <2> QED
    BY <1>a, <2>1, <2>2, <2>3, <2>4
<1>2. CASE NewRecord(t)
  BY <1>2, <1>a, <1>b DEF NewRecord, AfterRecord
<1>3. CASE ExitRelease(t)
  BY <1>3, <1>a, <1>b DEF ExitRelease
<1>4. CASE FindHead(t) \/ SkipRecord(t) \/ PinLoad(t) \/ PinStore(t) \/ PinFence(t) \/
         ExitUnpin(t) \/ RetireLoad(t) \/
         RetirePush(t) \/ RetireReset(t) \/ AdvanceLoad(t) \/ AdvanceHead(t)
         \/ AdvanceScan(t) \/ AdvanceBlocked(t) \/ AdvanceCas(t) \/
         ReclaimLoad(t) \/ ReclaimFree(t) \/ SyncFree(t) \/ TakeOrphans(t) \/
         Enter(t) \/ EnterNested(t) \/ LeaveNested(t) \/ Leave(t) \/ (\E o \in
         Objects : Publish(t, o)) \/ (\E o \in Objects : Unlink(t, o)) \/
         TryReclaim(t) \/ Synchronize(t) \/ Exit(t) \/ ExitHandOver(t)
  <2>1. UNCHANGED <<in_use, rec, records>>
    BY <1>4 DEF FindHead, SkipRecord, PinLoad, PinStore, PinFence, Fenced, ExitUnpin,
       Return, RetireLoad,
       RetirePush, RetireReset, AdvanceLoad, AdvanceHead, AdvanceScan,
       AdvanceBlocked, AdvanceCas, LocalRecord, AfterRecord, ReclaimLoad,
       ReclaimFree, SyncFree, TakeOrphans, Enter, May, EnterNested,
       LeaveNested, Leave, Publish, Unlink, TryReclaim, Synchronize, Exit,
       ExitHandOver
  <2> QED
    BY <2>1, <1>a, <1>b
<1> QED
  BY <1>1, <1>2, <1>3, <1>4 DEF Step, Begin

-----------------------------------------------------------------------------
(* What a record announces, and what a record without an owner looks like *)

\* Where a thread that has a record has no guard.
BetweenGuards == {"pin_load", "pin_store", "pin_fence", "exit_unpin", "exit_release"}

AnnouncedOK ==
    /\ \A r \in Records :
        /\ nesting[r] > 0 => state[r] # Unpinned
        /\ ~in_use[r] => nesting[r] = 0 /\ state[r] = Unpinned
    /\ \A t \in Threads :
        /\ pc[t] \in BetweenGuards => ~Pinned(t)
        /\ pc[t] = "pin_fence" => state[rec[t]] # Unpinned
        /\ pc[t] = "exit_release" => state[rec[t]] = Unpinned
        /\ ~Pinned(t) => mayHold[t] = {}

\* A record announces an epoch while its thread has a guard alive and announces
\* none when it is given back, and a thread outside a guard holds no object.
LEMMA AnnouncedStep ==
  ASSUME Typed, OwnersOK, AnnouncedOK, NEW t \in Threads, Step(t) \/ Begin(t)
  PROVE  AnnouncedOK'
<1>a. /\ in_use \in [Records -> BOOLEAN]
      /\ rec \in [Threads -> 0 .. MaxRecords]
      /\ cursor \in [Threads -> 0 .. MaxRecords]
      /\ nesting \in [Records -> Nat]
      /\ state \in [Records -> Nat \cup {Unpinned}]
      /\ epoch \in [Threads -> Nat]
      /\ mayHold \in [Threads -> SUBSET Objects]
      /\ pc \in [Threads -> PCs]
      /\ records \in 0 .. MaxRecords
      /\ MaxRecords \in Nat
  BY BoundsAssumption DEF Typed, TypeOK, RecordTypes, LocalTypes, HistoryTypes
<1>b. /\ pc[t] \in {"find", "reuse"} => rec[t] = NoRecord
      /\ pc[t] \in BetweenGuards => rec[t] # NoRecord
      /\ pc[t] = "reuse" =>
             ~Pinned(t) /\ call[t] \in {"pin", "retire", "reclaim", "sync"}
  BY DEF Typed, LocalsOK, Pinned, BetweenGuards
<1>c. \A u \in Threads : u # t /\ rec[u] # NoRecord =>
         rec[u] # rec[t] /\ rec[u] \in Records /\ in_use[rec[u]] /\ rec[u] <= records
  BY <1>a DEF OwnersOK, Records, NoRecord
<1>d. records < MaxRecords => ~in_use[records + 1]
  BY <1>a DEF OwnersOK, Records
<1> USE DEF AnnouncedOK, BetweenGuards, Records, NoRecord, Unpinned, Pinned, shared, locals, history, Goto
<1>1. CASE ReuseRecord(t)
  <2>1. AfterRecord[call[t]] \in {"pin_load", "ret_load", "rec_load", "sync_free"}
    BY <1>1, <1>b DEF ReuseRecord, AfterRecord
  <2>2. ~Pinned(t)' /\ mayHold' = mayHold /\ pc' = [pc EXCEPT ![t] = AfterRecord[call[t]]]
    BY <1>1, <1>a DEF ReuseRecord, Claimable
  <2> QED
    BY <1>1, <1>a, <1>b, <1>c, <2>1, <2>2 DEF ReuseRecord, Claimable
<1>2. CASE NewRecord(t)
  <2>1. AfterRecord[call[t]] \in {"pin_load", "ret_load", "rec_load", "sync_free"}
    BY <1>2, <1>b DEF NewRecord, AfterRecord
  <2>2. ~Pinned(t)' /\ mayHold' = mayHold /\ pc' = [pc EXCEPT ![t] = AfterRecord[call[t]]]
    BY <1>2, <1>a, <1>d DEF NewRecord
  <2> QED
    BY <1>2, <1>a, <1>b, <1>c, <1>d, <2>1, <2>2 DEF NewRecord
<1>3. CASE PinLoad(t)
  BY <1>3, <1>a, <1>b, <1>c DEF PinLoad
<1>13. CASE PinStore(t)
  <2> USE <1>13 DEF PinStore
  <2>1. \A r \in Records :
           /\ nesting'[r] > 0 => state'[r] # Unpinned
           /\ ~in_use'[r] => nesting'[r] = 0 /\ state'[r] = Unpinned
    BY <1>a, <1>b DEF OwnersOK
  <2>2. \A u \in Threads : Pinned(u)' = Pinned(u)
    OBVIOUS
  <2>3. state'[rec[t]] # Unpinned
    BY <1>a, <1>b
  <2> QED
    BY <1>a, <1>c, <2>1, <2>2, <2>3
<1>14. CASE ExitUnpin(t)
  <2> USE <1>14 DEF ExitUnpin
  <2>1. \A r \in Records :
           /\ nesting'[r] > 0 => state'[r] # Unpinned
           /\ ~in_use'[r] => nesting'[r] = 0 /\ state'[r] = Unpinned
    BY <1>a, <1>b DEF OwnersOK
  <2>2. \A u \in Threads : Pinned(u)' = Pinned(u)
    OBVIOUS
  <2>3. state'[rec[t]] = Unpinned
    BY <1>a, <1>b
  <2> QED
    BY <1>a, <1>c, <2>1, <2>2, <2>3
<1>4. CASE PinFence(t)
  <2> USE <1>4 DEF PinFence, Fenced, Return
  <2>1. \A r \in Records :
           /\ nesting'[r] > 0 => state'[r] # Unpinned
           /\ ~in_use'[r] => nesting'[r] = 0 /\ state'[r] = Unpinned
    BY <1>a, <1>b DEF OwnersOK
  <2>2. \A u \in Threads : u # t => Pinned(u)' = Pinned(u)
    BY <1>a, <1>c
  <2>3. Pinned(t)'
    BY <1>a, <1>b
  <2> QED
    BY <1>a, <2>1, <2>2, <2>3
<1>5. CASE ExitRelease(t)
  BY <1>5, <1>a, <1>b, <1>c DEF ExitRelease
<1>6. CASE Enter(t)
  BY <1>6, <1>a, <1>b, <1>c DEF Enter, LocalRecord, AfterRecord, May
<1>7. CASE EnterNested(t)
  BY <1>7, <1>a, <1>b, <1>c DEF EnterNested, May
<1>8. CASE LeaveNested(t)
  BY <1>8, <1>a, <1>b, <1>c DEF LeaveNested
<1>9. CASE Leave(t)
  BY <1>9, <1>a, <1>b, <1>c DEF Leave
<1>10. ASSUME NEW o \in Objects, Publish(t, o)
      PROVE  AnnouncedOK'
  BY <1>10, <1>a, <1>b, <1>c DEF Publish, May
<1>11. CASE ExitHandOver(t)
  BY <1>11, <1>a, <1>b, <1>c DEF ExitHandOver, May
<1>12. CASE FindHead(t) \/ SkipRecord(t) \/ RetireLoad(t) \/ RetirePush(t) \/
         RetireReset(t) \/ AdvanceLoad(t) \/ AdvanceHead(t) \/ AdvanceScan(t)
         \/ AdvanceBlocked(t) \/ AdvanceCas(t) \/ ReclaimLoad(t) \/
         ReclaimFree(t) \/ SyncFree(t) \/ TakeOrphans(t) \/ (\E o \in Objects
         : Unlink(t, o)) \/ TryReclaim(t) \/ Synchronize(t) \/ Exit(t)
  <2>1. UNCHANGED <<in_use, state, nesting, rec, mayHold>>
    BY <1>12 DEF FindHead, SkipRecord, RetireLoad, RetirePush, Return, RetireReset,
       AdvanceLoad, AdvanceHead, AdvanceScan, AdvanceBlocked, AdvanceCas,
       LocalRecord, AfterRecord, ReclaimLoad, ReclaimFree, SyncFree,
       TakeOrphans, Unlink, May, TryReclaim, Synchronize, Exit
  <2>2. \A u \in Threads : pc'[u] \in BetweenGuards => pc'[u] = pc[u]
    BY <1>12, <1>a DEF PCs, FindHead, SkipRecord, RetireLoad, RetirePush, Return, RetireReset,
       AdvanceLoad, AdvanceHead, AdvanceScan, AdvanceBlocked, AdvanceCas,
       LocalRecord, AfterRecord, ReclaimLoad, ReclaimFree, SyncFree,
       TakeOrphans, Unlink, May, TryReclaim, Synchronize, Exit
  <2> QED
    BY <2>1, <2>2, <1>a, <1>b, <1>c
<1> QED
  BY <1>1, <1>2, <1>3, <1>4, <1>5, <1>6, <1>7, <1>8, <1>9, <1>10, <1>11, <1>12,
     <1>13, <1>14 DEF Step, Begin

-----------------------------------------------------------------------------
(* The objects on their way into a bag, and the objects in the bags *)

\* The thread is inside retire_raw and has not pushed its object yet.
Retiring(t) ==
    \/ pc[t] \in {"ret_load", "ret_push"}
    \/ pc[t] \in {"find", "reuse"} /\ call[t] = "retire"

ObjectsOK ==
    /\ \A t \in Threads : Retiring(t) => status[arg[t]] = "unlinked"
    /\ \A t, u \in Threads : t # u /\ Retiring(t) /\ Retiring(u) => arg[t] # arg[u]
    /\ \A t \in Threads : pc[t] = "ret_push" => tag[arg[t]] = epoch[t]
    /\ \A o \in Objects : tag[o] # NoTag =>
        /\ status[o] \in {"unlinked", "retired", "freed"}
        /\ tag[o] <= global_epoch

\* A bag holds retired objects, filed under their epoch modulo three.
Filed ==
    \A r \in Records, i \in Ring : \A o \in bags[r][i] :
        status[o] = "retired" /\ tag[o] \in Nat /\ BagOf(tag[o]) = i

\* No object is in the bags of two records.
Disjoint ==
    \A r, q \in Records, i, j \in Ring, o \in Objects :
        o \in bags[r][i] /\ o \in bags[q][j] => r = q

Apart ==
    \A o \in orphans :
        /\ status[o] = "retired" /\ o \in disowned
        /\ \A r \in Records, i \in Ring : o \notin bags[r][i]

\* The thread has handed its bags over and still has its record.
Exiting(t) == pc[t] \in {"exit_unpin", "exit_release"}

\* Before a record is given back its bags are empty.
EmptyWhenFree ==
    /\ \A r \in Records : ~in_use[r] => \A i \in Ring : bags[r][i] = {}
    /\ \A t \in Threads :
        Exiting(t) => \A i \in Ring : bags[rec[t]][i] = {}

BagsOK == Filed /\ Disjoint /\ Apart /\ EmptyWhenFree

\* The deletes of a free only concern retired objects.
OnlyRetiredFreed ==
    \A o \in Objects :
        \/ status'[o] = status[o]
        \/ status[o] = "retired" /\ status'[o] = "freed"

\* free_bag() and take_orphans() run deleters of retired objects only.
LEMMA FreesAreRetired ==
  ASSUME Typed, BagsOK, NEW t \in Threads,
         ReclaimFree(t) \/ SyncFree(t) \/ TakeOrphans(t)
  PROVE  OnlyRetiredFreed
<1>a. /\ rec[t] \in 0 .. MaxRecords
      /\ status \in [Objects -> Statuses]
      /\ epoch[t] \in Nat
      /\ MaxRecords \in Nat
  BY BoundsAssumption DEF Typed, TypeOK, LocalTypes, HistoryTypes
<1>b. pc[t] \in {"rec_free", "sync_free"} => rec[t] \in Records
  BY <1>a DEF Typed, LocalsOK, Records, NoRecord
<1>c. SafeBag(epoch[t]) \in Ring
  BY <1>a DEF SafeBag, BagOf, Ring, epoch_ring_size
<1>d. \A r \in Records, i \in Ring : \A o \in bags[r][i] : status[o] = "retired"
  BY DEF BagsOK, Filed
<1>e. ASSUME NEW S, \A o \in S : status[o] = "retired", Freed(S)
      PROVE  OnlyRetiredFreed
  BY <1>e DEF Freed, OnlyRetiredFreed
<1>1. CASE ReclaimFree(t)
  <2>1. \A o \in bags[rec[t]][SafeBag(epoch[t])] : status[o] = "retired"
    BY <1>1, <1>b, <1>c, <1>d DEF ReclaimFree
  <2> QED
    BY <1>1, <1>e, <2>1 DEF ReclaimFree
<1>2. CASE SyncFree(t)
  <2>1. \A o \in Garbage(rec[t]) : status[o] = "retired"
    BY <1>2, <1>b, <1>d DEF SyncFree, Garbage
  <2> QED
    BY <1>2, <1>e, <2>1 DEF SyncFree
<1>3. CASE TakeOrphans(t)
  <2>1. \A o \in orphans : status[o] = "retired"
    BY DEF BagsOK, Apart
  <2> QED
    BY <1>3, <1>e, <2>1 DEF TakeOrphans
<1> QED
  BY <1>1, <1>2, <1>3

\* The history of each object agrees with its tag, with the thread that is
\* retiring it, and with the readers that may still hold it.
LEMMA ObjectsStep ==
  ASSUME Typed, BoundsOK, BagsOK, ObjectsOK,
         NEW t \in Threads, Step(t) \/ Begin(t)
  PROVE  ObjectsOK'
<1>a. /\ pc \in [Threads -> PCs]
      /\ call \in [Threads -> CallNames \cup {"none"}]
      /\ epoch \in [Threads -> Nat]
      /\ arg \in [Threads -> Objects \cup {NoObject}]
      /\ status \in [Objects -> Statuses]
      /\ tag \in [Objects -> Nat \cup {NoTag}]
      /\ global_epoch \in Nat
  BY DEF Typed, TypeOK, RecordTypes, LocalTypes, HistoryTypes
<1>b. \A u \in Threads : Retiring(u) => arg[u] \in Objects
  BY DEF Typed, LocalsOK, Retiring
<1>c. pc[t] \in {"find", "reuse"} => call[t] \in {"pin", "retire", "reclaim", "sync"}
  BY DEF Typed, LocalsOK
<1> USE DEF ObjectsOK, Retiring, NoTag, shared, locals, history, Goto
<1>1. CASE RetireLoad(t)
  BY <1>1, <1>a, <1>b, <1>c DEF RetireLoad
<1>2. CASE RetirePush(t)
  <2>1. /\ \A u \in Threads : Retiring(u)' => u # t /\ Retiring(u)
        /\ \A u \in Threads : pc'[u] = "ret_push" => u # t /\ pc[u] = "ret_push"
        /\ \A u \in Threads : u # t => arg'[u] = arg[u] /\ epoch'[u] = epoch[u]
        /\ UNCHANGED <<tag, global_epoch>>
    BY <1>2, <1>a DEF RetirePush, Return
  <2>2. /\ Retiring(t)
        /\ status' = [status EXCEPT ![arg[t]] = "retired"]
    BY <1>2 DEF RetirePush
  <2> QED
    BY <1>a, <1>b, <2>1, <2>2
<1>3. CASE AdvanceCas(t)
  <2>1. /\ UNCHANGED <<arg, tag, status>>
        /\ global_epoch' >= global_epoch /\ global_epoch' \in Nat
        /\ \A u \in Threads : Retiring(u)' => Retiring(u)
        /\ \A u \in Threads :
              pc'[u] = "ret_push" => pc[u] = "ret_push" /\ epoch'[u] = epoch[u]
    BY <1>3, <1>a DEF AdvanceCas, LocalRecord, AfterRecord
  <2> QED
    BY <1>a, <1>b, <2>1
<1>4. CASE ReclaimFree(t)
  <2>1. OnlyRetiredFreed
    BY <1>4, FreesAreRetired
  <2>2. /\ UNCHANGED <<arg, tag, global_epoch>>
        /\ \A u \in Threads : Retiring(u)' => Retiring(u)
        /\ \A u \in Threads :
              pc'[u] = "ret_push" => pc[u] = "ret_push" /\ epoch'[u] = epoch[u]
    BY <1>4, <1>a DEF ReclaimFree
  <2> QED
    BY <1>a, <1>b, <2>1, <2>2 DEF OnlyRetiredFreed
<1>5. CASE SyncFree(t)
  <2>1. OnlyRetiredFreed
    BY <1>5, FreesAreRetired
  <2>2. /\ UNCHANGED <<arg, tag, global_epoch>>
        /\ \A u \in Threads : Retiring(u)' => Retiring(u)
        /\ \A u \in Threads :
              pc'[u] = "ret_push" => pc[u] = "ret_push" /\ epoch'[u] = epoch[u]
    BY <1>5, <1>a DEF SyncFree
  <2> QED
    BY <1>a, <1>b, <2>1, <2>2 DEF OnlyRetiredFreed
<1>6. CASE TakeOrphans(t)
  <2>1. OnlyRetiredFreed
    BY <1>6, FreesAreRetired
  <2>2. /\ UNCHANGED <<arg, tag, global_epoch>>
        /\ \A u \in Threads : Retiring(u)' => Retiring(u)
        /\ \A u \in Threads :
              pc'[u] = "ret_push" => pc[u] = "ret_push" /\ epoch'[u] = epoch[u]
    BY <1>6, <1>a DEF TakeOrphans, Return
  <2> QED
    BY <1>a, <1>b, <2>1, <2>2 DEF OnlyRetiredFreed
<1>7. ASSUME NEW o \in Objects, Publish(t, o)
      PROVE  ObjectsOK'
  BY <1>7, <1>a, <1>b, <1>c DEF Publish, May
<1>8. ASSUME NEW o \in Objects, Unlink(t, o)
      PROVE  ObjectsOK'
  BY <1>8, <1>a, <1>b, <1>c DEF Unlink, LocalRecord, AfterRecord, May
<1>9. CASE FindHead(t) \/ SkipRecord(t) \/ ReuseRecord(t) \/ NewRecord(t) \/ PinLoad(t)
         \/ PinStore(t) \/ PinFence(t) \/ RetireReset(t) \/ AdvanceLoad(t)
         \/ AdvanceHead(t)
         \/ AdvanceScan(t) \/ AdvanceBlocked(t) \/ ReclaimLoad(t) \/
         ExitUnpin(t) \/ ExitRelease(t) \/ Enter(t) \/ EnterNested(t) \/
         LeaveNested(t) \/ Leave(t) \/ TryReclaim(t) \/ Synchronize(t) \/ Exit(t) \/
         ExitHandOver(t)
  <2>1. UNCHANGED <<arg, tag, status, global_epoch>>
    BY <1>9 DEF FindHead, SkipRecord, ReuseRecord, AfterRecord, NewRecord, PinLoad,
       PinStore, PinFence, Fenced, Return, RetireReset, AdvanceLoad, AdvanceHead, AdvanceScan,
       AdvanceBlocked, ReclaimLoad, ExitUnpin, ExitRelease, Enter, LocalRecord, May,
       EnterNested, LeaveNested, Leave, TryReclaim, Synchronize, Exit,
       ExitHandOver
  <2>2. \A u \in Threads : Retiring(u)' => Retiring(u)
    BY <1>9, <1>a, <1>c DEF PCs, FindHead, SkipRecord, ReuseRecord, AfterRecord, NewRecord, PinLoad,
       PinStore, PinFence, Fenced, Return, RetireReset, AdvanceLoad, AdvanceHead, AdvanceScan,
       AdvanceBlocked, ReclaimLoad, ExitUnpin, ExitRelease, Enter, LocalRecord, May,
       EnterNested, LeaveNested, Leave, TryReclaim, Synchronize, Exit,
       ExitHandOver
  <2>3. \A u \in Threads :
           pc'[u] = "ret_push" => pc[u] = "ret_push" /\ epoch'[u] = epoch[u]
    BY <1>9, <1>a, <1>c DEF PCs, FindHead, SkipRecord, ReuseRecord, AfterRecord, NewRecord, PinLoad,
       PinStore, PinFence, Fenced, Return, RetireReset, AdvanceLoad, AdvanceHead, AdvanceScan,
       AdvanceBlocked, ReclaimLoad, ExitUnpin, ExitRelease, Enter, LocalRecord, May,
       EnterNested, LeaveNested, Leave, TryReclaim, Synchronize, Exit,
       ExitHandOver
  <2> QED
    BY <2>1, <2>2, <2>3
<1> QED
  BY <1>1, <1>2, <1>3, <1>4, <1>5, <1>6, <1>7, <1>8, <1>9 DEF Step, Begin

\* Retires, frees and thread exits keep every retired object in the bag of
\* its epoch, in one bag only, and the records of exited threads empty.
LEMMA BagsStep ==
  ASSUME Typed, BoundsOK, OwnersOK, ObjectsOK, BagsOK,
         NEW t \in Threads, Step(t) \/ Begin(t)
  PROVE  BagsOK'
<1>a. /\ pc \in [Threads -> PCs]
      /\ epoch \in [Threads -> Nat]
      /\ arg \in [Threads -> Objects \cup {NoObject}]
      /\ rec \in [Threads -> 0 .. MaxRecords]
      /\ cursor \in [Threads -> 0 .. MaxRecords]
      /\ in_use \in [Records -> BOOLEAN]
      /\ bags \in [Records -> [Ring -> SUBSET Objects]]
      /\ orphans \in SUBSET Objects
      /\ status \in [Objects -> Statuses]
      /\ tag \in [Objects -> Nat \cup {NoTag}]
      /\ global_epoch \in Nat
      /\ records \in 0 .. MaxRecords
      /\ MaxRecords \in Nat
  BY BoundsAssumption DEF Typed, TypeOK, RecordTypes, LocalTypes, HistoryTypes
<1>b. /\ pc[t] \in {"ret_load", "ret_push"} => arg[t] \in Objects
      /\ pc[t] \in {"ret_push", "rec_free", "sync_free", "exit_unpin", "exit_release"} =>
            rec[t] \in Records /\ in_use[rec[t]]
      /\ pc[t] \in {"idle", "ret_push", "rec_free", "sync_free"} =>
            \A u \in Threads : Exiting(u) => rec[u] # rec[t] \/ rec[t] = NoRecord
      /\ pc[t] = "reuse" => rec[t] = NoRecord
      /\ \A u \in Threads : Exiting(u) => rec[u] \in Records
  BY <1>a DEF Typed, LocalsOK, OwnersOK, Exiting, Records, NoRecord
<1>c. pc[t] \in {"ret_load", "ret_push"} => status[arg[t]] = "unlinked"
  BY DEF ObjectsOK, Retiring
<1>d. SafeBag(epoch[t]) \in Ring
  <2>1. epoch[t] \in Nat
    BY <1>a
  <2> QED
    BY <2>1 DEF SafeBag, BagOf, Ring, epoch_ring_size
<1> USE DEF Exiting, NoTag, shared, locals, history, Goto
<1>1. CASE ReuseRecord(t)
  <2>1. /\ UNCHANGED <<bags, orphans, status, tag, disowned>>
        /\ \A r \in Records : ~in_use'[r] => ~in_use[r]
        /\ \A u \in Threads : Exiting(u)' =>
              Exiting(u) /\ rec'[u] = rec[u]
    BY <1>1, <1>a DEF Typed, LocalsOK, ReuseRecord, AfterRecord, Claimable
  <2> QED
    BY <2>1 DEF BagsOK, Filed, Disjoint, Apart, EmptyWhenFree
<1>2. CASE NewRecord(t)
  <2>1. /\ UNCHANGED <<bags, orphans, status, tag, disowned>>
        /\ \A r \in Records : ~in_use'[r] => ~in_use[r]
        /\ \A u \in Threads : Exiting(u)' =>
              Exiting(u) /\ rec'[u] = rec[u]
    BY <1>2, <1>a DEF Typed, LocalsOK, NewRecord, AfterRecord
  <2> QED
    BY <2>1 DEF BagsOK, Filed, Disjoint, Apart, EmptyWhenFree
<1>3. CASE RetireLoad(t)
  <2>1. /\ UNCHANGED <<bags, orphans, status, disowned, in_use, rec>>
        /\ tag' = [tag EXCEPT ![arg[t]] = global_epoch]
        /\ \A u \in Threads : Exiting(u)' => Exiting(u)
    BY <1>3, <1>a DEF RetireLoad
  <2>2. status[arg[t]] # "retired"
    BY <1>3, <1>c DEF RetireLoad
  <2> QED
    BY <1>a, <2>1, <2>2 DEF BagsOK, Filed, Disjoint, Apart, EmptyWhenFree
<1>4. CASE RetirePush(t)
  <2>1. /\ UNCHANGED <<orphans, tag, disowned, in_use, rec>>
        /\ status' = [status EXCEPT ![arg[t]] = "retired"]
        /\ \A u \in Threads : Exiting(u)' => Exiting(u)
    BY <1>4, <1>a DEF RetirePush, Return
  <2>2. \A r \in Records, i \in Ring :
           /\ r # rec[t] => bags'[r][i] = bags[r][i]
           /\ \A o \in bags'[r][i] :
                 \/ o \in bags[r][i]
                 \/ o = arg[t] /\ r = rec[t] /\ i = BagOf(epoch[t])
    BY <1>4, <1>a, <1>b DEF RetirePush
  <2>3. /\ arg[t] \in Objects /\ rec[t] \in Records /\ in_use[rec[t]]
        /\ status[arg[t]] = "unlinked"
        /\ tag[arg[t]] \in Nat /\ tag[arg[t]] = epoch[t]
    BY <1>4, <1>a, <1>b, <1>c DEF RetirePush, ObjectsOK
  <2>4. /\ \A r \in Records, i \in Ring : arg[t] \notin bags[r][i]
        /\ arg[t] \notin orphans
    BY <2>3 DEF BagsOK, Filed, Apart
  <2>5. Filed'
    <3> SUFFICES ASSUME NEW r \in Records, NEW i \in Ring, NEW o \in bags'[r][i]
                 PROVE  status'[o] = "retired" /\ tag'[o] \in Nat /\ BagOf(tag'[o]) = i
      BY DEF Filed
    <3>1. CASE o \in bags[r][i]
      BY <1>a, <2>1, <3>1 DEF BagsOK, Filed
    <3>2. CASE o = arg[t] /\ i = BagOf(epoch[t])
      BY <1>a, <2>1, <2>3, <3>2
    <3> QED
      BY <2>2, <3>1, <3>2
  <2>6. Disjoint'
    BY <2>2, <2>4 DEF BagsOK, Disjoint
  <2>7. Apart'
    BY <1>a, <2>1, <2>2, <2>4 DEF BagsOK, Apart
  <2>8. EmptyWhenFree'
    <3>1. \A u \in Threads : Exiting(u)' =>
             rec[u] \in Records /\ rec[u] # rec[t]
      BY <1>4, <1>b, <2>1, <2>3 DEF RetirePush, NoRecord, Records
    <3>2. \A r \in Records : ~in_use'[r] => (\A i \in Ring : bags'[r][i] = {})
      BY <2>1, <2>2, <2>3 DEF BagsOK, EmptyWhenFree
    <3>3. \A u \in Threads :
             Exiting(u)' => (\A i \in Ring : bags'[rec'[u]][i] = {})
      BY <2>1, <2>2, <3>1 DEF BagsOK, EmptyWhenFree
    <3> QED
      BY <3>2, <3>3 DEF EmptyWhenFree
  <2> QED
    BY <2>5, <2>6, <2>7, <2>8 DEF BagsOK
<1>5. CASE ReclaimFree(t)
  <2>1. /\ UNCHANGED <<orphans, tag, disowned, in_use, rec>>
        /\ \A o \in Objects : status'[o] = IF o \in bags[rec[t]][SafeBag(epoch[t])] THEN "freed" ELSE status[o]
        /\ \A u \in Threads : Exiting(u)' => Exiting(u)
    BY <1>5, <1>a DEF ReclaimFree, Freed
  <2>2. rec[t] \in Records /\ in_use[rec[t]]
    BY <1>5, <1>b DEF ReclaimFree
  <2>3. \A r \in Records, i \in Ring :
           bags'[r][i] = IF r = rec[t] /\ i = SafeBag(epoch[t]) THEN {} ELSE bags[r][i]
    BY <1>5, <1>a, <2>2 DEF ReclaimFree
  <2>4. \A r \in Records, i \in Ring : \A o \in bags'[r][i] :
           o \in bags[r][i] /\ o \in Objects /\ o \notin bags[rec[t]][SafeBag(epoch[t])]
    <3> SUFFICES ASSUME NEW r \in Records, NEW i \in Ring, NEW o \in bags'[r][i]
                 PROVE  o \in bags[r][i] /\ o \in Objects /\ o \notin bags[rec[t]][SafeBag(epoch[t])]
      OBVIOUS
    <3>1. o \in bags[r][i] /\ o \in Objects /\ ~(r = rec[t] /\ i = SafeBag(epoch[t]))
      BY <1>a, <2>3
    <3>2. \A j \in Ring : o \in bags[rec[t]][j] => rec[t] = r /\ j = i
      BY <2>2, <3>1 DEF BagsOK, Disjoint, Filed
    <3>3. SafeBag(epoch[t]) \in Ring
      BY <1>d DEF epoch_ring_size
    <3> QED
      BY <3>1, <3>2, <3>3
  <2>5. \A o \in orphans : o \in Objects /\ o \notin bags[rec[t]][SafeBag(epoch[t])]
    <3> SUFFICES ASSUME NEW o \in orphans
                 PROVE  o \in Objects /\ o \notin bags[rec[t]][SafeBag(epoch[t])]
      BY <1>a
    <3>1. \A j \in Ring : o \notin bags[rec[t]][j]
      BY <2>2 DEF BagsOK, Apart
    <3>2. SafeBag(epoch[t]) \in Ring
      BY <1>d DEF epoch_ring_size
    <3> QED
      BY <1>a, <3>1, <3>2
  <2>6. Filed' /\ Disjoint' /\ Apart'
    BY <2>1, <2>4, <2>5 DEF BagsOK, Filed, Disjoint, Apart
  <2>7. EmptyWhenFree'
    BY <1>b, <2>1, <2>3 DEF BagsOK, EmptyWhenFree
  <2> QED
    BY <2>6, <2>7 DEF BagsOK
<1>6. CASE SyncFree(t)
  <2>1. /\ UNCHANGED <<orphans, tag, disowned, in_use, rec>>
        /\ \A o \in Objects : status'[o] = IF o \in Garbage(rec[t]) THEN "freed" ELSE status[o]
        /\ \A u \in Threads : Exiting(u)' => Exiting(u)
    BY <1>6, <1>a DEF SyncFree, Freed
  <2>2. rec[t] \in Records /\ in_use[rec[t]]
    BY <1>6, <1>b DEF SyncFree
  <2>3. \A r \in Records, i \in Ring :
           bags'[r][i] = IF r = rec[t] THEN {} ELSE bags[r][i]
    BY <1>6, <1>a, <2>2 DEF SyncFree
  <2>4. \A r \in Records, i \in Ring : \A o \in bags'[r][i] :
           o \in bags[r][i] /\ o \in Objects /\ o \notin Garbage(rec[t])
    <3> SUFFICES ASSUME NEW r \in Records, NEW i \in Ring, NEW o \in bags'[r][i]
                 PROVE  o \in bags[r][i] /\ o \in Objects /\ o \notin Garbage(rec[t])
      OBVIOUS
    <3>1. o \in bags[r][i] /\ o \in Objects /\ ~(r = rec[t])
      BY <1>a, <2>3
    <3>2. \A j \in Ring : o \in bags[rec[t]][j] => rec[t] = r /\ j = i
      BY <2>2, <3>1 DEF BagsOK, Disjoint, Filed
    <3>3. epoch_ring_size = 3
      BY <1>d DEF epoch_ring_size
    <3> QED
      BY <3>1, <3>2, <3>3 DEF Garbage
  <2>5. \A o \in orphans : o \in Objects /\ o \notin Garbage(rec[t])
    <3> SUFFICES ASSUME NEW o \in orphans
                 PROVE  o \in Objects /\ o \notin Garbage(rec[t])
      BY <1>a
    <3>1. \A j \in Ring : o \notin bags[rec[t]][j]
      BY <2>2 DEF BagsOK, Apart
    <3>2. epoch_ring_size = 3
      BY <1>d DEF epoch_ring_size
    <3> QED
      BY <1>a, <3>1, <3>2 DEF Garbage
  <2>6. Filed' /\ Disjoint' /\ Apart'
    BY <2>1, <2>4, <2>5 DEF BagsOK, Filed, Disjoint, Apart
  <2>7. EmptyWhenFree'
    BY <1>b, <2>1, <2>3 DEF BagsOK, EmptyWhenFree
  <2> QED
    BY <2>6, <2>7 DEF BagsOK
<1>7. CASE TakeOrphans(t)
  <2>1. /\ UNCHANGED <<bags, tag, disowned, in_use, rec>>
        /\ orphans' = {}
        /\ \A o \in Objects : status'[o] = IF o \in orphans THEN "freed" ELSE status[o]
        /\ \A u \in Threads : Exiting(u)' => Exiting(u)
    BY <1>7, <1>a DEF TakeOrphans, Return, Freed
  <2>2. \A r \in Records, i \in Ring : \A o \in bags[r][i] :
           o \in Objects /\ o \notin orphans
    BY <1>a DEF BagsOK, Apart
  <2> QED
    BY <2>1, <2>2 DEF BagsOK, Filed, Disjoint, Apart, EmptyWhenFree
<1>8. CASE ExitRelease(t)
  <2>1. /\ UNCHANGED <<bags, orphans, status, tag, disowned>>
        /\ \A r \in Records : ~in_use'[r] => ~in_use[r] \/ r = rec[t]
        /\ \A i \in Ring : bags[rec[t]][i] = {}
        /\ \A u \in Threads : Exiting(u)' =>
              Exiting(u) /\ rec'[u] = rec[u]
    BY <1>8, <1>a DEF BagsOK, EmptyWhenFree, ExitRelease
  <2>2. Filed' /\ Disjoint' /\ Apart'
    BY <2>1 DEF BagsOK, Filed, Disjoint, Apart
  <2>3. \A r \in Records : ~in_use'[r] => (\A i \in Ring : bags'[r][i] = {})
    BY <2>1 DEF BagsOK, EmptyWhenFree
  <2>4. \A u \in Threads :
           Exiting(u)' => (\A i \in Ring : bags'[rec'[u]][i] = {})
    BY <2>1 DEF BagsOK, EmptyWhenFree
  <2>5. EmptyWhenFree'
    BY <2>3, <2>4 DEF EmptyWhenFree
  <2> QED
    BY <2>2, <2>5 DEF BagsOK
<1>9. ASSUME NEW o \in Objects, Publish(t, o)
      PROVE  BagsOK'
  <2>1. /\ UNCHANGED <<bags, orphans, tag, disowned, in_use, rec, pc>>
        /\ \A p \in Objects : status[p] = "retired" => status'[p] = "retired"
    BY <1>9, <1>a DEF Publish, May
  <2>2. \A r \in Records, i \in Ring : bags[r][i] \in SUBSET Objects
    BY <1>a
  <2> QED
    BY <1>a, <2>1, <2>2 DEF BagsOK, Filed, Disjoint, Apart, EmptyWhenFree
<1>10. ASSUME NEW o \in Objects, Unlink(t, o)
      PROVE  BagsOK'
  <2>1. /\ UNCHANGED <<bags, orphans, tag, disowned, in_use, rec>>
        /\ \A p \in Objects : status[p] = "retired" => status'[p] = "retired"
        /\ \A u \in Threads : Exiting(u)' => Exiting(u)
    BY <1>10, <1>a DEF Unlink, LocalRecord, AfterRecord, May
  <2>2. \A r \in Records, i \in Ring : bags[r][i] \in SUBSET Objects
    BY <1>a
  <2>3. Filed' /\ Disjoint' /\ Apart'
    BY <1>a, <2>1, <2>2 DEF BagsOK, Filed, Disjoint, Apart
  <2>4. EmptyWhenFree'
    BY <2>1 DEF BagsOK, EmptyWhenFree
  <2> QED
    BY <2>3, <2>4 DEF BagsOK
<1>11. CASE ExitHandOver(t)
  <2>1. /\ UNCHANGED <<tag, in_use, rec, status>>
        /\ orphans' = orphans \cup Garbage(rec[t])
        /\ disowned' = disowned \cup Garbage(rec[t])
        /\ rec[t] \in Records
        /\ \A u \in Threads : Exiting(u)' => Exiting(u) \/ u = t
    BY <1>11, <1>a DEF ExitHandOver, May, Records, NoRecord
  <2>2. \A r \in Records, i \in Ring :
           bags'[r][i] = IF r = rec[t] THEN {} ELSE bags[r][i]
    BY <1>11, <1>a, <2>1 DEF ExitHandOver, May
  <2>3. \A o \in Garbage(rec[t]) : \E i \in Ring : o \in bags[rec[t]][i] /\ o \in Objects
    BY <1>a, <2>1 DEF Garbage
  <2>4. \A r \in Records, i \in Ring : \A o \in bags'[r][i] :
           /\ o \in bags[r][i] /\ o \in Objects /\ r # rec[t]
           /\ o \notin Garbage(rec[t])
    BY <1>a, <2>1, <2>2, <2>3 DEF BagsOK, Disjoint
  <2>5. \A o \in Garbage(rec[t]) : status[o] = "retired"
    BY <2>1, <2>3 DEF BagsOK, Filed
  <2>6. Filed' /\ Disjoint'
    BY <2>1, <2>4 DEF BagsOK, Filed, Disjoint
  <2>7. Apart'
    BY <2>1, <2>4, <2>5 DEF BagsOK, Apart
  <2>8. EmptyWhenFree'
    BY <1>b, <2>1, <2>2 DEF BagsOK, EmptyWhenFree
  <2> QED
    BY <2>6, <2>7, <2>8 DEF BagsOK
<1>12. CASE FindHead(t) \/ SkipRecord(t) \/ PinLoad(t) \/ PinStore(t) \/ PinFence(t) \/
         ExitUnpin(t) \/ RetireReset(t) \/
         AdvanceLoad(t) \/ AdvanceHead(t) \/ AdvanceScan(t) \/
         AdvanceBlocked(t) \/ AdvanceCas(t) \/ ReclaimLoad(t) \/ Enter(t) \/
         EnterNested(t) \/ LeaveNested(t) \/ Leave(t) \/ TryReclaim(t) \/
         Synchronize(t) \/ Exit(t)
  <2>1. UNCHANGED <<bags, orphans, tag, status, disowned, in_use, rec>>
    BY <1>12 DEF ExitUnpin, FindHead, SkipRecord, PinLoad, PinStore, PinFence, Fenced, Return, RetireReset,
       AdvanceLoad, AdvanceHead, AdvanceScan, AdvanceBlocked, AdvanceCas,
       LocalRecord, AfterRecord, ReclaimLoad, Enter, May, EnterNested,
       LeaveNested, Leave, TryReclaim, Synchronize, Exit
  <2>2. \A u \in Threads : Exiting(u)' => Exiting(u)
    BY <1>12, <1>a DEF PCs, ExitUnpin, FindHead, SkipRecord, PinLoad, PinStore, PinFence, Fenced, Return, RetireReset,
       AdvanceLoad, AdvanceHead, AdvanceScan, AdvanceBlocked, AdvanceCas,
       LocalRecord, AfterRecord, ReclaimLoad, Enter, May, EnterNested,
       LeaveNested, Leave, TryReclaim, Synchronize, Exit
  <2> QED
    BY <2>1, <2>2 DEF BagsOK, Filed, Disjoint, Apart, EmptyWhenFree
<1> QED
  BY <1>1, <1>2, <1>3, <1>4, <1>5, <1>6, <1>7, <1>8, <1>9, <1>10, <1>11, <1>12
     DEF Step, Begin

-----------------------------------------------------------------------------
(* Readers and the epoch *)

\* An object of S that a reader may hold was retired no earlier than the epoch it
\* announces; the epoch is at most one past that; and a thread that has already
\* looked at the reader's record will not move the epoch further.
ReadersOK(S) ==
    \A u \in Threads : \A o \in mayHold[u] : o \in S /\ tag[o] # NoTag =>
        /\ state[rec[u]] <= tag[o]
        /\ global_epoch <= tag[o] + 1
        /\ \A s \in Threads :
              pc[s] = "adv_scan" /\ cursor[s] < rec[u] => epoch[s] <= tag[o]

\* While a reader may hold an object, its announcement keeps every advance,
\* including those already past the reader's record, from leaving it behind.
LEMMA ReadersStep ==
  ASSUME Typed, BoundsOK, OwnersOK, AnnouncedOK, ObjectsOK, NEW S, ReadersOK(S),
         NEW t \in Threads, Step(t) \/ Begin(t)
  PROVE  ReadersOK(S)'
<1>a. /\ pc \in [Threads -> PCs]
      /\ epoch \in [Threads -> Nat]
      /\ rec \in [Threads -> 0 .. MaxRecords]
      /\ cursor \in [Threads -> 0 .. MaxRecords]
      /\ state \in [Records -> Nat \cup {Unpinned}]
      /\ tag \in [Objects -> Nat \cup {NoTag}]
      /\ mayHold \in [Threads -> SUBSET Objects]
      /\ global_epoch \in Nat
      /\ records \in 0 .. MaxRecords
      /\ MaxRecords \in Nat
  BY BoundsAssumption DEF Typed, TypeOK, RecordTypes, LocalTypes, HistoryTypes
<1>b. \A u \in Threads : mayHold[u] # {} =>
         /\ rec[u] \in Records /\ rec[u] <= records
         /\ state[rec[u]] \in Nat /\ state[rec[u]] # Unpinned
         /\ state[rec[u]] <= global_epoch
  <2> SUFFICES ASSUME NEW u \in Threads, mayHold[u] # {}
               PROVE  /\ rec[u] \in Records /\ rec[u] <= records
                      /\ state[rec[u]] \in Nat /\ state[rec[u]] # Unpinned
                      /\ state[rec[u]] <= global_epoch
    OBVIOUS
  <2>1. rec[u] \in Records /\ nesting[rec[u]] > 0
    BY <1>a DEF AnnouncedOK, Pinned, Records, NoRecord
  <2> QED
    BY <1>a, <2>1 DEF AnnouncedOK, OwnersOK, BoundsOK
<1>c. \A u \in Threads : u # t /\ rec[u] # NoRecord => rec[u] # rec[t]
  BY DEF OwnersOK
<1> USE DEF NoTag, shared, locals, history, Goto
<1>1. CASE ReuseRecord(t)
  <2>0. mayHold[t] = {} /\ call[t] \in {"pin", "retire", "reclaim", "sync"}
    BY <1>1 DEF ReuseRecord, AfterRecord, Claimable, Typed, LocalsOK, AnnouncedOK, Pinned, NoRecord
  <2>1. /\ UNCHANGED <<tag, global_epoch>>
        /\ \A u \in Threads : \A o \in mayHold'[u] :
              o \in mayHold[u] /\ state'[rec'[u]] = state[rec[u]] /\ rec'[u] = rec[u]
        /\ \A u \in Threads : pc'[u] = "adv_scan" =>
              pc[u] = "adv_scan" /\ cursor'[u] = cursor[u] /\ epoch'[u] = epoch[u]
    BY <1>1, <1>a, <1>b, <2>0 DEF ReuseRecord, AfterRecord, Claimable
  <2> QED
    BY <2>1 DEF ReadersOK
<1>2. CASE NewRecord(t)
  <2>0. mayHold[t] = {} /\ call[t] \in {"pin", "retire", "reclaim", "sync"}
    BY <1>2 DEF NewRecord, AfterRecord, Typed, LocalsOK, AnnouncedOK, Pinned, NoRecord
  <2>1. /\ UNCHANGED <<tag, global_epoch>>
        /\ \A u \in Threads : \A o \in mayHold'[u] :
              o \in mayHold[u] /\ state'[rec'[u]] = state[rec[u]] /\ rec'[u] = rec[u]
        /\ \A u \in Threads : pc'[u] = "adv_scan" =>
              pc[u] = "adv_scan" /\ cursor'[u] = cursor[u] /\ epoch'[u] = epoch[u]
    BY <1>2, <1>a, <1>b, <2>0 DEF NewRecord, AfterRecord
  <2> QED
    BY <2>1 DEF ReadersOK
<1>12. CASE PinStore(t) \/ ExitUnpin(t)
  <2>0. mayHold[t] = {} /\ rec[t] # NoRecord
    BY <1>12 DEF PinStore, ExitUnpin, AnnouncedOK, BetweenGuards, Typed, LocalsOK
  <2>1. /\ UNCHANGED <<tag, global_epoch, rec, mayHold, cursor, epoch>>
        /\ \A u \in Threads : \A o \in mayHold[u] : state'[rec[u]] = state[rec[u]]
        /\ \A u \in Threads : pc'[u] = "adv_scan" => pc[u] = "adv_scan"
    BY <1>12, <1>a, <1>b, <1>c, <2>0 DEF PinStore, ExitUnpin, Records, NoRecord
  <2> QED
    BY <2>1 DEF ReadersOK
<1>3. CASE PinFence(t)
  <2>1. \A o \in Linked : tag[o] = NoTag
    BY DEF ObjectsOK, Linked
  <2>2. \A u \in Threads : \A o \in mayHold'[u] : tag[o] # NoTag =>
           u # t /\ o \in mayHold[u] /\ state'[rec[u]] = state[rec[u]]
    BY <1>3, <1>a, <1>b, <1>c, <2>1 DEF PinFence, Fenced, Return, Records, NoRecord
  <2>3. /\ UNCHANGED <<tag, global_epoch, rec>>
        /\ \A u \in Threads : pc'[u] = "adv_scan" =>
              pc[u] = "adv_scan" /\ cursor'[u] = cursor[u] /\ epoch'[u] = epoch[u]
    BY <1>3, <1>a DEF PinFence, Fenced, Return
  <2> QED
    BY <2>2, <2>3 DEF ReadersOK
<1>4. CASE RetireLoad(t)
  <2>1. /\ UNCHANGED <<mayHold, global_epoch, rec, state, cursor>>
        /\ \A o \in Objects : tag'[o] = tag[o] \/ tag'[o] = global_epoch
        /\ \A u \in Threads : pc'[u] = "adv_scan" =>
              pc[u] = "adv_scan" /\ epoch'[u] = epoch[u]
    BY <1>4, <1>a DEF RetireLoad
  <2>2. \A u \in Threads : epoch[u] <= global_epoch
    BY DEF BoundsOK
  <2> SUFFICES ASSUME NEW u \in Threads, NEW o \in mayHold[u], o \in S, tag'[o] # NoTag
               PROVE  /\ state[rec[u]] <= tag'[o]
                      /\ global_epoch <= tag'[o] + 1
                      /\ \A s \in Threads :
                            pc'[s] = "adv_scan" /\ cursor[s] < rec[u]
                               => epoch[s] <= tag'[o]
    BY <2>1 DEF ReadersOK
  <2>3. CASE tag'[o] = tag[o]
    BY <2>1, <2>3 DEF ReadersOK
  <2>4. CASE tag'[o] = global_epoch
    BY <1>a, <1>b, <2>1, <2>2, <2>4
  <2> QED
    BY <1>a, <2>1, <2>3, <2>4
<1>5. CASE AdvanceHead(t)
  <2>1. /\ UNCHANGED <<tag, mayHold, global_epoch, rec, state, epoch>>
        /\ \A u \in Threads : pc'[u] = "adv_scan" =>
              \/ pc[u] = "adv_scan" /\ cursor'[u] = cursor[u]
              \/ cursor'[u] = records
    BY <1>5, <1>a DEF AdvanceHead
  <2>2. \A u \in Threads : \A o \in mayHold[u] : ~(records < rec[u])
    BY <1>a, <1>b
  <2> QED
    BY <2>1, <2>2 DEF ReadersOK
<1>6. CASE AdvanceScan(t)
  <2>1. /\ UNCHANGED <<tag, mayHold, global_epoch, rec, state, epoch, pc>>
        /\ \A u \in Threads : u # t => cursor'[u] = cursor[u]
        /\ cursor'[t] = cursor[t] - 1
        /\ state[cursor[t]] \in {Unpinned, epoch[t]}
    BY <1>6, <1>a DEF AdvanceScan, Passes
  <2> SUFFICES ASSUME NEW u \in Threads, NEW o \in mayHold[u], o \in S, tag[o] # NoTag,
                      NEW s \in Threads, pc[s] = "adv_scan", cursor'[s] < rec[u]
               PROVE  epoch[s] <= tag[o]
    BY <2>1 DEF ReadersOK
  <2>2. CASE cursor[s] < rec[u]
    BY <2>2 DEF ReadersOK
  <2>3. CASE s = t /\ cursor[t] = rec[u]
    BY <1>a, <1>b, <2>1, <2>3 DEF ReadersOK
  <2> QED
    BY <1>a, <1>b, <2>1, <2>2, <2>3 DEF Records
<1>7. CASE AdvanceCas(t)
  <2>1. /\ UNCHANGED <<tag, mayHold, rec, state>>
        /\ \A u \in Threads : pc'[u] = "adv_scan" =>
              pc[u] = "adv_scan" /\ cursor'[u] = cursor[u] /\ epoch'[u] = epoch[u]
        /\ global_epoch' \in {global_epoch, epoch[t] + 1}
    BY <1>7, <1>a DEF AdvanceCas, LocalRecord, AfterRecord
  <2>2. \A u \in Threads : \A o \in mayHold[u] : o \in S /\ tag[o] # NoTag => epoch[t] <= tag[o]
    BY <1>7, <1>a, <1>b DEF AdvanceCas, ReadersOK, Records
  <2> SUFFICES ASSUME NEW u \in Threads, NEW o \in mayHold[u], o \in S, tag[o] # NoTag
               PROVE  global_epoch' <= tag[o] + 1
    BY <2>1 DEF ReadersOK
  <2>3. tag[o] \in Nat /\ epoch[t] \in Nat
    BY <1>a
  <2> QED
    BY <2>1, <2>2, <2>3 DEF ReadersOK
<1>8. CASE ExitRelease(t)
  <2>0. mayHold[t] = {}
    BY <1>8 DEF ExitRelease, AnnouncedOK, BetweenGuards
  <2>1. /\ UNCHANGED <<tag, global_epoch>>
        /\ \A u \in Threads : \A o \in mayHold'[u] :
              o \in mayHold[u] /\ state'[rec'[u]] = state[rec[u]] /\ rec'[u] = rec[u]
        /\ \A u \in Threads : pc'[u] = "adv_scan" =>
              pc[u] = "adv_scan" /\ cursor'[u] = cursor[u] /\ epoch'[u] = epoch[u]
    BY <1>8, <1>a, <1>b, <1>c, <2>0 DEF ExitRelease, Records, NoRecord
  <2> QED
    BY <2>1 DEF ReadersOK
<1>9. CASE Leave(t)
  <2>1. /\ UNCHANGED <<tag, global_epoch, rec, pc, cursor, epoch>>
        /\ \A u \in Threads : \A o \in mayHold'[u] :
              o \in mayHold[u] /\ state'[rec[u]] = state[rec[u]]
    BY <1>9, <1>a, <1>b, <1>c DEF Leave, Records, NoRecord
  <2> QED
    BY <2>1 DEF ReadersOK
<1>10. ASSUME NEW o \in Objects, Publish(t, o)
      PROVE  ReadersOK(S)'
  <2>1. tag[o] = NoTag
    BY <1>10 DEF Publish, ObjectsOK
  <2>2. /\ UNCHANGED <<tag, global_epoch, rec, pc, cursor, epoch, state>>
        /\ \A u \in Threads : \A p \in mayHold'[u] : p \in mayHold[u] \/ p = o
    BY <1>10, <1>a DEF Publish
  <2> QED
    BY <2>1, <2>2 DEF ReadersOK
<1>11. CASE FindHead(t) \/ SkipRecord(t) \/ PinLoad(t) \/ RetirePush(t) \/ RetireReset(t)
         \/ AdvanceLoad(t) \/ AdvanceBlocked(t) \/ ReclaimLoad(t) \/
         ReclaimFree(t) \/ SyncFree(t) \/ TakeOrphans(t) \/ Enter(t) \/
         EnterNested(t) \/ LeaveNested(t) \/ (\E o \in Objects : Unlink(t, o))
         \/ TryReclaim(t) \/ Synchronize(t) \/ Exit(t) \/ ExitHandOver(t)
  <2>1. UNCHANGED <<tag, mayHold, global_epoch, rec, state>>
    BY <1>11 DEF FindHead, SkipRecord, PinLoad, RetirePush, Return, RetireReset,
       AdvanceLoad, AdvanceBlocked, ReclaimLoad, ReclaimFree, SyncFree,
       TakeOrphans, Enter, LocalRecord, AfterRecord, May, EnterNested,
       LeaveNested, Unlink, TryReclaim, Synchronize, Exit, ExitHandOver
  <2>2. \A u \in Threads : pc'[u] = "adv_scan" =>
           pc[u] = "adv_scan" /\ cursor'[u] = cursor[u] /\ epoch'[u] = epoch[u]
    BY <1>11, <1>a DEF PCs, FindHead, SkipRecord, PinLoad, RetirePush, Return, RetireReset,
       AdvanceLoad, AdvanceBlocked, ReclaimLoad, ReclaimFree, SyncFree,
       TakeOrphans, Enter, LocalRecord, AfterRecord, May, EnterNested,
       LeaveNested, Unlink, TryReclaim, Synchronize, Exit, ExitHandOver
  <2> QED
    BY <2>1, <2>2 DEF ReadersOK
<1> QED
  BY <1>1, <1>2, <1>3, <1>4, <1>5, <1>6, <1>7, <1>8, <1>9, <1>10, <1>11, <1>12
     DEF Step, Begin

-----------------------------------------------------------------------------
(* What a thread knows of its own bags while it reclaims *)

ReclaimOK ==
    \A u \in Threads : rec[u] # NoRecord =>
        \A i \in Ring : \A o \in bags[rec[u]][i] :
            /\ pc[u] = "rec_free" => tag[o] <= epoch[u]
            /\ pc[u] = "adv_load" /\ call[u] = "sync" =>
                   tag[o] + rotation[u] <= global_epoch
            /\ pc[u] \in {"adv_head", "adv_scan"} /\ call[u] = "sync" =>
                   tag[o] + rotation[u] <= epoch[u]
            /\ pc[u] = "sync_free" => tag[o] + Rotations <= global_epoch

\* A thread that is about to free a bag has seen the epoch move far enough
\* past every tag in it.
LEMMA ReclaimStep ==
  ASSUME Typed, BoundsOK, OwnersOK, ObjectsOK, BagsOK, ReclaimOK,
         NEW t \in Threads, Step(t) \/ Begin(t)
  PROVE  ReclaimOK'
<1>a. /\ pc \in [Threads -> PCs]
      /\ call \in [Threads -> CallNames \cup {"none"}]
      /\ epoch \in [Threads -> Nat]
      /\ rotation \in [Threads -> 0 .. Rotations]
      /\ rec \in [Threads -> 0 .. MaxRecords]
      /\ bags \in [Records -> [Ring -> SUBSET Objects]]
      /\ arg \in [Threads -> Objects \cup {NoObject}]
      /\ tag \in [Objects -> Nat \cup {NoTag}]
      /\ global_epoch \in Nat
      /\ MaxRecords \in Nat
      /\ Rotations = 4
  BY BoundsAssumption DEF Typed, TypeOK, RecordTypes, LocalTypes, HistoryTypes,
     Rotations, epoch_ring_size
<1>b. \A u \in Threads : rec[u] # NoRecord =>
         /\ rec[u] \in Records /\ in_use[rec[u]]
         /\ u # t => rec[u] # rec[t]
  BY <1>a DEF OwnersOK, Records, NoRecord
<1>c. \A r \in Records, i \in Ring : \A o \in bags[r][i] :
         /\ o \in Objects /\ tag[o] \in Nat /\ tag[o] <= global_epoch
         /\ status[o] = "retired"
  BY <1>a DEF BagsOK, Filed, ObjectsOK, NoTag
<1>d. /\ epoch[t] <= global_epoch
      /\ pc[t] \in {"find", "reuse"} => rec[t] = NoRecord
  BY DEF BoundsOK, Typed, LocalsOK
<1> DEFINE Own(u, o) == \E i \in Ring : o \in bags[rec[u]][i]
           Same(u) == /\ rec'[u] = rec[u] /\ pc'[u] = pc[u] /\ call'[u] = call[u]
                      /\ epoch'[u] = epoch[u] /\ rotation'[u] = rotation[u]
<1> USE DEF shared, locals, history, Goto
<1>1. CASE ReuseRecord(t)
  <2>1. /\ UNCHANGED <<tag, bags, global_epoch>>
        /\ \A u \in Threads : u # t => Same(u)
        /\ rec'[t] \in Records /\ ~in_use[rec'[t]]
    BY <1>1, <1>a DEF ReuseRecord, AfterRecord, Claimable, BoundsOK, OwnersOK, Typed, TypeOK, RecordTypes,
       LocalTypes, Records
  <2>2. \A i \in Ring : bags[rec'[t]][i] = {}
    BY <2>1 DEF BagsOK, EmptyWhenFree
  <2> QED
    BY <2>1, <2>2 DEF ReclaimOK
<1>2. CASE NewRecord(t)
  <2>1. /\ UNCHANGED <<tag, bags, global_epoch>>
        /\ \A u \in Threads : u # t => Same(u)
        /\ rec'[t] \in Records /\ ~in_use[rec'[t]]
    BY <1>2, <1>a DEF NewRecord, AfterRecord, BoundsOK, OwnersOK, Typed, TypeOK, RecordTypes,
       LocalTypes, Records
  <2>2. \A i \in Ring : bags[rec'[t]][i] = {}
    BY <2>1 DEF BagsOK, EmptyWhenFree
  <2> QED
    BY <2>1, <2>2 DEF ReclaimOK
<1>3. CASE RetireLoad(t)
  <2>1. /\ UNCHANGED <<bags, global_epoch>>
        /\ \A u \in Threads : u # t => Same(u)
        /\ rec' = rec /\ pc'[t] = "ret_push"
        /\ \A o \in Objects : o # arg[t] => tag'[o] = tag[o]
    BY <1>3, <1>a DEF RetireLoad
  <2>2. status[arg[t]] # "retired"
    BY <1>3 DEF RetireLoad, ObjectsOK, Retiring
  <2> QED
    BY <1>a, <1>b, <1>c, <2>1, <2>2 DEF ReclaimOK
<1>4. CASE RetirePush(t)
  <2>1. /\ UNCHANGED <<tag, global_epoch>>
        /\ \A u \in Threads : u # t => Same(u)
        /\ rec' = rec /\ pc'[t] \in {"idle", "ret_reset"}
        /\ \A r \in Records : r # rec[t] => bags'[r] = bags[r]
    BY <1>4, <1>a DEF RetirePush, Return
  <2> QED
    BY <1>a, <1>b, <2>1 DEF ReclaimOK
<1>5. CASE AdvanceLoad(t)
  <2>1. /\ UNCHANGED <<tag, bags, rec, global_epoch>>
        /\ \A u \in Threads : u # t => Same(u)
        /\ pc[t] = "adv_load" /\ pc'[t] = "adv_head" /\ call'[t] = call[t]
        /\ epoch'[t] = global_epoch /\ rotation'[t] = rotation[t]
    BY <1>5, <1>a DEF AdvanceLoad
  <2> QED
    BY <1>a, <1>b, <1>c, <1>d, <2>1 DEF ReclaimOK
<1>6. CASE AdvanceHead(t)
  <2>1. /\ UNCHANGED <<tag, bags, rec, global_epoch>>
        /\ \A u \in Threads : u # t => Same(u)
        /\ pc[t] = "adv_head" /\ pc'[t] = "adv_scan" /\ call'[t] = call[t]
        /\ epoch'[t] = epoch[t] /\ rotation'[t] = rotation[t]
    BY <1>6, <1>a DEF AdvanceHead
  <2> QED
    BY <1>a, <1>b, <1>c, <1>d, <2>1 DEF ReclaimOK
<1>7. CASE AdvanceBlocked(t)
  <2>1. /\ UNCHANGED <<tag, bags, rec, global_epoch>>
        /\ \A u \in Threads : u # t => Same(u)
        /\ pc[t] = "adv_scan"
        /\ \/ pc'[t] = "idle"
           \/ /\ pc'[t] = "adv_load" /\ call[t] = "sync"
              /\ rotation'[t] = rotation[t]
    BY <1>7, <1>a DEF AdvanceBlocked, Return
  <2>2. CASE pc'[t] = "idle"
    BY <1>a, <1>b, <2>1, <2>2 DEF ReclaimOK
  <2>3. CASE pc'[t] = "adv_load" /\ call[t] = "sync" /\ rotation'[t] = rotation[t]
    BY <1>a, <1>b, <1>c, <1>d, <2>1, <2>3 DEF ReclaimOK
  <2> QED
    BY <2>1, <2>2, <2>3
<1>8. CASE AdvanceCas(t)
  <2>1. /\ UNCHANGED <<tag, bags, rec>>
        /\ \A u \in Threads : u # t => Same(u)
        /\ pc[t] = "adv_scan" /\ call' = call
        /\ global_epoch' \in Nat /\ global_epoch' >= global_epoch
        /\ global_epoch' >= epoch[t] + 1
        /\ \/ call[t] # "sync" /\ pc'[t] \in {"find", "rec_load"}
           \/ /\ call[t] = "sync" /\ rotation'[t] = rotation[t] + 1
              /\ \/ pc'[t] \in {"find", "adv_load"}
                 \/ pc'[t] = "sync_free" /\ rotation'[t] = Rotations
    BY <1>8, <1>a, <1>d DEF AdvanceCas, LocalRecord, AfterRecord, NoRecord
  <2> SUFFICES ASSUME NEW u \in Threads, rec[u] # NoRecord,
                      NEW i \in Ring, NEW o \in bags[rec[u]][i]
               PROVE  /\ pc'[u] = "rec_free" => tag[o] <= epoch'[u]
                      /\ pc'[u] = "adv_load" /\ call'[u] = "sync" =>
                             tag[o] + rotation'[u] <= global_epoch'
                      /\ pc'[u] \in {"adv_head", "adv_scan"} /\ call'[u] = "sync" =>
                             tag[o] + rotation'[u] <= epoch'[u]
                      /\ pc'[u] = "sync_free" => tag[o] + Rotations <= global_epoch'
    BY <2>1 DEF ReclaimOK
  <2>2. tag[o] \in Nat /\ rotation[u] \in Nat /\ epoch[u] \in Nat
    BY <1>a, <1>b, <1>c
  <2>3. CASE u # t
    BY <1>a, <2>1, <2>2, <2>3 DEF ReclaimOK
  <2>4. CASE u = t
    BY <1>a, <2>1, <2>2, <2>4 DEF ReclaimOK
  <2> QED
    BY <2>3, <2>4
<1>9. CASE ReclaimLoad(t)
  <2>1. /\ UNCHANGED <<tag, bags, rec, global_epoch>>
        /\ \A u \in Threads : u # t => Same(u)
        /\ pc'[t] = "rec_free" /\ epoch'[t] = global_epoch
    BY <1>9, <1>a DEF ReclaimLoad
  <2> QED
    BY <1>a, <1>b, <1>c, <1>d, <2>1 DEF ReclaimOK
<1>10. CASE ReclaimFree(t)
  <2>1. /\ UNCHANGED <<tag, global_epoch>>
        /\ \A u \in Threads : u # t => Same(u)
        /\ rec' = rec /\ pc'[t] = "orphans"
        /\ \A r \in Records : r # rec[t] => bags'[r] = bags[r]
    BY <1>10, <1>a DEF ReclaimFree
  <2> QED
    BY <1>a, <1>b, <2>1 DEF ReclaimOK
<1>11. CASE SyncFree(t)
  <2>1. /\ UNCHANGED <<tag, global_epoch>>
        /\ \A u \in Threads : u # t => Same(u)
        /\ rec' = rec /\ pc'[t] = "orphans"
        /\ \A r \in Records : r # rec[t] => bags'[r] = bags[r]
    BY <1>11, <1>a DEF SyncFree
  <2> QED
    BY <1>a, <1>b, <2>1 DEF ReclaimOK
<1>12. CASE Synchronize(t)
  <2>1. /\ UNCHANGED <<tag, bags, rec, global_epoch>>
        /\ \A u \in Threads : u # t => Same(u)
        /\ pc'[t] = "adv_load" /\ rotation'[t] = 0
    BY <1>12, <1>a DEF Synchronize, May
  <2> QED
    BY <1>a, <1>b, <1>c, <1>d, <2>1 DEF ReclaimOK
<1>13. CASE ExitHandOver(t)
  <2>1. /\ UNCHANGED <<tag, global_epoch>>
        /\ \A u \in Threads : u # t => Same(u)
        /\ rec' = rec /\ pc'[t] = "exit_unpin"
        /\ \A r \in Records : r # rec[t] => bags'[r] = bags[r]
    BY <1>13, <1>a DEF ExitHandOver, May
  <2> QED
    BY <1>a, <1>b, <2>1 DEF ReclaimOK
<1>14. CASE FindHead(t) \/ SkipRecord(t) \/ PinLoad(t) \/ PinStore(t) \/ PinFence(t) \/
         ExitUnpin(t) \/ RetireReset(t) \/
         AdvanceScan(t) \/ TakeOrphans(t) \/ ExitRelease(t) \/ Enter(t) \/
         EnterNested(t) \/ LeaveNested(t) \/ Leave(t) \/ (\E o \in Objects :
         Publish(t, o)) \/ (\E o \in Objects : Unlink(t, o)) \/ TryReclaim(t)
         \/ Exit(t)
  <2>1. UNCHANGED <<tag, bags, global_epoch>>
    BY <1>14 DEF FindHead, SkipRecord, PinLoad, PinStore, PinFence, Fenced, Return, RetireReset,
       AdvanceScan, TakeOrphans, ExitUnpin, ExitRelease, Enter, LocalRecord, AfterRecord,
       May, EnterNested, LeaveNested, Leave, Publish, Unlink, TryReclaim, Exit
  <2>2. \A u \in Threads : u # t => Same(u)
    BY <1>14, <1>a DEF FindHead, SkipRecord, PinLoad, PinStore, PinFence, Fenced, Return, RetireReset,
       AdvanceScan, TakeOrphans, ExitUnpin, ExitRelease, Enter, LocalRecord, AfterRecord,
       May, EnterNested, LeaveNested, Leave, Publish, Unlink, TryReclaim, Exit
  <2>3. /\ rec'[t] = rec[t] \/ rec'[t] = NoRecord
        /\ \/ Same(t)
           \/ pc'[t] \notin {"rec_free", "adv_load", "adv_head", "adv_scan", "sync_free"}
           \/ pc'[t] = "adv_load" /\ call'[t] # "sync"
    BY <1>14, <1>a DEF PCs, FindHead, SkipRecord, PinLoad, PinStore, PinFence, Fenced, Return, RetireReset,
       AdvanceScan, TakeOrphans, ExitUnpin, ExitRelease, Enter, LocalRecord, AfterRecord,
       May, EnterNested, LeaveNested, Leave, Publish, Unlink, TryReclaim, Exit
  <2> QED
    BY <2>1, <2>2, <2>3 DEF ReclaimOK
<1> QED
  BY <1>1, <1>2, <1>3, <1>4, <1>5, <1>6, <1>7, <1>8, <1>9, <1>10, <1>11,
     <1>12, <1>13, <1>14 DEF Step, Begin

-----------------------------------------------------------------------------
(* No free of a bag touches an object that a reader may hold *)

\* Of three consecutive epochs, the bag of try_reclaim is that of the oldest.
LEMMA SafeBagIsOld ==
  ASSUME NEW g \in Nat, NEW e \in Nat, g <= e, BagOf(g) = SafeBag(e)
  PROVE  g + 2 <= e
BY DEF BagOf, SafeBag, epoch_ring_size

\* No object of S is freed from a bag while a reader may hold it.
Unheld(S) ==
    \A t \in Threads : \A o \in mayHold[t] :
        o \in S /\ status[o] = "freed" => o \in disowned

\* No step frees from a bag an object that a reader may hold.
LEMMA FreedStep ==
  ASSUME Typed, BoundsOK, OwnersOK, ObjectsOK, BagsOK, ReclaimOK,
         NEW S, ReadersOK(S), Unheld(S),
         NEW t \in Threads, Step(t) \/ Begin(t)
  PROVE  Unheld(S)'
<1>a. /\ rec \in [Threads -> 0 .. MaxRecords]
      /\ epoch \in [Threads -> Nat]
      /\ bags \in [Records -> [Ring -> SUBSET Objects]]
      /\ tag \in [Objects -> Nat \cup {NoTag}]
      /\ status \in [Objects -> Statuses]
      /\ mayHold \in [Threads -> SUBSET Objects]
      /\ arg \in [Threads -> Objects \cup {NoObject}]
      /\ global_epoch \in Nat
      /\ MaxRecords \in Nat
  BY BoundsAssumption DEF Typed, TypeOK, RecordTypes, LocalTypes, HistoryTypes
<1>b. \A i \in Ring : \A o \in bags[rec[t]][i] : rec[t] \in Records =>
         o \in Objects /\ tag[o] \in Nat /\ tag[o] # NoTag /\ BagOf(tag[o]) = i
  BY <1>a DEF BagsOK, Filed, NoTag
<1>c. \A u \in Threads : \A o \in mayHold[u] : o \in S /\ tag[o] # NoTag =>
         global_epoch <= tag[o] + 1
  BY DEF ReadersOK
<1> USE DEF shared, locals, history, Goto
<1>1. CASE PinFence(t)
  <2>1. /\ UNCHANGED <<status, disowned>>
        /\ \A u \in Threads : \A o \in mayHold'[u] :
              o \in mayHold[u] \/ status[o] = "linked"
    BY <1>1, <1>a DEF PinFence, Fenced, Return, Linked
  <2> QED
    BY <2>1 DEF Unheld
<1>2. CASE RetirePush(t)
  <2>1. /\ UNCHANGED <<mayHold, disowned>>
        /\ status' = [status EXCEPT ![arg[t]] = "retired"]
    BY <1>2 DEF RetirePush
  <2> QED
    BY <1>a, <2>1 DEF Unheld
<1>3. CASE ReclaimFree(t)
  <2>1. /\ UNCHANGED <<mayHold, disowned>>
        /\ rec[t] \in Records
        /\ \A o \in Objects : status'[o] = "freed" =>
              status[o] = "freed" \/ o \in bags[rec[t]][SafeBag(epoch[t])]
    BY <1>3, <1>a DEF ReclaimFree, Freed, Typed, LocalsOK, Records, NoRecord
  <2>2. epoch[t] \in Nat /\ SafeBag(epoch[t]) \in Ring
    <3>1. epoch[t] \in Nat
      BY <1>a
    <3> QED
      BY <3>1 DEF SafeBag, BagOf, Ring, epoch_ring_size
  <2>3. ASSUME NEW o \in bags[rec[t]][SafeBag(epoch[t])]
        PROVE  tag[o] + 2 <= global_epoch /\ tag[o] \in Nat /\ tag[o] # NoTag
    <3>1. tag[o] \in Nat /\ tag[o] # NoTag /\ BagOf(tag[o]) = SafeBag(epoch[t])
      BY <1>b, <2>1, <2>2
    <3>2. tag[o] <= epoch[t]
      BY <1>3, <2>1, <2>2 DEF ReclaimFree, ReclaimOK, Records, NoRecord
    <3>3. tag[o] + 2 <= epoch[t]
      BY <2>2, <3>1, <3>2, SafeBagIsOld
    <3> QED
      BY <1>a, <2>2, <3>1, <3>3 DEF BoundsOK
  <2>4. \A u \in Threads : \A o \in mayHold[u] : o \in S => o \notin bags[rec[t]][SafeBag(epoch[t])]
    BY <1>a, <1>c, <2>3
  <2> QED
    BY <1>a, <2>1, <2>4 DEF Unheld
<1>4. CASE SyncFree(t)
  <2>1. /\ UNCHANGED <<mayHold, disowned>>
        /\ rec[t] \in Records
        /\ \A o \in Objects : status'[o] = "freed" =>
              status[o] = "freed" \/ \E i \in Ring : o \in bags[rec[t]][i]
    BY <1>4, <1>a DEF SyncFree, Freed, Garbage, Typed, LocalsOK, Records, NoRecord
  <2>2. ASSUME NEW i \in Ring, NEW o \in bags[rec[t]][i]
        PROVE  tag[o] + 4 <= global_epoch /\ tag[o] \in Nat /\ tag[o] # NoTag
    BY <1>4, <1>b, <2>1 DEF SyncFree, ReclaimOK, Records, NoRecord, Rotations, epoch_ring_size
  <2>3. \A u \in Threads : \A o \in mayHold[u] : o \in S => \A i \in Ring : o \notin bags[rec[t]][i]
    BY <1>a, <1>c, <2>2
  <2> QED
    BY <1>a, <2>1, <2>3 DEF Unheld
<1>5. CASE TakeOrphans(t)
  <2>1. /\ UNCHANGED <<mayHold, disowned>>
        /\ \A o \in Objects : status'[o] = "freed" =>
              status[o] = "freed" \/ o \in orphans
    BY <1>5 DEF TakeOrphans, Return, Freed
  <2>2. orphans \subseteq disowned
    BY DEF BagsOK, Apart
  <2> QED
    BY <1>a, <2>1, <2>2 DEF Unheld
<1>6. CASE Leave(t)
  <2>1. /\ UNCHANGED <<status, disowned>>
        /\ \A u \in Threads : \A o \in mayHold'[u] : o \in mayHold[u]
    BY <1>6, <1>a DEF Leave
  <2> QED
    BY <2>1 DEF Unheld
<1>7. ASSUME NEW o \in Objects, Publish(t, o)
      PROVE  Unheld(S)'
  <2>1. /\ UNCHANGED disowned
        /\ status' = [status EXCEPT ![o] = "linked"]
        /\ \A u \in Threads : \A p \in mayHold'[u] : p \in mayHold[u] \/ p = o
    BY <1>7, <1>a DEF Publish, May
  <2> QED
    BY <1>a, <2>1 DEF Unheld
<1>8. ASSUME NEW o \in Objects, Unlink(t, o)
      PROVE  Unheld(S)'
  <2>1. /\ UNCHANGED <<mayHold, disowned>>
        /\ status' = [status EXCEPT ![o] = "unlinked"]
    BY <1>8 DEF Unlink, LocalRecord, AfterRecord, May
  <2> QED
    BY <1>a, <2>1 DEF Unheld
<1>9. CASE ExitHandOver(t)
  <2>1. UNCHANGED <<mayHold, status>> /\ disowned \subseteq disowned'
    BY <1>9 DEF ExitHandOver, May
  <2> QED
    BY <2>1 DEF Unheld
<1>10. CASE FindHead(t) \/ SkipRecord(t) \/ ReuseRecord(t) \/ NewRecord(t) \/ PinLoad(t)
         \/ RetireLoad(t) \/ RetireReset(t) \/ AdvanceLoad(t) \/
         AdvanceHead(t) \/ AdvanceScan(t) \/ AdvanceBlocked(t) \/
         AdvanceCas(t) \/ ReclaimLoad(t) \/ PinStore(t) \/ ExitUnpin(t) \/
         ExitRelease(t) \/ Enter(t) \/
         EnterNested(t) \/ LeaveNested(t) \/ TryReclaim(t) \/ Synchronize(t)
         \/ Exit(t)
  <2>1. UNCHANGED <<mayHold, status, disowned>>
    BY <1>10 DEF FindHead, SkipRecord, ReuseRecord, AfterRecord, NewRecord, PinLoad,
       RetireLoad, RetireReset, AdvanceLoad, AdvanceHead, AdvanceScan,
       AdvanceBlocked, Return, AdvanceCas, LocalRecord, ReclaimLoad,
       PinStore, ExitUnpin, ExitRelease, Enter, May, EnterNested, LeaveNested,
       TryReclaim, Synchronize, Exit
  <2> QED
    BY <2>1 DEF Unheld
<1> QED
  BY <1>1, <1>2, <1>3, <1>4, <1>5, <1>6, <1>7, <1>8, <1>9, <1>10 DEF Step,
     Begin

-----------------------------------------------------------------------------
(* The inductive invariant, and what follows from it *)

\* BagsFreeOnlyUnheld is not inductive: that a bag is safe to free follows
\* from where the epoch stands relative to tags, announcements and cursors.
IInv ==
    /\ Typed
    /\ BoundsOK
    /\ OwnersOK
    /\ AnnouncedOK
    /\ ObjectsOK
    /\ BagsOK
    /\ ReadersOK(Objects)
    /\ ReclaimOK
    /\ Unheld(Objects)

\* The inductive invariant holds initially.
LEMMA IInvInit == Init => IInv
<1> SUFFICES ASSUME Init
             PROVE  IInv
  OBVIOUS
<1>1. Typed
  BY TypedInit
<1>2. BoundsOK /\ OwnersOK /\ AnnouncedOK
  BY BoundsAssumption DEF Init, BoundsOK, OwnersOK, AnnouncedOK, BetweenGuards, Records, Unpinned,
     NoRecord, Pinned
<1>3. ObjectsOK /\ BagsOK
  BY DEF Init, ObjectsOK, Retiring, BagsOK, Filed, Disjoint, Apart, EmptyWhenFree, Exiting
<1>4. ReadersOK(Objects) /\ ReclaimOK /\ Unheld(Objects)
  BY DEF Init, ReadersOK, ReclaimOK, Unheld
<1> QED
  BY <1>1, <1>2, <1>3, <1>4 DEF IInv

\* Every step of the domain keeps the inductive invariant.
LEMMA IInvStep == IInv /\ [Next]_vars => IInv'
<1> SUFFICES ASSUME IInv, [Next]_vars
             PROVE  IInv'
  OBVIOUS
<1>1. CASE UNCHANGED vars
  <2> USE <1>1 DEF vars, shared, locals, history, IInv
  <2>1. Typed'
    BY DEF Typed, TypeOK, RecordTypes, LocalTypes, HistoryTypes, LocalsOK
  <2>2. BoundsOK' /\ OwnersOK' /\ AnnouncedOK'
    BY DEF BoundsOK, OwnersOK, AnnouncedOK, Pinned
  <2>3. ObjectsOK' /\ BagsOK'
    BY DEF ObjectsOK, Retiring, BagsOK, Filed, Disjoint, Apart, EmptyWhenFree, Exiting
  <2>4. ReadersOK(Objects)' /\ ReclaimOK' /\ Unheld(Objects)'
    BY DEF ReadersOK, ReclaimOK, Unheld
  <2> QED
    BY <2>1, <2>2, <2>3, <2>4
<1>2. ASSUME NEW t \in Threads, Step(t) \/ Begin(t)
      PROVE  IInv'
  <2>1. Typed' /\ BoundsOK' /\ OwnersOK' /\ AnnouncedOK'
    BY <1>2, TypeStep, LocalsStep, BoundsStep, OwnersStep, AnnouncedStep
       DEF IInv, Typed
  <2>2. ObjectsOK' /\ BagsOK'
    BY <1>2, ObjectsStep, BagsStep DEF IInv
  <2>3. ReadersOK(Objects)' /\ ReclaimOK'
    BY <1>2, ReadersStep, ReclaimStep DEF IInv
  <2>4. Unheld(Objects)'
    BY <1>2, FreedStep DEF IInv
  <2> QED
    BY <2>1, <2>2, <2>3, <2>4 DEF IInv
<1> QED
  BY <1>1, <1>2 DEF Next

\* The inductive invariant holds in every reachable state.
LEMMA IInvInvariant == Spec => []IInv
BY IInvInit, IInvStep, PTL DEF Spec

\* The bags of try_reclaim() and synchronize() never free an object that a
\* reader inside a guard may hold, even if threads come and go: only what a
\* thread's exit put into orphans_ can be freed too early.
THEOREM BagsAreSafe == Spec => []BagsFreeOnlyUnheld
<1>1. IInv => BagsFreeOnlyUnheld
  BY DEF IInv, Typed, TypeOK, HistoryTypes, Unheld, BagsFreeOnlyUnheld
<1> QED
  BY <1>1, IInvInvariant, PTL

\* The grace period: the epoch never gets two ahead of the epoch in which an
\* object was retired while a reader may still hold the object.
THEOREM GracePeriodHolds == Spec => []EpochWaitsForHolders
<1>1. IInv => EpochWaitsForHolders
  BY DEF IInv, Typed, TypeOK, HistoryTypes, ReadersOK, EpochWaitsForHolders
<1> QED
  BY <1>1, IInvInvariant, PTL

\* A thread record has one owner at a time, and is handed on clean.
THEOREM RecordsAreExclusive == Spec => []RecordsExclusive
<1>1. IInv => RecordsExclusive
  BY DEF IInv, Typed, TypeOK, RecordTypes, OwnersOK, AnnouncedOK, BagsOK,
     EmptyWhenFree, RecordsExclusive
<1> QED
  BY <1>1, IInvInvariant, PTL

-----------------------------------------------------------------------------
(* Without thread exits the domain keeps its whole contract *)

NobodyExits == \A t \in Threads : "exit" \notin Calls[t]

NoneDisowned == disowned = {}

\* If no thread exits, no object is ever moved to orphans_.
LEMMA NothingDisowned ==
  ASSUME NobodyExits
  PROVE  Spec => []NoneDisowned
<1>1. Init => NoneDisowned
  BY DEF Init, NoneDisowned
<1>2. NoneDisowned /\ [Next]_vars => NoneDisowned'
  <2> SUFFICES ASSUME disowned = {}, [Next]_vars
               PROVE  disowned' = {}
    BY DEF NoneDisowned
  <2>1. CASE UNCHANGED vars
    BY <2>1 DEF vars, history
  <2>2. ASSUME NEW t \in Threads, Step(t) \/ Begin(t)
        PROVE  disowned' = {}
    <3>1. ~ExitHandOver(t)
      BY DEF NobodyExits, ExitHandOver, May
    <3> QED
      BY <2>2, <3>1 DEF FindHead, SkipRecord, ReuseRecord, NewRecord, PinLoad, PinStore, PinFence, Fenced, RetireLoad, RetirePush, RetireReset, AdvanceLoad, AdvanceHead, AdvanceScan, AdvanceBlocked, AdvanceCas, ReclaimLoad, ReclaimFree, SyncFree, TakeOrphans, ExitUnpin, ExitRelease, Enter, EnterNested, LeaveNested, Leave, Publish, Unlink, TryReclaim, Synchronize, Exit, Step, Begin, shared, locals, history
  <2> QED
    BY <2>1, <2>2 DEF Next
<1> QED
  BY <1>1, <1>2, PTL DEF Spec

\* No reader ever points to a deleted object, if no thread exits while the
\* domain is alive.
THEOREM NoUseAfterFreeWithoutExit ==
  ASSUME NobodyExits
  PROVE  Spec => []NoUseAfterFree
<1>1. IInv /\ NoneDisowned => NoUseAfterFree
  BY DEF IInv, Typed, TypeOK, HistoryTypes, Unheld, NoUseAfterFree, NoneDisowned
<1> QED
  BY <1>1, IInvInvariant, NothingDisowned, PTL

\* Deleting only retired objects, none of them held afterwards, is a Free.
LEMMA FreeingIsFree ==
  ASSUME IInv, IInv', disowned' = {}, OnlyRetiredFreed, NEW S, Freed(S),
         mayHold' = mayHold, \A u \in Threads : Pinned(u)' <=> Pinned(u)
  PROVE  Contract!Free
<1> DEFINE F == {o \in Objects : status[o] = "retired" /\ o \in S}
<1>1. status' = [o \in Objects |-> IF o \in F THEN "freed" ELSE status[o]]
  <2>1. \A o \in Objects : o \in S /\ o \notin F => status[o] = "freed"
    BY DEF Freed, OnlyRetiredFreed
  <2> QED
    BY <2>1 DEF Freed
<1>2. \A u \in Threads : mayHold[u] \cap F = {}
  BY DEF IInv, Typed, TypeOK, HistoryTypes, Unheld, Freed
<1>3. F \in SUBSET {o \in Objects : status[o] = "retired"}
  OBVIOUS
<1> QED
  BY <1>1, <1>2, <1>3 DEF Contract!Free

\* If no thread exits, every step of the domain is a step of GracePeriod, or
\* one that GracePeriod's variables do not see.
LEMMA ContractStep ==
  ASSUME IInv, IInv', disowned' = {}, NEW t \in Threads, Step(t) \/ Begin(t)
  PROVE  [Contract!Next]_(Contract!vars)
<1>a. /\ rec \in [Threads -> 0 .. MaxRecords]
      /\ nesting \in [Records -> Nat]
      /\ cursor \in [Threads -> 0 .. MaxRecords]
      /\ records \in 0 .. MaxRecords
      /\ arg \in [Threads -> Objects \cup {NoObject}]
      /\ status \in [Objects -> Statuses]
      /\ mayHold \in [Threads -> SUBSET Objects]
      /\ MaxRecords \in Nat
  BY BoundsAssumption DEF IInv, Typed, TypeOK, RecordTypes, LocalTypes, HistoryTypes
<1>b. \A u \in Threads : u # t /\ rec[u] # NoRecord =>
         /\ rec[u] # rec[t] /\ in_use[rec[u]] /\ rec[u] <= records
         /\ rec[u] \in Records
  BY <1>a DEF IInv, OwnersOK, Records, NoRecord
<1> USE DEF shared, locals, history, Goto
<1>1. CASE ReuseRecord(t)
  <2>0. rec[t] = NoRecord /\ nesting[cursor[t]] = 0
    BY <1>1, <1>a DEF ReuseRecord, AfterRecord, Claimable, IInv, Typed, LocalsOK, AnnouncedOK, Records
  <2>1. \A u \in Threads : Pinned(u)' <=> Pinned(u)
    BY <1>1, <1>a, <1>b, <2>0, BoundsAssumption DEF ReuseRecord, AfterRecord, Claimable, Pinned, Records, NoRecord
  <2>2. UNCHANGED <<status, mayHold>>
    BY <1>1 DEF ReuseRecord, AfterRecord, Claimable
  <2> QED
    BY <2>1, <2>2 DEF Contract!vars
<1>2. CASE NewRecord(t)
  <2>0. rec[t] = NoRecord /\ nesting[records + 1] = 0 /\ records + 1 \in Records
    BY <1>2, <1>a DEF NewRecord, AfterRecord, IInv, Typed, LocalsOK, AnnouncedOK, OwnersOK, Records
  <2>1. \A u \in Threads : Pinned(u)' <=> Pinned(u)
    BY <1>2, <1>a, <1>b, <2>0 DEF NewRecord, AfterRecord, Pinned, Records, NoRecord
  <2>2. UNCHANGED <<status, mayHold>>
    BY <1>2 DEF NewRecord, AfterRecord
  <2> QED
    BY <2>1, <2>2 DEF Contract!vars
<1>3. CASE PinFence(t)
  <2>1. /\ ~Pinned(t)
        /\ \A u \in Threads : u # t => (Pinned(u)' <=> Pinned(u))
        /\ Pinned(t)'
    BY <1>3, <1>a, <1>b DEF PinFence, Fenced, Return, IInv, Typed, LocalsOK, AnnouncedOK, BetweenGuards, Pinned, Records, NoRecord
  <2>2. UNCHANGED status /\ mayHold' = [mayHold EXCEPT ![t] = Linked]
    BY <1>3 DEF PinFence, Fenced, Return
  <2>3. Contract!Enter(t)
    BY <2>1, <2>2 DEF Contract!Enter, Linked
  <2> QED
    BY <2>3 DEF Contract!Next
<1>4. CASE RetirePush(t)
  <2>1. \A u \in Threads : Pinned(u)' <=> Pinned(u)
    BY <1>4 DEF RetirePush, Return, Pinned
  <2>2. /\ arg[t] \in Objects /\ status[arg[t]] = "unlinked"
        /\ status' = [status EXCEPT ![arg[t]] = "retired"] /\ mayHold' = mayHold
    BY <1>4 DEF RetirePush, IInv, Typed, LocalsOK, ObjectsOK, Retiring
  <2>3. Contract!Retire(arg[t])
    BY <2>1, <2>2 DEF Contract!Retire, Contract!Becomes
  <2> QED
    BY <2>2, <2>3 DEF Contract!Next
<1>5. CASE ReclaimFree(t)
  <2>1. \A u \in Threads : Pinned(u)' <=> Pinned(u)
    BY <1>5 DEF ReclaimFree, Pinned
  <2>2. Freed(bags[rec[t]][SafeBag(epoch[t])]) /\ mayHold' = mayHold
    BY <1>5 DEF ReclaimFree
  <2>3. OnlyRetiredFreed
    BY <1>5, FreesAreRetired DEF IInv
  <2> QED
    BY <2>1, <2>2, <2>3, FreeingIsFree DEF Contract!Next
<1>6. CASE SyncFree(t)
  <2>1. \A u \in Threads : Pinned(u)' <=> Pinned(u)
    BY <1>6 DEF SyncFree, Pinned
  <2>2. Freed(Garbage(rec[t])) /\ mayHold' = mayHold
    BY <1>6 DEF SyncFree
  <2>3. OnlyRetiredFreed
    BY <1>6, FreesAreRetired DEF IInv
  <2> QED
    BY <2>1, <2>2, <2>3, FreeingIsFree DEF Contract!Next
<1>7. CASE TakeOrphans(t)
  <2>1. \A u \in Threads : Pinned(u)' <=> Pinned(u)
    BY <1>7 DEF TakeOrphans, Return, Pinned
  <2>2. Freed(orphans) /\ mayHold' = mayHold
    BY <1>7 DEF TakeOrphans, Return
  <2>3. OnlyRetiredFreed
    BY <1>7, FreesAreRetired DEF IInv
  <2> QED
    BY <2>1, <2>2, <2>3, FreeingIsFree DEF Contract!Next
<1>8. CASE ExitRelease(t)
  <2>0. ~Pinned(t)
    BY <1>8 DEF ExitRelease, IInv, AnnouncedOK, BetweenGuards
  <2>1. \A u \in Threads : Pinned(u)' <=> Pinned(u)
    BY <1>8, <1>a, <1>b, <2>0 DEF ExitRelease, Pinned, Records, NoRecord
  <2>2. UNCHANGED <<status, mayHold>>
    BY <1>8 DEF ExitRelease
  <2> QED
    BY <2>1, <2>2 DEF Contract!vars
<1>9. CASE EnterNested(t)
  <2>1. \A u \in Threads : Pinned(u)' <=> Pinned(u)
    BY <1>9, <1>a, <1>b DEF EnterNested, May, Pinned, Records, NoRecord
  <2>2. UNCHANGED <<status, mayHold>>
    BY <1>9 DEF EnterNested, May
  <2> QED
    BY <2>1, <2>2 DEF Contract!vars
<1>10. CASE LeaveNested(t)
  <2>1. \A u \in Threads : Pinned(u)' <=> Pinned(u)
    BY <1>10, <1>a, <1>b DEF LeaveNested, Pinned, Records, NoRecord
  <2>2. UNCHANGED <<status, mayHold>>
    BY <1>10 DEF LeaveNested
  <2> QED
    BY <2>1, <2>2 DEF Contract!vars
<1>11. CASE Leave(t)
  <2>1. /\ Pinned(t)
        /\ \A u \in Threads : u # t => (Pinned(u)' <=> Pinned(u))
        /\ ~Pinned(t)'
    BY <1>11, <1>a, <1>b DEF Leave, Pinned, Records, NoRecord
  <2>2. UNCHANGED status /\ mayHold' = [mayHold EXCEPT ![t] = {}]
    BY <1>11 DEF Leave
  <2>3. Contract!Leave(t)
    BY <2>1, <2>2 DEF Contract!Leave
  <2> QED
    BY <2>3 DEF Contract!Next
<1>12. ASSUME NEW o \in Objects, Publish(t, o)
      PROVE  [Contract!Next]_(Contract!vars)
  <2>1. \A u \in Threads : Pinned(u)' <=> Pinned(u)
    BY <1>12 DEF Publish, May, Pinned
  <2>2. Contract!Publish(o)
    BY <1>12, <2>1 DEF Publish, May, Contract!Publish, Contract!Becomes
  <2> QED
    BY <2>2 DEF Contract!Next
<1>13. ASSUME NEW o \in Objects, Unlink(t, o)
      PROVE  [Contract!Next]_(Contract!vars)
  <2>1. \A u \in Threads : Pinned(u)' <=> Pinned(u)
    BY <1>13 DEF Unlink, LocalRecord, AfterRecord, May, Pinned
  <2>2. Contract!Unlink(o)
    BY <1>13, <2>1 DEF Unlink, LocalRecord, AfterRecord, May, Contract!Unlink, Contract!Becomes
  <2> QED
    BY <2>2 DEF Contract!Next
<1>14. CASE FindHead(t) \/ SkipRecord(t) \/ PinLoad(t) \/ PinStore(t) \/
         ExitUnpin(t) \/ RetireLoad(t) \/ RetireReset(t)
         \/ AdvanceLoad(t) \/ AdvanceHead(t) \/ AdvanceScan(t) \/
         AdvanceBlocked(t) \/ AdvanceCas(t) \/ ReclaimLoad(t) \/ Enter(t) \/
         TryReclaim(t) \/ Synchronize(t) \/ Exit(t) \/ ExitHandOver(t)
  <2>1. UNCHANGED <<rec, nesting, status, mayHold>>
    BY <1>14 DEF FindHead, SkipRecord, PinLoad, PinStore, ExitUnpin, RetireLoad, RetireReset, AdvanceLoad,
       AdvanceHead, AdvanceScan, AdvanceBlocked, Return, AdvanceCas,
       LocalRecord, AfterRecord, ReclaimLoad, Enter, May, TryReclaim,
       Synchronize, Exit, ExitHandOver
  <2> QED
    BY <2>1 DEF Pinned, Contract!vars
<1> QED
  BY <1>1, <1>2, <1>3, <1>4, <1>5, <1>6, <1>7, <1>8, <1>9, <1>10, <1>11,
     <1>12, <1>13, <1>14 DEF Step, Begin

\* Without thread exits the domain implements GracePeriod: every object it
\* deletes is one that no reader may hold.
THEOREM DomainImplementsContract ==
  ASSUME NobodyExits
  PROVE  Spec => ContractSpec
<1>1. Init => Contract!Init
  BY DEF Init, Contract!Init, Pinned, NoRecord
<1>2. IInv /\ IInv' /\ NoneDisowned' /\ [Next]_vars => [Contract!Next]_(Contract!vars)
  <2> SUFFICES ASSUME IInv, IInv', disowned' = {}, [Next]_vars
               PROVE  [Contract!Next]_(Contract!vars)
    BY DEF NoneDisowned
  <2>1. CASE UNCHANGED vars
    BY <2>1 DEF vars, shared, locals, history, Contract!vars, Pinned
  <2>2. ASSUME NEW t \in Threads, Step(t) \/ Begin(t)
        PROVE  [Contract!Next]_(Contract!vars)
    BY <2>2, ContractStep
  <2> QED
    BY <2>1, <2>2 DEF Next
<1> QED
  BY <1>1, <1>2, IInvInvariant, NothingDisowned, PTL DEF Spec, ContractSpec, Contract!Spec

-----------------------------------------------------------------------------
(* Announcements last as long as the outermost guard *)

\* While a thread has a guard alive, nothing it does, and nothing another
\* thread does, changes what its record announces.
THEOREM AnnouncementsAreKept == Spec => AnnouncementKept
<1>1. IInv /\ [Next]_vars => [KeepsAnnouncement]_vars
  <2> SUFFICES ASSUME IInv, NEW t \in Threads, Step(t) \/ Begin(t)
               PROVE  KeepsAnnouncement
    BY DEF Next
  <2>a. /\ state \in [Records -> Nat \cup {Unpinned}]
        /\ nesting \in [Records -> Nat]
    BY DEF IInv, Typed, TypeOK, RecordTypes
  <2> USE DEF KeepsAnnouncement, shared, locals, history
  <2>1. CASE PinStore(t)
    BY <2>1, <2>a DEF PinStore, IInv, Typed, LocalsOK, AnnouncedOK, BetweenGuards, Pinned
  <2>2. CASE Leave(t)
    BY <2>2, <2>a DEF Leave
  <2>3. CASE ExitUnpin(t)
    BY <2>3, <2>a DEF ExitUnpin, IInv, Typed, LocalsOK, AnnouncedOK, BetweenGuards, Pinned
  <2>4. CASE state' = state
    BY <2>4
  <2> QED
    BY <2>1, <2>2, <2>3, <2>4 DEF Step, Begin, Goto, FindHead, SkipRecord, ReuseRecord, NewRecord, PinLoad, PinFence, Fenced, RetireLoad, RetirePush, RetireReset, AdvanceLoad, AdvanceHead, AdvanceScan, AdvanceBlocked, AdvanceCas, ReclaimLoad, ReclaimFree, SyncFree, TakeOrphans, ExitRelease, Enter, EnterNested, LeaveNested, Publish, Unlink, TryReclaim, Synchronize, Exit, ExitHandOver
<1> QED
  BY <1>1, IInvInvariant, PTL DEF Spec, AnnouncementKept

-----------------------------------------------------------------------------
(* Garbage is neither lost nor kept twice *)

Stored ==
    \A o \in Objects : status[o] = "retired" =>
        \/ o \in orphans
        \/ \E r \in Records, i \in Ring : o \in bags[r][i]

\* Every step keeps each retired object stored, in orphans_ or in a bag.
LEMMA StoredStep ==
  ASSUME IInv, Stored, NEW t \in Threads, Step(t) \/ Begin(t)
  PROVE  Stored'
<1>a. /\ rec \in [Threads -> 0 .. MaxRecords]
      /\ epoch \in [Threads -> Nat]
      /\ arg \in [Threads -> Objects \cup {NoObject}]
      /\ bags \in [Records -> [Ring -> SUBSET Objects]]
      /\ status \in [Objects -> Statuses]
  BY DEF IInv, Typed, TypeOK, RecordTypes, LocalTypes, HistoryTypes
<1>b. pc[t] \in {"ret_push", "rec_free", "sync_free"} => rec[t] \in Records
  BY <1>a, BoundsAssumption DEF IInv, Typed, LocalsOK, Records, NoRecord
<1>c. BagOf(epoch[t]) \in Ring /\ SafeBag(epoch[t]) \in Ring
  <2>1. epoch[t] \in Nat
    BY <1>a
  <2> QED
    BY <2>1 DEF SafeBag, BagOf, Ring, epoch_ring_size
<1> USE DEF shared, locals, history, Goto
<1>1. CASE RetirePush(t)
  <2>1. /\ orphans' = orphans
        /\ status' = [status EXCEPT ![arg[t]] = "retired"]
        /\ rec[t] \in Records
    BY <1>1, <1>b DEF RetirePush
  <2>2. \A r \in Records, i \in Ring : bags[r][i] \subseteq bags'[r][i]
    BY <1>1, <1>a, <2>1 DEF RetirePush
  <2>3. arg[t] \in bags'[rec[t]][BagOf(epoch[t])]
    BY <1>1, <1>a, <1>c, <2>1 DEF RetirePush
  <2> QED
    BY <1>a, <1>c, <2>1, <2>2, <2>3 DEF Stored
<1>2. CASE ReclaimFree(t)
  <2>1. /\ orphans' = orphans
        /\ \A o \in Objects : status'[o] = "retired" =>
              status[o] = "retired" /\ o \notin bags[rec[t]][SafeBag(epoch[t])]
        /\ rec[t] \in Records
    BY <1>2, <1>b DEF ReclaimFree, Freed
  <2>2. \A r \in Records, i \in Ring :
           bags'[r][i] = bags[r][i] \/ (r = rec[t] /\ i = SafeBag(epoch[t]))
    BY <1>2, <1>a, <1>c, <2>1 DEF ReclaimFree
  <2> QED
    BY <2>1, <2>2 DEF Stored
<1>3. CASE SyncFree(t)
  <2>1. /\ orphans' = orphans
        /\ \A o \in Objects : status'[o] = "retired" =>
              status[o] = "retired" /\ \A i \in Ring : o \notin bags[rec[t]][i]
        /\ rec[t] \in Records
    BY <1>3, <1>b DEF SyncFree, Freed, Garbage
  <2>2. \A r \in Records : bags'[r] = bags[r] \/ r = rec[t]
    BY <1>3, <1>a, <2>1 DEF SyncFree
  <2> QED
    BY <2>1, <2>2 DEF Stored
<1>4. CASE TakeOrphans(t)
  <2>1. /\ bags' = bags
        /\ \A o \in Objects : status'[o] = "retired" =>
              status[o] = "retired" /\ o \notin orphans
    BY <1>4 DEF TakeOrphans, Freed
  <2> QED
    BY <2>1 DEF Stored
<1>5. ASSUME NEW o \in Objects, Publish(t, o)
      PROVE  Stored'
  <2>1. /\ UNCHANGED <<orphans, bags>>
        /\ status' = [status EXCEPT ![o] = "linked"]
    BY <1>5 DEF Publish
  <2> QED
    BY <1>a, <2>1 DEF Stored
<1>6. ASSUME NEW o \in Objects, Unlink(t, o)
      PROVE  Stored'
  <2>1. /\ UNCHANGED <<orphans, bags>>
        /\ status' = [status EXCEPT ![o] = "unlinked"]
    BY <1>6 DEF Unlink
  <2> QED
    BY <1>a, <2>1 DEF Stored
<1>7. CASE ExitHandOver(t)
  <2>1. /\ status' = status
        /\ orphans' = orphans \cup Garbage(rec[t])
        /\ \A r \in Records : bags'[r] = bags[r] \/ r = rec[t]
    BY <1>7, <1>a DEF ExitHandOver
  <2> QED
    BY <2>1 DEF Stored, Garbage
<1>8. CASE FindHead(t) \/ SkipRecord(t) \/ ReuseRecord(t) \/ NewRecord(t) \/ PinLoad(t)
         \/ PinStore(t) \/ PinFence(t) \/ ExitUnpin(t) \/ RetireLoad(t) \/
         RetireReset(t) \/ AdvanceLoad(t)
         \/ AdvanceHead(t) \/ AdvanceScan(t) \/ AdvanceBlocked(t) \/
         AdvanceCas(t) \/ ReclaimLoad(t) \/ ExitRelease(t) \/ Enter(t) \/
         EnterNested(t) \/ LeaveNested(t) \/ Leave(t) \/ TryReclaim(t) \/
         Synchronize(t) \/ Exit(t)
  <2>1. UNCHANGED <<orphans, bags, status>>
    BY <1>8 DEF FindHead, SkipRecord, ReuseRecord, AfterRecord, NewRecord, PinLoad,
       PinStore, PinFence, Fenced, Return, RetireLoad, RetireReset, AdvanceLoad, AdvanceHead,
       AdvanceScan, AdvanceBlocked, AdvanceCas, LocalRecord, ReclaimLoad,
       ExitUnpin, ExitRelease, Enter, May, EnterNested, LeaveNested, Leave, TryReclaim,
       Synchronize, Exit
  <2> QED
    BY <2>1 DEF Stored
<1> QED
  BY <1>1, <1>2, <1>3, <1>4, <1>5, <1>6, <1>7, <1>8 DEF Step, Begin

\* Every retired object is in exactly one place until it is freed, and in none
\* afterwards: no deleter is lost and none can run twice.
THEOREM GarbageIsConserved == Spec => []GarbageConserved
<1>1. Init => Stored
  BY DEF Init, Stored
<1>2. IInv /\ Stored /\ [Next]_vars => Stored'
  <2> SUFFICES ASSUME IInv, Stored, [Next]_vars
               PROVE  Stored'
    OBVIOUS
  <2>1. CASE UNCHANGED vars
    BY <2>1 DEF vars, shared, history, Stored
  <2> QED
    BY <2>1, StoredStep DEF Next
<1>3. IInv /\ Stored => GarbageConserved
  <2> SUFFICES ASSUME IInv, Stored, NEW o \in Objects
               PROVE  Cardinality(Places(o)) = IF status[o] = "retired" THEN 1 ELSE 0
    BY DEF GarbageConserved
  <2>1. \A p \in Places(o) : status[o] = "retired"
    BY DEF IInv, BagsOK, Filed, Apart, Places
  <2>2. \A p, q \in Places(o) : p = q
    <3> SUFFICES ASSUME NEW p \in Places(o), NEW q \in Places(o)
                 PROVE  p = q
      OBVIOUS
    <3>1. CASE o \in orphans
      BY <3>1 DEF Places, IInv, BagsOK, Apart
    <3>2. CASE o \notin orphans
      <4>1. /\ p \in Records \X Ring /\ o \in bags[p[1]][p[2]]
            /\ q \in Records \X Ring /\ o \in bags[q[1]][q[2]]
        BY <3>2 DEF Places
      <4>2. p[1] = q[1] /\ p[2] = q[2]
        BY <4>1 DEF IInv, BagsOK, Disjoint, Filed
      <4> QED
        BY <4>1, <4>2
    <3> QED
      BY <3>1, <3>2
  <2>3. CASE status[o] = "retired"
    <3>1. \E p : p \in Places(o)
      <4>1. CASE o \in orphans
        BY <4>1 DEF Places
      <4>2. CASE \E r \in Records, i \in Ring : o \in bags[r][i]
        <5>1. PICK r \in Records, i \in Ring : o \in bags[r][i]
          BY <4>2
        <5>2. <<r, i>> \in Places(o)
          BY <5>1 DEF Places
        <5> QED
          BY <5>2
      <4> QED
        BY <2>3, <4>1, <4>2 DEF Stored
    <3>2. PICK p : p \in Places(o)
      BY <3>1
    <3>3. Places(o) = {p}
      BY <2>2, <3>2
    <3> QED
      BY <2>3, <3>3, FS_Singleton
  <2>4. CASE status[o] # "retired"
    <3>1. Places(o) = {}
      BY <2>1, <2>4
    <3> QED
      BY <2>4, <3>1, FS_EmptySet
  <2> QED
    BY <2>3, <2>4
<1> QED
  BY <1>1, <1>2, <1>3, IInvInvariant, PTL DEF Spec

-----------------------------------------------------------------------------
(* synchronize() inside the caller's own guard *)

Advancing == {"adv_load", "adv_head", "adv_scan"}

\* How far synchronize() gets behind its caller's own announcement: after one
\* rotation the epoch is past it, and a scan beyond the caller's record began
\* at the announced epoch.
StoppedByOwn(t) ==
    Synchronizing(t) /\ Pinned(t) =>
        /\ pc[t] \in Advancing
        /\ rotation[t] <= 1
        /\ rotation[t] = 1 => state[rec[t]] < global_epoch
        /\ rotation[t] = 1 /\ pc[t] # "adv_load" => state[rec[t]] < epoch[t]
        /\ pc[t] = "adv_scan" /\ cursor[t] < rec[t] => epoch[t] = state[rec[t]]

OwnStop == \A t \in Threads : StoppedByOwn(t)

\* Nothing that thread t does changes the locals, the announcement or the
\* nesting of another thread, or moves the epoch back.
LEMMA OthersUntouched ==
  ASSUME IInv, NEW t \in Threads, Step(t) \/ Begin(t),
         NEW u \in Threads, u # t
  PROVE  /\ pc'[u] = pc[u] /\ call'[u] = call[u] /\ rec'[u] = rec[u]
         /\ epoch'[u] = epoch[u] /\ cursor'[u] = cursor[u]
         /\ rotation'[u] = rotation[u]
         /\ rec[u] # NoRecord =>
                /\ state'[rec[u]] = state[rec[u]]
                /\ nesting'[rec[u]] = nesting[rec[u]]
         /\ global_epoch <= global_epoch'
<1>a. /\ pc \in [Threads -> PCs]
      /\ call \in [Threads -> CallNames \cup {"none"}]
      /\ rec \in [Threads -> 0 .. MaxRecords]
      /\ epoch \in [Threads -> Nat]
      /\ cursor \in [Threads -> 0 .. MaxRecords]
      /\ rotation \in [Threads -> 0 .. Rotations]
      /\ state \in [Records -> Nat \cup {Unpinned}]
      /\ nesting \in [Records -> Nat]
      /\ global_epoch \in Nat
  BY DEF IInv, Typed, TypeOK, RecordTypes, LocalTypes
<1>b. rec[u] # NoRecord => rec[u] # rec[t] /\ in_use[rec[u]]
  BY <1>a, BoundsAssumption DEF IInv, OwnersOK, Records, NoRecord
<1> USE DEF Step, Begin, Goto, shared, locals, history
<1>1. /\ pc'[u] = pc[u] /\ rec'[u] = rec[u]
  BY <1>a DEF FindHead, SkipRecord, ReuseRecord, NewRecord, PinLoad, PinStore,
     PinFence, Fenced, Return, RetireLoad, RetirePush, RetireReset, AdvanceLoad,
     AdvanceHead, AdvanceScan, AdvanceBlocked, AdvanceCas, LocalRecord,
     ReclaimLoad, ReclaimFree, SyncFree, TakeOrphans, ExitUnpin, ExitRelease, Enter,
     EnterNested, LeaveNested, Leave, Publish, Unlink, TryReclaim,
     Synchronize, Exit, ExitHandOver
<1>2. /\ call'[u] = call[u] /\ epoch'[u] = epoch[u]
      /\ cursor'[u] = cursor[u] /\ rotation'[u] = rotation[u]
  BY <1>a DEF FindHead, SkipRecord, ReuseRecord, NewRecord, PinLoad, PinStore,
     PinFence, Fenced, Return, RetireLoad, RetirePush, RetireReset, AdvanceLoad,
     AdvanceHead, AdvanceScan, AdvanceBlocked, AdvanceCas, LocalRecord,
     ReclaimLoad, ReclaimFree, SyncFree, TakeOrphans, ExitUnpin, ExitRelease, Enter,
     EnterNested, LeaveNested, Leave, Publish, Unlink, TryReclaim,
     Synchronize, Exit, ExitHandOver
<1>3. rec[u] # NoRecord =>
         /\ state'[rec[u]] = state[rec[u]]
         /\ nesting'[rec[u]] = nesting[rec[u]]
  <2>1. CASE ReuseRecord(t)
    <3>1. rec[u] # NoRecord => rec[u] # cursor[t]
      BY <1>b, <2>1 DEF ReuseRecord, Claimable
    <3>2. /\ state' = state
          /\ nesting' = [nesting EXCEPT ![cursor[t]] = 0]
      BY <2>1 DEF ReuseRecord
    <3> QED
      BY <1>a, <3>1, <3>2 DEF Records, NoRecord
  <2>2. CASE PinStore(t) \/ PinFence(t) \/ ExitUnpin(t) \/ EnterNested(t)
                \/ LeaveNested(t) \/ Leave(t)
    <3>1. \A r \in Records : r # rec[t] =>
              state'[r] = state[r] /\ nesting'[r] = nesting[r]
      BY <1>a, <2>2 DEF PinStore, PinFence, Fenced, ExitUnpin, EnterNested,
         LeaveNested, Leave
    <3> QED
      BY <1>a, <1>b, <3>1 DEF Records, NoRecord
  <2>3. CASE UNCHANGED <<state, nesting>>
    BY <2>3
  <2> QED
    BY <2>1, <2>2, <2>3 DEF FindHead, SkipRecord, NewRecord, PinLoad,
       RetireLoad, RetirePush, RetireReset, AdvanceLoad, AdvanceHead,
       AdvanceScan, AdvanceBlocked, AdvanceCas, ReclaimLoad, ReclaimFree,
       SyncFree, TakeOrphans, ExitRelease, Enter, Publish, Unlink, TryReclaim, Synchronize,
       Exit, ExitHandOver
<1>4. global_epoch <= global_epoch'
  <2>1. global_epoch' = global_epoch \/ AdvanceCas(t)
    BY DEF FindHead, SkipRecord, ReuseRecord, NewRecord, PinLoad, PinStore,
       PinFence, Fenced, RetireLoad, RetirePush, RetireReset, AdvanceLoad, AdvanceHead,
       AdvanceScan, AdvanceBlocked, ReclaimLoad, ReclaimFree, SyncFree,
       TakeOrphans, ExitUnpin, ExitRelease, Enter, EnterNested, LeaveNested, Leave,
       Publish, Unlink, TryReclaim, Synchronize, Exit, ExitHandOver
  <2>2. AdvanceCas(t) => global_epoch' \in {global_epoch, global_epoch + 1}
    BY DEF AdvanceCas
  <2> QED
    BY <1>a, <2>1, <2>2
<1> QED
  BY <1>1, <1>2, <1>3, <1>4

\* The announcement of the caller keeps stopping the caller, whatever it and
\* the other threads do next.
LEMMA OwnStopStep ==
  ASSUME IInv, OwnStop, NEW t \in Threads, Step(t) \/ Begin(t)
  PROVE  OwnStop'
<1>a. /\ pc \in [Threads -> PCs]
      /\ call \in [Threads -> CallNames \cup {"none"}]
      /\ rec \in [Threads -> 0 .. MaxRecords]
      /\ epoch \in [Threads -> Nat]
      /\ cursor \in [Threads -> 0 .. MaxRecords]
      /\ rotation \in [Threads -> 0 .. Rotations]
      /\ state \in [Records -> Nat \cup {Unpinned}]
      /\ nesting \in [Records -> Nat]
      /\ global_epoch \in Nat
      /\ records \in 0 .. MaxRecords
      /\ MaxRecords \in Nat
  BY BoundsAssumption DEF IInv, Typed, TypeOK, RecordTypes, LocalTypes
<1>1. \A u \in Threads : u # t => StoppedByOwn(u)'
  <2> SUFFICES ASSUME NEW u \in Threads, u # t,
                      Synchronizing(u)', Pinned(u)'
               PROVE  StoppedByOwn(u)'
    BY DEF StoppedByOwn
  <2>1. /\ pc'[u] = pc[u] /\ call'[u] = call[u] /\ rec'[u] = rec[u]
        /\ epoch'[u] = epoch[u] /\ cursor'[u] = cursor[u]
        /\ rotation'[u] = rotation[u]
        /\ rec[u] # NoRecord =>
               /\ state'[rec[u]] = state[rec[u]]
               /\ nesting'[rec[u]] = nesting[rec[u]]
        /\ global_epoch <= global_epoch'
    BY OthersUntouched
  <2>2. rec[u] # NoRecord /\ rec[u] \in Records
    BY <1>a, <2>1 DEF Pinned, Records, NoRecord
  <2>3. Synchronizing(u) /\ Pinned(u)
    BY <2>1, <2>2 DEF Synchronizing, Pinned
  <2>4. /\ pc[u] \in Advancing
        /\ rotation[u] <= 1
        /\ rotation[u] = 1 => state[rec[u]] < global_epoch
        /\ rotation[u] = 1 /\ pc[u] # "adv_load" => state[rec[u]] < epoch[u]
        /\ pc[u] = "adv_scan" /\ cursor[u] < rec[u] => epoch[u] = state[rec[u]]
    BY <2>3 DEF OwnStop, StoppedByOwn
  <2>5. state[rec[u]] < global_epoch => state[rec[u]] < global_epoch'
    <3>1. state[rec[u]] \in Int /\ global_epoch' \in Nat
      BY <1>a, <2>2, TypeStep DEF IInv, Typed, TypeOK, RecordTypes, Unpinned
    <3> QED
      BY <1>a, <2>1, <3>1
  <2> QED
    BY <2>1, <2>2, <2>4, <2>5 DEF StoppedByOwn
<1>2. StoppedByOwn(t)'
  <2> SUFFICES ASSUME Synchronizing(t)', Pinned(t)'
               PROVE  StoppedByOwn(t)'
    BY DEF StoppedByOwn
  <2> USE DEF Synchronizing, Pinned, NoRecord, Goto, shared, locals, history
  <2>r. rec[t] # NoRecord =>
            /\ rec[t] \in Records /\ rec[t] <= records
            /\ state[rec[t]] <= global_epoch
            /\ epoch[t] <= global_epoch
            /\ Pinned(t) => state[rec[t]] \in Nat
    <3>1. rec[t] # NoRecord => rec[t] \in Records
      BY <1>a DEF Records
    <3>2. rec[t] # NoRecord => in_use[rec[t]]
      BY <3>1 DEF IInv, OwnersOK
    <3> QED
      BY <1>a, <3>1, <3>2 DEF IInv, OwnersOK, BoundsOK, AnnouncedOK
  <2>1. CASE Synchronize(t)
    BY <1>a, <2>1, <2>r DEF Synchronize, StoppedByOwn, Advancing
  <2>2. CASE AdvanceLoad(t)
    <3>1. Synchronizing(t) /\ Pinned(t)
      BY <2>2 DEF AdvanceLoad
    <3> QED
      BY <1>a, <2>2, <2>r, <3>1 DEF AdvanceLoad, OwnStop, StoppedByOwn, Advancing
  <2>3. CASE AdvanceHead(t)
    <3>1. Synchronizing(t) /\ Pinned(t)
      BY <2>3 DEF AdvanceHead
    <3> QED
      BY <1>a, <2>3, <2>r, <3>1 DEF AdvanceHead, OwnStop, StoppedByOwn, Advancing
  <2>4. CASE AdvanceScan(t)
    <3>1. Synchronizing(t) /\ Pinned(t)
      BY <2>4 DEF AdvanceScan
    <3>2. cursor[t] = rec[t] => epoch[t] = state[rec[t]]
      BY <1>a, <2>4, <2>r, <3>1 DEF AdvanceScan, Passes, Unpinned
    <3>3. cursor'[t] = cursor[t] - 1
      BY <1>a, <2>4 DEF AdvanceScan
    <3>4. cursor'[t] < rec[t] => epoch[t] = state[rec[t]]
      BY <1>a, <2>4, <3>1, <3>2, <3>3 DEF AdvanceScan, OwnStop, StoppedByOwn
    <3> QED
      BY <2>4, <3>1, <3>4 DEF AdvanceScan, OwnStop, StoppedByOwn, Advancing
  <2>5. CASE AdvanceBlocked(t)
    <3>1. Synchronizing(t) /\ Pinned(t)
      BY <1>a, <2>5 DEF AdvanceBlocked, Return
    <3>2. /\ pc'[t] = "adv_load"
          /\ UNCHANGED <<rotation, state, rec, global_epoch, cursor, epoch>>
      BY <1>a, <2>5, <3>1 DEF AdvanceBlocked, Return
    <3> QED
      BY <3>1, <3>2 DEF OwnStop, StoppedByOwn, Advancing
  <2>6. CASE AdvanceCas(t)
    <3>1. Synchronizing(t) /\ Pinned(t)
      BY <2>6 DEF AdvanceCas
    <3>2. rec[t] \in Records /\ state[rec[t]] \in Nat /\ epoch[t] \in Nat
      BY <1>a, <2>r, <3>1
    <3>s. /\ pc[t] = "adv_scan" /\ cursor[t] < rec[t]
          /\ StoppedByOwn(t)
      BY <1>a, <2>6, <3>2 DEF AdvanceCas, Records, OwnStop
    <3>3. epoch[t] = state[rec[t]]
      BY <3>1, <3>s DEF StoppedByOwn
    <3>4. rotation[t] = 0
      <4>1. rotation[t] # 1 /\ rotation[t] <= 1
        BY <3>1, <3>2, <3>3, <3>s DEF StoppedByOwn
      <4> QED
        BY <1>a, <4>1 DEF Rotations, epoch_ring_size
    <3>5. rotation'[t] = 1 /\ pc'[t] = "adv_load"
      BY <1>a, <2>6, <3>1, <3>4 DEF AdvanceCas, Rotations, epoch_ring_size
    <3>6. state[rec[t]] < global_epoch'
      BY <1>a, <2>6, <2>r, <3>1, <3>2, <3>3 DEF AdvanceCas
    <3> QED
      BY <2>6, <3>5, <3>6 DEF AdvanceCas, StoppedByOwn, Advancing
  <2>7. CASE ReuseRecord(t)
    <3>1. nesting'[rec'[t]] = 0
      BY <1>a, <2>7 DEF ReuseRecord, Records
    <3> QED
      BY <3>1
  <2>8. CASE NewRecord(t)
    <3>1. nesting'[rec'[t]] = 0
      BY <1>a, <2>8 DEF NewRecord, Records, IInv, OwnersOK, AnnouncedOK
    <3> QED
      BY <3>1
  <2>9. CASE FindHead(t) \/ SkipRecord(t)
    BY <1>a, <2>9 DEF FindHead, SkipRecord, IInv, Typed, LocalsOK
  <2>10. CASE SyncFree(t)
    <3>1. Synchronizing(t) /\ Pinned(t) /\ pc[t] = "sync_free"
      BY <2>10 DEF SyncFree, IInv, Typed, LocalsOK
    <3> QED
      BY <3>1 DEF OwnStop, StoppedByOwn, Advancing
  <2>11. CASE RetirePush(t) \/ RetireReset(t) \/ PinFence(t) \/ TakeOrphans(t)
    BY <1>a, <2>11 DEF RetirePush, Return, RetireReset, PinFence, Fenced,
       TakeOrphans, IInv, Typed, LocalsOK, OwnStop, StoppedByOwn, Advancing
  <2>12. CASE PinLoad(t) \/ RetireLoad(t) \/ ReclaimLoad(t) \/ ReclaimFree(t)
    <3>1. Synchronizing(t) /\ Pinned(t) /\ pc[t] \notin Advancing
      BY <2>12 DEF PinLoad, RetireLoad, ReclaimLoad, ReclaimFree, Advancing
    <3> QED
      BY <3>1 DEF OwnStop, StoppedByOwn
  <2>13. CASE ExitRelease(t)
    BY <1>a, <2>13 DEF ExitRelease
  <2>15. CASE PinStore(t) \/ ExitUnpin(t)
    <3>1. pc[t] \in BetweenGuards /\ UNCHANGED <<rec, nesting>>
      BY <2>15 DEF PinStore, ExitUnpin, BetweenGuards
    <3> QED
      BY <3>1 DEF IInv, AnnouncedOK
  <2>14. CASE Begin(t) /\ ~Synchronize(t)
    <3>1. pc[t] = "idle"
      BY <2>14 DEF Begin, Enter, EnterNested, LeaveNested, Leave, Publish,
         Unlink, TryReclaim, Exit, ExitHandOver, May
    <3>2. call'[t] # "sync" \/ pc'[t] = "idle" \/ (pc'[t] = "dead" /\ ~Pinned(t)')
          \/ ~Pinned(t)'
      BY <1>a, <2>14, <3>1 DEF Begin, Enter, EnterNested, LeaveNested, Leave,
         Publish, Unlink, TryReclaim, Exit, ExitHandOver, May
    <3> QED
      BY <3>2
  <2> QED
    BY <2>1, <2>2, <2>3, <2>4, <2>5, <2>6, <2>7, <2>8, <2>9, <2>10, <2>11,
       <2>12, <2>13, <2>14, <2>15 DEF Step
<1> QED
  BY <1>1, <1>2 DEF OwnStop

\* Inside its own guard synchronize() never gets as far as freeing anything: a
\* thread that calls it there waits for itself, but keeps its guard's promise.
THEOREM OwnGuardKeepsGarbage == Spec => []OwnGuardStopsSynchronize
<1>1. Init => OwnStop
  BY DEF Init, OwnStop, StoppedByOwn, Synchronizing
<1>2. IInv /\ OwnStop /\ [Next]_vars => OwnStop'
  <2> SUFFICES ASSUME IInv, OwnStop, [Next]_vars
               PROVE  OwnStop'
    OBVIOUS
  <2>1. CASE UNCHANGED vars
    BY <2>1 DEF vars, shared, locals, history, OwnStop, StoppedByOwn,
       Synchronizing, Pinned
  <2> QED
    BY <2>1, OwnStopStep DEF Next
<1>3. OwnStop => OwnGuardStopsSynchronize
  BY DEF OwnStop, StoppedByOwn, OwnGuardStopsSynchronize, Advancing
<1> QED
  BY <1>1, <1>2, <1>3, IInvInvariant, PTL DEF Spec

-----------------------------------------------------------------------------
(* Store buffers: what an exchange unlinks stays safe *)

\* The objects that a read-modify-write unlinks.
Exchanged == Objects \ StoredOver

\* What the machine with store buffers keeps of IInv: the part about readers
\* holds of the exchanged objects only, since a reader that announces itself late
\* still finds what a buffered store is about to unlink.
BufferInv ==
    /\ Typed /\ BoundsOK /\ OwnersOK /\ AnnouncedOK
    /\ ObjectsOK /\ BagsOK /\ ReclaimOK
    /\ ReadersOK(Exchanged) /\ Unheld(Exchanged)
    /\ buffered \in [Threads -> SUBSET StoredOver]
    /\ StillVisible \subseteq Objects

\* Past the fence a new guard keeps the invariant of the domain whatever the guard's first
\* loads find, and what it says of the readers of S if those loads find of S only
\* what is linked.
LEMMA FencedStep ==
  ASSUME Typed, BoundsOK, OwnersOK, AnnouncedOK, ObjectsOK, BagsOK, ReclaimOK,
         NEW S, ReadersOK(S), Unheld(S),
         NEW t \in Threads, NEW visible \in SUBSET Objects,
         visible \cap S \subseteq Linked, Fenced(t, visible)
  PROVE  /\ Typed' /\ BoundsOK' /\ OwnersOK' /\ AnnouncedOK'
         /\ ObjectsOK' /\ BagsOK' /\ ReclaimOK'
         /\ ReadersOK(S)' /\ Unheld(S)'
<1>a. /\ pc \in [Threads -> PCs]
      /\ call \in [Threads -> CallNames \cup {"none"}]
      /\ in_use \in [Records -> BOOLEAN]
      /\ rec \in [Threads -> 0 .. MaxRecords]
      /\ nesting \in [Records -> Nat]
      /\ state \in [Records -> Nat \cup {Unpinned}]
      /\ epoch \in [Threads -> Nat]
      /\ cursor \in [Threads -> 0 .. MaxRecords]
      /\ mayHold \in [Threads -> SUBSET Objects]
      /\ records \in 0 .. MaxRecords
      /\ MaxRecords \in Nat
  BY BoundsAssumption DEF Typed, TypeOK, RecordTypes, LocalTypes, HistoryTypes
<1>b. /\ rec[t] \in Records /\ pc[t] = "pin_fence" /\ ~Pinned(t)
      /\ in_use[rec[t]] /\ rec[t] <= records /\ state[rec[t]] # Unpinned
  <2>1. rec[t] \in Records /\ pc[t] = "pin_fence"
    BY <1>a DEF Fenced, Typed, LocalsOK, Records, NoRecord
  <2>2. ~Pinned(t) /\ in_use[rec[t]] /\ state[rec[t]] # Unpinned
    BY <2>1 DEF AnnouncedOK, BetweenGuards, OwnersOK
  <2> QED
    BY <1>a, <2>1, <2>2 DEF OwnersOK, Records
<1>c. \A u \in Threads : u # t /\ rec[u] # NoRecord =>
         rec[u] # rec[t] /\ rec[u] \in Records
  BY <1>a DEF OwnersOK, Records, NoRecord
<1>d. /\ nesting' = [nesting EXCEPT ![rec[t]] = @ + 1]
      /\ mayHold' = [mayHold EXCEPT ![t] = visible]
      /\ pc' = [pc EXCEPT ![t] = "idle"]
      /\ call' = [call EXCEPT ![t] = "none"]
      /\ epoch' = [epoch EXCEPT ![t] = 0]
      /\ cursor' = [cursor EXCEPT ![t] = 0]
      /\ rotation' = [rotation EXCEPT ![t] = 0]
      /\ UNCHANGED <<global_epoch, records, in_use, state, bags, orphans,
                     since_attempt, rec, arg, status, tag, disowned>>
  BY DEF Fenced, Return, Goto
<1>1. Typed'
  <2> USE <1>d DEF Typed, TypeOK
  <2>1. RecordTypes' /\ HistoryTypes'
    BY <1>a, <1>b DEF RecordTypes, HistoryTypes
  <2>2. LocalTypes'
    BY <1>a DEF LocalTypes, PCs, Rotations, epoch_ring_size
  <2>3. \A u \in Threads : LocalsOK(u)'
    BY <1>a DEF LocalsOK
  <2> QED
    BY <2>1, <2>2, <2>3
<1>2. BoundsOK'
  BY <1>a, <1>b, <1>d DEF BoundsOK, Typed, TypeOK, RecordTypes, Records
<1>3. OwnersOK'
  BY <1>d DEF OwnersOK
<1>4. AnnouncedOK'
  <2>1. \A r \in Records :
           /\ nesting'[r] > 0 => state'[r] # Unpinned
           /\ ~in_use'[r] => nesting'[r] = 0 /\ state'[r] = Unpinned
    BY <1>a, <1>b, <1>d DEF AnnouncedOK, Unpinned
  <2>2. \A u \in Threads : u # t => Pinned(u)' = Pinned(u)
    BY <1>a, <1>b, <1>c, <1>d DEF Pinned
  <2>3. Pinned(t)'
    BY <1>a, <1>b, <1>d DEF Pinned, Records, NoRecord
  <2> QED
    BY <1>a, <1>d, <2>1, <2>2, <2>3 DEF AnnouncedOK, BetweenGuards
<1>5. ObjectsOK'
  BY <1>a, <1>d DEF ObjectsOK, Retiring
<1>6. BagsOK'
  BY <1>a, <1>d DEF BagsOK, Filed, Disjoint, Apart, EmptyWhenFree, Exiting
<1>7. ReclaimOK'
  BY <1>a, <1>d DEF ReclaimOK
<1>8. ReadersOK(S)'
  <2>1. \A o \in visible \cap S : tag[o] = NoTag
    BY DEF ObjectsOK, Linked
  <2>2. \A u \in Threads : mayHold[u] # {} => rec[u] # NoRecord
    BY DEF AnnouncedOK, Pinned
  <2>3. \A u \in Threads : \A o \in mayHold'[u] : o \in S /\ tag[o] # NoTag =>
           u # t /\ o \in mayHold[u] /\ state'[rec[u]] = state[rec[u]]
    BY <1>a, <1>b, <1>c, <1>d, <2>1, <2>2
  <2>4. \A u \in Threads : pc'[u] = "adv_scan" =>
           pc[u] = "adv_scan" /\ cursor'[u] = cursor[u] /\ epoch'[u] = epoch[u]
    BY <1>a, <1>d
  <2> QED
    BY <1>d, <2>3, <2>4 DEF ReadersOK
<1>9. Unheld(S)'
  BY <1>a, <1>d DEF Unheld, Linked
<1> QED
  BY <1>1, <1>2, <1>3, <1>4, <1>5, <1>6, <1>7, <1>8, <1>9

\* A store that waits in a buffer, a fence and a guard that loads what memory says
\* keep what BufferInv says of the exchanged objects.
LEMMA BufferStep == BufferInv /\ [BufferNext]_bufferVars => BufferInv'
<1> SUFFICES ASSUME BufferInv, [BufferNext]_bufferVars
             PROVE  BufferInv'
  OBVIOUS
<1>1. ASSUME UNCHANGED vars, buffered' \in [Threads -> SUBSET StoredOver],
             StillVisible' \subseteq Objects
      PROVE  BufferInv'
  <2> USE <1>1 DEF vars, shared, locals, history
  <2>1. Typed'
    BY DEF BufferInv, Typed, TypeOK, RecordTypes, LocalTypes, HistoryTypes, LocalsOK
  <2>2. BoundsOK' /\ OwnersOK'
    BY DEF BufferInv, BoundsOK, OwnersOK
  <2>3. AnnouncedOK'
    BY DEF BufferInv, AnnouncedOK, Pinned
  <2>4. ObjectsOK'
    BY DEF BufferInv, ObjectsOK, Retiring
  <2>5. BagsOK'
    <3>1. Filed' /\ Disjoint'
      BY DEF BufferInv, BagsOK, Filed, Disjoint
    <3>2. Apart' /\ EmptyWhenFree'
      BY DEF BufferInv, BagsOK, Apart, EmptyWhenFree, Exiting
    <3> QED
      BY <3>1, <3>2 DEF BagsOK
  <2>6. ReclaimOK'
    BY DEF BufferInv, ReclaimOK
  <2>7. ReadersOK(Exchanged)' /\ Unheld(Exchanged)'
    BY DEF BufferInv, ReadersOK, Unheld
  <2> QED
    BY <2>1, <2>2, <2>3, <2>4, <2>5, <2>6, <2>7 DEF BufferInv
<1>2. ASSUME NEW t \in Threads, Step(t) \/ Begin(t),
             buffered' \in [Threads -> SUBSET StoredOver],
             StillVisible' \subseteq Objects
      PROVE  BufferInv'
  <2>1. Typed' /\ BoundsOK' /\ OwnersOK' /\ AnnouncedOK'
    BY <1>2, TypeStep, LocalsStep, BoundsStep, OwnersStep, AnnouncedStep
       DEF BufferInv, Typed
  <2>2. ObjectsOK' /\ BagsOK' /\ ReclaimOK'
    BY <1>2, ObjectsStep, BagsStep, ReclaimStep DEF BufferInv
  <2>3. ReadersOK(Exchanged)' /\ Unheld(Exchanged)'
    BY <1>2, ReadersStep, FreedStep DEF BufferInv
  <2> QED
    BY <1>2, <2>1, <2>2, <2>3 DEF BufferInv
<1>3. CASE UNCHANGED bufferVars
  BY <1>1, <1>3 DEF bufferVars, BufferInv, StillVisible
<1>4. ASSUME NEW t \in Threads, Drain(t)
      PROVE  BufferInv'
  BY <1>1, <1>4 DEF Drain, BufferInv, StillVisible
<1>5. ASSUME NEW t \in Threads, NEW o \in Objects, UnlinkStore(t, o)
      PROVE  BufferInv'
  <2>1. buffered' \in [Threads -> SUBSET StoredOver] /\ StillVisible' \subseteq Objects
    BY <1>5 DEF UnlinkStore, BufferInv, StillVisible
  <2>2. Begin(t)
    BY <1>5 DEF UnlinkStore, Begin
  <2> QED
    BY <1>2, <2>1, <2>2
<1>6. ASSUME NEW t \in Threads, NEW o \in Objects, UnlinkExchange(t, o)
      PROVE  BufferInv'
  <2>1. Begin(t) /\ UNCHANGED buffered
    BY <1>6 DEF UnlinkExchange, Begin
  <2> QED
    BY <1>2, <2>1 DEF BufferInv, StillVisible
<1>7. ASSUME NEW t \in Threads, Plain(t) \/ Locked(t), UNCHANGED buffered
      PROVE  BufferInv'
  <2>1. Step(t) \/ Begin(t)
    BY <1>7 DEF Plain, Locked, Step, Begin
  <2> QED
    BY <1>2, <1>7, <2>1 DEF BufferInv, StillVisible
<1>9. ASSUME NEW t \in Threads, PinDrained(t)
      PROVE  BufferInv'
  <2>1. Step(t) /\ UNCHANGED buffered
    BY <1>9 DEF PinDrained, Step
  <2> QED
    BY <1>2, <2>1 DEF BufferInv, StillVisible
<1>8. ASSUME NEW t \in Threads, PinOpened(t)
      PROVE  BufferInv'
  <2> DEFINE visible == Linked \cup StillVisible
  <2>1. visible \in SUBSET Objects
    BY DEF BufferInv, Linked
  <2>2. visible \cap Exchanged \subseteq Linked
    BY DEF BufferInv, StillVisible, Exchanged
  <2>3. Fenced(t, visible) /\ UNCHANGED buffered
    BY <1>8 DEF PinOpened
  <2> HIDE DEF visible
  <2>4. /\ Typed' /\ BoundsOK' /\ OwnersOK' /\ AnnouncedOK'
        /\ ObjectsOK' /\ BagsOK' /\ ReclaimOK'
        /\ ReadersOK(Exchanged)' /\ Unheld(Exchanged)'
    BY <2>1, <2>2, <2>3, FencedStep DEF BufferInv
  <2> QED
    BY <2>3, <2>4 DEF BufferInv, StillVisible
<1> QED
  BY <1>3, <1>4, <1>5, <1>6, <1>7, <1>8, <1>9 DEF BufferNext

\* What is left of GraceCoversUnlink with store buffers: an object that is
\* unlinked by an exchange (a replaced value, the root of a cleared table) is not
\* deleted while a reader may hold it, unless the exit of a thread handed it over.
ExchangesCovered ==
    \A t \in Threads : \A o \in mayHold[t] :
        status[o] = "freed" => o \in StoredOver \/ o \in disowned

\* Only an object that a plain store unlinks, or that the exit of a thread hands
\* over, can be deleted under a reader on a machine with store buffers.
THEOREM ExchangesAreCovered == BufferSpec => []ExchangesCovered
<1>1. BufferInit => BufferInv
  <2> SUFFICES ASSUME BufferInit
               PROVE  BufferInv
    OBVIOUS
  <2>1. IInv
    BY IInvInit DEF BufferInit
  <2>2. ReadersOK(Exchanged) /\ Unheld(Exchanged)
    BY DEF BufferInit, Init, ReadersOK, Unheld
  <2> QED
    BY <2>1, <2>2 DEF IInv, BufferInv, BufferInit, StillVisible
<1>2. BufferInv => ExchangesCovered
  BY DEF BufferInv, Typed, TypeOK, HistoryTypes, Unheld, Exchanged, ExchangesCovered
<1> QED
  BY <1>1, <1>2, BufferStep, PTL DEF BufferSpec

-----------------------------------------------------------------------------
(* What synchronize() frees *)

SyncPlaces == Advancing \cup {"find", "reuse", "sync_free", "orphans"}

\* A thread whose call is synchronize() is inside it.
SyncCalls == \A t \in Threads : call[t] = "sync" => pc[t] \in SyncPlaces

\* Where a running synchronize() of thread t still finds an object that was in its
\* reach: another reclaimer may have taken the orphans first.
Pending(t, o) ==
    /\ call[t] = "sync"
    /\ o \in orphans \/ (pc[t] # "orphans" /\ o \in InReach(t))

PromiseKept ==
    \A t \in Threads : \A o \in before[t].reach :
        o \in Objects /\ (status[o] = "freed" \/ Pending(t, o))

\* Every step leaves the calls to synchronize() where their program counters say.
LEMMA SyncCallsStep ==
  ASSUME IInv, SyncCalls, NEW t \in Threads, Step(t) \/ Begin(t)
  PROVE  SyncCalls'
<1>a. /\ pc \in [Threads -> PCs]
      /\ call \in [Threads -> CallNames \cup {"none"}]
  BY DEF IInv, Typed, TypeOK, LocalTypes
<1>1. \A u \in Threads : u # t => pc'[u] = pc[u] /\ call'[u] = call[u]
  BY OthersUntouched
<1>2. call'[t] = "sync" => pc'[t] \in SyncPlaces
  <2> USE <1>a DEF SyncPlaces, Advancing, SyncCalls, Goto, LocalRecord, AfterRecord,
         Return, May, shared, locals, history
  <2>1. CASE FindHead(t) \/ SkipRecord(t) \/ ReuseRecord(t) \/ NewRecord(t)
    BY <2>1 DEF FindHead, SkipRecord, ReuseRecord, NewRecord
  <2>2. CASE PinLoad(t) \/ PinStore(t) \/ PinFence(t)
    BY <2>2 DEF PinLoad, PinStore, PinFence, Fenced
  <2>3. CASE RetireLoad(t) \/ RetirePush(t) \/ RetireReset(t)
    BY <2>3 DEF RetireLoad, RetirePush, RetireReset
  <2>4. CASE AdvanceLoad(t) \/ AdvanceHead(t) \/ AdvanceScan(t)
             \/ AdvanceBlocked(t) \/ AdvanceCas(t)
    BY <2>4 DEF AdvanceLoad, AdvanceHead, AdvanceScan, AdvanceBlocked, AdvanceCas
  <2>5. CASE ReclaimLoad(t) \/ ReclaimFree(t) \/ SyncFree(t) \/ TakeOrphans(t)
             \/ ExitUnpin(t) \/ ExitRelease(t)
    BY <2>5 DEF ReclaimLoad, ReclaimFree, SyncFree, TakeOrphans, ExitUnpin, ExitRelease
  <2>6. CASE Begin(t)
    BY <2>6 DEF Begin, Enter, EnterNested, LeaveNested, Leave, Publish, Unlink,
       TryReclaim, Synchronize, Exit, ExitHandOver
  <2> QED
    BY <2>1, <2>2, <2>3, <2>4, <2>5, <2>6 DEF Step
<1> QED
  BY <1>1, <1>2 DEF SyncCalls

\* Once freed, an object is not used by the domain again.
LEMMA FreedForGood ==
  ASSUME IInv, NEW t \in Threads, Step(t) \/ Begin(t),
         NEW o \in Objects, status[o] = "freed"
  PROVE  status'[o] = "freed"
<1>a. status \in [Objects -> Statuses]
  BY DEF IInv, Typed, TypeOK, HistoryTypes
<1>1. CASE RetirePush(t)
  <2>1. status[arg[t]] = "unlinked"
    BY <1>1 DEF RetirePush, IInv, ObjectsOK, Retiring
  <2> QED
    BY <1>1, <1>a, <2>1 DEF RetirePush
<1>2. CASE ReclaimFree(t) \/ SyncFree(t) \/ TakeOrphans(t)
  BY <1>2, FreesAreRetired DEF IInv, OnlyRetiredFreed
<1>3. CASE \E p \in Objects : Publish(t, p) \/ Unlink(t, p)
  BY <1>3, <1>a DEF Publish, Unlink
<1>4. CASE UNCHANGED status
  BY <1>4
<1> QED
  BY <1>1, <1>2, <1>3, <1>4 DEF Step, Begin, history, FindHead, SkipRecord,
     ReuseRecord, NewRecord, PinLoad, PinStore, PinFence, Fenced, RetireLoad,
     RetireReset, AdvanceLoad, AdvanceHead, AdvanceScan, AdvanceBlocked, AdvanceCas,
     ReclaimLoad, ExitUnpin, ExitRelease, Enter, EnterNested, LeaveNested, Leave,
     TryReclaim, Synchronize, Exit, ExitHandOver

\* A step leaves what another thread's record keeps alone, and it takes nothing out
\* of orphans_ without freeing it.
LEMMA ReachStep ==
  ASSUME IInv, NEW t \in Threads, Step(t) \/ Begin(t)
  PROVE  /\ \A u \in Threads : u # t /\ rec[u] # NoRecord =>
               Garbage(rec[u])' = Garbage(rec[u])
         /\ \A o \in orphans : o \in orphans' \/ status'[o] = "freed"
<1>a. /\ rec \in [Threads -> 0 .. MaxRecords]
      /\ bags \in [Records -> [Ring -> SUBSET Objects]]
      /\ orphans \in SUBSET Objects
  BY DEF IInv, Typed, TypeOK, RecordTypes, LocalTypes
<1>1. \A u \in Threads : u # t /\ rec[u] # NoRecord => rec[u] # rec[t]
  BY <1>a, BoundsAssumption DEF IInv, OwnersOK, Records, NoRecord
<1>2. \A u \in Threads : u # t => rec'[u] = rec[u]
  BY OthersUntouched
<1> USE DEF Step, Begin, shared, locals, history
<1>3. \A r \in Records : r # rec[t] => bags'[r] = bags[r]
  BY <1>a DEF FindHead, SkipRecord,
     ReuseRecord, NewRecord, PinLoad, PinStore, PinFence, Fenced, RetireLoad, RetirePush,
     RetireReset, AdvanceLoad, AdvanceHead, AdvanceScan, AdvanceBlocked, AdvanceCas,
     ReclaimLoad, ReclaimFree, SyncFree, TakeOrphans, ExitUnpin, ExitRelease, Enter,
     EnterNested, LeaveNested, Leave, Publish, Unlink, TryReclaim, Synchronize, Exit,
     ExitHandOver
<1>4. \A u \in Threads : u # t /\ rec[u] # NoRecord => Garbage(rec[u])' = Garbage(rec[u])
  <2> SUFFICES ASSUME NEW u \in Threads, u # t, rec[u] # NoRecord
               PROVE  Garbage(rec[u])' = Garbage(rec[u])
    OBVIOUS
  <2>1. rec[u] \in Records /\ rec[u] # rec[t] /\ rec'[u] = rec[u]
    BY <1>a, <1>1, <1>2, BoundsAssumption DEF Records, NoRecord
  <2>2. bags'[rec[u]] = bags[rec[u]]
    BY <1>3, <2>1
  <2> QED
    BY <2>1, <2>2 DEF Garbage
<1>5. \A o \in orphans : o \in orphans' \/ status'[o] = "freed"
  <2>1. CASE TakeOrphans(t)
    BY <2>1, <1>a DEF TakeOrphans, Freed
  <2>2. CASE orphans \subseteq orphans'
    BY <2>2
  <2> QED
    BY <2>1, <2>2 DEF FindHead, SkipRecord,
       ReuseRecord, NewRecord, PinLoad, PinStore, PinFence, Fenced, RetireLoad, RetirePush,
       RetireReset, AdvanceLoad, AdvanceHead, AdvanceScan, AdvanceBlocked, AdvanceCas,
       ReclaimLoad, ReclaimFree, SyncFree, ExitUnpin, ExitRelease, Enter,
       EnterNested, LeaveNested, Leave, Publish, Unlink, TryReclaim, Synchronize, Exit,
       ExitHandOver
<1> QED
  BY <1>4, <1>5

\* What is pending for a call is freed by the time the call returns.
LEMMA PendingStep ==
  ASSUME IInv, SyncCalls, NEW t \in Threads, Step(t) \/ Begin(t),
         NEW u \in Threads, NEW o \in Objects, Pending(u, o)
  PROVE  Pending(u, o)' \/ status'[o] = "freed"
<1>a. /\ pc \in [Threads -> PCs]
      /\ call \in [Threads -> CallNames \cup {"none"}]
      /\ rec \in [Threads -> 0 .. MaxRecords]
      /\ bags \in [Records -> [Ring -> SUBSET Objects]]
      /\ \A v \in Threads : LocalsOK(v)
  BY DEF IInv, Typed, TypeOK, RecordTypes, LocalTypes
<1>1. CASE u # t
  <2>1. pc'[u] = pc[u] /\ call'[u] = call[u] /\ rec'[u] = rec[u]
    BY <1>1, OthersUntouched
  <2> QED
    BY <1>1, <2>1, ReachStep DEF Pending, InReach
<1>2. CASE u = t
  <2>1. call[t] = "sync" /\ pc[t] \in SyncPlaces
    BY <1>2 DEF Pending, SyncCalls
  <2>2. CASE TakeOrphans(t)
    <3>1. o \in orphans
      BY <1>2, <2>2 DEF TakeOrphans, Pending
    <3> QED
      BY <2>2, <3>1 DEF TakeOrphans, Freed
  <2>3. CASE SyncFree(t)
    <3>1. o \in Garbage(rec[t]) => status'[o] = "freed"
      BY <2>3 DEF SyncFree, Freed
    <3>2. orphans' = orphans /\ call' = call
      BY <2>3 DEF SyncFree
    <3> QED
      BY <1>2, <3>1, <3>2 DEF Pending, InReach
  <2>4. CASE FindHead(t) \/ SkipRecord(t) \/ ReuseRecord(t) \/ NewRecord(t)
    <3>1. rec[t] = NoRecord
      BY <1>a, <2>4 DEF LocalsOK, FindHead, SkipRecord, ReuseRecord, NewRecord
    <3>2. o \in orphans
      BY <1>2, <3>1 DEF Pending, InReach
    <3>3. orphans' = orphans /\ call' = call
      BY <2>4 DEF FindHead, SkipRecord, ReuseRecord, NewRecord, shared
    <3> QED
      BY <1>2, <2>1, <3>2, <3>3 DEF Pending
  <2>5. CASE AdvanceLoad(t) \/ AdvanceHead(t) \/ AdvanceScan(t)
             \/ AdvanceBlocked(t) \/ AdvanceCas(t)
    <3>1. /\ orphans' = orphans /\ bags' = bags /\ rec' = rec
          /\ call'[t] = "sync" /\ pc'[t] # "orphans"
      BY <1>a, <2>1, <2>5 DEF AdvanceLoad, AdvanceHead, AdvanceScan, AdvanceBlocked,
         AdvanceCas, Return, Goto, LocalRecord, AfterRecord, shared
    <3>2. Garbage(rec[t])' = Garbage(rec[t])
      BY <3>1 DEF Garbage
    <3> QED
      BY <1>2, <3>1, <3>2 DEF Pending, InReach
  <2> QED
    BY <2>1, <2>2, <2>3, <2>4, <2>5 DEF Step, Begin, SyncPlaces, Advancing, May,
       PinLoad, PinStore, PinFence, Fenced, RetireLoad, RetirePush, RetireReset,
       ReclaimLoad, ReclaimFree, ExitUnpin, ExitRelease, Enter, EnterNested,
       LeaveNested, Leave, Publish, Unlink, TryReclaim, Synchronize, Exit,
       ExitHandOver
<1> QED
  BY <1>1, <1>2

\* What is in reach when a call begins is pending from then on.
LEMMA BeginStep ==
  ASSUME IInv, SyncCalls, NEW t \in Threads, Step(t) \/ Begin(t),
         NEW u \in Threads, BeginsSynchronize(u), NEW o \in InReach(u)
  PROVE  o \in Objects /\ Pending(u, o)'
<1>a. /\ pc \in [Threads -> PCs]
      /\ call \in [Threads -> CallNames \cup {"none"}]
      /\ rec \in [Threads -> 0 .. MaxRecords]
      /\ bags \in [Records -> [Ring -> SUBSET Objects]]
      /\ orphans \in SUBSET Objects
  BY DEF IInv, Typed, TypeOK, RecordTypes, LocalTypes
<1>1. u = t
  BY OthersUntouched DEF BeginsSynchronize, Synchronizing
<1>2. call[t] # "sync"
  BY <1>1 DEF BeginsSynchronize, Synchronizing, SyncCalls, SyncPlaces, Advancing
<1>3. Synchronize(t)
  <2>1. call'[t] = "sync"
    BY <1>1 DEF BeginsSynchronize, Synchronizing
  <2> QED
    BY <1>a, <1>2, <2>1 DEF Step, Begin, Return, shared, locals, history, FindHead,
       SkipRecord, ReuseRecord, NewRecord, PinLoad, PinStore, PinFence, Fenced,
       RetireLoad, RetirePush, RetireReset, AdvanceLoad, AdvanceHead, AdvanceScan,
       AdvanceBlocked, AdvanceCas, ReclaimLoad, ReclaimFree, SyncFree, TakeOrphans,
       ExitUnpin, ExitRelease, Enter, EnterNested, LeaveNested, Leave, Publish,
       Unlink, TryReclaim, Exit, ExitHandOver
<1>4. /\ orphans' = orphans /\ bags' = bags /\ rec' = rec
      /\ call'[t] = "sync" /\ pc'[t] # "orphans"
  BY <1>3, <1>a DEF Synchronize, Goto, shared
<1>5. InReach(t)' = InReach(t)
  BY <1>4 DEF InReach, Garbage
<1>6. o \in Objects
  BY <1>1, <1>a, BoundsAssumption DEF InReach, Garbage, Records, NoRecord
<1> QED
  BY <1>1, <1>4, <1>5, <1>6 DEF Pending

\* synchronize() frees all that its caller had retired before the call and all that
\* threads which had exited before it had left in orphans_.
THEOREM SynchronizeFrees == PromiseSpec => []SynchronizeFreesOwn
<1> DEFINE PInv == IInv /\ SyncCalls /\ PromiseKept
<1>1. PromiseInit => PInv
  BY IInvInit DEF PromiseInit, Init, SyncCalls, PromiseKept, NothingBefore
<1>2. PInv /\ [PromiseNext]_promiseVars => PInv'
  <2> SUFFICES ASSUME IInv, SyncCalls, PromiseKept, [PromiseNext]_promiseVars
               PROVE  PInv'
    OBVIOUS
  <2>1. CASE UNCHANGED promiseVars
    <3>1. IInv'
      BY <2>1, IInvStep DEF promiseVars
    <3> QED
      BY <2>1, <3>1 DEF promiseVars, vars, shared, locals, history, SyncCalls,
         PromiseKept, Pending, InReach, Garbage
  <2>2. CASE PromiseNext
    <3>1. PICK t \in Threads : Step(t) \/ Begin(t)
      BY <2>2 DEF PromiseNext, Next
    <3>2. IInv' /\ SyncCalls'
      BY <2>2, <3>1, IInvStep, SyncCallsStep DEF PromiseNext
    <3>3. ASSUME NEW u \in Threads, NEW o \in before'[u].reach
          PROVE  o \in Objects /\ (status'[o] = "freed" \/ Pending(u, o)')
      <4>1. CASE BeginsSynchronize(u)
        <5>1. o \in InReach(u)
          BY <2>2, <3>3, <4>1 DEF PromiseNext
        <5> QED
          BY <3>1, <4>1, <5>1, BeginStep
      <4>2. CASE ~BeginsSynchronize(u)
        <5>1. o \in before[u].reach
          BY <2>2, <3>3, <4>2 DEF PromiseNext
        <5>2. o \in Objects /\ (status[o] = "freed" \/ Pending(u, o))
          BY <5>1 DEF PromiseKept
        <5> QED
          BY <3>1, <5>2, FreedForGood, PendingStep
      <4> QED
        BY <4>1, <4>2
    <3> QED
      BY <3>2, <3>3 DEF PromiseKept
  <2> QED
    BY <2>1, <2>2
<1>3. PInv => SynchronizeFreesOwn
  BY DEF SynchronizeFreesOwn, PromiseKept, Pending, SyncCalls, SyncPlaces, Advancing,
     Synchronizing
<1> QED
  BY <1>1, <1>2, <1>3, PTL DEF PromiseSpec
=============================================================================
