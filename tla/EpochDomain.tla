---------------------------- MODULE EpochDomain ----------------------------
(***************************************************************************)
(* Epoch-based reclamation, translated from src/src/epoch.cpp and          *)
(* src/include/rcufib/epoch.hpp (class epoch_domain).                      *)
(*                                                                         *)
(* Threads run read_guard, retire_raw, try_reclaim, synchronize and the    *)
(* thread-exit hook against one domain.  A step is at most one access to   *)
(* memory that other threads write, so the interleavings are those of the  *)
(* sequentially consistent machine that the two seq_cst fences of pin()    *)
(* and try_advance() are there to restore.                                 *)
(*                                                                         *)
(* The client of the domain (trie.hpp) is reduced to what reclamation can  *)
(* tell apart: an object is published, unlinked, then retired by the       *)
(* thread that unlinked it; a reader inside a guard may hold any object    *)
(* that was reachable at some moment since the guard was entered.          *)
(***************************************************************************)
EXTENDS Integers, FiniteSets

CONSTANTS
    Threads,          \* the threads that use the domain, each born once
    Objects,          \* the heap objects the client publishes and retires
    Calls,            \* Calls[t]: what thread t does with the domain
    MaxRecords,       \* records that can be allocated
    MaxNesting,       \* how deep the read guards of one thread nest
    MaxEpoch,         \* no reclaiming call begins at this epoch or later
    ReclaimInterval   \* reclaim_interval, 64 in the code

CallNames == {"pin", "retire", "reclaim", "sync", "exit"}

ASSUME BoundsAssumption ==
    /\ MaxRecords \in Nat
    /\ MaxNesting \in Nat
    /\ MaxEpoch \in Nat
    /\ ReclaimInterval \in Nat \ {0}

ASSUME CallsAssumption == Calls \in [Threads -> SUBSET CallNames]

epoch_ring_size == 3

\* A record's state word without pinned_bit.
Unpinned == -1

\* slot.record == nullptr, and the null pointer that ends the record list.
NoRecord == 0

\* The epoch of an object that retire_raw has not stamped yet.
NoTag == -1

Records == 1 .. MaxRecords
Ring == 0 .. epoch_ring_size - 1

VARIABLES
    global_epoch,     \* global_epoch_
    records,          \* records_: record n is the n-th pushed, its next is n-1
    in_use,           \* thread_record::in_use
    state,            \* thread_record::state, an epoch or Unpinned
    nesting,          \* thread_record::nesting
    bags,             \* thread_record::bags
    orphans,          \* orphans_
    since_attempt,    \* since_attempt_
    pc,               \* the access thread t makes next
    call,             \* the call that local_record or try_advance returns to
    rec,              \* the record cached in the thread's tls_slots entry
    epoch,            \* the local `epoch` of the running function
    cursor,           \* the record a list walk looks at next
    rotation,         \* the rotations synchronize() has completed
    arg,              \* the object being retired
    status,           \* history: the life of each object
    tag,              \* history: the epoch retire_raw filed the object under
    mayHold,          \* history: what the reader inside a guard may point to
    disowned          \* history: objects that a thread's exit put in orphans_

shared == <<global_epoch, records, in_use, state, nesting, bags, orphans,
            since_attempt>>
locals == <<pc, call, rec, epoch, cursor, rotation, arg>>
history == <<status, tag, mayHold, disowned>>
vars == <<shared, locals, history>>

NoObject == "none"

Statuses == {"fresh", "linked", "unlinked", "retired", "freed"}

PCs == {"idle", "find", "reuse", "pin_load", "pin_store", "pin_fence",
        "ret_load", "ret_push", "ret_reset", "adv_load", "adv_head",
        "adv_scan", "rec_load", "rec_free", "sync_free", "orphans",
        "exit_unpin", "exit_release", "dead"}

-----------------------------------------------------------------------------
Init ==
    /\ global_epoch = 0
    /\ records = 0
    /\ in_use = [r \in Records |-> FALSE]
    /\ state = [r \in Records |-> Unpinned]
    /\ nesting = [r \in Records |-> 0]
    /\ bags = [r \in Records |-> [i \in Ring |-> {}]]
    /\ orphans = {}
    /\ since_attempt = 0
    /\ pc = [t \in Threads |-> "idle"]
    /\ call = [t \in Threads |-> "none"]
    /\ rec = [t \in Threads |-> NoRecord]
    /\ epoch = [t \in Threads |-> 0]
    /\ cursor = [t \in Threads |-> 0]
    /\ rotation = [t \in Threads |-> 0]
    /\ arg = [t \in Threads |-> NoObject]
    /\ status = [o \in Objects |-> "fresh"]
    /\ tag = [o \in Objects |-> NoTag]
    /\ mayHold = [t \in Threads |-> {}]
    /\ disowned = {}

-----------------------------------------------------------------------------
Linked == {o \in Objects : status[o] = "linked"}

\* The thread has a read_guard alive (is_pinned()).
Pinned(t) == rec[t] # NoRecord /\ nesting[rec[t]] > 0

May(t, c) == pc[t] = "idle" /\ c \in Calls[t]

Goto(t, l) == pc' = [pc EXCEPT ![t] = l]

\* The call returns: its local variables go out of scope.
Return(t) ==
    /\ Goto(t, "idle")
    /\ call' = [call EXCEPT ![t] = "none"]
    /\ epoch' = [epoch EXCEPT ![t] = 0]
    /\ cursor' = [cursor EXCEPT ![t] = 0]
    /\ rotation' = [rotation EXCEPT ![t] = 0]

\* Where local_record() returns to.
AfterRecord == [pin |-> "pin_load", retire |-> "ret_load",
                reclaim |-> "rec_load", sync |-> "sync_free"]

\* local_record(): the cached record, or a walk of the list to find one.
LocalRecord(t, c) ==
    Goto(t, IF rec[t] # NoRecord THEN AfterRecord[c] ELSE "find")

-----------------------------------------------------------------------------
(* local_record(), slow path *)

FindHead(t) ==
    /\ pc[t] = "find"
    /\ cursor' = [cursor EXCEPT ![t] = records]
    /\ Goto(t, "reuse")
    /\ UNCHANGED <<shared, call, rec, epoch, rotation, arg, history>>

\* Mutant: the record is claimed with a plain store, without testing in_use.
ClaimableBlindly(r) == TRUE

\* The compare-exchange of in_use from false to true succeeds.
Claimable(r) == ~in_use[r]

SkipRecord(t) ==
    /\ pc[t] = "reuse" /\ cursor[t] > 0
    /\ ~Claimable(cursor[t])
    /\ cursor' = [cursor EXCEPT ![t] = @ - 1]
    /\ UNCHANGED <<shared, pc, call, rec, epoch, rotation, arg, history>>

ReuseRecord(t) ==
    /\ pc[t] = "reuse" /\ cursor[t] > 0
    /\ Claimable(cursor[t])
    /\ in_use' = [in_use EXCEPT ![cursor[t]] = TRUE]
    /\ nesting' = [nesting EXCEPT ![cursor[t]] = 0]
    /\ rec' = [rec EXCEPT ![t] = cursor[t]]
    /\ cursor' = [cursor EXCEPT ![t] = 0]
    /\ Goto(t, AfterRecord[call[t]])
    /\ UNCHANGED <<global_epoch, records, state, bags, orphans, since_attempt,
                   call, epoch, rotation, arg, history>>

NewRecord(t) ==
    /\ pc[t] = "reuse" /\ cursor[t] = 0
    /\ records < MaxRecords
    /\ records' = records + 1
    /\ in_use' = [in_use EXCEPT ![records + 1] = TRUE]
    /\ rec' = [rec EXCEPT ![t] = records + 1]
    /\ Goto(t, AfterRecord[call[t]])
    /\ UNCHANGED <<global_epoch, state, nesting, bags, orphans, since_attempt,
                   call, epoch, cursor, rotation, arg, history>>

-----------------------------------------------------------------------------
(* read_guard *)

Enter(t) ==
    /\ May(t, "pin") /\ ~Pinned(t) /\ MaxNesting > 0
    /\ call' = [call EXCEPT ![t] = "pin"]
    /\ LocalRecord(t, "pin")
    /\ UNCHANGED <<shared, rec, epoch, cursor, rotation, arg, history>>

PinLoad(t) ==
    /\ pc[t] = "pin_load"
    /\ epoch' = [epoch EXCEPT ![t] = global_epoch]
    /\ Goto(t, "pin_store")
    /\ UNCHANGED <<shared, call, rec, cursor, rotation, arg, history>>

\* Mutant: without the fence the announcement stays in the thread's store buffer
\* while the guard's first loads go ahead of it.
PinStoreOvertaken(t) ==
    /\ pc[t] = "pin_store"
    /\ Goto(t, "pin_fence")
    /\ UNCHANGED <<shared, call, rec, epoch, cursor, rotation, arg, history>>

\* The announcement reaches memory.
PinStore(t) ==
    /\ pc[t] = "pin_store"
    /\ state' = [state EXCEPT ![rec[t]] = epoch[t]]
    /\ Goto(t, "pin_fence")
    /\ UNCHANGED <<global_epoch, records, in_use, nesting, bags, orphans,
                   since_attempt, call, rec, epoch, cursor, rotation, arg,
                   history>>

\* Past the fence the guard exists, and what it may load is `visible`.
Fenced(t, visible) ==
    /\ pc[t] = "pin_fence"
    /\ nesting' = [nesting EXCEPT ![rec[t]] = @ + 1]
    /\ mayHold' = [mayHold EXCEPT ![t] = visible]
    /\ Return(t)
    /\ UNCHANGED <<global_epoch, records, in_use, state, bags, orphans,
                   since_attempt, rec, arg, status, tag, disowned>>

PinFence(t) == Fenced(t, Linked)

\* Mutant: an inner guard announces the current epoch again.
EnterNestedRepinning(t) ==
    /\ May(t, "pin") /\ Pinned(t) /\ nesting[rec[t]] < MaxNesting
    /\ nesting' = [nesting EXCEPT ![rec[t]] = @ + 1]
    /\ state' = [state EXCEPT ![rec[t]] = global_epoch]
    /\ UNCHANGED <<global_epoch, records, in_use, bags, orphans,
                   since_attempt, locals, history>>

EnterNested(t) ==
    /\ May(t, "pin") /\ Pinned(t) /\ nesting[rec[t]] < MaxNesting
    /\ nesting' = [nesting EXCEPT ![rec[t]] = @ + 1]
    /\ UNCHANGED <<global_epoch, records, in_use, state, bags, orphans,
                   since_attempt, locals, history>>

\* Guards are scoped objects: the outermost one is destroyed last.
LeaveNested(t) ==
    /\ pc[t] = "idle" /\ Pinned(t) /\ nesting[rec[t]] > 1
    /\ nesting' = [nesting EXCEPT ![rec[t]] = @ - 1]
    /\ UNCHANGED <<global_epoch, records, in_use, state, bags, orphans,
                   since_attempt, locals, history>>

\* Mutant: the destructor decrements, and unpin() decrements again.
LeaveTwice(t) ==
    /\ pc[t] = "idle" /\ Pinned(t) /\ nesting[rec[t]] = 1
    /\ nesting' = [nesting EXCEPT ![rec[t]] = @ - 2]
    /\ state' = [state EXCEPT ![rec[t]] = Unpinned]
    /\ mayHold' = [mayHold EXCEPT ![t] = {}]
    /\ UNCHANGED <<global_epoch, records, in_use, bags, orphans, since_attempt,
                   locals, status, tag, disowned>>

\* Mutant: the destructor of the outermost guard does not call unpin().
LeaveAnnounced(t) ==
    /\ pc[t] = "idle" /\ Pinned(t) /\ nesting[rec[t]] = 1
    /\ nesting' = [nesting EXCEPT ![rec[t]] = @ - 1]
    /\ mayHold' = [mayHold EXCEPT ![t] = {}]
    /\ UNCHANGED <<global_epoch, records, in_use, state, bags, orphans,
                   since_attempt, locals, status, tag, disowned>>

Leave(t) ==
    /\ pc[t] = "idle" /\ Pinned(t) /\ nesting[rec[t]] = 1
    /\ nesting' = [nesting EXCEPT ![rec[t]] = @ - 1]
    /\ state' = [state EXCEPT ![rec[t]] = Unpinned]
    /\ mayHold' = [mayHold EXCEPT ![t] = {}]
    /\ UNCHANGED <<global_epoch, records, in_use, bags, orphans, since_attempt,
                   locals, status, tag, disowned>>

-----------------------------------------------------------------------------
(* The client's pointer stores, and retire_raw *)

Publish(t, o) ==
    /\ May(t, "retire") /\ status[o] = "fresh"
    /\ status' = [status EXCEPT ![o] = "linked"]
    /\ mayHold' = [u \in Threads |->
                      IF Pinned(u) THEN mayHold[u] \cup {o} ELSE mayHold[u]]
    /\ UNCHANGED <<shared, locals, tag, disowned>>

\* The client unlinks the object and calls retire_raw on it.
Unlink(t, o) ==
    /\ May(t, "retire") /\ status[o] = "linked"
    /\ global_epoch < MaxEpoch
    /\ status' = [status EXCEPT ![o] = "unlinked"]
    /\ arg' = [arg EXCEPT ![t] = o]
    /\ call' = [call EXCEPT ![t] = "retire"]
    /\ LocalRecord(t, "retire")
    /\ UNCHANGED <<shared, rec, epoch, cursor, rotation, tag, mayHold,
                   disowned>>

RetireLoad(t) ==
    /\ pc[t] = "ret_load"
    /\ epoch' = [epoch EXCEPT ![t] = global_epoch]
    /\ tag' = [tag EXCEPT ![arg[t]] = global_epoch]
    /\ Goto(t, "ret_push")
    /\ UNCHANGED <<shared, call, rec, cursor, rotation, arg, status, mayHold,
                   disowned>>

BagOf(e) == e % epoch_ring_size

RetirePush(t) ==
    /\ pc[t] = "ret_push"
    /\ bags' = [bags EXCEPT ![rec[t]][BagOf(epoch[t])] = @ \cup {arg[t]}]
    /\ status' = [status EXCEPT ![arg[t]] = "retired"]
    /\ arg' = [arg EXCEPT ![t] = NoObject]
    /\ since_attempt' = since_attempt + 1
    /\ \/ /\ since_attempt + 1 >= ReclaimInterval
          /\ Goto(t, "ret_reset")
          /\ UNCHANGED <<call, epoch, cursor, rotation>>
       \/ since_attempt + 1 < ReclaimInterval /\ Return(t)
    /\ UNCHANGED <<global_epoch, records, in_use, state, nesting, orphans,
                   rec, tag, mayHold, disowned>>

RetireReset(t) ==
    /\ pc[t] = "ret_reset"
    /\ since_attempt' = 0
    /\ call' = [call EXCEPT ![t] = "reclaim"]
    /\ Goto(t, "adv_load")
    /\ UNCHANGED <<global_epoch, records, in_use, state, nesting, bags,
                   orphans, rec, epoch, cursor, rotation, arg, history>>

-----------------------------------------------------------------------------
(* try_advance *)

AdvanceLoad(t) ==
    /\ pc[t] = "adv_load"
    /\ epoch' = [epoch EXCEPT ![t] = global_epoch]
    /\ Goto(t, "adv_head")
    /\ UNCHANGED <<shared, call, rec, cursor, rotation, arg, history>>

AdvanceHead(t) ==
    /\ pc[t] = "adv_head"
    /\ cursor' = [cursor EXCEPT ![t] = records]
    /\ Goto(t, "adv_scan")
    /\ UNCHANGED <<shared, call, rec, epoch, rotation, arg, history>>

\* Mutant: a reader one epoch behind does not keep the epoch from moving.
PassesOneBehind(r, e) == state[r] \in {Unpinned, e - 1, e}

\* The record of a thread that does not keep the epoch from moving.
Passes(r, e) == state[r] \in {Unpinned, e}

AdvanceScan(t) ==
    /\ pc[t] = "adv_scan" /\ cursor[t] > 0
    /\ Passes(cursor[t], epoch[t])
    /\ cursor' = [cursor EXCEPT ![t] = @ - 1]
    /\ UNCHANGED <<shared, pc, call, rec, epoch, rotation, arg, history>>

\* try_advance() returns false: try_reclaim() gives up, synchronize() retries.
AdvanceBlocked(t) ==
    /\ pc[t] = "adv_scan" /\ cursor[t] > 0
    /\ ~Passes(cursor[t], epoch[t])
    /\ \/ /\ call[t] = "sync"
          /\ Goto(t, "adv_load")
          /\ UNCHANGED <<call, epoch, cursor, rotation>>
       \/ call[t] = "reclaim" /\ Return(t)
    /\ UNCHANGED <<shared, rec, arg, history>>

\* Mutant: one successful advance is taken for a grace period.
RotationsOne == 1

Rotations == epoch_ring_size + 1

\* The compare-exchange of the epoch; losing it counts as an advance too.
AdvanceCas(t) ==
    /\ pc[t] = "adv_scan" /\ cursor[t] = 0
    /\ global_epoch' = IF global_epoch = epoch[t] THEN epoch[t] + 1
                                                  ELSE global_epoch
    /\ \/ /\ call[t] = "reclaim"
          /\ LocalRecord(t, "reclaim")
          /\ UNCHANGED rotation
       \/ /\ call[t] = "sync"
          /\ rotation' = [rotation EXCEPT ![t] = @ + 1]
          /\ \/ rotation[t] + 1 < Rotations /\ Goto(t, "adv_load")
             \/ rotation[t] + 1 = Rotations /\ LocalRecord(t, "sync")
    /\ epoch' = [epoch EXCEPT ![t] = 0]
    /\ UNCHANGED <<records, in_use, state, nesting, bags, orphans,
                   since_attempt, call, rec, cursor, arg, history>>

-----------------------------------------------------------------------------
(* try_reclaim and synchronize *)

TryReclaim(t) ==
    /\ May(t, "reclaim") /\ global_epoch < MaxEpoch
    /\ call' = [call EXCEPT ![t] = "reclaim"]
    /\ Goto(t, "adv_load")
    /\ UNCHANGED <<shared, rec, epoch, cursor, rotation, arg, history>>

Synchronize(t) ==
    /\ May(t, "sync") /\ global_epoch < MaxEpoch
    /\ call' = [call EXCEPT ![t] = "sync"]
    /\ rotation' = [rotation EXCEPT ![t] = 0]
    /\ Goto(t, "adv_load")
    /\ UNCHANGED <<shared, rec, epoch, cursor, arg, history>>

ReclaimLoad(t) ==
    /\ pc[t] = "rec_load"
    /\ epoch' = [epoch EXCEPT ![t] = global_epoch]
    /\ Goto(t, "rec_free")
    /\ UNCHANGED <<shared, call, rec, cursor, rotation, arg, history>>

\* Everything a record's bags hold.
Garbage(r) == UNION {bags[r][i] : i \in Ring}

\* free_bag() runs the deleters of a set of retired objects.
Freed(S) == status' = [o \in Objects |-> IF o \in S THEN "freed" ELSE status[o]]

\* Mutant: the bag of the previous epoch.
SafeBagPrevious(e) == BagOf(e + 2)

\* The bag that try_reclaim() frees at epoch e: the one filled at e - 2.
SafeBag(e) == BagOf(e + 1)

ReclaimFree(t) ==
    /\ pc[t] = "rec_free"
    /\ Freed(bags[rec[t]][SafeBag(epoch[t])])
    /\ bags' = [bags EXCEPT ![rec[t]][SafeBag(epoch[t])] = {}]
    /\ Goto(t, "orphans")
    /\ UNCHANGED <<global_epoch, records, in_use, state, nesting, orphans,
                   since_attempt, call, rec, epoch, cursor, rotation, arg, tag,
                   mayHold, disowned>>

SyncFree(t) ==
    /\ pc[t] = "sync_free"
    /\ Freed(Garbage(rec[t]))
    /\ bags' = [bags EXCEPT ![rec[t]] = [i \in Ring |-> {}]]
    /\ Goto(t, "orphans")
    /\ UNCHANGED <<global_epoch, records, in_use, state, nesting, orphans,
                   since_attempt, call, rec, epoch, cursor, rotation, arg, tag,
                   mayHold, disowned>>

\* Mutant: the orphans are freed where they are, without the swap.
TakeOrphansInPlace(t) ==
    /\ pc[t] = "orphans"
    /\ Freed(orphans)
    /\ Return(t)
    /\ UNCHANGED <<global_epoch, records, in_use, state, nesting, bags, orphans,
                   since_attempt, rec, arg, tag, mayHold, disowned>>

\* take_orphans(): the swap, and the deletes of the local vector right after it.
TakeOrphans(t) ==
    /\ pc[t] = "orphans"
    /\ Freed(orphans)
    /\ orphans' = {}
    /\ Return(t)
    /\ UNCHANGED <<global_epoch, records, in_use, state, nesting, bags,
                   since_attempt, rec, arg, tag, mayHold, disowned>>

-----------------------------------------------------------------------------
(* Thread exit: ~thread_slots and release_thread_record *)

Exit(t) ==
    /\ May(t, "exit") /\ rec[t] = NoRecord
    /\ Goto(t, "dead")
    /\ UNCHANGED <<shared, call, rec, epoch, cursor, rotation, arg, history>>

ExitHandOver(t) ==
    /\ May(t, "exit") /\ rec[t] # NoRecord /\ ~Pinned(t)
    /\ orphans' = orphans \cup Garbage(rec[t])
    /\ disowned' = disowned \cup Garbage(rec[t])
    /\ bags' = [bags EXCEPT ![rec[t]] = [i \in Ring |-> {}]]
    /\ Goto(t, "exit_unpin")
    /\ UNCHANGED <<global_epoch, records, in_use, state, nesting,
                   since_attempt, call, rec, epoch, cursor, rotation, arg,
                   status, tag, mayHold>>

ExitUnpin(t) ==
    /\ pc[t] = "exit_unpin"
    /\ state' = [state EXCEPT ![rec[t]] = Unpinned]
    /\ Goto(t, "exit_release")
    /\ UNCHANGED <<global_epoch, records, in_use, nesting, bags, orphans,
                   since_attempt, call, rec, epoch, cursor, rotation, arg,
                   history>>

ExitRelease(t) ==
    /\ pc[t] = "exit_release"
    /\ in_use' = [in_use EXCEPT ![rec[t]] = FALSE]
    /\ rec' = [rec EXCEPT ![t] = NoRecord]
    /\ Goto(t, "dead")
    /\ UNCHANGED <<global_epoch, records, state, nesting, bags, orphans,
                   since_attempt, call, epoch, cursor, rotation, arg, history>>

-----------------------------------------------------------------------------
\* What a thread that is inside a call does next.
Step(t) ==
    \/ FindHead(t) \/ SkipRecord(t) \/ ReuseRecord(t) \/ NewRecord(t)
    \/ PinLoad(t) \/ PinStore(t) \/ PinFence(t)
    \/ RetireLoad(t) \/ RetirePush(t) \/ RetireReset(t)
    \/ AdvanceLoad(t) \/ AdvanceHead(t) \/ AdvanceScan(t)
    \/ AdvanceBlocked(t) \/ AdvanceCas(t)
    \/ ReclaimLoad(t) \/ ReclaimFree(t) \/ SyncFree(t) \/ TakeOrphans(t)
    \/ ExitUnpin(t) \/ ExitRelease(t)

\* What a thread that is not inside a call may start.
Begin(t) ==
    \/ Enter(t) \/ EnterNested(t) \/ LeaveNested(t) \/ Leave(t)
    \/ \E o \in Objects : Publish(t, o) \/ Unlink(t, o)
    \/ TryReclaim(t) \/ Synchronize(t)
    \/ Exit(t) \/ ExitHandOver(t)

Next == \E t \in Threads : Step(t) \/ Begin(t)

Spec == Init /\ [][Next]_vars

\* A thread inside a call is scheduled, and a guard is a scope that ends even
\* when guards are nested in it again and again.
Fairness == \A t \in Threads :
    WF_vars(Step(t)) /\ WF_vars(LeaveNested(t)) /\ SF_vars(Leave(t))

FairSpec == Spec /\ Fairness

-----------------------------------------------------------------------------
(* Properties *)

RecordTypes ==
    /\ global_epoch \in Nat
    /\ records \in 0 .. MaxRecords
    /\ in_use \in [Records -> BOOLEAN]
    /\ state \in [Records -> Nat \cup {Unpinned}]
    /\ nesting \in [Records -> Nat]
    /\ bags \in [Records -> [Ring -> SUBSET Objects]]
    /\ orphans \in SUBSET Objects
    /\ since_attempt \in Nat

LocalTypes ==
    /\ pc \in [Threads -> PCs]
    /\ call \in [Threads -> CallNames \cup {"none"}]
    /\ rec \in [Threads -> 0 .. MaxRecords]
    /\ epoch \in [Threads -> Nat]
    /\ cursor \in [Threads -> 0 .. MaxRecords]
    /\ rotation \in [Threads -> 0 .. Rotations]
    /\ arg \in [Threads -> Objects \cup {NoObject}]

HistoryTypes ==
    /\ status \in [Objects -> Statuses]
    /\ tag \in [Objects -> Nat \cup {NoTag}]
    /\ mayHold \in [Threads -> SUBSET Objects]
    /\ disowned \in SUBSET Objects

\* The shape of the state of epoch_domain and of the threads that use it.
TypeOK == RecordTypes /\ LocalTypes /\ HistoryTypes

\* retire(): "once every current reader has finished" (epoch.hpp:82).  No
\* reader inside a guard may point to an object whose deleter has run.
NoUseAfterFree ==
    \A t \in Threads : \A o \in mayHold[t] : status[o] # "freed"

\* The same promise for every object that no thread exit moved to orphans_:
\* the bags of try_reclaim() and synchronize() are safe.
BagsFreeOnlyUnheld ==
    \A t \in Threads : \A o \in mayHold[t] :
        status[o] = "freed" => o \in disowned

\* The epoch is at most one past the epoch in which a still held object was
\* retired, whatever the readers, the stale pins and the racing advances do.
EpochWaitsForHolders ==
    \A t \in Threads : \A o \in mayHold[t] :
        tag[o] # NoTag => global_epoch <= tag[o] + 1

\* Where the domain keeps an object: the bags of the records and orphans_.
Places(o) == {p \in Records \X Ring : o \in bags[p[1]][p[2]]}
                 \cup (IF o \in orphans THEN {<<NoRecord, 0>>} ELSE {})

\* A retired object is in exactly one bag or in orphans_ until it is freed,
\* and nowhere after: through retires, frees, thread exits and adoptions
\* nothing is leaked and no deleter can run twice.
GarbageConserved ==
    \A o \in Objects :
        Cardinality(Places(o)) = IF status[o] = "retired" THEN 1 ELSE 0

\* A record serves one live thread at a time: two threads never cache the same
\* one, and the next thread finds it unpinned and its bags empty.
RecordsExclusive ==
    /\ \A t, u \in Threads : t # u /\ rec[t] = rec[u] => rec[t] = NoRecord
    /\ \A r \in Records :
        in_use[r] <=> \E t \in Threads : rec[t] = r
    /\ \A r \in Records : ~in_use[r] =>
        /\ state[r] = Unpinned
        /\ \A i \in Ring : bags[r][i] = {}

\* While a thread has a guard alive, entering and leaving inner guards leave
\* its announcement alone (outermost_, epoch.cpp:187-199).
KeepsAnnouncement ==
    \A r \in Records : nesting[r] > 0 /\ nesting'[r] > 0 => state'[r] = state[r]

AnnouncementKept == [][KeepsAnnouncement]_vars

\* Without thread exits the domain implements its contract: every free is one
\* that GracePeriod allows.
Contract == INSTANCE GracePeriod WITH active <- {t \in Threads : Pinned(t)}
ContractSpec == Contract!Spec

Synchronizing(t) == call[t] = "sync" /\ pc[t] # "idle"

\* synchronize() outside a guard returns once the readers leave their guards.
SynchronizeReturns ==
    \A t \in {u \in Threads : "sync" \in Calls[u]} :
        Synchronizing(t) ~> ~Synchronizing(t)

\* Begun inside the thread's own guard, synchronize() never gets to free a bag:
\* its first rotation may pass at the announced epoch, every later one is
\* stopped by the caller's own announcement.  It then waits for itself for
\* ever, but it frees nothing that its own guard protects.
OwnGuardStopsSynchronize ==
    \A t \in Threads : Synchronizing(t) /\ Pinned(t) =>
        rotation[t] <= 1 /\ pc[t] \notin {"sync_free", "orphans"}
=============================================================================
