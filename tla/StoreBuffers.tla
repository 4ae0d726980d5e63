---------------------------- MODULE StoreBuffers ----------------------------
(***************************************************************************)
(* EpochDomain on a machine with store buffers (x86-TSO): a plain store,   *)
(* memory_order_release included, waits in its thread's buffer, later      *)
(* loads of that thread overtake it, and a fence or a locked               *)
(* read-modify-write instruction waits until the buffer is empty.          *)
(*                                                                         *)
(* The stores that matter to readers are those that unlink: prune() and    *)
(* its collapse of the parent unlink a node with a release store           *)
(* (trie.hpp:312, 325), an exchanged value and a cleared root are unlinked *)
(* by a read-modify-write.  The announcement of pin() waits in the buffer  *)
(* like any other store, and the fence after it waits until it has left:   *)
(* the reader is at "pin_store" until the announcement reaches memory.     *)
(***************************************************************************)
EXTENDS EpochDomain

CONSTANT StoredOver   \* the objects that a plain store unlinks

VARIABLE buffered     \* objects whose unlinking store is in the thread's buffer

bufferVars == <<vars, buffered>>

BufferInit == Init /\ buffered = [t \in Threads |-> {}]

Drained(t) == buffered[t] = {}

\* Other threads still load the pointer that a buffered store will overwrite.
StillVisible == UNION {buffered[t] : t \in Threads}

-----------------------------------------------------------------------------
\* The buffer reaches memory some time later.
Drain(t) ==
    /\ ~Drained(t)
    /\ buffered' = [buffered EXCEPT ![t] = {}]
    /\ UNCHANGED vars

\* slot->store(survivor, std::memory_order_release)
UnlinkStore(t, o) ==
    /\ o \in StoredOver
    /\ Unlink(t, o)
    /\ buffered' = [buffered EXCEPT ![t] = @ \cup {o}]

\* value.exchange(...), root_.exchange(...)
UnlinkExchange(t, o) ==
    /\ o \notin StoredOver
    /\ Drained(t)
    /\ Unlink(t, o)
    /\ UNCHANGED buffered

\* The steps that only load, or store where nobody else looks before a fence.
Plain(t) ==
    \/ FindHead(t) \/ PinLoad(t) \/ RetireLoad(t) \/ RetireReset(t)
    \/ AdvanceLoad(t) \/ AdvanceScan(t) \/ ReclaimLoad(t) \/ ReclaimFree(t)
    \/ SyncFree(t) \/ ExitUnpin(t) \/ ExitRelease(t)
    \/ Enter(t) \/ EnterNested(t) \/ LeaveNested(t) \/ Leave(t)
    \/ \E o \in Objects : Publish(t, o)
    \/ TryReclaim(t) \/ Synchronize(t) \/ Exit(t)

\* The steps with a compare-exchange, a fetch_add, a fence or a mutex in them.
Locked(t) ==
    \/ SkipRecord(t) \/ ReuseRecord(t) \/ NewRecord(t)
    \/ RetirePush(t)
    \/ AdvanceHead(t) \/ AdvanceBlocked(t) \/ AdvanceCas(t)
    \/ TakeOrphans(t) \/ ExitHandOver(t)

\* The announcement leaves the buffer, behind every store made before it.
PinDrained(t) == Drained(t) /\ PinStore(t) /\ UNCHANGED buffered

\* The fence has waited for that, and the guard loads what memory says: also what
\* other threads have unlinked in their buffers only.
PinOpened(t) ==
    /\ Drained(t)
    /\ Fenced(t, Linked \cup StillVisible)
    /\ UNCHANGED buffered

BufferNext == \E t \in Threads :
    \/ Drain(t)
    \/ \E o \in Objects : UnlinkStore(t, o) \/ UnlinkExchange(t, o)
    \/ Plain(t) /\ UNCHANGED buffered
    \/ Locked(t) /\ Drained(t) /\ UNCHANGED buffered
    \/ PinDrained(t) \/ PinOpened(t)

BufferSpec == BufferInit /\ [][BufferNext]_bufferVars

-----------------------------------------------------------------------------
(* Properties *)

=============================================================================
