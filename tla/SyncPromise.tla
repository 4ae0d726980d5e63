---------------------------- MODULE SyncPromise ----------------------------
(***************************************************************************)
(* What synchronize() is documented to have done when it returns.  A       *)
(* history variable remembers, for each thread, what the domain kept when  *)
(* the thread called synchronize(): the promise speaks of what was retired *)
(* before the call, whichever thread retired it.                           *)
(***************************************************************************)
EXTENDS EpochDomain

VARIABLE before   \* history: what was retired, and where, when t last called

promiseVars == <<vars, before>>

Retired == {o \in Objects : status[o] = "retired"}

\* What the calling thread and the threads that have exited retired: the bags of
\* its own record, if it has one, and orphans_.
InReach(t) ==
    orphans \cup (IF rec[t] = NoRecord THEN {} ELSE Garbage(rec[t]))

NothingBefore == [all |-> {}, reach |-> {}]

PromiseInit == Init /\ before = [t \in Threads |-> NothingBefore]

\* The call itself frees and files nothing, so it does not matter on which side of
\* the step the domain is looked at.
BeginsSynchronize(t) == ~Synchronizing(t) /\ Synchronizing(t)'

PromiseNext ==
    /\ Next
    /\ before' = [t \in Threads |->
           IF BeginsSynchronize(t) THEN [all |-> Retired, reach |-> InReach(t)]
                                   ELSE before[t]]

PromiseSpec == PromiseInit /\ [][PromiseNext]_promiseVars

-----------------------------------------------------------------------------
(* Properties *)

\* synchronize(): "everything retired before the call has been freed"
\* (epoch.hpp:96-97).  Once a call has returned, every object that was already
\* retired when it began, in whatever bag it was, has been freed.
SynchronizeFreesAll ==
    \A t \in Threads : ~Synchronizing(t) =>
        \A o \in before[t].all : status[o] = "freed"

\* What synchronize() does free (epoch.cpp:289-304): all that its caller had
\* retired before the call, and all that threads which had exited left behind.
SynchronizeFreesOwn ==
    \A t \in Threads : ~Synchronizing(t) =>
        \A o \in before[t].reach : status[o] = "freed"
=============================================================================
