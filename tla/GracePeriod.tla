---------------------------- MODULE GracePeriod ----------------------------
(***************************************************************************)
(* What safe memory reclamation promises its client, without epochs,       *)
(* records or bags: the contract of epoch_domain stated in epoch.hpp       *)
(* (read_guard: no pointer may outlive its guard; retire: deletion once    *)
(* every current reader has finished).                                     *)
(*                                                                         *)
(* An object that was reachable while a guard was alive may be held by     *)
(* that guard's thread until the guard is left, and is not freed before.   *)
(***************************************************************************)
CONSTANTS Threads, Objects

VARIABLES
    active,     \* the threads inside a guard
    status,     \* the life of each object
    mayHold     \* what each thread inside a guard may point to

vars == <<active, status, mayHold>>

Init ==
    /\ active = {}
    /\ status = [o \in Objects |-> "fresh"]
    /\ mayHold = [t \in Threads |-> {}]

Becomes(o, from, to) ==
    /\ status[o] = from
    /\ status' = [status EXCEPT ![o] = to]

\* A reader may come to hold an object from the moment it is published.
Publish(o) ==
    /\ Becomes(o, "fresh", "linked")
    /\ mayHold' = [t \in Threads |-> IF t \in active THEN mayHold[t] \cup {o}
                                                    ELSE mayHold[t]]
    /\ UNCHANGED active

Unlink(o) == Becomes(o, "linked", "unlinked") /\ UNCHANGED <<active, mayHold>>

Retire(o) == Becomes(o, "unlinked", "retired") /\ UNCHANGED <<active, mayHold>>

Enter(t) ==
    /\ t \notin active
    /\ active' = active \cup {t}
    /\ mayHold' = [mayHold EXCEPT ![t] = {o \in Objects : status[o] = "linked"}]
    /\ UNCHANGED status

Leave(t) ==
    /\ t \in active
    /\ active' = active \ {t}
    /\ mayHold' = [mayHold EXCEPT ![t] = {}]
    /\ UNCHANGED status

\* Any set of retired objects that nobody holds may be deleted.
Free ==
    /\ \E S \in SUBSET {o \in Objects : status[o] = "retired"} :
        /\ \A t \in Threads : mayHold[t] \cap S = {}
        /\ status' = [o \in Objects |-> IF o \in S THEN "freed" ELSE status[o]]
    /\ UNCHANGED <<active, mayHold>>

Next ==
    \/ \E o \in Objects : Publish(o) \/ Unlink(o) \/ Retire(o)
    \/ \E t \in Threads : Enter(t) \/ Leave(t)
    \/ Free

Spec == Init /\ [][Next]_vars
=============================================================================
