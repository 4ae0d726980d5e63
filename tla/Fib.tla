-------------------------------- MODULE Fib --------------------------------
(***************************************************************************)
(* The four forwarding tables of src/include/rcufib/fib.hpp: one trie, and *)
(* four ways to keep its readers and its writer out of each other's way.   *)
(*                                                                         *)
(* A write section is what one insert(), erase() or apply() does under the *)
(* lock; apply() makes it any number of updates.  The seqlock's 64-bit     *)
(* counter is reduced to what its readers compare: whether it is odd, and  *)
(* whether it moved since they read it.                                    *)
(***************************************************************************)
EXTENDS RadixTrie

Variants == {"mutex", "shared_mutex", "seqlock", "rcu"}

VARIABLES
    variant,   \* the class of the table
    section,   \* a writer is inside insert(), erase() or apply()
    before,    \* seqlock: how the sequence a reader loaded compares to it now
    outside,   \* history: the table as it was outside the write sections
    settled    \* history: the right answers of those tables since then

fibVars == <<variant, section, before, outside, settled>>
vars == <<trieVars, fibVars>>

FibInit ==
    /\ TrieInit
    /\ variant \in Variants
    /\ deferred = (variant \in {"seqlock", "rcu"})
    /\ section = FALSE
    /\ before = [r \in Readers |-> "unread"]
    /\ outside = table
    /\ settled = [r \in Readers |-> {}]

-----------------------------------------------------------------------------
(* Writers *)

\* Mutant: a shared lock is given to a writer while readers hold it.
ReadersAllowUnguarded == TRUE

\* The writer's lock: only the first two variants' keep readers out.
ReadersAllow ==
    variant \in {"mutex", "shared_mutex"} => \A r \in Readers : ~Guarded(r)

\* Every reader that loaded the sequence will find it moved.
MoveSequence ==
    before' = [r \in Readers |->
                  IF before[r] = "same" THEN "moved" ELSE before[r]]

BeginWrite ==
    /\ ~section /\ ReadersAllow
    /\ section' = TRUE
    /\ MoveSequence
    /\ UNCHANGED <<trieVars, variant, outside, settled>>

Write ==
    /\ section
    /\ WriterStep \/ \E p \in Prefixes : InsertErase(p)
    /\ UNCHANGED fibVars

EndWrite ==
    /\ section /\ wpc = "idle"
    /\ section' = FALSE
    /\ MoveSequence
    /\ outside' = table
    /\ settled' = [r \in Readers |->
                      IF Guarded(r)
                      THEN settled[r] \cup {LongestMatch(table, addr[r])} ELSE {}]
    /\ UNCHANGED <<trieVars, variant>>

-----------------------------------------------------------------------------
(* Readers *)

\* A reader gets in: the lock of the variant, or the read_guard.
Admitted(r) ==
    CASE variant = "mutex" -> ~section /\ \A q \in Readers : ~Guarded(q)
      [] variant = "shared_mutex" -> ~section
      [] OTHER -> TRUE

BeginRead(r, a) ==
    /\ Admitted(r)
    /\ Enter(r, a)
    /\ settled' = [settled EXCEPT ![r] = {LongestMatch(outside, a)}]
    /\ UNCHANGED <<variant, section, before, outside>>

\* Mutant: an odd sequence is accepted.
SequenceEvenIgnored == TRUE

\* No writer is mid-update; a reader spins until then.
SequenceEven == ~section

LoadSequence(r) ==
    /\ variant = "seqlock"
    /\ rpc[r] = "root" /\ before[r] = "unread"
    /\ SequenceEven
    /\ before' = [before EXCEPT ![r] = "same"]
    /\ UNCHANGED <<trieVars, variant, section, outside, settled>>

Lookup(r) ==
    /\ variant = "seqlock" => before[r] # "unread"
    /\ ReaderStep(r)
    /\ UNCHANGED fibVars

\* The second load of sequence_ finds the first one's value.
ValidateSequence(r) ==
    /\ variant = "seqlock"
    /\ rpc[r] = "done" /\ before[r] = "same"
    /\ before' = [before EXCEPT ![r] = "valid"]
    /\ UNCHANGED <<trieVars, variant, section, outside, settled>>

\* Mutant: an entry is taken back whenever the writer moved during the walk.
MustRetryAlways(r) == before[r] # "valid"

\* The sequence moved since the walk began.
MustRetry(r) == variant = "seqlock" /\ before[r] = "moved"

\* Mutant: `before` is loaded once, outside the loop.
ReloadNever(r) == UNCHANGED before

\* `before` is a local of the loop's body.
Reload(r) == before' = [before EXCEPT ![r] = "unread"]

\* The lookup starts again, inside the same guard.
Retry(r) ==
    /\ rpc[r] = "done" /\ MustRetry(r)
    /\ Goto(r, "root")
    /\ Reload(r)
    /\ at' = [at EXCEPT ![r] = Null]
    /\ best' = [best EXCEPT ![r] = Null]
    /\ UNCHANGED <<memory, counters, life, deferred, writer, addr, history,
                   variant, section, outside, settled>>

\* Only the seqlock looks at the sequence again before it hands the entry over.
Validated(r) == variant = "seqlock" => before[r] = "valid"

\* The caller has the entry, under the lock or inside the guard.
InUse(r) == rpc[r] = "done" /\ Validated(r)

EndRead(r) ==
    /\ InUse(r)
    /\ Leave(r)
    /\ before' = [before EXCEPT ![r] = "unread"]
    /\ settled' = [settled EXCEPT ![r] = {}]
    /\ UNCHANGED <<variant, section, outside>>

-----------------------------------------------------------------------------
Reading(r) ==
    LoadSequence(r) \/ Lookup(r) \/ ValidateSequence(r) \/ Retry(r) \/ EndRead(r)

\* Only deferred garbage is ever left to reclaim.
Housekeeping == Reclaim /\ UNCHANGED fibVars

FibNext ==
    \/ BeginWrite \/ Write \/ EndWrite
    \/ \E r \in Readers : Reading(r) \/ \E a \in Addresses : BeginRead(r, a)
    \/ Housekeeping

FibSpec == FibInit /\ [][FibNext]_vars

\* Nothing is assumed of the writer: it may stop in the middle of a section.
FibFairSpec == FibSpec /\ \A r \in Readers : WF_vars(Reading(r))

-----------------------------------------------------------------------------
(* Properties *)

\* The shape of the tables and of their locks.
FibTypeOK ==
    /\ TypeOK
    /\ variant \in Variants
    /\ section \in BOOLEAN
    /\ before \in [Readers -> {"unread", "same", "moved", "valid"}]
    /\ outside \in [Prefixes -> Values \cup {Null}]
    /\ settled \in [Readers -> SUBSET (Values \cup {Null})]

\* "The four FIB variants must be indistinguishable through their interface"
\* (test_fib.cpp:3): every lookup returns what was the longest match at some
\* moment since it began.
LookupsAreCurrent == \A r \in Readers : InUse(r) => best[r] \in could[r]

\* The variants that exclude or detect writers keep more than that promise: a
\* lookup returns what the table held before or after the write sections it
\* overlaps, so an apply() of any length is one update to it.
BatchesAreAtomic ==
    variant # "rcu" => \A r \in Readers : InUse(r) => best[r] \in settled[r]

\* "No path by which a writer can make a reader wait" (fib.hpp:293-298): except
\* for the retrying seqlock, a lookup that got in returns whatever the writer
\* does, or does not do.
LookupReturns ==
    \A r \in Readers :
        (rpc[r] = "root" /\ variant # "seqlock") ~> (rpc[r] = "idle")

\* "Retries" (fib.hpp:206-223): nothing bounds them while write sections keep
\* coming, but a seqlock reader needs nobody's help to get out of its loop and
\* of its guard, only a writer that is done.
RetriesEnd ==
    <>[](~section) => \A r \in Readers : (rpc[r] = "root") ~> (rpc[r] = "idle")
=============================================================================
