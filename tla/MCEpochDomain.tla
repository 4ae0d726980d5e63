--------------------------- MODULE MCEpochDomain ---------------------------
(* Instances of EpochDomain for TLC. *)
EXTENDS EpochDomain, TLC

CONSTANTS t1, t2, t3, o1, o2

\* A writer that reclaims when enough is retired and exits with the rest, a
\* reader that nests, and a reader that synchronises, inside its own guard too.
\* Explicit calls of try_reclaim are in CallsSync.
CallsExit == (t1 :> {"retire", "exit"})
          @@ (t2 :> {"pin"})
          @@ (t3 :> {"pin", "sync"})

\* One role for each thread: the writer retires and exits, another thread reads,
\* a third one reclaims and is never inside a guard.
CallsHandOver == (t1 :> {"retire", "exit"})
              @@ (t2 :> {"pin"})
              @@ (t3 :> {"reclaim"})

\* No thread exits: a reader, a writer that reclaims and a writer that waits.
CallsNoExit == (t1 :> {"retire", "reclaim"})
            @@ (t2 :> {"pin"})
            @@ (t3 :> {"retire", "sync"})

MCThreads == {t1, t2, t3}
MCObjects == {o1, o2}
OneObject == {o1}
ObjectSymmetry == Permutations(MCObjects)
=============================================================================
