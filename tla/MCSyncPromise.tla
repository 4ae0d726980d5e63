--------------------------- MODULE MCSyncPromise ---------------------------
(* An instance of SyncPromise for TLC. *)
EXTENDS SyncPromise, TLC

CONSTANTS t1, t2, o1

\* One thread retires, another one synchronises, and nobody reads.
CallsRetireSync == (t1 :> {"retire"}) @@ (t2 :> {"sync"})

MCThreads == {t1, t2}
MCObjects == {o1}
=============================================================================
