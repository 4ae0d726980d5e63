--------------------------- MODULE MCStoreBuffers ---------------------------
(* An instance of StoreBuffers for TLC. *)
EXTENDS StoreBuffers, TLC

CONSTANTS t1, t2, t3, o1

\* The writer, a reader, and a housekeeping thread that reclaims.
ThreeCalls == (t1 :> {"retire", "reclaim"}) @@ (t2 :> {"pin"}) @@ (t3 :> {"reclaim"})

MCThreads == {t1, t2, t3}
MCObjects == {o1}
=============================================================================
