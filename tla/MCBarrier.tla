----------------------------- MODULE MCBarrier -----------------------------
(* An instance of Barrier: as many threads as the barrier expects.          *)
EXTENDS Barrier

CONSTANTS t1, t2, t3, t4

Threads == {t1, t2, t3, t4}
=============================================================================
