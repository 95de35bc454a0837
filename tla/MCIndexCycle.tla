---------------------------- MODULE MCIndexCycle ----------------------------
(* IndexCycle for TLC: two readers, so that a pool follows a pool, and more   *)
(* sessions than workers, so that a worker takes a second job.                *)
EXTENDS IndexCycle
=============================================================================
