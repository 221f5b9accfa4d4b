---------------------------- MODULE MCSemaphore ----------------------------
(***************************************************************************)
(* A small instance of Semaphore for TLC: more tasks than cells, so that a *)
(* ring fills up.                                                          *)
(***************************************************************************)
EXTENDS Semaphore, TLC

CONSTANTS t1, t2, t3, t4

\* The ring treats all tasks alike.
Symmetry == Permutations(Task)

=============================================================================
