---------------------------- MODULE MCDelayQueue ----------------------------
(***************************************************************************)
(* A small instance of DelayQueue for TLC: more tasks than cells, so that  *)
(* the array fills up.                                                     *)
(***************************************************************************)
EXTENDS DelayQueue, TLC

CONSTANTS t1, t2, t3, t4

\* The queue treats all tasks alike.
Symmetry == Permutations(Task)

=============================================================================
