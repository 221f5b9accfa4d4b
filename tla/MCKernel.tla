------------------------------ MODULE MCKernel ------------------------------
(***************************************************************************)
(* Small instances of Kernel for TLC.                                      *)
(***************************************************************************)
EXTENDS Kernel

CONSTANTS t1, t2, t3

\* t1 and t2 tie, so the slot order decides between them; t3 is more urgent.
PriorityOf == [t \in Task |-> IF t = t3 THEN 1 ELSE 2]

\* t3 was created with a stack too small for a frame.
SmallStack == [t \in Task |-> t # t3]

=============================================================================
