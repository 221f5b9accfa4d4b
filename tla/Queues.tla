------------------------------- MODULE Queues -------------------------------
(***************************************************************************)
(* The queues of the kernel as sequences, oldest entry first: a semaphore's*)
(* wait queue (semaphore.c) and the delay queue (delay_queue.c).           *)
(***************************************************************************)
EXTENDS Integers, Sequences

InSeq(q, t) == \E i \in 1..Len(q) : q[i] = t

\* Mutant: the last element fills the gap.
SwapDrop(q, i) ==
  [j \in 1..(Len(q) - 1) |-> IF j = i THEN q[Len(q)] ELSE q[j]]

\* Mutant: nothing is dropped.
DropNothing(q, i) == q

\* The sequence without its i-th element (delay_queue_remove_at, and the
\* rebuilt ring of sem_remove_waiter).
Drop(q, i) == [j \in 1..(Len(q) - 1) |-> IF j < i THEN q[j] ELSE q[j + 1]]

\* Mutant: the semaphore keeps a waiter whose time ran out.
KeepWaiter(q, t) == q

\* sem_remove_waiter(): drops the first occurrence of t.
RemoveWaiter(q, t) ==
  Drop(q, CHOOSE i \in 1..Len(q) : q[i] = t /\ \A j \in 1..(i - 1) : q[j] # t)

=============================================================================
