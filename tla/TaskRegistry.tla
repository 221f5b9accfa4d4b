---------------------------- MODULE TaskRegistry ----------------------------
(***************************************************************************)
(* How task.c numbers tasks.  task_register() takes the next ID from a     *)
(* counter; task_create_dormant(), behind cre_tsk(), takes the ID its      *)
(* caller asks for and moves the counter past it.  IDs are C ints: the     *)
(* counter wraps (the build keeps two's complement).  There is no call     *)
(* that deletes a task, so a slot once used stays used until task_init().  *)
(*                                                                         *)
(* Kernel takes from here that an ID names one task.                       *)
(***************************************************************************)
EXTENDS Integers, Sequences

CONSTANTS
  IdMax,        \* TASK_ID_MAX, the largest int
  MaxCreateId,  \* the largest ID callers pass to cre_tsk()
  MaxTasks      \* MAX_TASKS: slots of the table

ASSUME IdAssumption ==
  /\ IdMax \in Nat \ {0}
  /\ MaxCreateId \in 0..IdMax
  /\ MaxTasks \in Nat

VARIABLES
  ids,           \* task_table[i].id for the slots in use, in slot order
  next_task_id,  \* the counter
  ret            \* the last result: an ID, 0 for success, a TASK_ERR_* name

vars == <<ids, next_task_id, ret>>

Int32 == (-IdMax - 1)..IdMax

\* The int that n becomes.
Wrap(n) == IF n > IdMax THEN n - 2 * (IdMax + 1) ELSE n

\* find_free_slot(): slots fill in order.
HasFreeSlot == Len(ids) < MaxTasks

\* Mutant: the table is not searched.
NeverInUse(id) == FALSE

task_id_is_in_use(id) == \E i \in 1..Len(ids) : ids[i] = id

Fail(e) == ret' = e /\ UNCHANGED <<ids, next_task_id>>

task_init ==
  /\ ids' = <<>>
  /\ next_task_id' = 1
  /\ ret' = 0

\* Mutant: the counter has no upper bound.
CounterIsPositive == next_task_id > 0

\* allocate_task_id() has an ID left to give.
CanAllocate == next_task_id > 0 /\ next_task_id < IdMax

\* valid: no argument is null or zero.
task_register(valid) ==
  \/ /\ ~valid
     /\ Fail("TASK_ERR_INVAL")
  \/ /\ valid /\ ~HasFreeSlot
     /\ Fail("TASK_ERR_FULL")
  \/ /\ valid /\ HasFreeSlot /\ ~CanAllocate
     /\ Fail("TASK_ERR_ID_OVERFLOW")
  \/ /\ valid /\ HasFreeSlot /\ CanAllocate
     /\ ids' = Append(ids, next_task_id)
     /\ next_task_id' = next_task_id + 1
     /\ ret' = next_task_id

\* Mutant: the counter stops at the ID just taken.
CounterStopsAt(id) == IF next_task_id <= id THEN id ELSE next_task_id

\* The counter after id was taken by cre_tsk().
CounterPast(id) == IF next_task_id <= id THEN Wrap(id + 1) ELSE next_task_id

task_create_dormant(id, valid) ==
  \/ /\ id <= 0 \/ ~valid
     /\ Fail("TASK_ERR_INVAL")
  \/ /\ id > 0 /\ valid /\ task_id_is_in_use(id)
     /\ Fail("TASK_ERR_BAD_STATE")
  \/ /\ id > 0 /\ valid /\ ~task_id_is_in_use(id) /\ ~HasFreeSlot
     /\ Fail("TASK_ERR_FULL")
  \/ /\ id > 0 /\ valid /\ ~task_id_is_in_use(id) /\ HasFreeSlot
     /\ ids' = Append(ids, id)
     /\ next_task_id' = CounterPast(id)
     /\ ret' = 0

Init == ids = <<>> /\ next_task_id = 1 /\ ret = 0

Next == \/ task_init
        \/ \E valid \in BOOLEAN : task_register(valid)
        \/ \E id \in 0..MaxCreateId, valid \in BOOLEAN : task_create_dormant(id, valid)

Spec == Init /\ [][Next]_vars

-----------------------------------------------------------------------------
\* IDs are positive ints; the counter is an int.
TypeOK ==
  /\ ids \in Seq(1..IdMax)
  /\ next_task_id \in Int32

\* An ID names one task: no two slots share one, whichever of task_register()
\* and cre_tsk() filled them, in whatever order.
UniqueIds == \A i, j \in 1..Len(ids) : ids[i] = ids[j] => i = j

\* The counter stays ahead of every ID in use, so that allocate_task_id() need
\* not search the table.
CounterAhead ==
  /\ next_task_id > 0
  /\ \A i \in 1..Len(ids) : ids[i] < next_task_id

=============================================================================
