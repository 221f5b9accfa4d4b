----------------------------- MODULE DelayQueue -----------------------------
(***************************************************************************)
(* delay_queue.c as it is stored: an array of entries with a count, in     *)
(* which a removal moves every later entry one cell down, also under the   *)
(* loop of delay_queue_tick() that walks it.  The loop is taken entry by   *)
(* entry; nothing else runs meanwhile.                                     *)
(***************************************************************************)
EXTENDS Integers, Sequences

CONSTANTS Task, NoTask, MaxTasks, MaxDelay

ASSUME DelayQueueAssumption ==
  NoTask \notin Task /\ MaxTasks \in Nat \ {0} /\ MaxDelay \in Nat

VARIABLES
  delay_queue_entries,  \* delay_queue_entry_t delay_queue_entries[MAX_TASKS]
  delay_queue_count,
  index,    \* the loop variable of delay_queue_tick(); -1 outside the loop
  reason,   \* wait_reason of each task; "NONE" for one that does not wait
  hand,     \* the tasks the running tick has handed on so far
  before,   \* history: entries and reasons when the running tick began
  expired,  \* the tasks the last call handed on
  answer    \* what the last call returned

vars == <<delay_queue_entries, delay_queue_count, index, reason, hand, before,
          expired, answer>>
queue == <<delay_queue_entries, delay_queue_count>>
loop == <<index, hand, before>>

Cell == 0..(MaxTasks - 1)
Reasons == {"NONE", "DELAY", "SEMAPHORE_TIMEOUT"}
Empty == [task_id |-> NoTask, remaining |-> 0]

NoHistory == [list |-> <<>>, reason |-> [t \in Task |-> "NONE"]]

\* The entries in use, as a sequence.
Entries ==
  [i \in 1..delay_queue_count |-> [task |-> delay_queue_entries[i - 1].task_id,
                                   rem |-> delay_queue_entries[i - 1].remaining]]

\* delay_queue_find_index_by_task_id() answers i.
IsIndexOf(t, i) ==
  /\ i \in 0..(delay_queue_count - 1)
  /\ delay_queue_entries[i].task_id = t
  /\ \A j \in 0..(i - 1) : delay_queue_entries[j].task_id # t

HasEntry(t) == \E i \in Cell : IsIndexOf(t, i)

\* Mutant: the length of the array is not looked at.
CanAlwaysEnqueue(t) == IF HasEntry(t) THEN "ERR_DUPLICATE" ELSE "OK"

delay_queue_can_enqueue(t) ==
  IF HasEntry(t) THEN "ERR_DUPLICATE"
  ELSE IF delay_queue_count >= MaxTasks THEN "ERR_FULL"
  ELSE "OK"

Answer(code) ==
  answer' = code /\ expired' = <<>> /\ UNCHANGED <<reason, loop>>

Refuse(code) == Answer(code) /\ UNCHANGED queue

delay_queue_enqueue(t, n) ==
  /\ index = -1
  /\ IF n = 0 THEN Refuse("ERR_INVAL")
     ELSE IF reason[t] = "NONE" THEN Refuse("ERR_TASK_STATE")
     ELSE IF delay_queue_can_enqueue(t) # "OK" THEN Refuse(delay_queue_can_enqueue(t))
     ELSE /\ delay_queue_entries' = [delay_queue_entries EXCEPT
                ![delay_queue_count] = [task_id |-> t, remaining |-> n]]
          /\ delay_queue_count' = delay_queue_count + 1
          /\ Answer("OK")

\* Mutant: the cell at the end keeps its entry.
ShiftOnly(es, r) ==
  [i \in Cell |-> IF i \in r..(delay_queue_count - 2) THEN es[i + 1] ELSE es[i]]

\* delay_queue_remove_at(): the later entries of es move down, the last cell
\* is cleared.
RemovedAt(es, r) ==
  [i \in Cell |-> IF i = delay_queue_count - 1 THEN Empty
                  ELSE IF i \in r..(delay_queue_count - 2) THEN es[i + 1]
                  ELSE es[i]]

\* sig_sem() takes a waiter with a timeout off the queue.
delay_queue_remove_sem_timeout_waiter(t) ==
  /\ index = -1
  /\ IF reason[t] # "SEMAPHORE_TIMEOUT" THEN Refuse("ERR_TASK_STATE")
     ELSE IF ~HasEntry(t) THEN Refuse("ERR_INVAL")
     ELSE /\ \E i \in Cell :
               /\ IsIndexOf(t, i)
               /\ delay_queue_entries' = RemovedAt(delay_queue_entries, i)
          /\ delay_queue_count' = delay_queue_count - 1
          /\ Answer("OK")

TickBegin ==
  /\ index = -1
  /\ index' = 0
  /\ hand' = <<>>
  /\ before' = [list |-> Entries, reason |-> reason]
  /\ UNCHANGED <<queue, reason, expired, answer>>

\* Mutant: the loop advances also when an entry has left its place.
AlwaysAdvance(after) == index + 1

\* The cell the loop looks at next.
NextIndex(after) == IF after > 0 THEN index + 1 ELSE index

\* One round of the loop.  An entry without time left is removed whatever
\* became of its task; that the wakeup succeeds is shown in module Kernel.
TickEntry ==
  /\ index >= 0 /\ index < delay_queue_count
  /\ LET e == delay_queue_entries[index]
         after == IF e.remaining > 0 THEN e.remaining - 1 ELSE 0
         ticked == [delay_queue_entries EXCEPT ![index].remaining = after]
     IN  /\ IF after > 0
            THEN /\ delay_queue_entries' = ticked
                 /\ UNCHANGED <<delay_queue_count, reason, hand>>
            ELSE /\ delay_queue_entries' = RemovedAt(ticked, index)
                 /\ delay_queue_count' = delay_queue_count - 1
                 /\ reason' = [reason EXCEPT ![e.task_id] = "NONE"]
                 /\ hand' = Append(hand, e.task_id)
         /\ index' = NextIndex(after)
  /\ UNCHANGED <<before, expired, answer>>

TickEnd ==
  /\ index >= delay_queue_count
  /\ index' = -1
  /\ expired' = hand
  /\ answer' = "OK"
  /\ hand' = <<>>
  /\ before' = NoHistory
  /\ UNCHANGED <<queue, reason>>

\* task_mark_waiting_on_delay(), _on_sem_timeout() and the wakeup of sig_sem().
TaskState(t, why) ==
  /\ index = -1
  /\ ~HasEntry(t)
  /\ reason' = [reason EXCEPT ![t] = why]
  /\ UNCHANGED <<queue, loop, expired, answer>>

Init ==
  /\ delay_queue_entries = [i \in Cell |-> Empty]
  /\ delay_queue_count = 0
  /\ index = -1
  /\ reason = [t \in Task |-> "NONE"]
  /\ hand = <<>>
  /\ before = NoHistory
  /\ expired = <<>>
  /\ answer = "OK"

Next ==
  \/ \E t \in Task, n \in 0..MaxDelay : delay_queue_enqueue(t, n)
  \/ \E t \in Task : \/ delay_queue_remove_sem_timeout_waiter(t)
                     \/ \E why \in Reasons : TaskState(t, why)
  \/ TickBegin
  \/ TickEntry
  \/ TickEnd

Spec == Init /\ [][Next]_vars

-----------------------------------------------------------------------------
(***************************************************************************)
(* The array implements a list.                                            *)
(***************************************************************************)
TypeOK ==
  /\ delay_queue_entries \in
       [Cell -> [task_id : Task \cup {NoTask}, remaining : 0..MaxDelay]]
  /\ delay_queue_count \in 0..MaxTasks
  /\ index \in -1..MaxTasks
  /\ reason \in [Task -> Reasons]

\* The array and its count agree, also in the middle of a tick: every cell
\* below the count is in use, and delay_queue_remove_at() leaves no old entry
\* in the cell that falls free, as its comment says.
CellsMatchCount ==
  \A i \in Cell : delay_queue_entries[i] # Empty <=> i < delay_queue_count

\* While a tick runs its effect is not visible yet.
InTick == index >= 0

Abstract == INSTANCE DelayQueueSpec
  WITH list <- IF InTick THEN before.list ELSE Entries,
       reason <- IF InTick THEN before.reason ELSE reason

\* delay_queue.c keeps its promise: the loop that removes entries from the
\* array it walks has, when it ends, the effect of one step on the list, and
\* every other call that of its counterpart in DelayQueueSpec.
ImplementsList == Abstract!Spec

=============================================================================
