----------------------------- MODULE Semaphore -----------------------------
(***************************************************************************)
(* semaphore.c as it is stored: a table of slots, the counter that hands   *)
(* out IDs, and in each slot the ring buffer of waiting task IDs.  Every   *)
(* function runs to its end before the next call.  The calls come from the *)
(* API layer, which marks a task WAITING (here: waits) before it queues it *)
(* and never queues one that is queued already.                            *)
(***************************************************************************)
EXTENDS Integers, Sequences, FiniteSets

CONSTANTS Task, NoTask, MaxSems, MaxTasks, MaxCount,
          SemIdMax   \* SEM_ID_MAX

ASSUME SemaphoreAssumption ==
  /\ NoTask \notin Task
  /\ MaxSems \in Nat \ {0} /\ MaxTasks \in Nat \ {0} /\ MaxCount \in Nat
  /\ SemIdMax \in Nat /\ MaxSems + 1 < SemIdMax

VARIABLES
  semaphore_table,  \* semaphore_t semaphore_table[MAX_SEMAPHORES]
  next_sem_id,
  waits,            \* wait_sem_id of each WAITING task; 0 for the others
  answer            \* what the last call returned and handed out

vars == <<semaphore_table, next_sem_id, waits, answer>>

Slot == 0..(MaxSems - 1)
Cell == 0..(MaxTasks - 1)

\* sem_reset_wait_queue(), the fields set around it, and no name or counts.
Blank(id, c, m) ==
  [id |-> id, count |-> c, max_count |-> m,
   wait_queue |-> [i \in Cell |-> NoTask],
   wait_head |-> 0, wait_tail |-> 0, wait_count |-> 0]

\* find_semaphore_by_id(): a linear search for the first slot with the ID.
Found(s) == s > 0 /\ \E i \in Slot : semaphore_table[i].id = s

SlotOf(s) ==
  CHOOSE i \in Slot : /\ semaphore_table[i].id = s
                      /\ \A j \in 0..(i - 1) : semaphore_table[j].id # s

Answer(code, v) == answer' = [code |-> code, value |-> v]

Refuse(code) ==
  Answer(code, NoTask) /\ UNCHANGED <<semaphore_table, next_sem_id, waits>>

\* The semaphore of ID s becomes sem; the call hands out v.
Store(s, sem, v) ==
  /\ semaphore_table' = [semaphore_table EXCEPT ![SlotOf(s)] = sem]
  /\ Answer("SEM_OK", v)
  /\ UNCHANGED <<next_sem_id, waits>>

\* Mutant: the IDs start again although the table keeps its semaphores.
RestartIds ==
  /\ next_sem_id' = 1
  /\ Answer("SEM_OK", NoTask)
  /\ UNCHANGED <<semaphore_table, waits>>

sem_init ==
  /\ semaphore_table' = [i \in Slot |-> Blank(0, 0, 0)]
  /\ next_sem_id' = 1
  /\ Answer("SEM_OK", NoTask)
  /\ UNCHANGED waits

\* find_free_semaphore_slot() searches for the first slot without an ID.
FreeSlots == {i \in Slot : semaphore_table[i].id = 0}

\* allocate_sem_id() hands out next_sem_id; the last ID is never handed out.
CanAllocate == next_sem_id > 0 /\ next_sem_id < SemIdMax

\* The slot is written only after allocate_sem_id() has succeeded.
sem_create(init, m) ==
  IF m <= 0 \/ init > m THEN Refuse("SEM_ERR_INVAL")
  ELSE IF FreeSlots = {} THEN Refuse("SEM_ERR_FULL")
  ELSE IF ~CanAllocate THEN Refuse("SEM_ERR_OVERFLOW")
  ELSE \E i \in FreeSlots :
         /\ \A j \in FreeSlots : i <= j
         /\ semaphore_table' =
              [semaphore_table EXCEPT ![i] = Blank(next_sem_id, init, m)]
         /\ next_sem_id' = next_sem_id + 1
         /\ Answer("SEM_OK", next_sem_id)
         /\ UNCHANGED waits

sem_take_if_available(s) ==
  IF ~Found(s) THEN Refuse("SEM_ERR_INVAL")
  ELSE LET sem == semaphore_table[SlotOf(s)]
       IN  IF sem.count > 0
           THEN Store(s, [sem EXCEPT !.count = @ - 1], NoTask)
           ELSE Refuse("SEM_WAIT_REQUIRED")

sem_increment_count(s) ==
  IF ~Found(s) THEN Refuse("SEM_ERR_INVAL")
  ELSE LET sem == semaphore_table[SlotOf(s)]
       IN  IF sem.count >= sem.max_count
           THEN Refuse("SEM_ERR_OVERFLOW")
           ELSE Store(s, [sem EXCEPT !.count = @ + 1], NoTask)

sem_enqueue_waiter(s, t) ==
  IF ~Found(s) THEN Refuse("SEM_ERR_INVAL")
  ELSE IF waits[t] # s THEN Refuse("SEM_ERR_TASK")
  ELSE LET sem == semaphore_table[SlotOf(s)]
       IN  IF sem.wait_count >= MaxTasks
           THEN Refuse("SEM_ERR_OVERFLOW")
           ELSE Store(s, [sem EXCEPT !.wait_queue[sem.wait_tail] = t,
                                     !.wait_tail = (@ + 1) % MaxTasks,
                                     !.wait_count = @ + 1], NoTask)

\* Mutant: the cell that is left keeps the task ID.
HeadWithoutCell(sem) ==
  [sem EXCEPT !.wait_head = (@ + 1) % MaxTasks, !.wait_count = @ - 1]

\* The head leaves: its cell is cleared and the head moves round the ring.
WithoutHead(sem) ==
  [sem EXCEPT !.wait_queue[sem.wait_head] = NoTask,
              !.wait_head = (@ + 1) % MaxTasks,
              !.wait_count = @ - 1]

\* Mutant: an empty queue is not noticed.
DequeueUnchecked(s) ==
  IF ~Found(s) THEN Refuse("SEM_ERR_INVAL")
  ELSE LET sem == semaphore_table[SlotOf(s)]
       IN  Store(s, WithoutHead(sem), sem.wait_queue[sem.wait_head])

sem_dequeue_waiter(s) ==
  IF ~Found(s) THEN Refuse("SEM_ERR_INVAL")
  ELSE LET sem == semaphore_table[SlotOf(s)]
       IN  IF sem.wait_count <= 0
           THEN Refuse("SEM_WAIT_QUEUE_EMPTY")
           ELSE Store(s, WithoutHead(sem), sem.wait_queue[sem.wait_head])

\* Mutant: the ring is read from cell 0, wherever its head is.
FromCellZero(sem, i) == sem.wait_queue[i]

\* The i-th waiter, from 0, in logical order.
Waiter(sem, i) == sem.wait_queue[(sem.wait_head + i) % MaxTasks]

\* The waiters before and after the k-th are copied out and back to a ring
\* that starts at cell 0; the other cells are cleared.
WithoutWaiter(sem, k) ==
  LET kept == sem.wait_count - 1
  IN  [sem EXCEPT
        !.wait_queue = [i \in Cell |-> IF i >= kept THEN NoTask
                                       ELSE IF i < k THEN Waiter(sem, i)
                                       ELSE Waiter(sem, i + 1)],
        !.wait_head = 0,
        !.wait_tail = kept % MaxTasks,
        !.wait_count = kept]

sem_remove_waiter(s, t) ==
  IF ~Found(s) THEN Refuse("SEM_ERR_INVAL")
  ELSE LET sem == semaphore_table[SlotOf(s)]
           hits == {i \in 0..(sem.wait_count - 1) : Waiter(sem, i) = t}
       IN  IF hits = {} THEN Refuse("SEM_WAIT_QUEUE_EMPTY")
           ELSE \E k \in hits :
                  /\ \A i \in hits : k <= i
                  /\ Store(s, WithoutWaiter(sem, k), NoTask)

Queued(t) == \E i \in Slot, c \in Cell : semaphore_table[i].wait_queue[c] = t

\* task_mark_waiting_on_sem() and task_wake_waiting_on_sem_by_id() as the API
\* layer calls them: before a task is queued, after it has left the queue.
TaskState(t, s) ==
  /\ ~Queued(t)
  /\ waits' = [waits EXCEPT ![t] = s]
  /\ UNCHANGED <<semaphore_table, next_sem_id, answer>>

Init ==
  /\ semaphore_table = [i \in Slot |-> Blank(0, 0, 0)]
  /\ next_sem_id = 1
  /\ waits = [t \in Task |-> 0]
  /\ answer = [code |-> "SEM_OK", value |-> NoTask]

Next ==
  \/ sem_init
  \/ \E m \in 0..MaxCount, init \in 0..MaxCount : sem_create(init, m)
  \/ \E s \in 0..MaxSems :
       \/ sem_take_if_available(s)
       \/ sem_increment_count(s)
       \/ sem_dequeue_waiter(s)
       \/ \E t \in Task : \/ ~Queued(t) /\ sem_enqueue_waiter(s, t)
                          \/ sem_remove_waiter(s, t)
                          \/ TaskState(t, s)

Spec == Init /\ [][Next]_vars

-----------------------------------------------------------------------------
(***************************************************************************)
(* The ring implements a queue.                                            *)
(***************************************************************************)
TypeOK ==
  /\ semaphore_table \in
       [Slot -> [id : Nat, count : Nat, max_count : Nat,
                 wait_queue : [Cell -> Task \cup {NoTask}],
                 wait_head : Cell, wait_tail : Cell, wait_count : 0..MaxTasks]]
  /\ next_sem_id \in Nat
  /\ waits \in [Task -> 0..MaxSems]

\* Head, tail and count of a wait queue agree, however often the ring has
\* wrapped and whatever sem_remove_waiter() has rebuilt: exactly the cells
\* between head and tail hold tasks, so no stale task ID is left in the others.
RingShape ==
  \A i \in Slot :
    LET sem == semaphore_table[i]
    IN  /\ sem.wait_tail = (sem.wait_head + sem.wait_count) % MaxTasks
        /\ \A c \in Cell : sem.wait_queue[c] # NoTask
                             <=> (c - sem.wait_head) % MaxTasks < sem.wait_count

\* An ID names at most one semaphore, and allocate_sem_id() has not handed out
\* an ID that it will hand out again before the next sem_init().
IdsAreUnique ==
  \A i, j \in Slot :
    semaphore_table[i].id # 0 =>
      /\ semaphore_table[i].id < next_sem_id
      /\ i # j => semaphore_table[i].id # semaphore_table[j].id

\* What each ID of the abstract specification stands for.
Contents(sem) == [i \in 1..sem.wait_count |-> Waiter(sem, i - 1)]

IdMax == [s \in 1..MaxSems |->
            IF Found(s) THEN semaphore_table[SlotOf(s)].max_count ELSE 0]

IdCount == [s \in 1..MaxSems |->
              IF Found(s) THEN semaphore_table[SlotOf(s)].count ELSE 0]

IdQueue == [s \in 1..MaxSems |->
              IF Found(s) THEN Contents(semaphore_table[SlotOf(s)]) ELSE <<>>]

Abstract == INSTANCE SemaphoreSpec WITH max <- IdMax, count <- IdCount, waitq <- IdQueue

\* semaphore.c keeps its promise: every call changes the queue a ring stands
\* for, the counts and the answer as the same call of SemaphoreSpec does.
ImplementsQueues == Abstract!Spec

=============================================================================
