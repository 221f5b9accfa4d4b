--------------------------- MODULE SemaphoreSpec ---------------------------
(***************************************************************************)
(* What semaphore.c promises the API layer: semaphores known by their IDs, *)
(* each with a count, a maximum and a first-in first-out queue of waiting  *)
(* tasks from which a task whose time ran out may be taken.  These are the *)
(* max, count and waitq of module Kernel.                                  *)
(***************************************************************************)
EXTENDS Integers, Sequences, Queues

CONSTANTS
  Task,      \* tasks that may wait
  NoTask,    \* no task: an empty slot of a queue
  MaxSems,   \* MAX_SEMAPHORES
  MaxTasks,  \* MAX_TASKS, the length of a wait queue
  MaxCount   \* bound on max_count passed to sem_create()

Id == 1..MaxSems

VARIABLES
  max,     \* max_count of each semaphore; 0 for an ID not in use
  count,
  waitq,
  waits,   \* the semaphore each task's TCB says it waits on; 0 for none
  answer   \* what the last call returned, and the ID or task it handed out

vars == <<max, count, waitq, waits, answer>>
semVars == <<max, count, waitq>>

Answer(code, v) == answer' = [code |-> code, value |-> v]

Exists(s) == s \in Id /\ max[s] > 0

Refuse(code) == Answer(code, NoTask) /\ UNCHANGED <<semVars, waits>>

sem_init ==
  /\ max' = [s \in Id |-> 0]
  /\ count' = [s \in Id |-> 0]
  /\ waitq' = [s \in Id |-> <<>>]
  /\ Answer("SEM_OK", NoTask)
  /\ UNCHANGED waits

sem_create(init, m) ==
  \/ /\ m = 0 \/ init > m
     /\ Refuse("SEM_ERR_INVAL")
  \/ /\ m > 0 /\ init <= m /\ \A s \in Id : Exists(s)
     /\ Refuse("SEM_ERR_FULL")
  \/ /\ m > 0 /\ init <= m
     /\ \E s \in Id :
          /\ ~Exists(s)
          /\ max' = [max EXCEPT ![s] = m]
          /\ count' = [count EXCEPT ![s] = init]
          /\ waitq' = [waitq EXCEPT ![s] = <<>>]
          /\ Answer("SEM_OK", s)
     /\ UNCHANGED waits

sem_take_if_available(s) ==
  \/ ~Exists(s) /\ Refuse("SEM_ERR_INVAL")
  \/ Exists(s) /\ count[s] = 0 /\ Refuse("SEM_WAIT_REQUIRED")
  \/ /\ Exists(s) /\ count[s] > 0
     /\ count' = [count EXCEPT ![s] = @ - 1]
     /\ Answer("SEM_OK", NoTask)
     /\ UNCHANGED <<max, waitq, waits>>

sem_increment_count(s) ==
  \/ ~Exists(s) /\ Refuse("SEM_ERR_INVAL")
  \/ Exists(s) /\ count[s] = max[s] /\ Refuse("SEM_ERR_OVERFLOW")
  \/ /\ Exists(s) /\ count[s] < max[s]
     /\ count' = [count EXCEPT ![s] = @ + 1]
     /\ Answer("SEM_OK", NoTask)
     /\ UNCHANGED <<max, waitq, waits>>

sem_enqueue_waiter(s, t) ==
  \/ ~Exists(s) /\ Refuse("SEM_ERR_INVAL")
  \/ Exists(s) /\ waits[t] # s /\ Refuse("SEM_ERR_TASK")
  \/ Exists(s) /\ waits[t] = s /\ Len(waitq[s]) = MaxTasks /\ Refuse("SEM_ERR_OVERFLOW")
  \/ /\ Exists(s) /\ waits[t] = s /\ Len(waitq[s]) < MaxTasks
     /\ waitq' = [waitq EXCEPT ![s] = Append(@, t)]
     /\ Answer("SEM_OK", NoTask)
     /\ UNCHANGED <<max, count, waits>>

sem_dequeue_waiter(s) ==
  \/ ~Exists(s) /\ Refuse("SEM_ERR_INVAL")
  \/ Exists(s) /\ waitq[s] = <<>> /\ Refuse("SEM_WAIT_QUEUE_EMPTY")
  \/ /\ Exists(s) /\ waitq[s] # <<>>
     /\ waitq' = [waitq EXCEPT ![s] = Tail(@)]
     /\ Answer("SEM_OK", Head(waitq[s]))
     /\ UNCHANGED <<max, count, waits>>

sem_remove_waiter(s, t) ==
  \/ ~Exists(s) /\ Refuse("SEM_ERR_INVAL")
  \/ Exists(s) /\ ~InSeq(waitq[s], t) /\ Refuse("SEM_WAIT_QUEUE_EMPTY")
  \/ /\ Exists(s) /\ InSeq(waitq[s], t)
     /\ waitq' = [waitq EXCEPT ![s] = RemoveWaiter(@, t)]
     /\ Answer("SEM_OK", NoTask)
     /\ UNCHANGED <<max, count, waits>>

Queued(t) == \E s \in Id : InSeq(waitq[s], t)

\* The task module marks a task WAITING before it is queued and READY after it
\* has left the queue.
TaskState(t, s) ==
  /\ ~Queued(t)
  /\ waits' = [waits EXCEPT ![t] = s]
  /\ UNCHANGED <<semVars, answer>>

Init ==
  /\ max = [s \in Id |-> 0]
  /\ count = [s \in Id |-> 0]
  /\ waitq = [s \in Id |-> <<>>]
  /\ waits = [t \in Task |-> 0]
  /\ answer = [code |-> "SEM_OK", value |-> NoTask]

Next ==
  \/ sem_init
  \/ \E m \in 0..MaxCount, init \in 0..MaxCount : sem_create(init, m)
  \/ \E s \in 0..MaxSems :
       \/ sem_take_if_available(s)
       \/ sem_increment_count(s)
       \/ sem_dequeue_waiter(s)
       \/ \E t \in Task : \/ ~Queued(t) /\ sem_enqueue_waiter(s, t)
                          \/ sem_remove_waiter(s, t)
                          \/ TaskState(t, s)

Spec == Init /\ [][Next]_vars

=============================================================================
