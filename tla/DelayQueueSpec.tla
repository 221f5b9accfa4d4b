--------------------------- MODULE DelayQueueSpec ---------------------------
(***************************************************************************)
(* What delay_queue.c promises: a list of tasks and the ticks they still   *)
(* have to wait.  A tick is one step: every entry has a tick less, those   *)
(* without one left are handed on, oldest first, and the others stay in    *)
(* their order.                                                            *)
(***************************************************************************)
EXTENDS Integers, Sequences, FiniteSets, Queues

CONSTANTS Task,
          MaxTasks,  \* MAX_TASKS, the length of the queue
          MaxDelay   \* bound on the ticks of a wait

VARIABLES
  list,     \* the entries, oldest first
  reason,   \* what each task's TCB says it waits for
  expired,  \* the tasks the last call handed on
  answer    \* what the last call returned

vars == <<list, reason, expired, answer>>

Reasons == {"NONE", "DELAY", "SEMAPHORE_TIMEOUT"}

Answer(code) == answer' = code /\ expired' = <<>> /\ UNCHANGED reason

Refuse(code) == Answer(code) /\ UNCHANGED list

Listed(t) == \E i \in 1..Len(list) : list[i].task = t

delay_queue_enqueue(t, n) ==
  \/ n = 0 /\ Refuse("ERR_INVAL")
  \/ n > 0 /\ reason[t] = "NONE" /\ Refuse("ERR_TASK_STATE")
  \/ n > 0 /\ reason[t] # "NONE" /\ Listed(t) /\ Refuse("ERR_DUPLICATE")
  \/ n > 0 /\ reason[t] # "NONE" /\ ~Listed(t) /\ Len(list) = MaxTasks /\ Refuse("ERR_FULL")
  \/ /\ n > 0 /\ reason[t] # "NONE" /\ ~Listed(t) /\ Len(list) < MaxTasks
     /\ list' = Append(list, [task |-> t, rem |-> n])
     /\ Answer("OK")

delay_queue_remove_sem_timeout_waiter(t) ==
  \/ reason[t] # "SEMAPHORE_TIMEOUT" /\ Refuse("ERR_TASK_STATE")
  \/ reason[t] = "SEMAPHORE_TIMEOUT" /\ ~Listed(t) /\ Refuse("ERR_INVAL")
  \/ /\ reason[t] = "SEMAPHORE_TIMEOUT"
     /\ \E i \in 1..Len(list) : list[i].task = t /\ list' = Drop(list, i)
     /\ Answer("OK")

\* The places of the entries that a tick leaves on the list, and of the others.
Staying == {i \in 1..Len(list) : list[i].rem > 1}

Expiring == {i \in 1..Len(list) : list[i].rem <= 1}

\* How many elements of a set of places come no later than j; its n-th element.
Rank(S, j) == Cardinality({i \in S : i <= j})

Nth(S, n) == CHOOSE j \in S : Rank(S, j) = n

delay_queue_tick ==
  /\ list' = [n \in 1..Cardinality(Staying) |-> [list[Nth(Staying, n)] EXCEPT !.rem = @ - 1]]
  /\ expired' = [n \in 1..Cardinality(Expiring) |-> list[Nth(Expiring, n)].task]
  /\ reason' = [t \in Task |-> IF InSeq(expired', t) THEN "NONE" ELSE reason[t]]
  /\ answer' = "OK"

\* The task module marks a task WAITING before it is queued and READY after it
\* has left the queue.
TaskState(t, why) ==
  /\ ~Listed(t)
  /\ reason' = [reason EXCEPT ![t] = why]
  /\ UNCHANGED <<list, expired, answer>>

Init ==
  /\ list = <<>>
  /\ reason = [t \in Task |-> "NONE"]
  /\ expired = <<>>
  /\ answer = "OK"

Next ==
  \/ \E t \in Task, n \in 0..MaxDelay : delay_queue_enqueue(t, n)
  \/ \E t \in Task : \/ delay_queue_remove_sem_timeout_waiter(t)
                     \/ \E why \in Reasons : TaskState(t, why)
  \/ delay_queue_tick

Spec == Init /\ [][Next]_vars

=============================================================================
