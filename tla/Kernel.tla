------------------------------- MODULE Kernel -------------------------------
(***************************************************************************)
(* The kernel of the itron-rtos learning RTOS: the task table (task.c),    *)
(* the dispatcher (dispatcher.c, task_context.c), the scheduler            *)
(* (scheduler.c), counting semaphores with FIFO wait queues (semaphore.c), *)
(* the delay queue (delay_queue.c), the dispatch-pending request           *)
(* (dispatch_pending.c, preemption.c), the timer tick and the timer        *)
(* interrupt (timer.c, arch/x86_64/interrupt.c), and the API that drives   *)
(* them (itron_api.c).                                                     *)
(*                                                                         *)
(* There is one CPU and no API call is ever interrupted: interrupts are    *)
(* off while kernel_main runs, and the validation build enables them only  *)
(* to sit in a hlt loop.  So an API call is one action.  The loop of       *)
(* delay_queue_tick() and the timer interrupt handler are taken step by    *)
(* step (pc, idx); everything else waits for them to finish.               *)
(*                                                                         *)
(* Serial log output is left out.  A task is its ID; the slot it occupies  *)
(* is its position in table, which breaks priority ties in the scheduler.  *)
(***************************************************************************)
EXTENDS Integers, Sequences, FiniteSets, Queues

CONSTANTS
  Task,      \* task IDs callers use
  Sem,       \* semaphore IDs sem_create() hands out
  NoTask,    \* the null TCB pointer, task ID 0
  NoSem,     \* wait_sem_id 0
  Priority,  \* [Task -> Int]: the priority each task is created with
  StackOk,   \* [Task -> BOOLEAN]: stack_size large enough for a frame
  MaxTasks,  \* MAX_TASKS: slots of the table, of a wait queue, of the delay queue
  MaxCount,  \* bound on max_count passed to sem_create()
  MaxDelay,  \* bound on the ticks passed to dly_tsk() and twai_sem()
  Recommit,  \* may dispatcher_commit_current() be called while a task RUNs?
  TimerIrq   \* is this the ARCH_TIMER_IRQ_ENTRY_VALIDATE build?

ASSUME ConstantsAssumption ==
  /\ NoTask \notin Task
  /\ NoSem \notin Sem
  /\ Priority \in [Task -> Int]
  /\ StackOk \in [Task -> BOOLEAN]
  /\ MaxTasks \in Nat \ {0}
  /\ MaxCount \in Nat
  /\ MaxDelay \in Nat
  /\ Recommit \in BOOLEAN
  /\ TimerIrq \in BOOLEAN

VARIABLES
  table,    \* the registered tasks, in slot order
  tcb,      \* the state and wait fields of each task's TCB
  current,  \* dispatcher.c: current_task
  pend,     \* dispatch_pending.c: dispatch_pending_state
  max,      \* semaphore_t.max_count; 0 for a slot not in use
  count,    \* semaphore_t.count
  waitq,    \* semaphore_t.wait_queue, oldest waiter first
  dq,       \* delay_queue_entries[0 .. delay_queue_count - 1]
  pc,       \* where control is: a task, a tick, a step of the interrupt
  idx,      \* the index of the loop in delay_queue_tick(), from 1
  atTick,   \* history: remaining ticks of each task when this tick began
  ret       \* the value the last API call returned

vars == <<table, tcb, current, pend, max, count, waitq, dq, pc, idx, atTick, ret>>
semVars == <<max, count, waitq>>
tickVars == <<pc, idx, atTick>>

-----------------------------------------------------------------------------
(***************************************************************************)
(* Task control blocks.                                                    *)
(***************************************************************************)
States == {"UNUSED", "DORMANT", "READY", "RUNNING", "WAITING"}

Reasons == {"NONE", "SEMAPHORE", "DELAY", "SEMAPHORE_TIMEOUT", "SLEEP"}

\* Every transition to a state other than WAITING clears the wait fields.
Tcb(st) == [state |-> st, reason |-> "NONE", sem |-> NoSem, rem |-> 0]

\* task_mark_waiting_on_sem, _delay, _sem_timeout and _sleep.
Waiting(why, s, n) == [state |-> "WAITING", reason |-> why, sem |-> s, rem |-> n]

Registered == {table[i] : i \in 1..Len(table)}

CurrentRunning == current # NoTask /\ tcb[current].state = "RUNNING"

NoPending == [source |-> "NONE", from |-> NoTask, to |-> NoTask]

Pending(src, f, t) == [source |-> src, from |-> f, to |-> t]

-----------------------------------------------------------------------------
(***************************************************************************)
(* The scheduler.                                                          *)
(***************************************************************************)

\* n is what scheduler_select_next() returns when the TCBs are tc.
IsNext(tc, n) ==
  LET R == {i \in 1..Len(table) : tc[table[i]].state = "READY"}
  IN  \/ R = {} /\ n = NoTask
      \/ \E i \in R :
           /\ n = table[i]
           /\ \A j \in R : \/ Priority[table[i]] < Priority[table[j]]
                           \/ Priority[table[i]] = Priority[table[j]] /\ i <= j

\* scheduler_select_preemption_candidate(current) answers NEEDED with n.
PreemptsCurrent(n) ==
  /\ CurrentRunning
  /\ n # NoTask
  /\ IsNext(tcb, n)
  /\ Priority[n] < Priority[current]

-----------------------------------------------------------------------------
(***************************************************************************)
(* The dispatcher.  Task entries only log and return, so a switch that     *)
(* reaches an entry ends with that task DORMANT and control back in the    *)
(* caller.  A switch away from a WAITING task runs the target alone.  Any  *)
(* other switch runs the entry of the source first (task_to_task_smoke)    *)
(* and then that of the target.  A stack too small for an initial frame is *)
(* noticed only after the states and current_task have been changed.       *)
(***************************************************************************)

\* The boundary checks of dispatcher_switch_to().
MaySwitch(tc, from, to) ==
  /\ from # to
  /\ tc[from].state \in {"RUNNING", "READY", "WAITING"}
  /\ tc[to].state = "READY"

\* task_context_prepare_initial_frame() succeeds for every task that must run.
FramesOk(tc, from, to) ==
  StackOk[to] /\ (tc[from].state = "WAITING" \/ StackOk[from])

AfterSwitch(tc, from, to) ==
  IF FramesOk(tc, from, to)
  THEN IF tc[from].state = "WAITING"
       THEN [tc EXCEPT ![to] = Tcb("DORMANT")]
       ELSE [tc EXCEPT ![from] = Tcb("DORMANT"), ![to] = Tcb("DORMANT")]
  ELSE IF tc[from].state = "WAITING"
       THEN [tc EXCEPT ![to] = Tcb("RUNNING")]
       ELSE [tc EXCEPT ![from] = Tcb("READY"), ![to] = Tcb("RUNNING")]

\* Mutant: current_task is left behind.
SwitchKeepsCurrent(tc, from, to) ==
  /\ tcb' = IF MaySwitch(tc, from, to) THEN AfterSwitch(tc, from, to) ELSE tc
  /\ UNCHANGED current

\* dispatcher_switch_to(from, to) when the TCBs are tc.
dispatcher_switch_to(tc, from, to) ==
  IF MaySwitch(tc, from, to)
  THEN tcb' = AfterSwitch(tc, from, to) /\ current' = to
  ELSE tcb' = tc /\ UNCHANGED current

\* The tail of slp_tsk, wai_sem, dly_tsk and twai_sem: the current task is
\* WAITING in tc; the next READY task, if there is one, takes over.
SwitchFromWaiting(tc) ==
  \E n \in Task \cup {NoTask} :
    /\ IsNext(tc, n)
    /\ IF n = NoTask
       THEN tcb' = tc /\ UNCHANGED current /\ ret' = "E_OK"
       ELSE /\ dispatcher_switch_to(tc, current, n)
            /\ ret' = IF MaySwitch(tc, current, n) /\ FramesOk(tc, current, n)
                      THEN "E_OK" ELSE "E_OBJ"

-----------------------------------------------------------------------------
(***************************************************************************)
(* Task management.                                                        *)
(***************************************************************************)

\* Callers run only between ticks and interrupts.
AtTask == pc = "task" /\ UNCHANGED tickVars

\* An API call that returns e before it changes anything.
Reject(e) ==
  /\ ret' = e
  /\ UNCHANGED <<table, tcb, current, pend, semVars, dq>>

HasFreeSlot == Len(table) < MaxTasks

\* task_register() of kernel_main: the task starts READY.
task_register(t) ==
  /\ AtTask
  /\ t \notin Registered /\ HasFreeSlot
  /\ table' = Append(table, t)
  /\ tcb' = [tcb EXCEPT ![t] = Tcb("READY")]
  /\ ret' = "none"
  /\ UNCHANGED <<current, pend, semVars, dq>>

\* valid: no field of the creation packet is null or zero.  NoTask stands for
\* every ID that is not positive.
cre_tsk(t, valid) ==
  /\ AtTask
  /\ \/ /\ t = NoTask
        /\ Reject("E_ID")
     \/ /\ t # NoTask /\ ~valid
        /\ Reject("E_PAR")
     \/ /\ t # NoTask /\ valid /\ (t \in Registered \/ ~HasFreeSlot)
        /\ Reject("E_OBJ")
     \/ /\ t # NoTask /\ valid /\ t \notin Registered /\ HasFreeSlot
        /\ table' = Append(table, t)
        /\ tcb' = [tcb EXCEPT ![t] = Tcb("DORMANT")]
        /\ ret' = "E_OK"
        /\ UNCHANGED <<current, pend, semVars, dq>>

\* Mutant: a task of equal priority asks too.
RequestOnTie(t) ==
  pend' = IF CurrentRunning /\ Priority[t] <= Priority[current]
          THEN Pending("TASK", current, t) ELSE pend

\* A task made READY by the running task asks for a dispatch if it is more
\* urgent: dispatch_request_from_task_start and _from_task_wakeup.
RequestFromTask(t) ==
  pend' = IF CurrentRunning /\ Priority[t] < Priority[current]
          THEN Pending("TASK", current, t) ELSE pend

sta_tsk(t) ==
  /\ AtTask
  /\ \/ /\ t \notin Registered
        /\ Reject("E_ID")
     \/ /\ t \in Registered /\ tcb[t].state # "DORMANT"
        /\ Reject("E_OBJ")
     \/ /\ t \in Registered /\ tcb[t].state = "DORMANT"
        /\ tcb' = [tcb EXCEPT ![t] = Tcb("READY")]
        /\ RequestFromTask(t)
        /\ ret' = "E_OK"
        /\ UNCHANGED <<table, current, semVars, dq>>

slp_tsk ==
  /\ AtTask
  /\ \/ /\ ~CurrentRunning
        /\ Reject("E_CTX")
     \/ /\ CurrentRunning
        /\ SwitchFromWaiting([tcb EXCEPT ![current] = Waiting("SLEEP", NoSem, 0)])
        /\ UNCHANGED <<table, pend, semVars, dq>>

IsSleeping(t) == tcb[t].state = "WAITING" /\ tcb[t].reason = "SLEEP"

wup_tsk(t) ==
  /\ AtTask
  /\ \/ /\ t \notin Registered
        /\ Reject("E_ID")
     \/ /\ t \in Registered /\ ~IsSleeping(t)
        /\ Reject("E_OBJ")
     \/ /\ t \in Registered /\ IsSleeping(t)
        /\ tcb' = [tcb EXCEPT ![t] = Tcb("READY")]
        /\ RequestFromTask(t)
        /\ ret' = "E_OK"
        /\ UNCHANGED <<table, current, semVars, dq>>

\* The result of the switch is ignored: yield_tsk() answers E_OK either way.
\* With no other task to run, the caller stays current but READY.
yield_tsk ==
  /\ AtTask
  /\ \/ /\ ~CurrentRunning
        /\ Reject("E_CTX")
     \/ /\ CurrentRunning
        /\ LET tc == [tcb EXCEPT ![current] = Tcb("READY")]
           IN  \E n \in Task :
                 /\ IsNext(tc, n)
                 /\ IF n = current
                    THEN tcb' = tc /\ UNCHANGED current
                    ELSE dispatcher_switch_to(tc, current, n)
        /\ ret' = "E_OK"
        /\ UNCHANGED <<table, pend, semVars, dq>>

-----------------------------------------------------------------------------
(***************************************************************************)
(* What kernel_main does with the dispatcher directly.                     *)
(***************************************************************************)

\* dispatcher_commit_current(t).  It does not look at the task that was
\* current before; Recommit says whether callers do.
dispatcher_commit_current(t) ==
  /\ AtTask
  /\ Recommit \/ \A u \in Task : tcb[u].state # "RUNNING"
  /\ tcb[t].state = "READY"
  /\ tcb' = [tcb EXCEPT ![t] = Tcb("RUNNING")]
  /\ current' = t
  /\ ret' = "none"
  /\ UNCHANGED <<table, pend, semVars, dq>>

\* The boot runner calls the current task's entry, which returns, and puts
\* the task back: task_mark_ready_from_running(current->id).
CooperativeReturn ==
  /\ AtTask
  /\ CurrentRunning
  /\ tcb' = [tcb EXCEPT ![current] = Tcb("READY")]
  /\ ret' = "none"
  /\ UNCHANGED <<table, current, pend, semVars, dq>>

\* kernel_run_minimal_context_switch_smoke: a direct switch to a chosen task.
ContextSwitchSmoke(t) ==
  /\ AtTask
  /\ CurrentRunning
  /\ MaySwitch(tcb, current, t)
  /\ dispatcher_switch_to(tcb, current, t)
  /\ ret' = "none"
  /\ UNCHANGED <<table, pend, semVars, dq>>

-----------------------------------------------------------------------------
(***************************************************************************)
(* Queues.  The ring buffer of a semaphore is its contents in order; the   *)
(* array of the delay queue likewise: Semaphore and DelayQueue model the   *)
(* arrays and show that they implement sequences.                          *)
(***************************************************************************)

InDelayQueue(t) == \E i \in 1..Len(dq) : dq[i].task = t

\* Mutant: the newest entry is taken for the entry of t.
NewestIndex(t) == Len(dq)

\* delay_queue_find_index(): the first entry of t.
DelayIndex(t) ==
  CHOOSE i \in 1..Len(dq) :
    dq[i].task = t /\ \A j \in 1..(i - 1) : dq[j].task # t

\* delay_queue_can_enqueue().
CanDelay(t) == ~InDelayQueue(t) /\ Len(dq) < MaxTasks

\* sem_can_enqueue_waiter(), and the capacity check of sem_enqueue_waiter().
CanQueue(s) == Len(waitq[s]) < MaxTasks

\* The callers have made the task WAITING for the purpose and asked for room.
sem_enqueue_waiter(s, t) == waitq' = [waitq EXCEPT ![s] = Append(@, t)]

delay_queue_enqueue(t, n) == dq' = Append(dq, [task |-> t, rem |-> n])

-----------------------------------------------------------------------------
(***************************************************************************)
(* Semaphores.                                                             *)
(***************************************************************************)

\* sem_get_by_id() finds s; NoSem stands for every ID not in use.
Exists(s) == s # NoSem /\ max[s] # 0

\* kernel_main calls sem_init() again between its checks, at moments when no
\* task waits on a semaphore; the tasks themselves are not looked at.
sem_init ==
  /\ AtTask
  /\ \A t \in Task : tcb[t].reason \notin {"SEMAPHORE", "SEMAPHORE_TIMEOUT"}
  /\ max' = [s \in Sem |-> 0]
  /\ count' = [s \in Sem |-> 0]
  /\ waitq' = [s \in Sem |-> <<>>]
  /\ ret' = "none"
  /\ UNCHANGED <<table, tcb, current, pend, dq>>

sem_create(s, init, m) ==
  /\ AtTask
  /\ max[s] = 0 /\ m > 0 /\ init <= m
  /\ max' = [max EXCEPT ![s] = m]
  /\ count' = [count EXCEPT ![s] = init]
  /\ waitq' = [waitq EXCEPT ![s] = <<>>]
  /\ ret' = "none"
  /\ UNCHANGED <<table, tcb, current, pend, dq>>

\* Mutant: the count is not looked at.
TakeUnchecked(s) ==
  /\ count' = [count EXCEPT ![s] = @ - 1]
  /\ ret' = "E_OK"
  /\ UNCHANGED <<table, tcb, current, pend, max, waitq, dq>>

\* sem_take_if_available(), shared by wai_sem, pol_sem and twai_sem.
TakeCount(s) ==
  /\ count[s] > 0
  /\ count' = [count EXCEPT ![s] = @ - 1]
  /\ ret' = "E_OK"
  /\ UNCHANGED <<table, tcb, current, pend, max, waitq, dq>>

\* The caller is marked WAITING before the queue is asked for room; a full
\* queue would leave it WAITING and queued nowhere.
wai_sem(s) ==
  /\ AtTask
  /\ \/ /\ ~CurrentRunning
        /\ Reject("E_CTX")
     \/ /\ CurrentRunning /\ ~Exists(s)
        /\ Reject("E_ID")
     \/ /\ CurrentRunning /\ Exists(s)
        /\ TakeCount(s)
     \/ /\ CurrentRunning /\ Exists(s) /\ count[s] = 0
        /\ LET tc == [tcb EXCEPT ![current] = Waiting("SEMAPHORE", s, 0)]
           IN  IF CanQueue(s)
               THEN /\ sem_enqueue_waiter(s, current)
                    /\ SwitchFromWaiting(tc)
               ELSE tcb' = tc /\ ret' = "E_OBJ" /\ UNCHANGED <<current, waitq>>
        /\ UNCHANGED <<table, pend, max, count, dq>>

pol_sem(s) ==
  /\ AtTask
  /\ \/ /\ ~CurrentRunning
        /\ Reject("E_CTX")
     \/ /\ CurrentRunning /\ ~Exists(s)
        /\ Reject("E_ID")
     \/ /\ CurrentRunning /\ Exists(s)
        /\ TakeCount(s)
     \/ /\ CurrentRunning /\ Exists(s) /\ count[s] = 0
        /\ Reject("E_TMOUT")

\* Both queues are asked for room before the caller is marked WAITING.
twai_sem(s, n) ==
  /\ AtTask
  /\ \/ /\ current = NoTask \/ (n # 0 /\ ~CurrentRunning)
        /\ Reject("E_CTX")
     \/ /\ current # NoTask /\ n = 0
        /\ Reject("E_PAR")
     \/ /\ CurrentRunning /\ n # 0 /\ ~Exists(s)
        /\ Reject("E_ID")
     \/ /\ CurrentRunning /\ n # 0 /\ Exists(s)
        /\ TakeCount(s)
     \/ /\ CurrentRunning /\ n # 0 /\ Exists(s) /\ count[s] = 0
        /\ IF ~CanQueue(s) THEN Reject("E_ID")
           ELSE IF ~CanDelay(current) THEN Reject("E_QOVR")
           ELSE /\ sem_enqueue_waiter(s, current)
                /\ delay_queue_enqueue(current, n)
                /\ SwitchFromWaiting(
                     [tcb EXCEPT ![current] = Waiting("SEMAPHORE_TIMEOUT", s, n)])
                /\ UNCHANGED <<table, pend, max, count>>

\* Mutant: a queue of one counts as empty.
FewWaiters(s) == Len(waitq[s]) <= 1

\* sem_dequeue_waiter() answers SEM_WAIT_QUEUE_EMPTY.
NoWaiters(s) == waitq[s] = <<>>

\* The oldest waiter is made READY and gets the resource directly; the count
\* moves only when nobody waits.  A waiter with a timeout leaves the delay
\* queue as well.  sig_sem() may be called with no current task.
sig_sem(s) ==
  /\ AtTask
  /\ \/ /\ ~Exists(s)
        /\ Reject("E_ID")
     \/ /\ Exists(s) /\ NoWaiters(s) /\ count[s] >= max[s]
        /\ Reject("E_QOVR")
     \/ /\ Exists(s) /\ NoWaiters(s) /\ count[s] < max[s]
        /\ count' = [count EXCEPT ![s] = @ + 1]
        /\ ret' = "E_OK"
        /\ UNCHANGED <<table, tcb, current, pend, max, waitq, dq>>
     \/ /\ Exists(s) /\ ~NoWaiters(s)
        /\ LET t == Head(waitq[s])
               timed == /\ tcb[t].state = "WAITING"
                        /\ tcb[t].reason = "SEMAPHORE_TIMEOUT"
                        /\ InDelayQueue(t)
               woken == /\ tcb[t].state = "WAITING" /\ tcb[t].sem = s
                        /\ tcb[t].reason = "SEMAPHORE" \/ timed
           IN  /\ waitq' = [waitq EXCEPT ![s] = Tail(@)]
               /\ dq' = IF timed THEN Drop(dq, DelayIndex(t)) ELSE dq
               /\ IF woken
                  THEN /\ tcb' = [tcb EXCEPT ![t] = Tcb("READY")]
                       /\ RequestFromTask(t)
                       /\ ret' = "E_OK"
                  ELSE ret' = "E_OBJ" /\ UNCHANGED <<tcb, pend>>
        /\ UNCHANGED <<table, current, max, count>>

dly_tsk(n) ==
  /\ AtTask
  /\ \/ /\ current = NoTask \/ (n # 0 /\ ~CurrentRunning)
        /\ Reject("E_CTX")
     \/ /\ current # NoTask /\ n = 0
        /\ Reject("E_PAR")
     \/ /\ CurrentRunning /\ n # 0
        /\ IF ~CanDelay(current) THEN Reject("E_QOVR")
           ELSE /\ delay_queue_enqueue(current, n)
                /\ SwitchFromWaiting(
                     [tcb EXCEPT ![current] = Waiting("DELAY", NoSem, n)])
                /\ UNCHANGED <<table, pend, semVars>>

-----------------------------------------------------------------------------
(***************************************************************************)
(* The tick.  timer_tick() walks the delay queue: an entry that still has  *)
(* time is decremented and passed, an entry that expires is removed, and   *)
(* the entry that moved into its place is looked at next.                  *)
(***************************************************************************)

InTick == pc \in {"tick", "irq_tick"}

\* timer_tick(), called by kernel_main.
timer_tick ==
  /\ pc = "task"
  /\ pc' = "tick" /\ idx' = 1
  /\ atTick' = [t \in Task |-> tcb[t].rem]
  /\ ret' = "none"
  /\ UNCHANGED <<table, tcb, current, pend, semVars, dq>>

TickPass ==
  /\ InTick
  /\ idx <= Len(dq) /\ dq[idx].rem > 1
  /\ LET n == dq[idx].rem - 1
     IN  /\ dq' = [dq EXCEPT ![idx].rem = n]
         /\ tcb' = [tcb EXCEPT ![dq[idx].task].rem = n]
  /\ idx' = idx + 1
  /\ UNCHANGED <<table, current, pend, semVars, pc, atTick, ret>>

\* A waiter with a timeout also leaves the semaphore's queue; if it is not
\* there it is not woken, and its entry is dropped all the same.
ExpireEntry ==
  /\ InTick
  /\ idx <= Len(dq) /\ dq[idx].rem <= 1
  /\ LET t == dq[idx].task
         s == tcb[t].sem
         unqueued == /\ tcb[t].reason = "SEMAPHORE_TIMEOUT"
                     /\ Exists(s) /\ InSeq(waitq[s], t)
         woken == /\ tcb[t].state = "WAITING"
                  /\ tcb[t].reason = "DELAY" \/ unqueued
     IN  /\ waitq' = IF unqueued
                     THEN [waitq EXCEPT ![s] = RemoveWaiter(@, t)] ELSE waitq
         /\ tcb' = IF woken THEN [tcb EXCEPT ![t] = Tcb("READY")]
                   ELSE [tcb EXCEPT ![t].rem = 0]
         /\ dq' = Drop(dq, idx)
  /\ UNCHANGED <<table, current, pend, max, count, pc, atTick, ret>>

\* Mutant: the loop steps over the entry that moved into the gap.
ExpireAndAdvance == ExpireEntry /\ idx' = idx + 1

TickExpire == ExpireEntry /\ UNCHANGED idx

TickEnd ==
  /\ InTick
  /\ idx > Len(dq)
  /\ pc' = IF pc = "tick" THEN "task" ELSE "irq_eval"
  /\ idx' = 0
  /\ atTick' = [t \in Task |-> 0]
  /\ UNCHANGED <<table, tcb, current, pend, semVars, dq, ret>>

-----------------------------------------------------------------------------
(***************************************************************************)
(* Dispatch pending and the timer interrupt.                               *)
(***************************************************************************)

\* Mutant: an older request of the interrupt is kept.
ForgetNone(p) == p

\* Mutant: the request of a task is forgotten too.
ForgetAll(p) == NoPending

\* dispatch_pending_clear_irq_for_evaluation().
ForgetIrq(p) == IF p.source = "IRQ" THEN NoPending ELSE p

\* preemption_evaluate_from_irq(): forgets an earlier request of its own, and
\* never replaces one that a task made.
Evaluate ==
  LET p == ForgetIrq(pend)
  IN  \/ \E n \in Task :
           /\ PreemptsCurrent(n)
           /\ pend' = IF p.source = "TASK" THEN p ELSE Pending("IRQ", current, n)
      \/ /\ \A n \in Task : ~PreemptsCurrent(n)
         /\ pend' = p

\* The request still fits: its source RUNs and its target is READY.
PendingValid ==
  /\ pend.source # "NONE"
  /\ tcb[pend.from].state = "RUNNING"
  /\ tcb[pend.to].state = "READY"

\* dispatch_pending_consume_at_deferred_boundary(): used or not, it is gone.
Consume ==
  /\ IF PendingValid
     THEN dispatcher_switch_to(tcb, pend.from, pend.to)
     ELSE UNCHANGED <<tcb, current>>
  /\ pend' = NoPending

\* The three calls as kernel_main makes them.
preemption_evaluate_from_irq ==
  /\ AtTask
  /\ Evaluate
  /\ ret' = "none"
  /\ UNCHANGED <<table, tcb, current, semVars, dq>>

dispatch_pending_consume_at_deferred_boundary ==
  /\ AtTask
  /\ Consume
  /\ ret' = "none"
  /\ UNCHANGED <<table, semVars, dq>>

dispatch_pending_clear_for_test_or_later_boundary ==
  /\ AtTask
  /\ pend' = NoPending
  /\ ret' = "none"
  /\ UNCHANGED <<table, tcb, current, semVars, dq>>

\* arch_timer_irq_handle(): tick, evaluate, consume, then the stub halts: the
\* interrupt never returns.
IrqEntry ==
  /\ TimerIrq /\ pc = "task"
  /\ pc' = "irq_tick" /\ idx' = 1
  /\ atTick' = [t \in Task |-> tcb[t].rem]
  /\ ret' = "none"
  /\ UNCHANGED <<table, tcb, current, pend, semVars, dq>>

IrqEvaluate ==
  /\ pc = "irq_eval"
  /\ Evaluate
  /\ pc' = "irq_exit"
  /\ UNCHANGED <<table, tcb, current, semVars, dq, idx, atTick, ret>>

IrqExit ==
  /\ pc = "irq_exit"
  /\ Consume
  /\ pc' = "halted"
  /\ UNCHANGED <<table, semVars, dq, idx, atTick, ret>>

Halt ==
  /\ pc = "halted"
  /\ UNCHANGED vars

-----------------------------------------------------------------------------
Init ==
  /\ table = <<>>
  /\ tcb = [t \in Task |-> Tcb("UNUSED")]
  /\ current = NoTask
  /\ pend = NoPending
  /\ max = [s \in Sem |-> 0]
  /\ count = [s \in Sem |-> 0]
  /\ waitq = [s \in Sem |-> <<>>]
  /\ dq = <<>>
  /\ pc = "task"
  /\ idx = 0
  /\ atTick = [t \in Task |-> 0]
  /\ ret = "none"

Tasks == \E t \in Task : \/ task_register(t)
                         \/ dispatcher_commit_current(t)
                         \/ ContextSwitchSmoke(t)

TaskApi == \/ \E t \in Task \cup {NoTask} :
                \/ \E valid \in BOOLEAN : cre_tsk(t, valid)
                \/ sta_tsk(t)
                \/ wup_tsk(t)
           \/ slp_tsk
           \/ yield_tsk
           \/ \E n \in 0..MaxDelay : dly_tsk(n)

SemApi == \E s \in Sem \cup {NoSem} : \/ wai_sem(s)
                                      \/ pol_sem(s)
                                      \/ sig_sem(s)
                                      \/ \E n \in 0..MaxDelay : twai_sem(s, n)

SemTable == \/ sem_init
            \/ \E s \in Sem, m \in 1..MaxCount :
                 \E init \in 0..m : sem_create(s, init, m)

Boundary == \/ CooperativeReturn
            \/ preemption_evaluate_from_irq
            \/ dispatch_pending_consume_at_deferred_boundary
            \/ dispatch_pending_clear_for_test_or_later_boundary

Call == Tasks \/ TaskApi \/ SemApi \/ SemTable \/ Boundary

Interrupt == IrqEntry \/ IrqEvaluate \/ IrqExit \/ Halt

Tick == TickPass \/ TickExpire \/ TickEnd

Next == Call \/ timer_tick \/ Tick \/ Interrupt

Spec == Init /\ [][Next]_vars

\* The loop of a tick keeps running once it has begun.
FairSpec == Spec /\ WF_vars(Tick)

-----------------------------------------------------------------------------
(***************************************************************************)
(* Properties.                                                             *)
(***************************************************************************)
Codes == {"none", "E_OK", "E_ID", "E_PAR", "E_CTX", "E_OBJ", "E_TMOUT", "E_QOVR"}

\* The shape of every variable; the tick loop has an index while it runs.
TypeOK ==
  /\ table \in Seq(Task)
  /\ tcb \in [Task -> [state : States, reason : Reasons,
                       sem : Sem \cup {NoSem}, rem : Nat]]
  /\ current \in Task \cup {NoTask}
  /\ pend \in [source : {"NONE", "IRQ", "TASK"},
               from : Task \cup {NoTask}, to : Task \cup {NoTask}]
  /\ max \in [Sem -> Nat]
  /\ count \in [Sem -> Nat]
  /\ waitq \in [Sem -> Seq(Task)]
  /\ dq \in Seq([task : Task, rem : Nat])
  /\ pc \in {"task", "tick", "irq_tick", "irq_eval", "irq_exit", "halted"}
  /\ idx \in Nat
  /\ InTick => idx > 0
  /\ atTick \in [Task -> Nat]
  /\ ret \in Codes

WaitsOnSem(t, s) ==
  /\ tcb[t].state = "WAITING"
  /\ tcb[t].reason \in {"SEMAPHORE", "SEMAPHORE_TIMEOUT"}
  /\ tcb[t].sem = s

WaitsOnTime(t) ==
  /\ tcb[t].state = "WAITING"
  /\ tcb[t].reason \in {"DELAY", "SEMAPHORE_TIMEOUT"}

\* The wait queue of a semaphore and the TCBs tell the same story: exactly the
\* tasks that wait on the semaphore are queued, each once (sem_enqueue_waiter,
\* sem_dequeue_waiter and sem_remove_waiter against task_mark_waiting_on_* and
\* task_wake_waiting_on_*).  A timeout and a signal meet in this property.
SemQueueConsistent ==
  \A s \in Sem :
    /\ \A t \in Task : InSeq(waitq[s], t) <=> WaitsOnSem(t, s)
    /\ \A i, j \in 1..Len(waitq[s]) : waitq[s][i] = waitq[s][j] => i = j

\* The delay queue and the TCBs agree: exactly the tasks with time to wait are
\* queued, each once, and entry and TCB count the same remaining ticks, never 0
\* (delay_queue_enqueue, delay_queue_tick, delay_queue_remove_sem_timeout_waiter).
DelayQueueConsistent ==
  /\ \A t \in Task : InDelayQueue(t) <=> WaitsOnTime(t)
  /\ \A i, j \in 1..Len(dq) : dq[i].task = dq[j].task => i = j
  /\ \A i \in 1..Len(dq) : dq[i].rem > 0 /\ tcb[dq[i].task].rem = dq[i].rem

\* No lost wakeup: a task never waits on a semaphore that has a resource left,
\* or that does not exist, and a semaphore never exceeds max_count (wai_sem and
\* twai_sem block only at zero; sig_sem hands over before it counts).
NoLostWakeup ==
  \A s \in Sem :
    /\ count[s] <= max[s]
    /\ waitq[s] # <<>> => max[s] > 0 /\ count[s] = 0

\* A task that may block finds room in every queue it could be put on: the
\* error paths of wai_sem (which has by then marked its caller WAITING), of
\* twai_sem and of dly_tsk for a full or doubly used queue are unreachable.
RoomForEveryWait ==
  CurrentRunning => CanDelay(current) /\ \A s \in Sem : CanQueue(s)

\* RUNNING means adopted as current: no second task is ever RUNNING
\* (dispatcher_commit_current, dispatcher_switch_to).
RunningIsCurrent ==
  \A t \in Task : tcb[t].state = "RUNNING" => t = current

\* delay_queue_tick() shows every entry the tick exactly once although entries
\* leave the array under the loop: what lies before idx has been decremented,
\* what lies from idx on has not, and only tasks in their last tick are gone.
EveryEntryTicksOnce ==
  InTick =>
    /\ \A i \in 1..Len(dq) :
         atTick[dq[i].task] = IF i < idx THEN dq[i].rem + 1 ELSE dq[i].rem
    /\ \A t \in Task : atTick[t] > 1 => InDelayQueue(t)
    /\ \A t \in Task : atTick[t] = 1 /\ ~InDelayQueue(t) => tcb[t].state = "READY"

\* When the interrupt reaches its exit, a request that the interrupt made is
\* about the present: it is from the task that RUNs now to the task the
\* scheduler would choose now (preemption_evaluate_from_irq drops old ones).
IrqRequestIsFresh ==
  pc = "irq_exit" /\ pend.source = "IRQ" =>
    pend.from = current /\ PreemptsCurrent(pend.to)

\* A dispatch request that a task made is not lost in an interrupt: neither
\* the tick nor the preemption evaluation replaces or clears it.
TaskRequestSurvivesIrq ==
  [][pend.source = "TASK" /\ pc \in {"irq_tick", "irq_eval"} => pend' = pend]_vars

\* However old a dispatch request is when it is consumed, a switch it causes
\* preempts the current task in favour of a more urgent one.
DeferredSwitchPreempts ==
  [][pend.source # "NONE" /\ pend' = NoPending /\ current' # current
       => pend.from = current /\ Priority[current'] < Priority[current]]_vars

\* Waiters leave in FIFO order: one that is overtaken is overtaken by a waiter
\* whose time ran out, and those who stay keep their order (the middle removal
\* of sem_remove_waiter against the head removal of sem_dequeue_waiter).
FifoExceptTimeout ==
  [][\A s \in Sem : \A i, j \in 1..Len(waitq[s]) :
       i < j /\ InSeq(waitq'[s], waitq[s][i]) =>
         IF InSeq(waitq'[s], waitq[s][j])
         THEN \E k, l \in 1..Len(waitq'[s]) :
                k < l /\ waitq'[s][k] = waitq[s][i] /\ waitq'[s][l] = waitq[s][j]
         ELSE InTick /\ tcb[waitq[s][j]].rem = 1]_vars

\* E_OK means success: a call that answers E_OK and moved current to another
\* task has really run that task.
OkMeansSwitched ==
  [][ret' = "E_OK" /\ current' # current
       => tcb'[current'].state = "DORMANT"]_vars

\* The loop of delay_queue_tick() takes exactly as many rounds as the queue
\* had entries when the tick began, although the array shrinks under it: a
\* round that does not end the tick leaves one entry less to look at, and the
\* index never runs past the first free place.
RoundPerEntry ==
  [][InTick /\ InTick' =>
       Len(dq') - idx' = (Len(dq) - idx) - 1 /\ idx' <= Len(dq') + 1]_vars

\* The loop of delay_queue_tick() ends, whatever expires under it.
TickEnds == InTick ~> ~InTick

\* If ticks keep coming, a wait with a time limit ends, by its timeout or by a
\* signal before it.
TimedWaitEnds ==
  []<><<timer_tick>>_vars => \A t \in Task : WaitsOnTime(t) ~> ~WaitsOnTime(t)

=============================================================================
