----------------------------- MODULE BootScript -----------------------------
(***************************************************************************)
(* What kernel_main (kernel.c) really does with the kernel: it registers   *)
(* its tasks and runs a fixed series of checks, one call after another,    *)
(* and ends in a hlt loop.  Where module Kernel lets callers do anything   *)
(* in any order, this module composes the same actions in the order of the *)
(* source, so it can be held against the run that the repository records   *)
(* in docs/logs/qemu-serial.log.                                           *)
(*                                                                         *)
(* A check is a sequence of calls; a call is a tuple of a name and its     *)
(* arguments.  A check that finds the kernel in an unexpected state        *)
(* (a commit or a wait that fails) is cut short, as in the source.         *)
(***************************************************************************)
EXTENDS Kernel

VARIABLES
  build,    \* "normal", or "validate": built with ARCH_TIMER_IRQ_ENTRY_VALIDATE
  at,       \* the check and the call in it that come next
  cut,      \* the checks that were cut short
  answers   \* what the API calls have answered, oldest first

scriptVars == <<build, at, cut, answers>>
bootVars == <<vars, scriptVars>>

-----------------------------------------------------------------------------
(***************************************************************************)
(* The tasks, with their priorities.  A smaller number is more urgent.     *)
(***************************************************************************)
BootPriority ==
  [a |-> 5, b |-> 1, c |-> 1,
   yield_from |-> 5, yield_to |-> 1,
   wai_sem_from |-> 1, wai_sem_to |-> 5,
   dly_from |-> 5, dly_to |-> 1,
   twai_from |-> 5, twai_to |-> 0,
   tick_delay |-> 1, tick_twai |-> 0, tick_current |-> 5,
   api_current |-> 5, api_created |-> 6, api_high |-> 1,
   sleep_current |-> -2, sleep_next |-> -1, sleep_waker |-> 10,
   sleep_sem_wait |-> 8, sleep_delay_wait |-> 8, sleep_twai_wait |-> 8]

BootTask == DOMAIN BootPriority

\* Every stack is 1024 bytes long.
BootStackOk == [t \in BootTask |-> TRUE]

\* sem_create() hands out 1 and 2; the sleep check names 99 and 100, which
\* never exist.
BootSem == {1, 2, 99, 100}

-----------------------------------------------------------------------------
(***************************************************************************)
(* The checks.                                                             *)
(***************************************************************************)
kernel_run_timer_smoke == [i \in 1..3 |-> <<"timer_tick">>]

RegisterFirst ==
  << <<"task_register", "a">>, <<"task_register", "b">>, <<"task_register", "c">>,
     <<"task_dump", 1>> >>

\* The decision of the scheduler is only logged.
kernel_run_preemption_decision_smoke == << <<"timer_tick">> >>

\* Mutant: the task is left RUNNING.
CommitOnly(t) ==
  << <<"dispatcher_commit_current", t>> >> \o kernel_run_preemption_decision_smoke

\* One half of kernel_run_preemption_smoke.
CommitAndRestore(t) ==
  << <<"dispatcher_commit_current", t>> >>
    \o kernel_run_preemption_decision_smoke
    \o << <<"task_mark_ready_from_running">> >>

\* The selected task switches to c, or to b if c itself was selected.
kernel_run_minimal_context_switch_smoke ==
  << <<"commit_selected">>, <<"switch_to_other", "c", "b">> >>

kernel_run_yield_running_smoke(t) ==
  << <<"dispatcher_commit_current", t>>, <<"yield_tsk">> >>

\* KERNEL_COOPERATIVE_ENTRY_LIMIT is 3.
kernel_run_cooperative_entries ==
  << <<"commit_selected">>, <<"task_mark_ready_from_running">>,
     <<"commit_selected">>, <<"task_mark_ready_from_running">>,
     <<"commit_selected">>, <<"task_mark_ready_from_running">> >>

\* The calls of the semaphore check up to the point where its task waits.
SemaphoreWaits ==
  << <<"sem_init">>, <<"sem_create", 1, 1, 1>>, <<"sem_create", 2, 1, 1>>,
     <<"dispatcher_commit_current", "wai_sem_from">>,
     <<"pol_sem", 2>>, <<"pol_sem", 2>>, <<"pol_sem", NoSem>>,
     <<"wai_sem", NoSem>>, <<"wai_sem", 1>>, <<"wai_sem", 1>> >>

\* Mutant: nobody signals.
SemaphoreNotSignalled ==
  SemaphoreWaits
    \o << <<"task_register", "wai_sem_to">>,
          <<"dispatcher_commit_current", "wai_sem_to">>,
          <<"task_dump", 2>> >>

kernel_run_semaphore_smoke ==
  SemaphoreWaits
    \o << <<"task_register", "wai_sem_to">>,
          <<"dispatcher_commit_current", "wai_sem_to">>,
          <<"sig_sem", 1>>, <<"sig_sem", 1>>,
          <<"task_dump", 2>> >>

kernel_run_delay_smoke ==
  << <<"dispatcher_commit_current", "dly_from">>,
     <<"dly_tsk", 0>>, <<"dly_tsk", 10>>,
     <<"task_dump", 3>> >>

kernel_run_twai_sem_smoke ==
  << <<"sem_init">>, <<"sem_create", 1, 1, 1>>,
     <<"dispatcher_commit_current", "twai_from">>,
     <<"twai_sem", 1, 0>>, <<"twai_sem", 1, 10>>, <<"twai_sem", 1, 10>>,
     <<"sig_sem", 1>>,
     <<"task_dump", 4>> >>

\* Waits are entered by hand here, without dly_tsk() and twai_sem().
kernel_run_tick_ready_wakeup_smoke ==
  << <<"sem_create", 2, 0, 1>>,
     <<"dispatcher_commit_current", "tick_delay">>,
     <<"wait_on_delay", "tick_delay", 1>>,
     <<"dispatcher_commit_current", "tick_twai">>,
     <<"wait_on_sem_timeout", "tick_twai", 2, 1>>,
     <<"dispatcher_commit_current", "tick_current">>,
     <<"timer_tick">>,
     <<"preemption_evaluate_from_irq">>,
     <<"task_dump", 5>> >>

\* The IDs 22 and 999 belong to no task at this point.
kernel_run_create_start_task_api_smoke ==
  << <<"dispatch_pending_clear">>,
     <<"task_register", "api_current">>,
     <<"dispatcher_commit_current", "api_current">>,
     <<"cre_tsk", "sleep_current", FALSE>>,
     <<"cre_tsk", "api_created", TRUE>>,
     <<"task_dump", 6>>,
     <<"sta_tsk", NoTask>>, <<"sta_tsk", "api_created">>, <<"sta_tsk", "api_created">>,
     <<"cre_tsk", "api_high", TRUE>>, <<"sta_tsk", "api_high">>,
     <<"dispatch_pending_consume">>,
     <<"task_dump", 7>> >>

kernel_run_sleep_wakeup_task_api_smoke ==
  << <<"dispatch_pending_clear">>,
     <<"task_register", "sleep_current">>, <<"task_register", "sleep_next">>,
     <<"dispatcher_commit_current", "sleep_current">>,
     <<"slp_tsk">>,
     <<"task_dump", 8>>,
     <<"task_register", "sleep_waker">>,
     <<"dispatcher_commit_current", "sleep_waker">>,
     <<"wup_tsk", NoTask>>,
     <<"wup_tsk", "sleep_current">>, <<"wup_tsk", "sleep_current">> >>

\* The end of the sleep check: a task is made WAITING by a bare
\* task_mark_waiting_on_*(), and wup_tsk() must refuse it.
WakeupRefused(t, why, s, n) ==
  << <<"task_register", t>>,
     <<"dispatcher_commit_current", t>>,
     <<"task_mark_waiting", t, why, s, n>>,
     <<"wup_tsk", t>> >>

-----------------------------------------------------------------------------
(***************************************************************************)
(* kernel_main: the checks with the registrations in front of them.  skip  *)
(* is how many checks a cut moves on by: 1, unless the rest of a function  *)
(* is split over several checks.                                           *)
(***************************************************************************)
Check(name, skip, calls) == [name |-> name, skip |-> skip, calls |-> calls]

Registers(ts) == [i \in 1..Len(ts) |-> <<"task_register", ts[i]>>]

EarlyChecks ==
  << Check("timer", 1, kernel_run_timer_smoke),
     Check("register", 1, RegisterFirst) >>

MiddleChecks ==
  << Check("preemption no current", 1, kernel_run_preemption_decision_smoke),
     Check("preemption low", 1, CommitAndRestore("a")),
     Check("preemption high", 1, CommitAndRestore("b")),
     Check("context switch", 1, kernel_run_minimal_context_switch_smoke),
     Check("yield without current", 1,
           << <<"yield_tsk">> >> \o Registers(<<"yield_from", "yield_to">>)),
     Check("yield to another", 1, kernel_run_yield_running_smoke("yield_from")),
     Check("yield to nobody", 1, kernel_run_yield_running_smoke("a")),
     Check("cooperative", 1, kernel_run_cooperative_entries) >>

LateChecks ==
  << Check("semaphore", 1,
           Registers(<<"wai_sem_from">>) \o kernel_run_semaphore_smoke),
     Check("delay", 1,
           Registers(<<"dly_from", "dly_to">>) \o kernel_run_delay_smoke),
     Check("timed semaphore", 1,
           Registers(<<"twai_from", "twai_to">>) \o kernel_run_twai_sem_smoke),
     Check("tick", 1,
           Registers(<<"tick_delay", "tick_twai", "tick_current">>)
             \o kernel_run_tick_ready_wakeup_smoke),
     Check("create and start", 1, kernel_run_create_start_task_api_smoke),
     Check("sleep and wakeup", 4, kernel_run_sleep_wakeup_task_api_smoke),
     Check("wakeup of a semaphore wait", 1,
           WakeupRefused("sleep_sem_wait", "SEMAPHORE", 99, 0)),
     Check("wakeup of a delay", 1,
           WakeupRefused("sleep_delay_wait", "DELAY", NoSem, 5)),
     Check("wakeup of a timed wait", 1,
           WakeupRefused("sleep_twai_wait", "SEMAPHORE_TIMEOUT", 100, 5)
             \o << <<"task_dump", 9>> >>) >>

\* Only in the validation build: b RUNs while the evaluation finds nothing
\* more urgent; then a RUNs, and interrupts are let in.
TimerEntryValidation ==
  << Check("timer entry commit", 1, << <<"dispatcher_commit_current", "b">> >>),
     Check("timer entry boundary", 1,
           << <<"preemption_evaluate_from_irq">>,
              <<"dispatch_pending_consume">>,
              <<"task_mark_ready_from_running">> >>),
     Check("timer entry current", 1, << <<"dispatcher_commit_current", "a">> >>) >>

kernel_main ==
  IF build = "validate"
  THEN EarlyChecks \o TimerEntryValidation
  ELSE EarlyChecks \o MiddleChecks \o LateChecks

-----------------------------------------------------------------------------
(***************************************************************************)
(* Running the script.                                                     *)
(***************************************************************************)
AtHlt == at.check > Len(kernel_main)

Current == kernel_main[at.check]

NextCall == Current.calls[at.call]

Api == {"yield_tsk", "pol_sem", "wai_sem", "sig_sem", "twai_sem", "dly_tsk",
        "cre_tsk", "sta_tsk", "slp_tsk", "wup_tsk"}

\* The call returned and the check goes on.
Continue ==
  /\ at' = IF at.call < Len(Current.calls)
           THEN [at EXCEPT !.call = @ + 1]
           ELSE [check |-> at.check + 1, call |-> 1]
  /\ answers' = IF NextCall[1] \in Api THEN Append(answers, ret') ELSE answers
  /\ UNCHANGED <<build, cut>>

\* The call failed and the check ends here.
CutShort ==
  /\ at' = [check |-> at.check + Current.skip, call |-> 1]
  /\ cut' = cut \cup {Current.name}
  /\ UNCHANGED <<build, answers>>

\* dispatcher_commit_current(t); anything but a READY task is refused.
Commit(t) ==
  IF t # NoTask /\ tcb[t].state = "READY"
  THEN dispatcher_commit_current(t) /\ Continue
  ELSE UNCHANGED vars /\ CutShort

\* scheduler_select_next() and the commit of what it found.
CommitSelected == \E t \in Task \cup {NoTask} : IsNext(tcb, t) /\ Commit(t)

\* task_mark_ready_from_running() of the task that was committed.  Only the
\* cooperative check stops when it is refused.
MarkReady ==
  IF CurrentRunning
  THEN CooperativeReturn /\ Continue
  ELSE /\ UNCHANGED vars
       /\ IF Current.name = "cooperative" THEN CutShort ELSE Continue

\* dispatcher_switch_to() from the committed task to one of two others.
SwitchToOther(t, u) ==
  LET to == IF current = t THEN u ELSE t
  IN  IF CurrentRunning /\ MaySwitch(tcb, current, to)
      THEN ContextSwitchSmoke(to) /\ Continue
      ELSE UNCHANGED vars /\ CutShort

\* task_mark_waiting_on_*() called by hand; anything but a RUNNING task is
\* refused.  queued is what the check does with the queues after it.
MarkWaiting(t, w, queued) ==
  IF tcb[t].state = "RUNNING"
  THEN /\ AtTask
       /\ tcb' = [tcb EXCEPT ![t] = w]
       /\ queued
       /\ ret' = "none"
       /\ UNCHANGED <<table, current, pend, max, count>>
       /\ Continue
  ELSE UNCHANGED vars /\ CutShort

\* Mutant: the entry of the delay queue is forgotten.
MarkOnDelay(t, n) ==
  MarkWaiting(t, Waiting("DELAY", NoSem, n), UNCHANGED <<waitq, dq>>)

\* The waits the tick check enters by hand.  Their queues have room.
WaitOnDelay(t, n) ==
  MarkWaiting(t, Waiting("DELAY", NoSem, n),
              delay_queue_enqueue(t, n) /\ UNCHANGED waitq)

WaitOnSemTimeout(t, s, n) ==
  MarkWaiting(t, Waiting("SEMAPHORE_TIMEOUT", s, n),
              sem_enqueue_waiter(s, t) /\ delay_queue_enqueue(t, n))

\* One call of the script whose result no check looks at.
Calls(o) ==
  \/ o[1] = "timer_tick" /\ timer_tick
  \/ o[1] = "task_register" /\ task_register(o[2])
  \/ o[1] = "task_dump" /\ UNCHANGED vars
  \/ o[1] = "preemption_evaluate_from_irq" /\ preemption_evaluate_from_irq
  \/ o[1] = "dispatch_pending_consume" /\ dispatch_pending_consume_at_deferred_boundary
  \/ o[1] = "dispatch_pending_clear" /\ dispatch_pending_clear_for_test_or_later_boundary
  \/ o[1] = "yield_tsk" /\ yield_tsk
  \/ o[1] = "sem_init" /\ sem_init
  \/ o[1] = "sem_create" /\ sem_create(o[2], o[3], o[4])
  \/ o[1] = "pol_sem" /\ pol_sem(o[2])
  \/ o[1] = "wai_sem" /\ wai_sem(o[2])
  \/ o[1] = "sig_sem" /\ sig_sem(o[2])
  \/ o[1] = "twai_sem" /\ twai_sem(o[2], o[3])
  \/ o[1] = "dly_tsk" /\ dly_tsk(o[2])
  \/ o[1] = "cre_tsk" /\ cre_tsk(o[2], o[3])
  \/ o[1] = "sta_tsk" /\ sta_tsk(o[2])
  \/ o[1] = "slp_tsk" /\ slp_tsk
  \/ o[1] = "wup_tsk" /\ wup_tsk(o[2])

\* One call whose result a check looks at.
Steps(o) ==
  \/ o[1] = "dispatcher_commit_current" /\ Commit(o[2])
  \/ o[1] = "commit_selected" /\ CommitSelected
  \/ o[1] = "task_mark_ready_from_running" /\ MarkReady
  \/ o[1] = "switch_to_other" /\ SwitchToOther(o[2], o[3])
  \/ o[1] = "wait_on_delay" /\ WaitOnDelay(o[2], o[3])
  \/ o[1] = "wait_on_sem_timeout" /\ WaitOnSemTimeout(o[2], o[3], o[4])
  \/ o[1] = "task_mark_waiting"
       /\ MarkWaiting(o[2], Waiting(o[3], o[4], o[5]), UNCHANGED <<waitq, dq>>)

RunCall ==
  /\ pc = "task" /\ ~AtHlt
  /\ Steps(NextCall) \/ (Calls(NextCall) /\ Continue)

\* The hlt loop.  The normal build never enables interrupts.
Hlt ==
  /\ pc = "task" /\ AtHlt
  /\ \/ build = "normal" /\ UNCHANGED vars
     \/ build = "validate" /\ IrqEntry
  /\ UNCHANGED scriptVars

BootInit ==
  /\ Init
  /\ build \in {"normal", "validate"}
  /\ at = [check |-> 1, call |-> 1]
  /\ cut = {}
  /\ answers = <<>>

BootNext ==
  \/ RunCall
  \/ Hlt
  \/ (Tick \/ IrqEvaluate \/ IrqExit \/ Halt) /\ UNCHANGED scriptVars

\* One CPU runs one straight program: it takes its next step.
BootSpec == BootInit /\ [][BootNext]_bootVars /\ WF_bootVars(BootNext)

-----------------------------------------------------------------------------
(***************************************************************************)
(* The recorded run: the answers of the API calls in the order of the log, *)
(* and what each task dump of the log shows (tasks in no set are DORMANT). *)
(***************************************************************************)
LogAnswers ==
  << "E_CTX", "E_OK", "E_OK",                                   \* yield_tsk
     "E_OK", "E_TMOUT", "E_ID", "E_ID", "E_OK", "E_OK",         \* pol_sem, wai_sem
     "E_OK", "E_OK",                                            \* sig_sem
     "E_PAR", "E_OK",                                           \* dly_tsk
     "E_PAR", "E_OK", "E_OK", "E_OK",                           \* twai_sem, sig_sem
     "E_PAR", "E_OK", "E_ID", "E_OK", "E_OBJ", "E_OK", "E_OK",  \* cre_tsk, sta_tsk
     "E_OK", "E_ID", "E_OK", "E_OBJ",                           \* slp_tsk, wup_tsk
     "E_OBJ", "E_OBJ", "E_OBJ" >>                               \* wup_tsk

Dump(ready, running, waiting) ==
  [READY |-> ready, RUNNING |-> running, WAITING |-> waiting]

TickReady == {"dly_to", "twai_from", "tick_delay", "tick_twai"}

LogDumps ==
  << Dump({"a", "b", "c"}, {}, {}),
     Dump({"wai_sem_from"}, {"wai_sem_to"}, {}),
     Dump({"dly_to"}, {"wai_sem_to"}, {"dly_from"}),
     Dump({"dly_to", "twai_from"}, {"wai_sem_to"}, {"dly_from"}),
     Dump(TickReady, {"wai_sem_to", "tick_current"}, {"dly_from"}),
     Dump(TickReady, {"wai_sem_to", "tick_current", "api_current"}, {"dly_from"}),
     Dump(TickReady \cup {"api_created"}, {"wai_sem_to", "tick_current"}, {"dly_from"}),
     Dump(TickReady \cup {"api_created"}, {"wai_sem_to", "tick_current"},
          {"dly_from", "sleep_current"}),
     Dump(TickReady \cup {"api_created", "sleep_current"},
          {"wai_sem_to", "tick_current", "sleep_waker"},
          {"dly_from", "sleep_sem_wait", "sleep_delay_wait", "sleep_twai_wait"}) >>

Calling(name) == pc = "task" /\ ~AtHlt /\ NextCall[1] = name

\* The model and the machine agree: the API calls answer what the log of the
\* recorded QEMU run shows, and at every task_dump() of kernel_main the tasks
\* are in the states that the log prints.
RunsAsRecorded ==
  /\ build = "normal" => answers = SubSeq(LogAnswers, 1, Len(answers))
  /\ build = "normal" /\ AtHlt => answers = LogAnswers
  /\ Calling("task_dump") =>
       \A st \in {"READY", "RUNNING", "WAITING"} :
         {t \in Task : tcb[t].state = st} = LogDumps[NextCall[2]][st]

\* No check of kernel_main is cut short by what an earlier one left behind:
\* every dispatcher_commit_current() finds its task READY.
EveryCheckCompletes == cut = {}

\* sem_init() empties every wait queue without a look at the tasks in it; when
\* kernel_main calls it again between two checks, nobody is in a queue.
SemInitFindsNoWaiter ==
  Calling("sem_init") => \A s \in Sem : NoWaiters(s)

\* Some call or tick can still wake t.
Wakeable(t) ==
  \/ tcb[t].reason = "SLEEP"
  \/ tcb[t].reason \in {"SEMAPHORE", "SEMAPHORE_TIMEOUT"}
       /\ Exists(tcb[t].sem) /\ InSeq(waitq[tcb[t].sem], t)
  \/ tcb[t].reason \in {"DELAY", "SEMAPHORE_TIMEOUT"} /\ InDelayQueue(t)

\* kernel_main enters waits also by hand, beside the API.  A task that waits
\* and is in no queue can never be woken: that happens to the three tasks with
\* which the sleep check shows that wup_tsk() refuses other waits, and to no
\* other task.
OnlySleepCheckStrands ==
  \A t \in Task :
    tcb[t].state = "WAITING" /\ ~Wakeable(t)
      => t \in {"sleep_sem_wait", "sleep_delay_wait", "sleep_twai_wait"}

\* In the validation build the first timer interrupt finds a RUNNING and the
\* more urgent b READY, and its exit boundary carries the switch out.
TimerEntryPreempts ==
  pc = "halted" => current = "b" /\ tcb["a"].state = "DORMANT" /\ tcb["b"].state = "DORMANT"

\* kernel_main reaches its hlt loop; in the validation build the interrupt
\* handler then runs to its end.
BootEnds == <>AtHlt /\ (pc = "irq_tick" ~> pc = "halted")

\* What the tick check says of itself: once the tick has made the more urgent
\* tick_twai READY, the request for it is what the interrupt's boundary shows.
TickRequestRecorded ==
  Calling("task_dump") /\ NextCall[2] = 5
    => pend = Pending("IRQ", "tick_current", "tick_twai")

=============================================================================
