----------------------------- MODULE TaskContext -----------------------------
(***************************************************************************)
(* How a task switch really runs: dispatcher_switch_to (dispatcher.c), the *)
(* frames and the reservation of task_context.c and the register switch of *)
(* context_switch.asm.  Module Kernel takes a whole switch as one step;    *)
(* here it is a walk over several stacks, and the two are compared when    *)
(* control is back with the caller.                                        *)
(*                                                                         *)
(* A saved context is the place where it resumes, which is where pc goes   *)
(* when the context is restored.  `active_task` only names a task in the   *)
(* log and is left out.                                                    *)
(***************************************************************************)
EXTENDS Integers, Sequences

CONSTANTS
  Task,     \* the registered tasks
  NoTask,   \* the null TCB pointer
  Boot,     \* the owner of boot_context: the stack of kernel_main
  StackOk   \* [Task -> BOOLEAN]: stack_size is at least 64

ASSUME ContextAssumption ==
  NoTask \notin Task /\ Boot \notin Task /\ StackOk \in [Task -> BOOLEAN]

VARIABLES
  tcb,       \* the tasks' states, as in module Kernel
  current,   \* current_task
  from, to,  \* the arguments of dispatcher_switch_to()
  context,   \* where each saved context resumes
  runs,      \* whose stack the processor is on
  pc,        \* where it is
  pair,      \* the switch goes through task_context_switch_to_task_pair()
  reserved,  \* task_to_task_smoke_from and task_to_task_smoke_to
  result,    \* did the last switch succeed?
  before     \* history: the tasks' states when the switch was called

callVars == <<from, to, before>>
vars == <<tcb, current, callVars, context, runs, pc, pair, reserved, result>>

\* Module Kernel, of which only the atomic switch is used.
K == INSTANCE Kernel WITH
       Sem <- {}, NoSem <- 0, Priority <- [t \in Task |-> 0], MaxTasks <- 1,
       MaxCount <- 0, MaxDelay <- 0, Recommit <- FALSE, TimerIrq <- FALSE,
       table <- <<>>, pend <- 0, max <- <<>>, count <- <<>>, waitq <- <<>>,
       dq <- <<>>, idx <- 0, atTick <- <<>>, ret <- 0

NoReservation == [first |-> NoTask, second |-> NoTask]

\* Registered tasks have context.rsp = stack_top, where no return address lies.
Init ==
  /\ tcb = [t \in Task |-> K!Tcb("READY")]
  /\ current = NoTask
  /\ from = NoTask /\ to = NoTask /\ before = tcb
  /\ context = [o \in Task \cup {Boot} |-> "no frame"]
  /\ runs = Boot /\ pc = "caller"
  /\ pair = FALSE
  /\ reserved = NoReservation
  /\ result = TRUE

-----------------------------------------------------------------------------
(***************************************************************************)
(* Callers: between two switches they commit, restart, put to sleep, wake  *)
(* and yield tasks, and ask for a switch from the current task.            *)
(***************************************************************************)
Become(t, old, new) ==
  /\ pc = "caller"
  /\ tcb[t].state = old
  /\ tcb' = [tcb EXCEPT ![t] = new]
  /\ UNCHANGED <<callVars, context, runs, pc, pair, reserved, result>>

task_mark_running(t) == Become(t, "READY", K!Tcb("RUNNING")) /\ current' = t
task_mark_ready_from_running(t) == Become(t, "RUNNING", K!Tcb("READY")) /\ UNCHANGED current
task_start_dormant(t) == Become(t, "DORMANT", K!Tcb("READY")) /\ UNCHANGED current
task_mark_waiting_on_sleep(t) ==
  Become(t, "RUNNING", K!Waiting("SLEEP", 0, 0)) /\ UNCHANGED current
task_wake_waiting_on_sleep_by_id(t) ==
  Become(t, "WAITING", K!Tcb("READY")) /\ UNCHANGED current

CallSwitch(t) ==
  /\ pc = "caller" /\ current # NoTask
  /\ from' = current /\ to' = t /\ before' = tcb
  /\ pc' = "check"
  /\ UNCHANGED <<tcb, current, context, runs, pair, reserved, result>>

-----------------------------------------------------------------------------
(***************************************************************************)
(* dispatcher_switch_to.                                                   *)
(***************************************************************************)
Return(ok) == pc' = "caller" /\ result' = ok

CheckBoundary ==
  /\ pc = "check"
  /\ IF /\ from # to
        /\ tcb[from].state \in {"RUNNING", "READY", "WAITING"}
        /\ tcb[to].state = "READY"
     THEN pc' = "from" /\ UNCHANGED result
     ELSE Return(FALSE)
  /\ UNCHANGED <<tcb, current, callVars, context, runs, pair, reserved>>

FromReady ==
  /\ pc = "from"
  /\ tcb' = [tcb EXCEPT ![from] = IF @.state = "RUNNING" THEN K!Tcb("READY") ELSE @]
  /\ pc' = "to"
  /\ UNCHANGED <<current, callVars, context, runs, pair, reserved, result>>

\* A WAITING source is not run again; any other one runs first.
ToRunning ==
  /\ pc = "to"
  /\ tcb' = [tcb EXCEPT ![to] = K!Tcb("RUNNING")]
  /\ current' = to
  /\ pair' = (tcb[from].state # "WAITING")
  /\ pc' = IF pair' THEN "prepare first" ELSE "prepare last"
  /\ UNCHANGED <<callVars, context, runs, reserved, result>>

-----------------------------------------------------------------------------
(***************************************************************************)
(* task_context.c and context_switch.asm.                                  *)
(***************************************************************************)
First == IF pair THEN from ELSE to

\* task_context_prepare_initial_frame(t), which goes on at `next`.
task_context_prepare_initial_frame(t, next) ==
  /\ IF StackOk[t]
     THEN /\ context' = [context EXCEPT ![t] = "trampoline"]
          /\ pc' = next /\ UNCHANGED result
     ELSE Return(FALSE) /\ UNCHANGED context
  /\ UNCHANGED <<tcb, current, callVars, runs, pair, reserved>>

PrepareFirst ==
  pc = "prepare first" /\ task_context_prepare_initial_frame(from, "prepare last")

\* Mutant: a context that was saved once is taken for a frame.
PrepareOnce ==
  /\ pc = "prepare last"
  /\ IF context[to] = "no frame"
     THEN task_context_prepare_initial_frame(to, "reserve")
     ELSE /\ pc' = "reserve"
          /\ UNCHANGED <<tcb, current, callVars, context, runs, pair, reserved, result>>

PrepareLast ==
  pc = "prepare last" /\ task_context_prepare_initial_frame(to, "reserve")

\* Mutant: the path of a WAITING source reserves too.
ReserveAlways ==
  /\ pc = "reserve"
  /\ reserved' = [first |-> from, second |-> to]
  /\ pc' = "leave boot"
  /\ UNCHANGED <<tcb, current, callVars, context, runs, pair, result>>

Reserve ==
  /\ pc = "reserve"
  /\ reserved' = IF pair THEN [first |-> from, second |-> to] ELSE reserved
  /\ pc' = "leave boot"
  /\ UNCHANGED <<tcb, current, callVars, context, runs, pair, result>>

\* The context of o is saved, to resume at `label`; that of n is restored.
arch_context_switch(o, label, n) ==
  /\ context' = [context EXCEPT ![o] = label]
  /\ runs' = n
  /\ pc' = context[n]

task_context_switch_to_task ==
  /\ pc = "leave boot"
  /\ arch_context_switch(Boot, "back in boot", First)
  /\ UNCHANGED <<tcb, current, callVars, pair, reserved, result>>

\* Mutant: only a RUNNING task is finalised.
FinalizeRunning(t) == IF tcb[t].state = "RUNNING" THEN K!Tcb("DORMANT") ELSE tcb[t]

task_mark_dormant_from_entry_return(t) ==
  IF tcb[t].state \in {"RUNNING", "READY"} THEN K!Tcb("DORMANT") ELSE tcb[t]

\* The trampoline calls task_context_enter(), which calls the task's entry;
\* the entries of kernel.c return.  A failed finalisation is only logged.
EnterAndFinalize ==
  /\ pc = "trampoline"
  /\ tcb' = [tcb EXCEPT ![runs] = task_mark_dormant_from_entry_return(runs)]
  /\ pc' = "finalized"
  /\ UNCHANGED <<current, callVars, context, runs, pair, reserved, result>>

TakesReservation ==
  pc = "finalized" /\ reserved.first = runs /\ reserved.second # NoTask

SwitchToSecond ==
  /\ TakesReservation
  /\ arch_context_switch(runs, "switched", reserved.second)
  /\ reserved' = NoReservation
  /\ UNCHANGED <<tcb, current, callVars, pair, result>>

\* Mutant: the boot context is taken from the task's own.
BackToSelf ==
  /\ pc \in {"finalized", "switched"} /\ ~TakesReservation
  /\ arch_context_switch(Boot, "hlt", runs)
  /\ UNCHANGED <<tcb, current, callVars, pair, reserved, result>>

\* After a switch to the second task the first one would go on here.
SwitchBack ==
  /\ pc \in {"finalized", "switched"} /\ ~TakesReservation
  /\ arch_context_switch(runs, "hlt", Boot)
  /\ UNCHANGED <<tcb, current, callVars, pair, reserved, result>>

BackInBoot ==
  /\ pc = "back in boot"
  /\ reserved' = IF pair THEN NoReservation ELSE reserved
  /\ Return(TRUE)
  /\ UNCHANGED <<tcb, current, callVars, context, runs, pair>>

Switching ==
  \/ CheckBoundary \/ FromReady \/ ToRunning
  \/ PrepareFirst \/ PrepareLast \/ Reserve
  \/ task_context_switch_to_task
  \/ EnterAndFinalize \/ SwitchToSecond \/ SwitchBack \/ BackInBoot

Next ==
  \/ \E t \in Task :
       \/ task_mark_running(t) \/ task_mark_ready_from_running(t)
       \/ task_start_dormant(t)
       \/ task_mark_waiting_on_sleep(t) \/ task_wake_waiting_on_sleep_by_id(t)
       \/ CallSwitch(t)
  \/ Switching

\* The processor goes on executing a switch it has begun.
Spec == Init /\ [][Next]_vars /\ WF_vars(Switching)

-----------------------------------------------------------------------------
(***************************************************************************)
(* Properties.                                                             *)
(***************************************************************************)
Places == {"no frame", "trampoline", "switched", "back in boot", "hlt"}

\* The boot context is only ever saved by the boot code; a task context only
\* ever resumes in its task's own code; and between switches the processor
\* is on the boot stack with no reservation left for a later switch to meet.
TypeOK ==
  /\ \A t \in Task : tcb[t].state \in K!States /\ tcb[t].reason \in K!Reasons
  /\ current \in Task \cup {NoTask}
  /\ context \in [Task \cup {Boot} -> Places]
  /\ context[Boot] \in {"no frame", "back in boot"}
  /\ \A t \in Task : context[t] # "back in boot"
  /\ runs \in Task \cup {Boot}
  /\ pc = "caller" => runs = Boot /\ reserved = NoReservation

\* No context is resumed that leads nowhere: no stack without a return
\* address is restored, and nobody is sent back to the places in
\* task_context_enter() that the source says are not returned to, though
\* each task that ran left such a context behind and may be switched to
\* again.
NeverStranded ==
  pc \notin {"no frame", "switched", "hlt"} /\ (pc = "back in boot" => runs = Boot)

\* When dispatcher_switch_to() returns, the tasks' states, current_task and
\* the result are those of the atomic switch of module Kernel: the entry of
\* the source ran exactly if it was not WAITING, and a stack too small for a
\* frame leaves the states changed and nobody run.
SwitchAsSpecified ==
  [][pc # "caller" /\ pc' = "caller" =>
       /\ K!dispatcher_switch_to(before, from, to)
       /\ result' = (K!MaySwitch(before, from, to) /\ K!FramesOk(before, from, to))]_vars

\* Every switch comes back to its caller.
SwitchReturns == pc # "caller" ~> pc = "caller"
=============================================================================
