# A verification project for itron-rtos

itron-rtos is a small learning RTOS for x86_64 with an API in the style of
uITRON: tasks with fixed priorities, counting semaphores with FIFO wait queues,
delays and timeouts driven by a tick, and dispatch requests that are recorded in
one place and consumed in another. This directory holds TLA+ models of the
kernel, the TLC runs that check them on small instances, and TLAPS proofs of
what matters most, for instances of every size.

## The system

| part | source | state | operations |
|---|---|---|---|
| task table | `kernel/task.c` | `task_table` (state, wait reason, `wait_sem_id`, remaining ticks), `next_task_id` | register, create dormant, the transitions between UNUSED, DORMANT, READY, RUNNING and WAITING |
| scheduler | `kernel/scheduler.c` | none | select the next READY task, decide on a preemption |
| dispatcher | `kernel/dispatcher.c` | `current_task` | commit a task as current, switch between tasks |
| task context | `kernel/task_context.c`, `context_switch.asm` | register save areas, `active_task`, the pair being switched | prepare a frame, run an entry, mark it DORMANT on return |
| semaphores | `kernel/semaphore.c` | count, maximum, a ring of waiting task IDs | create, take, increment, enqueue, dequeue, remove from the middle |
| delay queue | `kernel/delay_queue.c` | an array of (task, remaining ticks) | enqueue, tick, remove |
| dispatch pending | `kernel/dispatch_pending.c`, `kernel/preemption.c` | one request: source, from, to | request from a task or the interrupt, evaluate, clear, consume |
| timer interrupt | `kernel/timer.c`, `arch/x86_64/interrupt.c`, `interrupt_entry.asm` | tick counter | tick, evaluate, consume, acknowledge, halt |
| interrupt controller | `arch/x86_64/pic.c`, `interrupt.c`, `hal_interrupt.c` | mask mirrors, the two 8259 chips, the IDT, the interrupt flag | initialise, mask, unmask, end of interrupt, set gates, enable |
| API | `kernel/itron_api.c` | none of its own | `cre_tsk sta_tsk slp_tsk wup_tsk yield_tsk wai_sem pol_sem twai_sem sig_sem dly_tsk` |
| boot sequence | `kernel/kernel.c` | none of its own | calls all of the above, in one fixed order of checks |

How they meet: the API calls the dispatcher for the current task, changes TCBs,
puts the task on the semaphore's queue, the delay queue or both, asks the
scheduler for the next task and calls the dispatcher to switch. A tick walks the
delay queue and takes expired tasks off both queues. A task that becomes READY
through a running task's call may leave a request in dispatch pending; the timer
interrupt may leave one too; a later boundary consumes it.

There is one CPU. Interrupts are off for the whole of the normal boot; the
validation build (`ARCH_TIMER_IRQ_ENTRY_VALIDATE`) switches them on only to wait
in a `hlt` loop, and the interrupt stub never returns. An API call is
therefore never interrupted. What is hard is not preemption inside a call but
long sequences of calls: a waiter with a timeout lives on two queues and can be
taken off both by a signal or by a tick; the tick removes entries from the array
it walks; a request is consumed long after it was made; a switch changes states
before it knows that it can succeed; and each boot check starts from what the
checks before it left behind.

Task entries only log and return. A switch that reaches an entry ends with that
task DORMANT and control back in the caller.

What makes each part correct: queues and TCBs agree, so that whoever waits can
be woken (task table, semaphores, delay queue, API); ring and array behave as
queues (semaphores, delay queue); one task RUNs and it is `current_task`
(dispatcher); a switch never resumes a context nobody saved, and comes back
(task context); a request that is consumed still makes sense (dispatch pending);
an interrupt arrives only when and where it is expected (interrupt controller);
no check is spoilt by an earlier one (boot sequence).

## The modules

`Kernel` is the centre; each of the others looks at one part of it more closely,
or from outside:

| module | relation to `Kernel` |
|---|---|
| `Queues` | the two removals, extended by `Kernel` and the queue specifications |
| `SemaphoreSpec`, `Semaphore` | what a semaphore promises, in `Kernel`'s terms; the ring buffer that implements it |
| `DelayQueueSpec`, `DelayQueue` | what the delay queue promises; the array that implements it |
| `TaskContext` | the switch that `Kernel` takes in one step, write by write |
| `TaskRegistry` | how tasks get the IDs that `Kernel` takes as given |
| `BootScript` | extends `Kernel`: its actions in the order of `kernel_main` |
| `InterruptController` | whether the interrupt that `Kernel` lets happen can arrive |

**`Kernel`** models the kernel above except ID numbering. Variables and the
state they stand for:

- `table`: registered tasks in slot order (the scheduler breaks ties by slot);
  `tcb`: state, wait reason, semaphore and remaining ticks of each task;
- `current`: `current_task`; `pend`: `dispatch_pending_state`;
- `max`, `count`, `waitq`: the semaphores, `max` 0 for a free slot; the ring
  buffer is its contents in order;
- `dq`: the delay queue's array up to its count;
- `pc`, `idx`: where control is when it is not in a task: the loop of
  `delay_queue_tick()` is taken entry by entry and the interrupt handler step by
  step;
- `ret`: what the last API call returned; `atTick`: a history variable, the
  remaining ticks of each task when the present tick began.

Each API call is one action with one disjunct per early return, in the order
the code tests them, with the error code it returns. What `kernel_main` does
without the API is there too: `task_register`, `dispatcher_commit_current`,
`CooperativeReturn` (the entry runner), `ContextSwitchSmoke`, `sem_init`,
`sem_create`, and the direct calls of the evaluation, the consumption and the
clearing of a dispatch request. They may be taken in any order; the single order
of the boot checks is one of them.

`dispatcher_switch_to(tc, from, to)` is the dispatcher when the TCBs are `tc`:
callers change the current task's TCB first. `AfterSwitch` says what a switch
leaves: with good stacks, the entries that ran are DORMANT (only the target's if
the source was WAITING, else both, because `task_context_switch_to_task_pair`
runs the source's entry first); with a stack too small, the states are changed,
`current` has moved, and nothing ran.

Two assumptions on callers are explicit. `sem_init` is taken only when no task
waits on a semaphore; that `kernel_main` keeps to it is `SemInitFindsNoWaiter` of
`BootScript`. The constant `Recommit` says
whether `dispatcher_commit_current` may be called while a task RUNs; the code
does not prevent it and `kernel_main` does it (see the findings).

**`TaskRegistry`** models how `task.c` numbers tasks: a counter for
`task_register`, a caller-chosen ID for `cre_tsk`, with the counter pulled along,
and with the width of `int` (`IdMax`). The build has no optimisation flag and
keeps two's complement on overflow. Because `UniqueIds` holds, `Kernel` may
identify a task with its ID.

**`SemaphoreSpec`** and **`Semaphore`**. The specification has a maximum, a count
and a sequence of waiters per ID, and one action per function of `semaphore.c`
with its answer. `Semaphore` has the table of slots, the ID counter and in each
slot the ring: `sem_enqueue_waiter` writes the tail cell, `sem_dequeue_waiter`
clears the head cell, `sem_remove_waiter` copies the waiters it keeps to a ring
that starts at cell 0. `ImplementsQueues` is the specification with the refinement
mapping `IdMax`, `IdCount`, `IdQueue`: an ID is looked up in the table, a ring is
read from its head. Both keep `waits`, the task side that the functions check,
and take from the API that a queued task is not queued again (`Kernel` shows it:
`SemQueueConsistent`).

**`DelayQueueSpec`** and **`DelayQueue`**. In the specification a tick takes one
step: every entry loses a tick, and those out of time are gone. The entries that
stay, and those that are handed on, keep their order: the n-th of the result is
the one of rank n among the places `Staying`, or `Expiring`. `DelayQueue` walks
its array, entry by entry, and closes the gap behind each entry it removes; the
mapping of `ImplementsList` gives the list at the start of the tick until the
loop has ended, so that the loop as a whole is the one step.

**`TaskContext`** has the places a switch passes: the checks and state changes of
`dispatcher_switch_to`, the frames, the reservation of the pair, the switch of
registers, the entry and its finalisation, the switch to the second task and the
way back to boot. A saved context is the place where it would resume.
`SwitchAsSpecified` instantiates `Kernel` and compares, when the call returns, with
`Kernel`'s `dispatcher_switch_to`. It is an action property, not a refinement:
while the walk is under way the states are those of neither end.

**`BootScript`** extends `Kernel`. A check of `kernel_main` is a sequence of calls; a
call is an action of `Kernel`, or one of the few things a check does by hand (a
bare `task_mark_waiting_on_*`, the commit of what the scheduler selects). A check
whose commit is refused ends early, as in the code. The variable `build` is the
normal build or the one with `ARCH_TIMER_IRQ_ENTRY_VALIDATE`. The tasks and their
priorities are those of `kernel.c`. The model is deterministic, and
`RunsAsRecorded` holds it, and with it the definitions of `Kernel`, against the run
that `docs/logs/qemu-serial.log` records: all 31 answers of API calls, and all
task states in nine dumps.

**`InterruptController`** has the two 8259 chips (external: modelled from how
`pic.c` drives them), the mask mirrors of `pic.c`, the IDT as the set of vectors
with a gate, the interrupt flag, and the processor's instruction stream as a
sequence of port writes and other steps. The chips start in any mode the firmware
may have left. Four builds: normal, with the `int3` check, with the timer check,
and `calls`: any caller of `pic.h`, with interrupts off.

**`MCSemaphore`**, **`MCDelayQueue`** and **`MCTaskContext`** name the tasks for TLC.
**`MCKernel`** gives TLC three tasks: `t1` and `t2` with equal priority, `t3`
more urgent and with a stack too small for a frame.

The theorems are in modules of their own: **`Kernel_proofs`**, and on top of it
**`KernelQueues_proofs`** and on that **`KernelTick_proofs`**; and one each for the
other components with a parameter, **`TaskRegistry_proofs`**,
**`TaskContext_proofs`**, **`Semaphore_proofs`**, **`DelayQueue_proofs`** and
**`InterruptController_proofs`**.

Definitions whose comment begins with "Mutant" are plausible bugs, each a
variant of the definition that follows it. No specification uses them; with a
mutant in place of its original, TLC finds the property it is meant for violated.

## The runs

| run | instance | shows |
|---|---|---|
| `core` | 3 tasks, 1 semaphore up to 1, delays up to 2, the interrupt on | queues and TCBs agree (`SemQueueConsistent`, `DelayQueueConsistent`), no lost wakeup, room for every wait, one RUNNING task, every entry ticks once per tick, a tick takes one round per entry (`RoundPerEntry`), FIFO order except for timeouts; a request of the interrupt is fresh when consumed, a request of a task survives the interrupt, a consumed request only ever preempts for a more urgent task |
| `live` | 3 tasks for 2 slots, 2 semaphores up to 2, delays up to 2, fairness | the loop of a tick ends; a wait with a time limit, on either semaphore or on none, ends if ticks keep coming |
| `registry` | 4 slots, IDs to 6, ints to 7 | IDs are unique, the counter stays ahead |
| `semaphore_ring` | 4 tasks on 3 cells, 2 semaphores | head, tail and count of a ring agree (`RingShape`), IDs are unique, and `Semaphore` implements `SemaphoreSpec` |
| `delay_array` | 4 tasks on 3 cells, delays up to 3 | the cells in use are those below the count (`CellsMatchCount`), and `DelayQueue` implements `DelayQueueSpec` |
| `task_switch` | 3 tasks, one with a small stack | no switch runs into a context that leads nowhere, every switch comes back and leaves what `Kernel` says |
| `boot` | the tasks of `kernel.c`, both builds | the recorded run; no check cut short; no waiter lost to `sem_init`; only the three tasks meant for it are stranded; the first timer interrupt preempts; the boot ends |
| `interrupt` | the timer, one other line at each chip, calls for IRQ 0, 1, 8 and 16 | only the timer's interrupt is ever taken, masks are what was asked for, none stays in service, no build comes to rest elsewhere than meant (`RestsAsBuilt`), and each does come to rest |
| `boot_tick` | as `boot` | the tick's request is not recorded (finding) |
| `recommit` | as `core` without the interrupt, `Recommit` TRUE | two tasks RUN (finding) |
| `yield` | as `core` without the interrupt | E_OK without a switch (finding) |
| `task_id_overflow` | callers may pass the largest int | an ID is handed out twice (finding) |

Bounds. `MaxTasks` is the capacity of the table, of a wait queue and of the delay
queue, as in the code. It equals the number of tasks, except in `live`, which
has three tasks for two slots: the table can be full there and a creation be
refused for want of a slot. Three tasks are the least with a waiter
in the middle of a queue, an expired entry with entries on both sides, and a
tie in priority beside a more urgent task. `MaxDelay` 2 has entries that pass and
entries that expire in one tick. `MaxCount` 1 makes a semaphore reach its
maximum at once; `live` counts to 2. That the queues of several semaphores do not
mix is `SemQueues`, a theorem for any number of them. Nothing else is bounded: the state
space is finite. `semaphore_ring` and
`delay_array` have one task more than cells, so that the answer of a full queue
is met, and three cells: a removal in the middle has a neighbour on each side and
the ring's contents can lie across the wrap. Two semaphores make a search pass
over a slot; `SEM_ID_MAX` stays out of reach, as it does in the code, which
never frees a slot. `task_switch` has a third task, so that a stale context or
reservation can be met by a later switch between other tasks. `boot` has no bound:
the program is what it is. In `interrupt`, line 1 and the slave's line 0 stand for
all lines but the timer's; IRQ 16 is a number `pic.c` must refuse. In `registry`, `IdMax` 7 stands for the largest int; callers
stay below it, as the theorem assumes, and `task_id_overflow` lifts that.

Fairness. In `Kernel`, only `WF_vars(Tick)`: a tick that has begun continues,
because it is a loop that nothing interrupts. That ticks keep coming is a
hypothesis of `TimedWaitEnds`, not an assumption of the specification. No fairness
is assumed of tasks. `TaskContext` assumes the same of a switch that has begun;
`BootScript` that the processor takes the next step of its one program;
`InterruptController` that the processor executes and accepts what it may accept,
and that the interval timer, which nothing stops, raises its line again and again.
Deadlock is checked in every run but `interrupt`, where a machine halted with its
lines raised has nothing left to do; in `Kernel` the machine halts too, which `Halt`
makes explicit.

## The findings

1. `dispatcher_commit_current` does not look at the task that was current.
   `kernel_main` commits `task_tick_current` and later `task_api_current` with
   the former still RUNNING, while the documentation says that RUNNING means
   adopted as current.
2. `cre_tsk` with the largest int makes the ID counter overflow, after which
   an ID in use can be handed out again.
3. `yield_tsk` ignores the result of the switch and answers E_OK when the target
   has not run; the other blocking calls answer E_OBJ.
4. In the tick check of `kernel_main`, the interrupt's evaluation finds a task to
   preempt for, but the request that `sig_sem` made in the semaphore check is still
   pending and is never overwritten, so the request the check sets out to show is
   dropped. The recorded log shows the old request in its place.

Two comments are out of date, with no run of their own. `preemption.c` (198, 257)
says that an evaluation that needs no preemption leaves dispatch pending clear;
it leaves a request that a task made, which is wanted (`TaskRequestSurvivesIrq`).
`kernel.c` (956) says that `sig_sem` goes on to `dispatcher_switch_to`; it only
records a request.

## The proofs

All proofs hold for every set of tasks and semaphores, every priority and stack
assignment and every capacity, from the named `ASSUME` of the component's module
alone unless stated. Each inductive invariant was checked by TLC on the instance
of its component's run before it was proved.

| module | theorem | property |
|---|---|---|
| `Kernel_proofs` | `Typing`, `OneRunning`, `RequestsPreempt` (these two if `~Recommit`), `RequestSurvives`, `IrqActsOnPresent` | `TypeOK`, `RunningIsCurrent`, `DeferredSwitchPreempts`, `TaskRequestSurvivesIrq`, `IrqRequestIsFresh` |
| `KernelQueues_proofs` | `SemQueues`, `DelayQueues`, `WakeupsArrive`, `WaitsHaveRoom` | `SemQueueConsistent`, `DelayQueueConsistent`, `NoLostWakeup`, `RoomForEveryWait` |
| `KernelTick_proofs` | `TicksOnce`, `FifoOrder`, `TickRounds` | `EveryEntryTicksOnce`, `FifoExceptTimeout`, `RoundPerEntry` |
| `TaskRegistry_proofs` | `RegistryTyping`, `IdsStayUnique`, `CounterStaysAhead` (the last two if `MaxCreateId < IdMax`) | `TypeOK`, `UniqueIds`, `CounterAhead` |
| `TaskContext_proofs` | `ContextTyping`, `NobodyStranded`, `SwitchIsAtomic` | `TypeOK`, `NeverStranded`, `SwitchAsSpecified` |
| `Semaphore_proofs` | `SemTyping`, `RingsKeepShape`, `SemIdsUnique`, `RingsImplementQueues` | `TypeOK`, `RingShape`, `IdsAreUnique`, `ImplementsQueues` |
| `DelayQueue_proofs` | `ArrayTyping`, `NoStaleCell`, `ArrayImplementsList` | `TypeOK`, `CellsMatchCount`, `ImplementsList` |
| `InterruptController_proofs` | `InterruptTyping`, `TimerOnly`, `MasksFollow`, `NoneInService`, `RestingPlaces` | `TypeOK`, `OnlyTheTimerArrives`, `MasksAsAsked`, `NothingInService`, `RestsAsBuilt` |

The arguments:

- `Kernel_proofs`: types, action by action. The lemmas on `Drop`, `RemoveWaiter` and
  `DelayIndex` are used by the rest; that a queued task is found at a first
  position is the well-foundedness of the naturals. Then dispatching
  (`DispatchInv`): under `~Recommit`, a RUNNING task is current, and a consumed
  request switches from the current task to a more urgent one. The consumption
  tests that the request's source RUNs, not that it is current;
  `RunningIsCurrent` closes that gap, and `RequestPreempts` keeps the priorities of
  the request's two tasks in order. Neither the tick nor the evaluation of an
  interrupt touches a request made by a task. `IrqRequestIsFresh` is inductive as it
  stands: only the evaluation leads to the interrupt's exit, and it forgets an
  older request of the interrupt before it decides.
- `KernelQueues_proofs`: no part of the agreement of queues and TCBs is inductive
  alone. `wai_sem` marks its caller WAITING before it looks for room, so the
  agreement needs room; room is a pigeonhole argument (the waiters are
  registered tasks, each queued once, and the caller is not among them), so it
  needs the agreement and the bound on the table; the expiry of a timeout needs
  that the waiter's semaphore exists, which is the part of `NoLostWakeup` on
  `max`. `QueueInv` joins these with `TableInv` and `SemIsSet`. Each queue
  operation has one lemma (`SemAdd`, `SemDel`, `DelayAdd`, `DelayDel`); calls
  that touch no queue go through `QuietStep`.
- `KernelTick_proofs`: `TickInv` adds to `QueueInv` that only tasks that wait for time
  have ticks left (`RemMeansTimed`), so that what a tick finds when it begins is
  what the delay queue holds; no call runs during a tick (`CallsAtTask`). A waiter
  that leaves a queue from the middle must be one whose time runs out:
  `FifoOrder` shows it for every change of a wait queue that an action can make.
  `TickRounds` is the part of `TickEnds` that does not rest on fairness: each round
  has one entry less before it, because a round either moves the index on or
  removes exactly the entry at the index (`QueueInv`: no task is queued twice).
- `TaskRegistry_proofs`: `UniqueIds` and `CounterAhead` need each other. Typing needs
  no assumption on callers: even when the counter overflows, no ID that is not
  positive enters the table.
- `TaskContext_proofs`: `ContextInv` says for every place of the walk which frames
  exist, what the reservation holds, on which stack the processor is and how the
  TCBs follow from those before the call (`AtPlace`, `Stacks`). It does not say
  anything of the contexts that earlier switches left behind: those are
  never read, because each call prepares the frames it restores. That is the
  argument for `NeverStranded`.
- `Semaphore_proofs`: `SemInv` joins `TypeOK` and `RingShape` with `SlotsInOrder` (slots
  are filled in order and never freed, so an ID and its slot determine each
  other) and `Counts`. A cell and its distance from the head determine each other
  (`CellsAndPlaces`, arithmetic modulo `MaxTasks`); from this follows what
  enqueueing, dequeueing and the copying removal do to the contents of a ring
  (`EnqueueRing`, `DequeueRing`, `RemoveRing`). Each function then takes the step of
  `SemaphoreSpec` with the same name and answer.
- `DelayQueue_proofs`: `ArrayInv` joins `TypeOK` and `CellsInUse` with `LoopInv`, the
  invariant of the loop of `delay_queue_tick()`. With b the list when the tick
  began, index + the tasks handed on is the number of entries of b looked at;
  the cells below index hold, with a tick less, those that stay; the tasks handed
  on are those that go; the other cells hold the rest of b. "The n-th that stays" is
  said with ranks, so that a round of the loop is one step of a counting argument
  (`RankStep`) and no induction over sequences is needed; the index stays put
  when an entry is removed, and this is where it matters. When the loop ends, all
  of b has been looked at, and that is the step of `DelayQueueSpec`.
- `InterruptController_proofs`: the mirrors of `pic.c` and the mask registers agree
  only between certain instructions, so no property is inductive alone.
  `PlaceInv` says where the processor is (`Booting`, `Enabling`, `Triggering`, `Calling`,
  `Handling`, `Trapped`), as the part of the program that is left, `From(p, k)`, and
  what the chips hold there: which initialisation word each one waits for
  (`AwaitedWord`), which masks have been written out, what is in service. A lemma
  for each place shows the effect of its next instruction. An interrupt is
  accepted only where interrupts are enabled, and there every line but the
  timer's is masked, whatever the devices have raised. From `LineAssumption`
  alone: any lines at either chip, the timer's among them, the cascade's input
  not; any IRQ number that a caller names, those out of range included.

Only model-checked:

- the liveness properties (`TickEnds`, `TimedWaitEnds`, `SwitchReturns`, `BootEnds`,
  `EndsAsBuilt`): liveness under fairness and ENABLED are out of the prover's reach.
  What `TickEnds` and `EndsAsBuilt` need beside fairness is proved: a round leaves
  less to do (`TickRounds`), and where a build comes to rest is where it is meant
  to (`RestingPlaces`);
- all of `BootScript`: a closed program without parameters, so that TLC's run is
  already all of it.

## What is not modelled

- The console: pure output.
- The boot stub: it runs before there is kernel state. Its `cli` is the initial
  interrupt flag of `InterruptController`.
- The 64-bit tick counter, which only the log reads.
- Spurious interrupts (IRQ 7 and 15 without a request) and the NMI: no gate or
  handler of the code distinguishes them.
- Log-only state: `active_task`, `request_logged`, the snapshots of a request.
- Code without a caller: the linked waiters of `semaphore.c`, the plain
  `task_context_switch`, some wait transitions of `task.c`.

## Plan

Done: `Kernel` with all its operations, `TaskRegistry`, the two queue
implementations with their specifications, `TaskContext`, `BootScript`,
`InterruptController`, the runs above, and a theorem for every safety property
that a passing run checks of a component with a parameter.

Not done, and why: a theorem that `Kernel` takes only steps of `SemaphoreSpec` and
`DelayQueueSpec`. It would not be true step by step: a call of `Kernel` marks the task
and enqueues it, on one queue or both, in one step, while the specifications have
one step per function of `semaphore.c` and `delay_queue.c`. The two meet in what
they share: the removals of `Queues`, and `SemQueueConsistent`, `DelayQueueConsistent`
and `RoomForEveryWait`, which are what the specifications ask of their callers.

Next, if the code grows: a decreasing measure for `SwitchReturns`, as `RoundPerEntry`
is for `TickEnds`; and a `Kernel` with a call per step, once calls can be
interrupted.
