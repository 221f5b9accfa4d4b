-------------------------- MODULE KernelTick_proofs --------------------------
(***************************************************************************)
(* The loop of delay_queue_tick() counts every waiting task down exactly   *)
(* once although entries leave the array under it, and waiters leave a     *)
(* semaphore in FIFO order unless their time runs out: for every set of    *)
(* tasks and semaphores.                                                   *)
(***************************************************************************)
EXTENDS KernelQueues_proofs

\* Only a task that waits for time has ticks left (every transition out of
\* WAITING clears wait_remaining_ticks).
RemMeansTimed == \A t \in Task : tcb[t].rem > 0 => WaitsOnTime(t)

\* The inductive invariant.  When a tick begins, the ticks left are those of the
\* queued tasks; while it runs, nothing but the loop changes them.
TickInv == QueueInv /\ RemMeansTimed /\ EveryEntryTicksOnce

-----------------------------------------------------------------------------
(***************************************************************************)
(* Ticks left.                                                             *)
(***************************************************************************)

\* td has ticks left only where tc has the same TCB.
OnlyOldTicks(tc, td) == \A t \in Task : td[t] = tc[t] \/ td[t].rem = 0

\* A switch gives nobody ticks.
LEMMA SwitchTicks ==
  ASSUME NEW tc \in [Task -> TcbRecord], NEW from, NEW to,
         dispatcher_switch_to(tc, from, to)
  PROVE  OnlyOldTicks(tc, tcb')
<1>1. \A st : Tcb(st).rem = 0
  BY DEF Tcb
<1>2. CASE MaySwitch(tc, from, to)
  <2>1. tcb' = AfterSwitch(tc, from, to)
    BY <1>2 DEF dispatcher_switch_to
  <2> QED BY <1>1, <2>1 DEF AfterSwitch, OnlyOldTicks
<1>3. CASE ~MaySwitch(tc, from, to)
  BY <1>3 DEF dispatcher_switch_to, OnlyOldTicks
<1> QED BY <1>2, <1>3

\* Steps that give nobody ticks keep the invariant.
LEMMA NoTicksGiven ==
  ASSUME RemMeansTimed, OnlyOldTicks(tcb, tcb')
  PROVE  RemMeansTimed'
BY DEF RemMeansTimed, OnlyOldTicks, WaitsOnTime

\* The task that blocks has ticks left only if it waits for time.
LEMMA BlockTicks ==
  ASSUME TypeOK, RemMeansTimed, CurrentRunning, NEW w \in TcbRecord,
         w.state = "WAITING",
         w.rem > 0 => w.reason \in {"DELAY", "SEMAPHORE_TIMEOUT"},
         \/ tcb' = [tcb EXCEPT ![current] = w]
         \/ SwitchFromWaiting([tcb EXCEPT ![current] = w])
  PROVE  RemMeansTimed'
<1> DEFINE tc == [tcb EXCEPT ![current] = w]
<1>1. current \in Task /\ tcb \in [Task -> TcbRecord]
  BY DEF CurrentRunning, TypeOK, TcbRecord
<1>2. /\ tc \in [Task -> TcbRecord] /\ tc[current] = w
      /\ \A t \in Task : t # current => tc[t] = tcb[t]
  BY <1>1
<1>3. PICK n : tcb' = tc \/ dispatcher_switch_to(tc, current, n)
  BY DEF SwitchFromWaiting
<1> HIDE DEF tc
<1>4. OnlyOldTicks(tc, tcb')
  <2>1. CASE tcb' = tc
    BY <2>1 DEF OnlyOldTicks
  <2> QED BY <1>2, <1>3, <2>1, SwitchTicks
<1> SUFFICES ASSUME NEW t \in Task, tcb'[t].rem > 0 PROVE WaitsOnTime(t)'
  BY DEF RemMeansTimed
<1>5. tcb'[t] = tc[t]
  BY <1>4 DEF OnlyOldTicks
<1>6. CASE t = current
  BY <1>2, <1>5, <1>6 DEF WaitsOnTime
<1>7. CASE t # current
  BY <1>2, <1>5, <1>7 DEF WaitsOnTime, RemMeansTimed
<1> QED BY <1>6, <1>7

\* Waiting TCBs as the blocking calls fill them in.
LEMMA WaitingFields ==
  ASSUME NEW why \in Reasons, NEW s \in Sem \cup {NoSem}, NEW n \in Nat
  PROVE  /\ Waiting(why, s, n) \in TcbRecord
         /\ Waiting(why, s, n).state = "WAITING"
         /\ Waiting(why, s, n).reason = why
         /\ Waiting(why, s, n).rem = n
BY TcbTypes DEF Waiting

\* Every call keeps it.
LEMMA CallTicks ==
  ASSUME TypeOK, RemMeansTimed, Call
  PROVE  RemMeansTimed'
<1>1. tcb \in [Task -> TcbRecord] /\ MaxDelay \in Nat
  BY ConstantsAssumption DEF TypeOK, TcbRecord
<1>2. ASSUME UNCHANGED tcb PROVE RemMeansTimed'
  BY <1>2 DEF RemMeansTimed, WaitsOnTime
<1>3. ASSUME NEW e, Reject(e) PROVE RemMeansTimed'
  BY <1>2, <1>3 DEF Reject
<1>4. ASSUME NEW t, NEW st, tcb' = [tcb EXCEPT ![t] = Tcb(st)] PROVE RemMeansTimed'
  <2>1. OnlyOldTicks(tcb, tcb')
    BY <1>1, <1>4 DEF OnlyOldTicks, Tcb
  <2> QED BY <2>1, NoTicksGiven
<1>5. ASSUME NEW from, NEW to, dispatcher_switch_to(tcb, from, to) PROVE RemMeansTimed'
  BY <1>1, <1>5, SwitchTicks, NoTicksGiven
<1>6. ASSUME CurrentRunning, NEW why \in {"SLEEP", "SEMAPHORE", "DELAY", "SEMAPHORE_TIMEOUT"},
             NEW s \in Sem \cup {NoSem}, NEW n \in 0..MaxDelay,
             n = 0 \/ why \in {"DELAY", "SEMAPHORE_TIMEOUT"},
             \/ tcb' = [tcb EXCEPT ![current] = Waiting(why, s, n)]
             \/ SwitchFromWaiting([tcb EXCEPT ![current] = Waiting(why, s, n)])
      PROVE  RemMeansTimed'
  <2>1. why \in Reasons /\ n \in Nat
    BY <1>1 DEF Reasons
  <2>2. PICK w \in TcbRecord : /\ w = Waiting(why, s, n) /\ w.state = "WAITING"
                               /\ w.reason = why /\ w.rem = n
    BY <2>1, WaitingFields
  <2>3. \/ tcb' = [tcb EXCEPT ![current] = w]
        \/ SwitchFromWaiting([tcb EXCEPT ![current] = w])
    BY <1>6, <2>2
  <2> QED BY <1>6, <2>1, <2>2, <2>3, BlockTicks
<1>7. CASE Tasks
  BY <1>4, <1>5, <1>7
     DEF Tasks, task_register, dispatcher_commit_current, ContextSwitchSmoke
<1>8. CASE TaskApi
  <2>1. ASSUME NEW t \in Task \cup {NoTask},
               (\E valid \in BOOLEAN : cre_tsk(t, valid)) \/ sta_tsk(t) \/ wup_tsk(t)
        PROVE  RemMeansTimed'
    BY <1>3, <1>4, <2>1 DEF cre_tsk, sta_tsk, wup_tsk
  <2>2. CASE slp_tsk
    <3>1. CASE Reject("E_CTX")
      BY <1>3, <3>1
    <3>2. CASE /\ CurrentRunning
               /\ SwitchFromWaiting([tcb EXCEPT ![current] = Waiting("SLEEP", NoSem, 0)])
      <4>1. 0 \in 0..MaxDelay
        BY <1>1
      <4> QED BY <1>6, <3>2, <4>1
    <3> QED BY <2>2, <3>1, <3>2 DEF slp_tsk
  <2>3. CASE yield_tsk
    <3>1. CASE Reject("E_CTX")
      BY <1>3, <3>1
    <3> DEFINE tc == [tcb EXCEPT ![current] = Tcb("READY")]
    <3>2. CASE \E n \in Task : tcb' = tc \/ dispatcher_switch_to(tc, current, n)
      <4>1. Tcb("READY") \in TcbRecord /\ Tcb("READY").rem = 0
        BY TcbTypes DEF States, Tcb
      <4>2. tc \in [Task -> TcbRecord] /\ OnlyOldTicks(tcb, tc)
        BY <1>1, <4>1 DEF OnlyOldTicks
      <4> HIDE DEF tc
      <4>3. CASE tcb' = tc
        BY <4>2, <4>3, NoTicksGiven
      <4>4. CASE \E n \in Task : dispatcher_switch_to(tc, current, n)
        <5>1. OnlyOldTicks(tc, tcb')
          BY <4>2, <4>4, SwitchTicks
        <5>2. OnlyOldTicks(tcb, tcb')
          BY <4>2, <5>1 DEF OnlyOldTicks
        <5> QED BY <5>2, NoTicksGiven
      <4> QED BY <3>2, <4>3, <4>4
    <3> QED BY <2>3, <3>1, <3>2 DEF yield_tsk
  <2>4. ASSUME NEW n \in 0..MaxDelay, dly_tsk(n) PROVE RemMeansTimed'
    BY <1>3, <1>6, <2>4 DEF dly_tsk
  <2> QED BY <1>8, <2>1, <2>2, <2>3, <2>4 DEF TaskApi
<1>9. CASE SemApi
  <2>1. ASSUME NEW s, TakeCount(s) PROVE RemMeansTimed'
    BY <1>2, <2>1 DEF TakeCount
  <2>2. ASSUME NEW s \in Sem \cup {NoSem}, wai_sem(s) PROVE RemMeansTimed'
    <3>1. CASE TakeCount(s) \/ \E e : Reject(e)
      BY <1>3, <2>1, <3>1
    <3>2. CASE /\ CurrentRunning
               /\ \/ tcb' = [tcb EXCEPT ![current] = Waiting("SEMAPHORE", s, 0)]
                  \/ SwitchFromWaiting([tcb EXCEPT ![current] = Waiting("SEMAPHORE", s, 0)])
      <4>1. 0 \in 0..MaxDelay
        BY <1>1
      <4> QED BY <1>6, <3>2, <4>1
    <3> QED BY <2>2, <3>1, <3>2 DEF wai_sem
  <2>3. ASSUME NEW s \in Sem \cup {NoSem}, NEW n \in 0..MaxDelay, twai_sem(s, n)
        PROVE  RemMeansTimed'
    BY <1>3, <1>6, <2>1, <2>3 DEF twai_sem
  <2>4. ASSUME NEW s \in Sem \cup {NoSem}, pol_sem(s) \/ sig_sem(s)
        PROVE  RemMeansTimed'
    BY <1>2, <1>3, <1>4, <2>1, <2>4 DEF pol_sem, sig_sem
  <2> QED BY <1>9, <2>2, <2>3, <2>4 DEF SemApi
<1>10. CASE SemTable
  BY <1>2, <1>10 DEF SemTable, sem_init, sem_create
<1>11. CASE Boundary
  BY <1>2, <1>4, <1>5, <1>11
     DEF Boundary, CooperativeReturn, preemption_evaluate_from_irq, Consume,
         dispatch_pending_consume_at_deferred_boundary,
         dispatch_pending_clear_for_test_or_later_boundary
<1> QED BY <1>7, <1>8, <1>9, <1>10, <1>11 DEF Call

\* The loop gives nobody ticks who does not wait for time.
LEMMA LoopTicks ==
  ASSUME QueueInv, RemMeansTimed, Tick
  PROVE  RemMeansTimed'
<1>1. CASE TickPass
  <2>1. PICK i \in 1..Len(dq), t \in Task :
          /\ t = dq[i].task
          /\ tcb'[t].state = tcb[t].state /\ tcb'[t].reason = tcb[t].reason
          /\ \A x \in Task : x # t => tcb'[x] = tcb[x]
    BY <1>1, PassEffect
  <2>2. WaitsOnTime(t)
    BY <2>1 DEF QueueInv, DelayQueueConsistent, InDelayQueue
  <2> QED BY <2>1, <2>2 DEF RemMeansTimed, WaitsOnTime
<1>2. CASE TickExpire
  <2>1. PICK t \in Task : tcb' = [tcb EXCEPT ![t] = Tcb("READY")]
    BY <1>2, ExpireEffect
  <2>2. OnlyOldTicks(tcb, tcb')
    BY <2>1 DEF OnlyOldTicks, Tcb, QueueInv, TypeOK
  <2> QED BY <2>2, NoTicksGiven
<1>3. CASE TickEnd
  BY <1>3 DEF TickEnd, RemMeansTimed, WaitsOnTime
<1> QED BY <1>1, <1>2, <1>3 DEF Tick

-----------------------------------------------------------------------------
(***************************************************************************)
(* The loop.                                                               *)
(***************************************************************************)

\* When a tick begins, the ticks left are those of the entries.
LEMMA TickBegins ==
  ASSUME QueueInv, RemMeansTimed, timer_tick \/ IrqEntry
  PROVE  EveryEntryTicksOnce'
<1>1. /\ idx' = 1 /\ UNCHANGED <<tcb, dq>>
      /\ atTick' = [t \in Task |-> tcb[t].rem]
  BY DEF timer_tick, IrqEntry
<1>2. \A i \in 1..Len(dq) : dq[i].task \in Task /\ tcb[dq[i].task].rem = dq[i].rem
  BY EntriesTyped DEF QueueInv, DelayQueueConsistent
<1>3. \A t \in Task : InDelayQueue(t)' <=> InDelayQueue(t)
  BY <1>1 DEF InDelayQueue
<1>4. \A t \in Task : atTick'[t] > 0 => InDelayQueue(t)'
  BY <1>1, <1>3 DEF RemMeansTimed, QueueInv, DelayQueueConsistent
<1>5. Len(dq) \in Nat
  BY EntriesTyped DEF QueueInv
<1>6. \A t \in Task : atTick'[t] \in Nat
  BY <1>1 DEF QueueInv, TypeOK
<1> QED BY <1>1, <1>2, <1>4, <1>5, <1>6 DEF EveryEntryTicksOnce

\* An entry that is passed has been decremented, and only it.
LEMMA PassOnce ==
  ASSUME QueueInv, EveryEntryTicksOnce, TickPass
  PROVE  EveryEntryTicksOnce'
<1>1. PICK i \in 1..Len(dq), t \in Task, n \in Nat :
        /\ i = idx /\ t = dq[i].task /\ n = dq[i].rem - 1
        /\ tcb'[t].state = tcb[t].state
        /\ \A x \in Task : x # t => tcb'[x] = tcb[x]
        /\ Len(dq') = Len(dq)
        /\ \A j \in 1..Len(dq) : /\ dq'[j].task = dq[j].task
                                /\ dq'[j].rem = IF j = i THEN n ELSE dq[j].rem
  BY PassEffect
<1>2. InTick /\ idx' = idx + 1 /\ atTick' = atTick
  BY DEF TickPass
<1>3. Len(dq) \in Nat /\ \A j \in 1..Len(dq) : dq[j].task \in Task /\ dq[j].rem \in Nat
  BY EntriesTyped DEF QueueInv
<1>4. \A j \in 1..Len(dq) :
        atTick[dq[j].task] = IF j < idx THEN dq[j].rem + 1 ELSE dq[j].rem
  BY <1>2 DEF EveryEntryTicksOnce
<1>5. \A j \in 1..Len(dq') :
        atTick'[dq'[j].task] = IF j < idx' THEN dq'[j].rem + 1 ELSE dq'[j].rem
  BY <1>1, <1>2, <1>3, <1>4, SMTT(30)
<1>6. \A x \in Task : InDelayQueue(x)' <=> InDelayQueue(x)
  BY <1>1 DEF InDelayQueue
<1>7. \A x \in Task : tcb'[x].state = tcb[x].state
  BY <1>1
<1> QED BY <1>2, <1>5, <1>6, <1>7 DEF EveryEntryTicksOnce

\* An entry that expires was in its last tick, and the entries behind it move
\* under the loop's index, not past it.
LEMMA ExpireOnce ==
  ASSUME QueueInv, QueueInv', EveryEntryTicksOnce, TickExpire
  PROVE  EveryEntryTicksOnce'
<1>1. PICK i \in 1..Len(dq), t \in Task :
        /\ i = idx /\ t = dq[i].task /\ dq[i].rem = 1
        /\ WaitsOnTime(t)
        /\ dq' = Drop(dq, i)
        /\ tcb' = [tcb EXCEPT ![t] = Tcb("READY")]
  BY ExpireEffect
<1>2. InTick /\ idx' = idx /\ atTick' = atTick
  BY DEF TickExpire, ExpireEntry
<1>3. /\ dq \in Seq(Entry) /\ Len(dq) \in Nat
      /\ \A j \in 1..Len(dq) : dq[j].task \in Task /\ dq[j].rem \in Nat
  BY EntriesTyped DEF QueueInv
<1>4. \A j \in 1..Len(dq) :
        atTick[dq[j].task] = IF j < idx THEN dq[j].rem + 1 ELSE dq[j].rem
  BY <1>2 DEF EveryEntryTicksOnce
<1>5. /\ Len(dq') = Len(dq) - 1
      /\ \A j \in 1..(Len(dq) - 1) : dq'[j] = IF j < i THEN dq[j] ELSE dq[j + 1]
  BY <1>1, <1>3, DropProperties
<1>6. ASSUME NEW j \in 1..Len(dq')
      PROVE  atTick'[dq'[j].task] = IF j < idx' THEN dq'[j].rem + 1 ELSE dq'[j].rem
  <2>1. CASE j < i
    <3>1. j \in 1..Len(dq) /\ dq'[j] = dq[j]
      BY <1>3, <1>5, <2>1
    <3>2. atTick[dq[j].task] = dq[j].rem + 1
      BY <1>1, <1>4, <2>1, <3>1
    <3> QED BY <1>1, <1>2, <2>1, <3>1, <3>2
  <2>2. CASE ~(j < i)
    <3>1. j + 1 \in 1..Len(dq) /\ ~(j + 1 < i) /\ dq'[j] = dq[j + 1]
      BY <1>3, <1>5, <2>2
    <3>2. atTick[dq[j + 1].task] = dq[j + 1].rem
      BY <1>1, <1>4, <3>1
    <3> QED BY <1>1, <1>2, <2>2, <3>1, <3>2
  <2> QED BY <2>1, <2>2
<1>7. /\ tcb'[t].state = "READY" /\ \A x \in Task : x # t => tcb'[x] = tcb[x]
  BY <1>1 DEF Tcb, QueueInv, TypeOK
<1>8. \A x \in Task : x # t /\ InDelayQueue(x) => InDelayQueue(x)'
  <2>1. \A x \in Task : x # t => (WaitsOnTime(x)' <=> WaitsOnTime(x))
    BY <1>7 DEF WaitsOnTime
  <2> QED BY <2>1 DEF QueueInv, DelayQueueConsistent
<1>9. \A x \in Task : InDelayQueue(x)' => InDelayQueue(x)
  <2>1. \A x \in Task : WaitsOnTime(x)' => WaitsOnTime(x)
    BY <1>1, <1>7 DEF WaitsOnTime
  <2> QED BY <2>1 DEF QueueInv, DelayQueueConsistent
<1>10. atTick[t] = 1
  BY <1>1, <1>4
<1>11. \A x \in Task : atTick'[x] > 1 => InDelayQueue(x)'
  BY <1>2, <1>8, <1>10 DEF EveryEntryTicksOnce
<1>12. \A x \in Task : atTick'[x] = 1 /\ ~InDelayQueue(x)' => tcb'[x].state = "READY"
  BY <1>2, <1>7, <1>8 DEF EveryEntryTicksOnce
<1> QED BY <1>6, <1>11, <1>12 DEF EveryEntryTicksOnce

\* The invariant holds initially.
LEMMA InitTickInv == Init => TickInv
BY InitQueueInv DEF Init, TickInv, RemMeansTimed, EveryEntryTicksOnce, InTick, Tcb

\* Every step keeps it.
LEMMA StepTickInv == TickInv /\ [Next]_vars => TickInv'
<1> SUFFICES ASSUME TickInv, [Next]_vars PROVE TickInv'
  OBVIOUS
<1> USE DEF TickInv
<1>1. QueueInv'
  BY StepQueueInv
<1>2. ASSUME ~InTick' PROVE EveryEntryTicksOnce'
  BY <1>2 DEF EveryEntryTicksOnce
<1>3. CASE Call
  <2>1. ~InTick'
    BY <1>3, CallsAtTask DEF AtTask, tickVars, InTick
  <2>2. RemMeansTimed'
    BY <1>3, CallTicks DEF QueueInv
  <2> QED BY <1>1, <1>2, <2>1, <2>2
<1>4. CASE timer_tick \/ IrqEntry
  <2>1. RemMeansTimed'
    BY <1>4 DEF timer_tick, IrqEntry, RemMeansTimed, WaitsOnTime
  <2> QED BY <1>1, <1>4, <2>1, TickBegins
<1>5. CASE Tick
  <2>1. RemMeansTimed'
    BY <1>5, LoopTicks
  <2>2. CASE TickEnd
    BY <1>1, <1>2, <2>1, <2>2 DEF TickEnd, InTick
  <2> QED BY <1>1, <1>5, <2>1, <2>2, PassOnce, ExpireOnce DEF Tick
<1>6. CASE IrqEvaluate
  <2>1. ~InTick' /\ UNCHANGED tcb
    BY <1>6 DEF IrqEvaluate, InTick
  <2> QED BY <1>1, <1>2, <2>1 DEF RemMeansTimed, WaitsOnTime
<1>7. CASE IrqExit
  <2>1. ~InTick' /\ Consume /\ tcb \in [Task -> TcbRecord]
    BY <1>7 DEF IrqExit, InTick, QueueInv, TypeOK, TcbRecord
  <2>2. CASE UNCHANGED tcb
    BY <1>1, <1>2, <2>1, <2>2 DEF RemMeansTimed, WaitsOnTime
  <2>3. CASE dispatcher_switch_to(tcb, pend.from, pend.to)
    BY <1>1, <1>2, <2>1, <2>3, SwitchTicks, NoTicksGiven
  <2> QED BY <2>1, <2>2, <2>3 DEF Consume
<1>8. CASE Halt \/ UNCHANGED vars
  BY <1>1, <1>8 DEF Halt, vars, RemMeansTimed, WaitsOnTime, EveryEntryTicksOnce,
                    InTick, InDelayQueue
<1> QED BY <1>3, <1>4, <1>5, <1>6, <1>7, <1>8 DEF Next, Interrupt

\* delay_queue_tick() shows the tick to every entry exactly once, whatever
\* expires under its loop, and only tasks in their last tick leave, READY.
THEOREM TicksOnce == Spec => []EveryEntryTicksOnce
<1>1. TickInv => EveryEntryTicksOnce
  BY DEF TickInv
<1> QED BY <1>1, InitTickInv, StepTickInv, PTL DEF Spec

-----------------------------------------------------------------------------
(***************************************************************************)
(* The order of the waiters.                                               *)
(***************************************************************************)

\* The order of two waiters of q in the queue r: they keep it, or the earlier
\* one has left, or the later one left because of `excuse`.
InOrder(q, r, excuse(_)) ==
  \A i, j \in 1..Len(q) :
    i < j /\ InSeq(r, q[i]) =>
      IF InSeq(r, q[j])
      THEN \E k, l \in 1..Len(r) : k < l /\ r[k] = q[i] /\ r[l] = q[j]
      ELSE excuse(q[j])

\* The entry of a timed wait in its last tick is being walked.
TimesOut(t) == InTick /\ tcb[t].rem = 1

\* Waiters are added behind the others.
LEMMA AppendInOrder ==
  ASSUME NEW q \in Seq(Task), NEW c \in Task
  PROVE  InOrder(q, Append(q, c), TimesOut)
<1> DEFINE r == Append(q, c)
<1>1. /\ Len(q) \in Nat /\ Len(r) = Len(q) + 1
      /\ \A i \in 1..Len(q) : r[i] = q[i]
  BY AppendProperties
<1> HIDE DEF r
<1>2. \A i \in 1..Len(q) : i \in 1..Len(r) /\ r[i] = q[i]
  BY <1>1
<1> QED BY <1>2 DEF InOrder, InSeq, r

\* A waiter that is taken out of the middle was in its last tick.
LEMMA DropInOrder ==
  ASSUME NEW q \in Seq(Task), NEW k \in 1..Len(q),
         \A i, j \in 1..Len(q) : q[i] = q[j] => i = j,
         k = 1 \/ TimesOut(q[k])
  PROVE  InOrder(q, Drop(q, k), TimesOut)
<1> DEFINE r == Drop(q, k)
<1>1. Len(q) \in Nat
  BY LenProperties
<1>2. /\ Len(r) = Len(q) - 1
      /\ \A j \in 1..(Len(q) - 1) : r[j] = IF j < k THEN q[j] ELSE q[j + 1]
  BY DropProperties
<1>3. \A t \in Task : InSeq(r, t) <=> InSeq(q, t) /\ t # q[k]
  BY DropElement
<1> HIDE DEF r
<1> SUFFICES ASSUME NEW i \in 1..Len(q), NEW j \in 1..Len(q), i < j, InSeq(r, q[i])
             PROVE  IF InSeq(r, q[j])
                    THEN \E m, l \in 1..Len(r) : m < l /\ r[m] = q[i] /\ r[l] = q[j]
                    ELSE TimesOut(q[j])
  BY DEF InOrder, r
<1>4. q[i] \in Task /\ q[j] \in Task /\ InSeq(q, q[j])
  BY ElementOfSeq DEF InSeq
<1>5. i # k
  BY <1>3, <1>4
<1>6. CASE j = k
  <2>1. ~InSeq(r, q[j]) /\ k # 1
    BY <1>1, <1>3, <1>4, <1>6
  <2> QED BY <1>6, <2>1
<1>7. CASE j # k
  <2>1. InSeq(r, q[j])
    BY <1>3, <1>4, <1>7
  <2> DEFINE m == IF i < k THEN i ELSE i - 1
             l == IF j < k THEN j ELSE j - 1
  <2>2. m \in 1..Len(r) /\ l \in 1..Len(r) /\ m < l
    BY <1>1, <1>2, <1>5, <1>7
  <2>3. r[m] = q[i]
    BY <1>1, <1>2, <1>5
  <2>4. r[l] = q[j]
    BY <1>1, <1>2, <1>7
  <2> HIDE DEF m, l
  <2> QED BY <2>1, <2>2, <2>3, <2>4
<1> QED BY <1>6, <1>7

\* What a step can do to a wait queue.
LEMMA WaitqStep ==
  ASSUME QueueInv, [Next]_vars, NEW s \in Sem
  PROVE  \/ waitq'[s] = waitq[s]
         \/ waitq'[s] = <<>>
         \/ \E c \in Task : waitq'[s] = Append(waitq[s], c)
         \/ \E k \in 1..Len(waitq[s]) :
              /\ waitq'[s] = Drop(waitq[s], k)
              /\ k = 1 \/ TimesOut(waitq[s][k])
<1> USE DEF QueueInv
<1>1. waitq \in [Sem -> Seq(Task)]
  BY DEF TypeOK
<1>2. CASE Tasks \/ TaskApi \/ Boundary
  <2>1. UNCHANGED semVars
    BY <1>2 DEF Tasks, task_register, dispatcher_commit_current, ContextSwitchSmoke,
                TaskApi, cre_tsk, sta_tsk, wup_tsk, slp_tsk, yield_tsk, dly_tsk, Reject,
                Boundary, CooperativeReturn, preemption_evaluate_from_irq,
                dispatch_pending_consume_at_deferred_boundary,
                dispatch_pending_clear_for_test_or_later_boundary
  <2> QED BY <2>1 DEF semVars
<1>3. CASE SemApi
  <2>1. ASSUME NEW u \in Sem \cup {NoSem}, NEW n \in 0..MaxDelay,
               wai_sem(u) \/ pol_sem(u) \/ twai_sem(u, n)
        PROVE  \/ UNCHANGED waitq
               \/ CurrentRunning /\ Exists(u) /\ sem_enqueue_waiter(u, current)
    BY <2>1 DEF wai_sem, pol_sem, twai_sem, TakeCount, Reject, semVars
  <2>2. ASSUME NEW u \in Sem \cup {NoSem}, CurrentRunning, Exists(u),
               sem_enqueue_waiter(u, current)
        PROVE  waitq'[s] = waitq[s] \/ \E c \in Task : waitq'[s] = Append(waitq[s], c)
    <3>1. current \in Task /\ u \in Sem
      BY <2>2 DEF CurrentRunning, Exists, TypeOK
    <3> QED BY <1>1, <2>2, <3>1 DEF sem_enqueue_waiter
  <2>3. ASSUME NEW u \in Sem \cup {NoSem}, sig_sem(u)
        PROVE  \/ UNCHANGED waitq
               \/ Exists(u) /\ ~NoWaiters(u) /\ waitq' = [waitq EXCEPT ![u] = Tail(@)]
    BY <2>3 DEF sig_sem, Reject, semVars
  <2>4. ASSUME NEW u \in Sem \cup {NoSem}, Exists(u), ~NoWaiters(u),
               waitq' = [waitq EXCEPT ![u] = Tail(@)]
        PROVE  \/ waitq'[s] = waitq[s]
               \/ 1 \in 1..Len(waitq[s]) /\ waitq'[s] = Drop(waitq[s], 1)
    BY <1>1, <2>4, TailIsDrop DEF Exists, NoWaiters
  <2>5. 0 \in 0..MaxDelay
    BY ConstantsAssumption
  <2> QED BY <1>3, <2>1, <2>2, <2>3, <2>4, <2>5 DEF SemApi
<1>4. CASE SemTable
  <2>1. ASSUME NEW u \in Sem, NEW m \in 1..MaxCount, NEW init \in 0..m,
               sem_create(u, init, m)
        PROVE  waitq'[s] = waitq[s] \/ waitq'[s] = <<>>
    BY <1>1, <2>1 DEF sem_create
  <2> QED BY <1>4, <2>1 DEF SemTable, sem_init
<1>5. CASE TickExpire
  <2>1. InTick
    BY <1>5 DEF TickExpire, ExpireEntry
  <2>2. PICK t \in Task :
          /\ tcb[t].rem = 1
          /\ \/ waitq' = waitq
             \/ \E u \in Sem : \E k \in 1..Len(waitq[u]) :
                  waitq[u][k] = t /\ waitq' = [waitq EXCEPT ![u] = Drop(waitq[u], k)]
    BY <1>5, ExpireEffect
  <2> QED BY <1>1, <2>1, <2>2 DEF TimesOut
<1>6. CASE timer_tick \/ TickPass \/ TickEnd \/ Interrupt \/ UNCHANGED vars
  BY <1>6 DEF timer_tick, TickPass, TickEnd, Interrupt, IrqEntry, IrqEvaluate, IrqExit,
              Halt, vars, semVars
<1> QED BY <1>2, <1>3, <1>4, <1>5, <1>6 DEF Next, Call, Tick

\* Waiters leave a semaphore in the order in which they came, and one that is
\* overtaken is overtaken by a timeout (sem_dequeue_waiter, sem_remove_waiter).
THEOREM FifoOrder == Spec => FifoExceptTimeout
<1> DEFINE A == \A s \in Sem : \A i, j \in 1..Len(waitq[s]) :
       i < j /\ InSeq(waitq'[s], waitq[s][i]) =>
         IF InSeq(waitq'[s], waitq[s][j])
         THEN \E k, l \in 1..Len(waitq'[s]) :
                k < l /\ waitq'[s][k] = waitq[s][i] /\ waitq'[s][l] = waitq[s][j]
         ELSE InTick /\ tcb[waitq[s][j]].rem = 1
<1>1. QueueInv /\ [Next]_vars => [A]_vars
  <2> SUFFICES ASSUME QueueInv, [Next]_vars, NEW s \in Sem
               PROVE  InOrder(waitq[s], waitq'[s], TimesOut)
    BY DEF InOrder, TimesOut
  <2>1. /\ waitq[s] \in Seq(Task)
        /\ \A i, j \in 1..Len(waitq[s]) : waitq[s][i] = waitq[s][j] => i = j
    BY DEF QueueInv, TypeOK, SemQueueConsistent
  <2>2. CASE waitq'[s] = waitq[s]
    BY <2>2 DEF InOrder, InSeq
  <2>3. CASE waitq'[s] = <<>>
    BY <2>3 DEF InOrder, InSeq
  <2>4. CASE \E c \in Task : waitq'[s] = Append(waitq[s], c)
    BY <2>1, <2>4, AppendInOrder
  <2>5. CASE \E k \in 1..Len(waitq[s]) :
               /\ waitq'[s] = Drop(waitq[s], k)
               /\ k = 1 \/ TimesOut(waitq[s][k])
    BY <2>1, <2>5, DropInOrder
  <2> QED BY <2>2, <2>3, <2>4, <2>5, WaitqStep
<1> QED BY <1>1, InitQueueInv, StepQueueInv, PTL DEF Spec, FifoExceptTimeout

\* The loop of delay_queue_tick() has a bound that it counts down by one in
\* every round, the number of entries it has yet to look at.  This is the
\* part of TickEnds that does not rest on fairness.
THEOREM TickRounds == Spec => RoundPerEntry
<1> DEFINE A == InTick /\ InTick' =>
                  Len(dq') - idx' = (Len(dq) - idx) - 1 /\ idx' <= Len(dq') + 1
<1>1. TypeOK /\ [Next]_vars => [A]_vars
  <2> SUFFICES ASSUME TypeOK, [Next]_vars, InTick, InTick', vars' # vars
               PROVE  Len(dq') - idx' = (Len(dq) - idx) - 1 /\ idx' <= Len(dq') + 1
    OBVIOUS
  <2>1. dq \in Seq(Entry) /\ Len(dq) \in Nat /\ idx \in Nat /\ idx > 0
    BY DEF TypeOK, Entry
  <2>2. CASE Call
    <3>1. AtTask
      BY <2>2, CallsAtTask
    <3> QED BY <3>1 DEF AtTask, InTick
  <2>3. CASE timer_tick
    BY <2>3 DEF timer_tick, InTick
  <2>4. CASE TickPass
    <3>1. PICK e : dq' = [dq EXCEPT ![idx] = e]
      BY <2>4 DEF TickPass
    <3>2. Len(dq') = Len(dq)
      BY <2>1, <3>1
    <3>3. idx' = idx + 1 /\ idx <= Len(dq)
      BY <2>4 DEF TickPass
    <3> QED BY <2>1, <3>2, <3>3
  <2>5. CASE TickExpire
    <3>1. idx' = idx /\ idx <= Len(dq) /\ dq' = Drop(dq, idx)
      BY <2>5 DEF TickExpire, ExpireEntry
    <3>2. idx \in 1..Len(dq)
      BY <2>1, <3>1
    <3>3. Len(dq') = Len(dq) - 1
      BY <2>1, <3>1, <3>2, DropProperties
    <3> QED BY <2>1, <3>1, <3>3
  <2>6. CASE TickEnd
    BY <2>6 DEF TickEnd, InTick
  <2>7. CASE Interrupt
    BY <2>7 DEF Interrupt, IrqEntry, IrqEvaluate, IrqExit, Halt, InTick
  <2> QED BY <2>2, <2>3, <2>4, <2>5, <2>6, <2>7 DEF Next, Tick
<1> QED BY <1>1, Typing, PTL DEF Spec, RoundPerEntry
=============================================================================
