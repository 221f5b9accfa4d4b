---------------------------- MODULE Kernel_proofs ----------------------------
(***************************************************************************)
(* Proofs about Kernel for every set of tasks and semaphores, every        *)
(* priority and stack assignment, and every capacity of the table.         *)
(***************************************************************************)
EXTENDS Kernel, SequenceTheorems, FiniteSetTheorems, WellFoundedInduction, TLAPS

TcbRecord == [state : States, reason : Reasons, sem : Sem \cup {NoSem}, rem : Nat]

Entry == [task : Task, rem : Nat]

-----------------------------------------------------------------------------
(***************************************************************************)
(* The operators the actions are built from.                               *)
(***************************************************************************)

\* Removing one element of a sequence leaves a sequence that is one shorter.
LEMMA DropProperties ==
  ASSUME NEW S, NEW q \in Seq(S), NEW i \in 1..Len(q)
  PROVE  /\ Drop(q, i) \in Seq(S)
         /\ Len(Drop(q, i)) = Len(q) - 1
         /\ \A j \in 1..(Len(q) - 1) :
              Drop(q, i)[j] = IF j < i THEN q[j] ELSE q[j + 1]
<1> DEFINE n == Len(q) - 1
           f == [j \in 1..n |-> IF j < i THEN q[j] ELSE q[j + 1]]
<1>1. n \in Nat
  OBVIOUS
<1>2. \A j \in 1..n : (IF j < i THEN q[j] ELSE q[j + 1]) \in S
  BY ElementOfSeq
<1>3. f \in [1..n -> S]
  BY <1>2
<1>4. f \in Seq(S) /\ Len(f) = n
  BY <1>1, <1>3, IsASeq, LenProperties
<1> QED BY <1>4 DEF Drop

\* A set of positions that is not empty has a least one.
LEMMA LeastIndex ==
  ASSUME NEW n \in Nat, NEW T, T \subseteq 1..n, T # {}
  PROVE  \E i \in T : \A j \in 1..(i - 1) : j \notin T
<1> DEFINE R == OpToRel(<, Nat)
<1>1. IsWellFoundedOn(R, Nat)
  BY NatLessThanWellFounded
<1>2. T \subseteq Nat
  OBVIOUS
<1>3. \A a, b \in Nat : a < b => <<a, b>> \in R
  BY DEF OpToRel
<1> HIDE DEF R
<1>4. PICK i \in T : \A j \in T : ~(<<j, i>> \in R)
  BY <1>1, <1>2, WFMin
<1>5. i \in Nat /\ \A j \in T : ~(j < i)
  BY <1>2, <1>3, <1>4
<1> QED BY <1>2, <1>5

\* sem_remove_waiter() finds a task that is queued.
LEMMA RemoveWaiterFinds ==
  ASSUME NEW q \in Seq(Task), NEW t, InSeq(q, t)
  PROVE  \E i \in 1..Len(q) : q[i] = t /\ RemoveWaiter(q, t) = Drop(q, i)
<1> DEFINE T == {i \in 1..Len(q) : q[i] = t}
<1>1. T # {} /\ T \subseteq 1..Len(q) /\ Len(q) \in Nat
  BY DEF InSeq
<1>2. PICK i \in T : \A j \in 1..(i - 1) : j \notin T
  <2> HIDE DEF T
  <2> QED BY <1>1, LeastIndex
<1>3. i \in 1..Len(q) /\ q[i] = t /\ \A j \in 1..(i - 1) : q[j] # t
  BY <1>2
<1> QED BY <1>3 DEF RemoveWaiter

\* delay_queue_find_index() finds a task that is queued.
LEMMA DelayIndexFinds ==
  ASSUME NEW t, dq \in Seq([task : Task, rem : Nat]), InDelayQueue(t)
  PROVE  DelayIndex(t) \in 1..Len(dq) /\ dq[DelayIndex(t)].task = t
<1> DEFINE T == {i \in 1..Len(dq) : dq[i].task = t}
<1>1. T # {} /\ T \subseteq 1..Len(dq) /\ Len(dq) \in Nat
  BY DEF InDelayQueue
<1>2. PICK i \in T : \A j \in 1..(i - 1) : j \notin T
  <2> HIDE DEF T
  <2> QED BY <1>1, LeastIndex
<1>3. i \in 1..Len(dq) /\ dq[i].task = t /\ \A j \in 1..(i - 1) : dq[j].task # t
  BY <1>2
<1> QED BY <1>3 DEF DelayIndex

\* The two TCB values tasks get are TCBs.
LEMMA TcbTypes ==
  /\ \A st \in States : Tcb(st) \in TcbRecord
  /\ \A why \in Reasons, s \in Sem \cup {NoSem}, n \in Nat :
       Waiting(why, s, n) \in TcbRecord
BY DEF Tcb, Waiting, TcbRecord, States, Reasons

\* A switch leaves TCBs and a current task.
LEMMA SwitchType ==
  ASSUME NEW tc \in [Task -> TcbRecord], NEW from, NEW to \in Task,
         current \in Task \cup {NoTask},
         dispatcher_switch_to(tc, from, to)
  PROVE  /\ tcb' \in [Task -> TcbRecord]
         /\ current' \in Task \cup {NoTask}
<1>1. \A st \in States : Tcb(st) \in TcbRecord
  BY TcbTypes
<1>2. {"DORMANT", "READY", "RUNNING"} \subseteq States
  BY DEF States
<1>3. AfterSwitch(tc, from, to) \in [Task -> TcbRecord]
  BY <1>1, <1>2 DEF AfterSwitch
<1> QED BY <1>3 DEF dispatcher_switch_to

\* So does the tail of the calls that block.
LEMMA SwitchFromWaitingType ==
  ASSUME NEW tc \in [Task -> TcbRecord], current \in Task \cup {NoTask},
         SwitchFromWaiting(tc)
  PROVE  /\ tcb' \in [Task -> TcbRecord]
         /\ current' \in Task \cup {NoTask}
         /\ ret' \in Codes
<1>1. PICK n \in Task \cup {NoTask} :
        IF n = NoTask
        THEN tcb' = tc /\ UNCHANGED current /\ ret' = "E_OK"
        ELSE /\ dispatcher_switch_to(tc, current, n)
             /\ ret' = IF MaySwitch(tc, current, n) /\ FramesOk(tc, current, n)
                       THEN "E_OK" ELSE "E_OBJ"
  BY DEF SwitchFromWaiting
<1>2. CASE n = NoTask
  BY <1>1, <1>2 DEF Codes
<1>3. CASE n # NoTask
  <2>1. n \in Task /\ dispatcher_switch_to(tc, current, n)
    BY <1>1, <1>3
  <2>2. ret' \in Codes
    BY <1>1, <1>3 DEF Codes
  <2> QED BY <2>1, <2>2, SwitchType
<1> QED BY <1>2, <1>3

-----------------------------------------------------------------------------
(***************************************************************************)
(* Type correctness.                                                       *)
(***************************************************************************)

\* Every initial state is well typed.
LEMMA InitTypeOK == Init => TypeOK
<1> SUFFICES ASSUME Init PROVE TypeOK
  OBVIOUS
<1>1. Tcb("UNUSED") \in TcbRecord
  BY TcbTypes DEF States
<1>2. table \in Seq(Task) /\ dq \in Seq([task : Task, rem : Nat])
  BY EmptySeq DEF Init
<1>3. waitq \in [Sem -> Seq(Task)]
  BY EmptySeq DEF Init
<1> QED
  BY <1>1, <1>2, <1>3 DEF Init, TypeOK, NoPending, InTick, Codes, TcbRecord

\* Reject changes nothing but the return value.
LEMMA RejectType ==
  ASSUME TypeOK, AtTask, NEW e \in Codes, Reject(e)
  PROVE  TypeOK'
BY DEF TypeOK, AtTask, Reject, tickVars, semVars, InTick

\* What the calls have in common: if the new task state is well typed and the
\* queues are untouched, so is everything.
LEMMA TaskCallType ==
  ASSUME TypeOK, AtTask,
         table' \in Seq(Task), tcb' \in [Task -> TcbRecord],
         current' \in Task \cup {NoTask}, ret' \in Codes,
         UNCHANGED pend \/ \E t \in Task : RequestFromTask(t),
         UNCHANGED <<semVars, dq>>
  PROVE  TypeOK'
<1>1. pend' \in [source : {"NONE", "IRQ", "TASK"},
                 from : Task \cup {NoTask}, to : Task \cup {NoTask}]
  BY DEF TypeOK, RequestFromTask, Pending
<1> QED BY <1>1 DEF TypeOK, AtTask, tickVars, semVars, InTick, TcbRecord

\* The steps of Call that touch neither semaphores nor the delay queue.
LEMMA TaskCallsType ==
  ASSUME TypeOK, Tasks \/ TaskApi \/ CooperativeReturn
  PROVE  TypeOK'
<1> USE DEF TcbRecord
<1>1. \A st \in States : Tcb(st) \in TcbRecord
  BY TcbTypes
<1>2. {"DORMANT", "READY", "RUNNING"} \subseteq States
  BY DEF States
<1>3. {"none", "E_OK", "E_ID", "E_PAR", "E_CTX", "E_OBJ", "E_TMOUT", "E_QOVR"} = Codes
  BY DEF Codes
<1>4. ASSUME NEW t \in Task, NEW st \in {"DORMANT", "READY", "RUNNING"}
      PROVE  [tcb EXCEPT ![t] = Tcb(st)] \in [Task -> TcbRecord]
  BY <1>1, <1>2 DEF TypeOK
<1>5. ASSUME NEW t \in Task, task_register(t) PROVE TypeOK'
  <2>1. table' \in Seq(Task)
    BY <1>5, AppendProperties DEF task_register, TypeOK
  <2>2. tcb' \in [Task -> TcbRecord]
    BY <1>4, <1>5 DEF task_register
  <2> QED BY <1>3, <1>5, <2>1, <2>2, TaskCallType DEF task_register, TypeOK
<1>6. ASSUME NEW t \in Task, dispatcher_commit_current(t) PROVE TypeOK'
  BY <1>3, <1>4, <1>6, TaskCallType DEF dispatcher_commit_current, TypeOK
<1>7. ASSUME NEW t \in Task, ContextSwitchSmoke(t) PROVE TypeOK'
  <2>1. tcb' \in [Task -> TcbRecord] /\ current' \in Task \cup {NoTask}
    BY <1>7, SwitchType DEF ContextSwitchSmoke, TypeOK
  <2> QED BY <1>3, <1>7, <2>1, TaskCallType DEF ContextSwitchSmoke, TypeOK
<1>8. ASSUME NEW t \in Task \cup {NoTask}, NEW valid \in BOOLEAN, cre_tsk(t, valid)
      PROVE  TypeOK'
  <2>1. CASE ~Reject("E_ID") /\ ~Reject("E_PAR") /\ ~Reject("E_OBJ")
    <3>1. /\ AtTask /\ t \in Task
          /\ table' = Append(table, t) /\ tcb' = [tcb EXCEPT ![t] = Tcb("DORMANT")]
          /\ ret' = "E_OK" /\ UNCHANGED <<current, pend, semVars, dq>>
      BY <1>8, <2>1 DEF cre_tsk
    <3>2. table' \in Seq(Task)
      BY <3>1, AppendProperties DEF TypeOK
    <3>3. tcb' \in [Task -> TcbRecord]
      BY <1>4, <3>1
    <3> QED BY <1>3, <3>1, <3>2, <3>3, TaskCallType DEF TypeOK
  <2> QED BY <1>3, <1>8, <2>1, RejectType DEF cre_tsk
<1>9. ASSUME NEW t \in Task \cup {NoTask}, sta_tsk(t) PROVE TypeOK'
  <2>1. t \in Registered => t \in Task
    BY ElementOfSeq DEF Registered, TypeOK
  <2>2. CASE ~Reject("E_ID") /\ ~Reject("E_OBJ")
    <3>1. /\ AtTask /\ t \in Task
          /\ tcb' = [tcb EXCEPT ![t] = Tcb("READY")] /\ RequestFromTask(t)
          /\ ret' = "E_OK" /\ UNCHANGED <<table, current, semVars, dq>>
      BY <1>9, <2>1, <2>2 DEF sta_tsk
    <3>2. tcb' \in [Task -> TcbRecord]
      BY <1>4, <3>1
    <3> QED BY <1>3, <3>1, <3>2, TaskCallType DEF TypeOK
  <2> QED BY <1>3, <1>9, <2>2, RejectType DEF sta_tsk
<1>10. ASSUME NEW t \in Task \cup {NoTask}, wup_tsk(t) PROVE TypeOK'
  <2>1. t \in Registered => t \in Task
    BY ElementOfSeq DEF Registered, TypeOK
  <2>2. CASE ~Reject("E_ID") /\ ~Reject("E_OBJ")
    <3>1. /\ AtTask /\ t \in Task
          /\ tcb' = [tcb EXCEPT ![t] = Tcb("READY")] /\ RequestFromTask(t)
          /\ ret' = "E_OK" /\ UNCHANGED <<table, current, semVars, dq>>
      BY <1>10, <2>1, <2>2 DEF wup_tsk
    <3>2. tcb' \in [Task -> TcbRecord]
      BY <1>4, <3>1
    <3> QED BY <1>3, <3>1, <3>2, TaskCallType DEF TypeOK
  <2> QED BY <1>3, <1>10, <2>2, RejectType DEF wup_tsk
<1>11. CASE slp_tsk
  <2>1. Waiting("SLEEP", NoSem, 0) \in TcbRecord
    BY TcbTypes DEF Reasons
  <2>2. CASE CurrentRunning /\ ~Reject("E_CTX")
    <3>1. [tcb EXCEPT ![current] = Waiting("SLEEP", NoSem, 0)] \in [Task -> TcbRecord]
      BY <2>1 DEF TypeOK
    <3>2. /\ tcb' \in [Task -> TcbRecord]
          /\ current' \in Task \cup {NoTask} /\ ret' \in Codes
      BY <1>11, <2>2, <3>1, SwitchFromWaitingType DEF slp_tsk, TypeOK
    <3> QED BY <1>11, <2>2, <3>2, TaskCallType DEF slp_tsk, TypeOK
  <2> QED BY <1>3, <1>11, <2>2, RejectType DEF slp_tsk
<1>12. CASE yield_tsk
  <2>1. CASE CurrentRunning /\ ~Reject("E_CTX")
    <3> DEFINE tc == [tcb EXCEPT ![current] = Tcb("READY")]
    <3>1. current \in Task /\ tc \in [Task -> TcbRecord]
      BY <2>1, <1>4 DEF TypeOK, CurrentRunning
    <3>2. PICK n \in Task : IF n = current
                            THEN tcb' = tc /\ UNCHANGED current
                            ELSE dispatcher_switch_to(tc, current, n)
      BY <1>12, <2>1 DEF yield_tsk
    <3>3. tcb' \in [Task -> TcbRecord] /\ current' \in Task \cup {NoTask}
      BY <3>1, <3>2, SwitchType DEF TypeOK
    <3> QED BY <1>3, <1>12, <2>1, <3>3, TaskCallType DEF yield_tsk, TypeOK
  <2> QED BY <1>3, <1>12, <2>1, RejectType DEF yield_tsk
<1>13. CASE CooperativeReturn
  BY <1>3, <1>4, <1>13, TaskCallType DEF CooperativeReturn, CurrentRunning, TypeOK
<1>14. ASSUME NEW n \in 0..MaxDelay, dly_tsk(n) PROVE TypeOK'
  <2>1. CASE CurrentRunning /\ ~Reject("E_CTX") /\ ~Reject("E_PAR") /\ ~Reject("E_QOVR")
    <3> DEFINE tc == [tcb EXCEPT ![current] = Waiting("DELAY", NoSem, n)]
    <3>1. n \in Nat /\ current \in Task
      BY <2>1, ConstantsAssumption DEF CurrentRunning, TypeOK
    <3>2. tc \in [Task -> TcbRecord]
      BY <3>1, TcbTypes DEF TypeOK, Reasons
    <3>3. /\ AtTask
          /\ dq' = Append(dq, [task |-> current, rem |-> n])
          /\ SwitchFromWaiting(tc)
          /\ UNCHANGED <<table, pend, semVars>>
      BY <1>14, <2>1 DEF dly_tsk, delay_queue_enqueue
    <3>4. /\ tcb' \in [Task -> TcbRecord]
          /\ current' \in Task \cup {NoTask} /\ ret' \in Codes
      BY <3>2, <3>3, SwitchFromWaitingType DEF TypeOK
    <3>5. dq' \in Seq([task : Task, rem : Nat])
      BY <3>1, <3>3, AppendProperties DEF TypeOK
    <3> QED BY <3>3, <3>4, <3>5 DEF TypeOK, AtTask, tickVars, semVars, InTick
  <2> QED BY <1>3, <1>14, <2>1, RejectType DEF dly_tsk
<1> QED
  BY <1>5, <1>6, <1>7, <1>8, <1>9, <1>10, <1>11, <1>12, <1>13, <1>14
  DEF Tasks, TaskApi

\* Taking one from a positive count leaves a count.
LEMMA TakeCountType ==
  ASSUME TypeOK, AtTask, NEW s \in Sem, TakeCount(s)
  PROVE  TypeOK'
<1>1. count' \in [Sem -> Nat]
  BY DEF TypeOK, TakeCount
<1>2. ret' \in Codes
  BY DEF TakeCount, Codes
<1> QED
  BY <1>1, <1>2 DEF TypeOK, AtTask, TakeCount, tickVars, InTick

\* A blocking semaphore call leaves sequences of tasks and of delay entries.
LEMMA BlockType ==
  ASSUME TypeOK, AtTask, NEW s \in Sem, NEW tc \in [Task -> TcbRecord],
         current \in Task, SwitchFromWaiting(tc),
         waitq' = [waitq EXCEPT ![s] = Append(@, current)],
         dq' \in Seq([task : Task, rem : Nat]),
         UNCHANGED <<table, pend, max, count>>
  PROVE  TypeOK'
<1>1. /\ tcb' \in [Task -> TcbRecord]
      /\ current' \in Task \cup {NoTask} /\ ret' \in Codes
  BY SwitchFromWaitingType
<1>2. Append(waitq[s], current) \in Seq(Task)
  BY AppendProperties DEF TypeOK
<1>3. waitq' \in [Sem -> Seq(Task)]
  BY <1>2 DEF TypeOK
<1> QED BY <1>1, <1>3 DEF TypeOK, AtTask, tickVars, InTick, TcbRecord

\* The calls on semaphores.
LEMMA SemCallsType ==
  ASSUME TypeOK, SemApi \/ SemTable
  PROVE  TypeOK'
<1>1. {"none", "E_OK", "E_ID", "E_PAR", "E_CTX", "E_OBJ", "E_TMOUT", "E_QOVR"} = Codes
  BY DEF Codes
<1>2. ASSUME NEW s \in Sem \cup {NoSem}, wai_sem(s) PROVE TypeOK'
  <2>1. CASE Reject("E_CTX") \/ Reject("E_ID")
    BY <1>1, <1>2, <2>1, RejectType DEF wai_sem
  <2>2. CASE s \in Sem /\ TakeCount(s)
    BY <1>2, <2>2, TakeCountType DEF wai_sem
  <2>3. CASE CurrentRunning /\ Exists(s) /\ count[s] = 0
             /\ ~Reject("E_CTX") /\ ~Reject("E_ID") /\ ~TakeCount(s)
    <3> DEFINE tc == [tcb EXCEPT ![current] = Waiting("SEMAPHORE", s, 0)]
    <3>1. AtTask /\ s \in Sem /\ current \in Task
      BY <1>2, <2>3 DEF wai_sem, Exists, CurrentRunning, TypeOK
    <3>2. tc \in [Task -> TcbRecord]
      BY <3>1, TcbTypes DEF TypeOK, Reasons, TcbRecord
    <3>3. /\ IF CanQueue(s)
             THEN /\ waitq' = [waitq EXCEPT ![s] = Append(@, current)]
                  /\ SwitchFromWaiting(tc)
             ELSE tcb' = tc /\ ret' = "E_OBJ" /\ UNCHANGED <<current, waitq>>
          /\ UNCHANGED <<table, pend, max, count, dq>>
      BY <1>2, <2>3 DEF wai_sem, sem_enqueue_waiter
    <3>4. CASE CanQueue(s)
      BY <3>1, <3>2, <3>3, <3>4, BlockType DEF TypeOK
    <3>5. CASE ~CanQueue(s)
      BY <1>1, <3>1, <3>2, <3>3, <3>5
      DEF TypeOK, AtTask, tickVars, InTick, TcbRecord
    <3> QED BY <3>4, <3>5
  <2> QED BY <1>2, <2>1, <2>2, <2>3 DEF wai_sem, Exists
<1>3. ASSUME NEW s \in Sem \cup {NoSem}, pol_sem(s) PROVE TypeOK'
  <2>1. CASE Reject("E_CTX") \/ Reject("E_ID") \/ Reject("E_TMOUT")
    BY <1>1, <1>3, <2>1, RejectType DEF pol_sem
  <2>2. CASE s \in Sem /\ TakeCount(s)
    BY <1>3, <2>2, TakeCountType DEF pol_sem
  <2> QED BY <1>3, <2>1, <2>2 DEF pol_sem, Exists
<1>4. ASSUME NEW s \in Sem \cup {NoSem}, NEW n \in 0..MaxDelay, twai_sem(s, n)
      PROVE  TypeOK'
  <2>1. CASE Reject("E_CTX") \/ Reject("E_ID") \/ Reject("E_PAR") \/ Reject("E_QOVR")
    BY <1>1, <1>4, <2>1, RejectType DEF twai_sem
  <2>2. CASE s \in Sem /\ TakeCount(s)
    BY <1>4, <2>2, TakeCountType DEF twai_sem
  <2> DEFINE tc == [tcb EXCEPT ![current] = Waiting("SEMAPHORE_TIMEOUT", s, n)]
  <2>3. CASE /\ CurrentRunning /\ Exists(s)
             /\ waitq' = [waitq EXCEPT ![s] = Append(@, current)]
             /\ dq' = Append(dq, [task |-> current, rem |-> n])
             /\ SwitchFromWaiting(tc)
             /\ UNCHANGED <<table, pend, max, count>>
    <3>1. AtTask /\ s \in Sem /\ current \in Task /\ n \in Nat
      BY <1>4, <2>3, ConstantsAssumption
      DEF twai_sem, Exists, CurrentRunning, TypeOK
    <3>2. tc \in [Task -> TcbRecord]
      BY <3>1, TcbTypes DEF TypeOK, Reasons, TcbRecord
    <3>3. dq' \in Seq([task : Task, rem : Nat])
      BY <2>3, <3>1, AppendProperties DEF TypeOK
    <3> QED BY <2>3, <3>1, <3>2, <3>3, BlockType
  <2> QED BY <1>4, <2>1, <2>2, <2>3 DEF twai_sem, Exists,
                                              sem_enqueue_waiter, delay_queue_enqueue
<1>5. ASSUME NEW s \in Sem \cup {NoSem}, sig_sem(s) PROVE TypeOK'
  <2>1. CASE Reject("E_ID") \/ Reject("E_QOVR")
    BY <1>1, <1>5, <2>1, RejectType DEF sig_sem
  <2>2. CASE /\ Exists(s) /\ count' = [count EXCEPT ![s] = @ + 1]
             /\ ret' = "E_OK"
             /\ UNCHANGED <<table, tcb, current, pend, max, waitq, dq>>
    <3>1. count' \in [Sem -> Nat]
      BY <2>2 DEF TypeOK, Exists
    <3> QED BY <1>1, <1>5, <2>2, <3>1
            DEF sig_sem, TypeOK, AtTask, tickVars, InTick
  <2>3. CASE Exists(s) /\ ~NoWaiters(s) /\ ~Reject("E_ID")
    <3>1. s \in Sem /\ waitq[s] \in Seq(Task) /\ waitq[s] # <<>>
      BY <2>3 DEF Exists, NoWaiters, TypeOK
    <3>2. Head(waitq[s]) \in Task /\ Tail(waitq[s]) \in Seq(Task)
      BY <3>1, HeadTailProperties
    <3> DEFINE t == Head(waitq[s])
    <3>3. /\ waitq' = [waitq EXCEPT ![s] = Tail(@)]
          /\ dq' = dq \/ (InDelayQueue(t) /\ dq' = Drop(dq, DelayIndex(t)))
          /\ \/ /\ tcb' = [tcb EXCEPT ![t] = Tcb("READY")]
                /\ RequestFromTask(t) /\ ret' = "E_OK"
             \/ ret' = "E_OBJ" /\ UNCHANGED <<tcb, pend>>
          /\ UNCHANGED <<table, current, max, count>>
          /\ AtTask
      BY <1>5, <2>3 DEF sig_sem
    <3>4. waitq' \in [Sem -> Seq(Task)]
      BY <3>1, <3>2, <3>3 DEF TypeOK
    <3>5. dq' \in Seq([task : Task, rem : Nat])
      <4>1. CASE dq' = dq
        BY <4>1 DEF TypeOK
      <4>2. CASE InDelayQueue(t) /\ dq' = Drop(dq, DelayIndex(t))
        BY <4>2, DelayIndexFinds, DropProperties DEF TypeOK
      <4> QED BY <3>3, <4>1, <4>2
    <3>6. tcb' \in [Task -> TcbRecord]
      BY <3>2, <3>3, TcbTypes, ZenonT(60) DEF TypeOK, States, TcbRecord
    <3>7. pend' \in [source : {"NONE", "IRQ", "TASK"},
                     from : Task \cup {NoTask}, to : Task \cup {NoTask}]
      BY <3>2, <3>3, SMTT(30) DEF TypeOK, RequestFromTask, Pending
    <3>8. ret' \in Codes
      BY <3>3 DEF Codes
    <3> QED BY <3>3, <3>4, <3>5, <3>6, <3>7, <3>8
            DEF TypeOK, AtTask, tickVars, InTick, TcbRecord
  <2> QED BY <1>5, <2>1, <2>2, <2>3 DEF sig_sem
<1>6. CASE sem_init
  BY <1>1, <1>6, EmptySeq DEF sem_init, TypeOK, AtTask, tickVars, InTick
<1>7. ASSUME NEW s \in Sem, NEW m \in 1..MaxCount, NEW init \in 0..m,
             sem_create(s, init, m)
      PROVE  TypeOK'
  <2>1. m \in Nat /\ init \in Nat
    BY ConstantsAssumption
  <2>2. /\ max' \in [Sem -> Nat] /\ count' \in [Sem -> Nat]
        /\ waitq' \in [Sem -> Seq(Task)]
    BY <1>7, <2>1, EmptySeq DEF sem_create, TypeOK
  <2> QED BY <1>1, <1>7, <2>2 DEF sem_create, TypeOK, AtTask, tickVars, InTick
<1> QED
  BY <1>2, <1>3, <1>4, <1>5, <1>6, <1>7 DEF SemApi, SemTable

\* Ticks.
LEMMA TickType ==
  ASSUME TypeOK, timer_tick \/ IrqEntry \/ Tick
  PROVE  TypeOK'
<1>1. CASE timer_tick \/ IrqEntry
  <2>1. [t \in Task |-> tcb[t].rem] \in [Task -> Nat]
    BY DEF TypeOK
  <2> QED BY <1>1, <2>1 DEF timer_tick, IrqEntry, TypeOK, semVars, InTick, Codes
<1>2. CASE TickPass
  <2>1. idx \in 1..Len(dq) /\ dq[idx] \in Entry
    <3>1. InTick /\ idx <= Len(dq)
      BY <1>2 DEF TickPass
    <3>2. idx \in Nat /\ (InTick => idx > 0) /\ dq \in Seq(Entry)
      BY DEF TypeOK, Entry
    <3> QED BY <3>1, <3>2, ElementOfSeq
  <2> DEFINE n == dq[idx].rem - 1
  <2>2. n \in Nat /\ dq[idx].task \in Task
    BY <1>2, <2>1 DEF TickPass, Entry
  <2>3. dq' \in Seq(Entry)
    <3>1. dq' = [dq EXCEPT ![idx] = [dq[idx] EXCEPT !.rem = n]]
      BY <1>2 DEF TickPass
    <3>2. [dq[idx] EXCEPT !.rem = n] \in Entry
      BY <2>1, <2>2 DEF Entry
    <3> QED BY <2>1, <3>1, <3>2, ExceptSeq DEF TypeOK, Entry
  <2>4. tcb' \in [Task -> TcbRecord]
    BY <1>2, <2>2, ZenonT(60) DEF TickPass, TypeOK, TcbRecord
  <2>5. /\ idx' = idx + 1
        /\ UNCHANGED <<table, current, pend, semVars, pc, atTick, ret>>
    BY <1>2 DEF TickPass
  <2> QED BY <2>3, <2>4, <2>5 DEF TypeOK, semVars, InTick, Entry, TcbRecord
<1>3. CASE TickExpire
  <2>1. idx \in 1..Len(dq) /\ dq[idx] \in Entry
    <3>1. InTick /\ idx <= Len(dq)
      BY <1>3 DEF TickExpire, ExpireEntry
    <3>2. idx \in Nat /\ (InTick => idx > 0) /\ dq \in Seq(Entry)
      BY DEF TypeOK, Entry
    <3> QED BY <3>1, <3>2, ElementOfSeq
  <2> DEFINE t == dq[idx].task
             s == tcb[t].sem
  <2>2. t \in Task
    BY <2>1 DEF Entry
  <2>3. /\ \/ waitq' = waitq
           \/ /\ Exists(s) /\ InSeq(waitq[s], t)
              /\ waitq' = [waitq EXCEPT ![s] = RemoveWaiter(@, t)]
        /\ \/ tcb' = [tcb EXCEPT ![t] = Tcb("READY")]
           \/ tcb' = [tcb EXCEPT ![t].rem = 0]
        /\ dq' = Drop(dq, idx)
        /\ UNCHANGED <<table, current, pend, max, count, pc, idx, atTick, ret>>
    BY <1>3 DEF TickExpire, ExpireEntry
  <2>4. dq' \in Seq(Entry)
    BY <2>1, <2>3, DropProperties DEF TypeOK, Entry
  <2>5. tcb' \in [Task -> TcbRecord]
    <3>1. Tcb("READY") \in TcbRecord
      BY TcbTypes DEF States
    <3>2. [tcb[t] EXCEPT !.rem = 0] \in TcbRecord
      BY <2>2, ZenonT(60) DEF TypeOK, TcbRecord
    <3>3. tcb \in [Task -> TcbRecord]
      BY DEF TypeOK, TcbRecord
    <3>4. CASE tcb' = [tcb EXCEPT ![t] = Tcb("READY")]
      BY <2>2, <3>1, <3>3, <3>4
    <3>5. CASE tcb' = [tcb EXCEPT ![t].rem = 0]
      BY <2>2, <3>2, <3>3, <3>5
    <3> QED BY <2>3, <3>4, <3>5
  <2>6. waitq' \in [Sem -> Seq(Task)]
    <3>1. CASE Exists(s) /\ InSeq(waitq[s], t)
      <4>1. s \in Sem /\ waitq[s] \in Seq(Task)
        BY <2>2, <3>1 DEF Exists, TypeOK
      <4>2. RemoveWaiter(waitq[s], t) \in Seq(Task)
        BY <3>1, <4>1, RemoveWaiterFinds, DropProperties
      <4> QED BY <2>3, <4>1, <4>2 DEF TypeOK
    <3> QED BY <2>3, <3>1 DEF TypeOK
  <2> QED BY <2>3, <2>4, <2>5, <2>6 DEF TypeOK, InTick, Entry, TcbRecord
<1>4. CASE TickEnd
  BY <1>4 DEF TickEnd, TypeOK, semVars, InTick
<1> QED BY <1>1, <1>2, <1>3, <1>4 DEF Tick

\* Dispatch requests, the interrupt and the calls on the boundary.
LEMMA BoundaryType ==
  ASSUME TypeOK,
         \/ preemption_evaluate_from_irq
         \/ dispatch_pending_consume_at_deferred_boundary
         \/ dispatch_pending_clear_for_test_or_later_boundary
         \/ IrqEvaluate \/ IrqExit \/ Halt
  PROVE  TypeOK'
<1> DEFINE PendType == [source : {"NONE", "IRQ", "TASK"},
                        from : Task \cup {NoTask}, to : Task \cup {NoTask}]
<1>1. Evaluate => pend' \in PendType
  BY DEF Evaluate, ForgetIrq, NoPending, Pending, TypeOK
<1>2. Consume => /\ tcb' \in [Task -> TcbRecord]
                 /\ current' \in Task \cup {NoTask}
                 /\ pend' \in PendType
  <2>1. ASSUME Consume PROVE pend' \in PendType
    BY <2>1 DEF Consume, NoPending
  <2>2. ASSUME Consume, ~PendingValid
        PROVE  tcb' \in [Task -> TcbRecord] /\ current' \in Task \cup {NoTask}
    BY <2>2 DEF Consume, TypeOK, TcbRecord
  <2>3. ASSUME Consume, PendingValid
        PROVE  tcb' \in [Task -> TcbRecord] /\ current' \in Task \cup {NoTask}
    <3>1. dispatcher_switch_to(tcb, pend.from, pend.to)
      BY <2>3 DEF Consume
    <3>2. tcb \in [Task -> TcbRecord] /\ current \in Task \cup {NoTask}
      BY DEF TypeOK, TcbRecord
    <3>3. CASE pend.to \in Task
      BY <3>1, <3>2, <3>3, SwitchType
    <3>4. CASE pend.to = NoTask
      <4>1. AfterSwitch(tcb, pend.from, NoTask) \in [Task -> TcbRecord]
        BY <3>2, TcbTypes DEF AfterSwitch, States
      <4> QED BY <3>1, <3>2, <3>4, <4>1 DEF dispatcher_switch_to
    <3> QED BY <3>3, <3>4 DEF TypeOK
  <2> QED BY <2>1, <2>2, <2>3
<1>3. CASE preemption_evaluate_from_irq
  BY <1>1, <1>3 DEF preemption_evaluate_from_irq, TypeOK, AtTask, tickVars, semVars,
                    InTick, Codes
<1>4. CASE dispatch_pending_consume_at_deferred_boundary
  BY <1>2, <1>4 DEF dispatch_pending_consume_at_deferred_boundary, TypeOK, AtTask,
                    tickVars, semVars, InTick, Codes, TcbRecord
<1>5. CASE dispatch_pending_clear_for_test_or_later_boundary
  BY <1>5 DEF dispatch_pending_clear_for_test_or_later_boundary, TypeOK, AtTask,
              tickVars, semVars, InTick, Codes, NoPending
<1>6. CASE IrqEvaluate
  BY <1>1, <1>6 DEF IrqEvaluate, TypeOK, semVars, InTick
<1>7. CASE IrqExit
  BY <1>2, <1>7 DEF IrqExit, TypeOK, semVars, InTick, TcbRecord
<1>8. CASE Halt
  BY <1>8 DEF Halt, vars, TypeOK, InTick
<1> QED BY <1>3, <1>4, <1>5, <1>6, <1>7, <1>8

\* Calls are made only between ticks and interrupts.
LEMMA CallsAtTask == Call => AtTask
<1>1. Tasks \/ TaskApi => AtTask
  BY DEF Tasks, task_register, dispatcher_commit_current, ContextSwitchSmoke,
         TaskApi, cre_tsk, sta_tsk, wup_tsk, slp_tsk, yield_tsk, dly_tsk
<1>2. SemApi \/ SemTable => AtTask
  BY DEF SemApi, wai_sem, pol_sem, sig_sem, twai_sem, SemTable, sem_init, sem_create
<1>3. Boundary => AtTask
  BY DEF Boundary, CooperativeReturn, preemption_evaluate_from_irq,
         dispatch_pending_consume_at_deferred_boundary,
         dispatch_pending_clear_for_test_or_later_boundary
<1> QED BY <1>1, <1>2, <1>3 DEF Call

\* Every step leaves the state well typed.
LEMMA StepTypeOK == TypeOK /\ [Next]_vars => TypeOK'
<1> SUFFICES ASSUME TypeOK, [Next]_vars PROVE TypeOK'
  OBVIOUS
<1>1. CASE UNCHANGED vars
  BY <1>1 DEF vars, TypeOK, InTick
<1>2. CASE Call
  BY <1>2, TaskCallsType, SemCallsType, BoundaryType DEF Call, Boundary
<1>3. CASE timer_tick \/ Tick \/ IrqEntry
  BY <1>3, TickType
<1>4. CASE IrqEvaluate \/ IrqExit \/ Halt
  BY <1>4, BoundaryType
<1> QED BY <1>1, <1>2, <1>3, <1>4 DEF Next, Interrupt

\* Type correctness of the kernel, for every set of tasks and semaphores.
THEOREM Typing == Spec => []TypeOK
BY InitTypeOK, StepTypeOK, PTL DEF Spec

-----------------------------------------------------------------------------
(***************************************************************************)
(* One RUNNING task, and dispatch requests that stay meaningful however    *)
(* long they are pending, if no task is committed as current while another *)
(* RUNs.                                                                   *)
(***************************************************************************)

\* A request names two tasks, and the target is the more urgent one.
RequestPreempts ==
  pend.source # "NONE" =>
    /\ pend.from \in Task /\ pend.to \in Task
    /\ Priority[pend.to] < Priority[pend.from]

\* The inductive invariant.  Consuming a request checks that its source RUNs,
\* not that it is current: RunningIsCurrent makes the two the same.
DispatchInv == TypeOK /\ RunningIsCurrent /\ RequestPreempts

\* tc has no RUNNING task that tcb does not have.
NoNewRunner(tc) ==
  \A t \in Task : tc[t].state = "RUNNING" => tcb[t].state = "RUNNING"

\* The current task hands over to another, after its own state changed to tc.
HandsOver ==
  \E tc \in [Task -> TcbRecord], to \in Task :
    /\ current \in Task
    /\ NoNewRunner(tc)
    /\ dispatcher_switch_to(tc, current, to)

-----------------------------------------------------------------------------
(***************************************************************************)
(* What a step can do to the RUNNING task and to the request.              *)
(***************************************************************************)

\* The tail of a blocking call hands over or leaves the CPU idle.
LEMMA BlockingRuns ==
  ASSUME TypeOK, CurrentRunning, NEW w \in TcbRecord, w.state = "WAITING",
         SwitchFromWaiting([tcb EXCEPT ![current] = w])
  PROVE  HandsOver \/ (NoNewRunner(tcb') /\ UNCHANGED current)
<1> DEFINE tc == [tcb EXCEPT ![current] = w]
<1>1. current \in Task /\ tcb \in [Task -> TcbRecord]
  BY DEF CurrentRunning, TypeOK, TcbRecord
<1>2. tc \in [Task -> TcbRecord] /\ NoNewRunner(tc)
  BY <1>1 DEF NoNewRunner
<1>3. PICK n \in Task \cup {NoTask} :
        IF n = NoTask THEN tcb' = tc /\ UNCHANGED current
        ELSE dispatcher_switch_to(tc, current, n)
  BY DEF SwitchFromWaiting
<1> HIDE DEF tc
<1>4. CASE n = NoTask
  BY <1>2, <1>3, <1>4
<1>5. CASE n # NoTask
  BY <1>1, <1>2, <1>3, <1>5 DEF HandsOver
<1> QED BY <1>4, <1>5

\* Waiting TCBs are TCBs that wait.
LEMMA WaitingTcb ==
  \A why \in Reasons, s \in Sem \cup {NoSem}, n \in Nat :
    Waiting(why, s, n) \in TcbRecord /\ Waiting(why, s, n).state = "WAITING"
BY TcbTypes DEF Waiting

\* Who RUNs after a step.
LEMMA RunStep ==
  ASSUME TypeOK, [Next]_vars
  PROVE  \/ NoNewRunner(tcb') /\ UNCHANGED current
         \/ HandsOver
         \/ \E t \in Task : dispatcher_commit_current(t)
         \/ Consume
<1>1. tcb \in [Task -> TcbRecord] /\ MaxDelay \in Nat
  BY ConstantsAssumption DEF TypeOK, TcbRecord
<1>2. ASSUME UNCHANGED <<tcb, current>> PROVE NoNewRunner(tcb') /\ UNCHANGED current
  BY <1>2 DEF NoNewRunner
<1>3. ASSUME NEW e, Reject(e) PROVE NoNewRunner(tcb') /\ UNCHANGED current
  BY <1>2, <1>3 DEF Reject
<1>4. ASSUME NEW t, NEW st \in {"READY", "DORMANT"}, UNCHANGED current,
             tcb' = [tcb EXCEPT ![t] = Tcb(st)]
      PROVE  NoNewRunner(tcb') /\ UNCHANGED current
  BY <1>1, <1>4 DEF NoNewRunner, Tcb
<1>5. CASE Tasks
  <2>1. ASSUME NEW t \in Task, ContextSwitchSmoke(t) PROVE HandsOver
    <3>1. current \in Task /\ NoNewRunner(tcb) /\ dispatcher_switch_to(tcb, current, t)
      BY <2>1 DEF ContextSwitchSmoke, CurrentRunning, TypeOK, NoNewRunner
    <3> QED BY <1>1, <3>1 DEF HandsOver
  <2>2. ASSUME NEW t \in Task, task_register(t)
        PROVE  NoNewRunner(tcb') /\ UNCHANGED current
    BY <1>4, <2>2 DEF task_register
  <2> QED BY <1>5, <2>1, <2>2 DEF Tasks
<1>6. CASE TaskApi
  <2>1. ASSUME NEW t \in Task \cup {NoTask}, NEW valid \in BOOLEAN, cre_tsk(t, valid)
        PROVE  NoNewRunner(tcb') /\ UNCHANGED current
    BY <1>3, <1>4, <2>1 DEF cre_tsk
  <2>2. ASSUME NEW t \in Task \cup {NoTask}, sta_tsk(t) \/ wup_tsk(t)
        PROVE  NoNewRunner(tcb') /\ UNCHANGED current
    BY <1>3, <1>4, <2>2 DEF sta_tsk, wup_tsk
  <2>3. CASE slp_tsk
    <3>1. CASE Reject("E_CTX")
      BY <1>3, <3>1
    <3>2. CASE /\ CurrentRunning
               /\ SwitchFromWaiting([tcb EXCEPT ![current] = Waiting("SLEEP", NoSem, 0)])
      BY <3>2, WaitingTcb, BlockingRuns DEF Reasons
    <3> QED BY <2>3, <3>1, <3>2 DEF slp_tsk
  <2>4. CASE yield_tsk
    <3>1. CASE Reject("E_CTX")
      BY <1>3, <3>1
    <3> DEFINE tc == [tcb EXCEPT ![current] = Tcb("READY")]
    <3>2. CASE /\ CurrentRunning
               /\ \E n \in Task : \/ tcb' = tc /\ UNCHANGED current
                                  \/ dispatcher_switch_to(tc, current, n)
      <4>1. current \in Task
        BY <3>2 DEF CurrentRunning, TypeOK
      <4>2. Tcb("READY") \in TcbRecord /\ Tcb("READY").state = "READY"
        BY TcbTypes DEF States, Tcb
      <4>3. tc \in [Task -> TcbRecord] /\ NoNewRunner(tc)
        BY <1>1, <4>1, <4>2 DEF NoNewRunner
      <4> HIDE DEF tc
      <4> QED BY <3>2, <4>1, <4>3 DEF HandsOver
    <3> QED BY <2>4, <3>1, <3>2 DEF yield_tsk
  <2>5. ASSUME NEW n \in 0..MaxDelay, dly_tsk(n)
        PROVE  HandsOver \/ (NoNewRunner(tcb') /\ UNCHANGED current)
    <3>1. CASE \E e \in Codes : Reject(e)
      BY <1>3, <3>1
    <3> DEFINE w == Waiting("DELAY", NoSem, n)
    <3>2. w \in TcbRecord /\ w.state = "WAITING"
      BY <1>1, WaitingTcb DEF Reasons
    <3> HIDE DEF w
    <3>3. CASE CurrentRunning /\ SwitchFromWaiting([tcb EXCEPT ![current] = w])
      BY <3>2, <3>3, BlockingRuns
    <3> QED BY <2>5, <3>1, <3>3 DEF dly_tsk, Codes, w
  <2> QED BY <1>6, <2>1, <2>2, <2>3, <2>4, <2>5 DEF TaskApi
<1>7. CASE SemApi
  <2>1. ASSUME NEW s, TakeCount(s) PROVE NoNewRunner(tcb') /\ UNCHANGED current
    BY <1>2, <2>1 DEF TakeCount
  <2>2. ASSUME NEW s \in Sem \cup {NoSem}, wai_sem(s)
        PROVE  HandsOver \/ (NoNewRunner(tcb') /\ UNCHANGED current)
    <3>1. CASE \E e \in Codes : Reject(e)
      BY <1>3, <3>1
    <3> DEFINE w == Waiting("SEMAPHORE", s, 0)
    <3>2. w \in TcbRecord /\ w.state = "WAITING"
      BY WaitingTcb DEF Reasons
    <3> HIDE DEF w
    <3>3. CASE CurrentRunning /\ SwitchFromWaiting([tcb EXCEPT ![current] = w])
      BY <3>2, <3>3, BlockingRuns
    <3>4. CASE tcb' = [tcb EXCEPT ![current] = w] /\ UNCHANGED current
      BY <1>1, <3>2, <3>4 DEF NoNewRunner
    <3> QED BY <2>1, <2>2, <3>1, <3>3, <3>4 DEF wai_sem, Codes, w
  <2>3. ASSUME NEW s \in Sem \cup {NoSem}, NEW n \in 0..MaxDelay, twai_sem(s, n)
        PROVE  HandsOver \/ (NoNewRunner(tcb') /\ UNCHANGED current)
    <3>1. CASE \E e \in Codes : Reject(e)
      BY <1>3, <3>1
    <3> DEFINE w == Waiting("SEMAPHORE_TIMEOUT", s, n)
    <3>2. w \in TcbRecord /\ w.state = "WAITING"
      BY <1>1, WaitingTcb DEF Reasons
    <3> HIDE DEF w
    <3>3. CASE CurrentRunning /\ SwitchFromWaiting([tcb EXCEPT ![current] = w])
      BY <3>2, <3>3, BlockingRuns
    <3> QED BY <2>1, <2>3, <3>1, <3>3 DEF twai_sem, Codes, w
  <2>4. ASSUME NEW s \in Sem \cup {NoSem}, pol_sem(s)
        PROVE  NoNewRunner(tcb') /\ UNCHANGED current
    BY <1>3, <2>1, <2>4 DEF pol_sem
  <2>5. ASSUME NEW s \in Sem \cup {NoSem}, sig_sem(s)
        PROVE  NoNewRunner(tcb') /\ UNCHANGED current
    BY <1>2, <1>3, <1>4, <2>5 DEF sig_sem
  <2> QED BY <1>7, <2>2, <2>3, <2>4, <2>5 DEF SemApi
<1>8. CASE SemTable
  BY <1>2, <1>8 DEF SemTable, sem_init, sem_create
<1>9. CASE Boundary
  BY <1>2, <1>4, <1>9
     DEF Boundary, CooperativeReturn, preemption_evaluate_from_irq,
         dispatch_pending_consume_at_deferred_boundary,
         dispatch_pending_clear_for_test_or_later_boundary
<1>10. CASE timer_tick \/ TickEnd \/ Interrupt \/ UNCHANGED vars
  BY <1>2, <1>10
     DEF timer_tick, TickEnd, Interrupt, IrqEntry, IrqEvaluate, IrqExit, Halt, vars
<1>11. CASE TickPass \/ TickExpire
  <2>1. /\ UNCHANGED current
        /\ \E t, n : \/ tcb' = [tcb EXCEPT ![t] = Tcb("READY")]
                     \/ tcb' = [tcb EXCEPT ![t].rem = n]
    BY <1>11 DEF TickPass, TickExpire, ExpireEntry
  <2> QED BY <1>1, <1>4, <2>1 DEF NoNewRunner, TcbRecord
<1> QED
  BY <1>5, <1>6, <1>7, <1>8, <1>9, <1>10, <1>11 DEF Next, Call, Tick

\* What becomes of the request.
LEMMA PendStep ==
  ASSUME TypeOK, [Next]_vars
  PROVE  \/ UNCHANGED pend
         \/ \E t \in Task : RequestFromTask(t)
         \/ Evaluate /\ UNCHANGED <<tcb, current>>
         \/ pend' = NoPending
<1>1. CASE Tasks \/ TaskApi
  <2>1. CASE Tasks
    BY <2>1 DEF Tasks, task_register, dispatcher_commit_current, ContextSwitchSmoke
  <2>2. Registered \subseteq Task
    <3>1. table \in Seq(Task)
      BY DEF TypeOK
    <3> QED BY <3>1, ElementOfSeq DEF Registered
  <2>3. ASSUME NEW t \in Task \cup {NoTask}, NEW valid \in BOOLEAN, cre_tsk(t, valid)
        PROVE  UNCHANGED pend
    BY <2>3 DEF cre_tsk, Reject
  <2>4. ASSUME NEW t \in Task \cup {NoTask}, sta_tsk(t) \/ wup_tsk(t)
        PROVE  UNCHANGED pend \/ \E x \in Task : RequestFromTask(x)
    BY <2>2, <2>4 DEF sta_tsk, wup_tsk, Reject
  <2>5. ASSUME NEW n \in 0..MaxDelay, slp_tsk \/ yield_tsk \/ dly_tsk(n)
        PROVE  UNCHANGED pend
    BY <2>5 DEF slp_tsk, yield_tsk, dly_tsk, Reject
  <2>6. 0 \in 0..MaxDelay
    BY ConstantsAssumption
  <2> QED BY <1>1, <2>1, <2>3, <2>4, <2>5, <2>6 DEF TaskApi
<1>2. CASE SemApi
  <2>1. ASSUME NEW s \in Sem \cup {NoSem}, sig_sem(s)
        PROVE  UNCHANGED pend \/ \E t \in Task : RequestFromTask(t)
    <3>1. CASE NoWaiters(s) \/ ~Exists(s)
      BY <2>1, <3>1 DEF sig_sem, Reject
    <3>2. CASE Exists(s) /\ ~NoWaiters(s)
      <4>1. Head(waitq[s]) \in Task
        BY <3>2, HeadTailProperties DEF Exists, NoWaiters, TypeOK
      <4>2. UNCHANGED pend \/ RequestFromTask(Head(waitq[s]))
        BY <2>1, <3>2 DEF sig_sem
      <4> QED BY <4>1, <4>2
    <3> QED BY <3>1, <3>2
  <2>2. ASSUME NEW s \in Sem \cup {NoSem}, NEW n \in 0..MaxDelay,
               wai_sem(s) \/ pol_sem(s) \/ twai_sem(s, n)
        PROVE  UNCHANGED pend
    BY <2>2 DEF wai_sem, pol_sem, twai_sem, TakeCount, Reject
  <2> QED BY <1>2, <2>1, <2>2, ConstantsAssumption DEF SemApi
<1>3. CASE SemTable \/ Boundary
  BY <1>3 DEF SemTable, sem_init, sem_create, Boundary, CooperativeReturn,
              preemption_evaluate_from_irq, Consume,
              dispatch_pending_consume_at_deferred_boundary,
              dispatch_pending_clear_for_test_or_later_boundary
<1>4. CASE timer_tick \/ Tick \/ UNCHANGED vars
  BY <1>4 DEF timer_tick, Tick, TickPass, TickExpire, ExpireEntry, TickEnd, vars
<1>5. CASE Interrupt
  BY <1>5 DEF Interrupt, IrqEntry, IrqEvaluate, IrqExit, Halt, Consume, vars
<1> QED BY <1>1, <1>2, <1>3, <1>4, <1>5 DEF Next, Call

\* A step that drops a request and moves current is a consumption.
LEMMA OnlyConsume ==
  ASSUME TypeOK, [Next]_vars,
         pend.source # "NONE", pend' = NoPending, current' # current
  PROVE  Consume
<1>1. pend' # pend
  BY DEF NoPending
<1>2. CASE Tasks \/ TaskApi
  BY <1>1, <1>2
     DEF Tasks, task_register, dispatcher_commit_current, ContextSwitchSmoke,
         TaskApi, cre_tsk, sta_tsk, wup_tsk, slp_tsk, yield_tsk, dly_tsk, Reject
<1>3. CASE SemApi \/ SemTable
  BY <1>1, <1>3
     DEF SemApi, wai_sem, pol_sem, sig_sem, twai_sem, TakeCount, Reject,
         SemTable, sem_init, sem_create
<1>4. CASE Boundary
  BY <1>4 DEF Boundary, CooperativeReturn, preemption_evaluate_from_irq,
              dispatch_pending_consume_at_deferred_boundary,
              dispatch_pending_clear_for_test_or_later_boundary
<1>5. CASE timer_tick \/ Tick \/ UNCHANGED vars
  BY <1>1, <1>5 DEF timer_tick, Tick, TickPass, TickExpire, ExpireEntry, TickEnd, vars
<1>6. CASE Interrupt
  BY <1>1, <1>6 DEF Interrupt, IrqEntry, IrqEvaluate, IrqExit, Halt, vars
<1> QED BY <1>2, <1>3, <1>4, <1>5, <1>6 DEF Next, Call

-----------------------------------------------------------------------------
(***************************************************************************)
(* One RUNNING task.                                                       *)
(***************************************************************************)

\* A switch away from the current task leaves at most the target RUNNING.
LEMMA SwitchRuns ==
  ASSUME NEW tc \in [Task -> TcbRecord], NEW to \in Task, current \in Task,
         \A t \in Task : tc[t].state = "RUNNING" => t = current,
         dispatcher_switch_to(tc, current, to)
  PROVE  RunningIsCurrent'
<1>1. CASE ~MaySwitch(tc, current, to)
  BY <1>1 DEF dispatcher_switch_to, RunningIsCurrent
<1>2. CASE MaySwitch(tc, current, to)
  <2>1. tcb' = AfterSwitch(tc, current, to) /\ current' = to
    BY <1>2 DEF dispatcher_switch_to
  <2>2. \A t \in Task : t # to => tcb'[t].state # "RUNNING"
    BY <1>2, <2>1 DEF MaySwitch, AfterSwitch, Tcb
  <2> QED BY <2>1, <2>2 DEF RunningIsCurrent
<1> QED BY <1>1, <1>2

\* The invariant holds initially.
LEMMA InitDispatchInv == Init => DispatchInv
BY InitTypeOK DEF Init, DispatchInv, RunningIsCurrent, RequestPreempts, Tcb, NoPending

\* Every step keeps it.
LEMMA StepDispatchInv ==
  ASSUME ~Recommit, DispatchInv, [Next]_vars
  PROVE  DispatchInv'
<1> USE DEF DispatchInv
<1>1. TypeOK'
  BY StepTypeOK
<1>2. tcb \in [Task -> TcbRecord]
  BY DEF TypeOK, TcbRecord
<1>3. RunningIsCurrent'
  <2>1. CASE NoNewRunner(tcb') /\ UNCHANGED current
    BY <2>1 DEF NoNewRunner, RunningIsCurrent
  <2>2. CASE HandsOver
    <3>1. PICK tc \in [Task -> TcbRecord], to \in Task :
            /\ current \in Task
            /\ NoNewRunner(tc)
            /\ dispatcher_switch_to(tc, current, to)
      BY <2>2 DEF HandsOver
    <3>2. \A t \in Task : tc[t].state = "RUNNING" => t = current
      BY <3>1 DEF NoNewRunner, RunningIsCurrent
    <3> QED BY <3>1, <3>2, SwitchRuns
  <2>3. ASSUME NEW t \in Task, dispatcher_commit_current(t) PROVE RunningIsCurrent'
    <3>1. \A u \in Task : tcb[u].state # "RUNNING"
      BY <2>3 DEF dispatcher_commit_current
    <3> QED BY <1>2, <2>3, <3>1 DEF dispatcher_commit_current, RunningIsCurrent
  <2>4. CASE Consume
    <3>1. CASE ~PendingValid
      BY <2>4, <3>1 DEF Consume, RunningIsCurrent
    <3>2. CASE PendingValid
      <4>1. pend.from \in Task /\ pend.to \in Task /\ pend.from = current
        BY <3>2 DEF PendingValid, RequestPreempts, RunningIsCurrent
      <4>2. dispatcher_switch_to(tcb, current, pend.to)
        BY <2>4, <3>2, <4>1 DEF Consume
      <4>3. \A t \in Task : tcb[t].state = "RUNNING" => t = current
        BY DEF RunningIsCurrent
      <4> QED BY <1>2, <4>1, <4>2, <4>3, SwitchRuns
    <3> QED BY <3>1, <3>2
  <2> QED BY <2>1, <2>2, <2>3, <2>4, RunStep
<1>4. RequestPreempts'
  <2>1. CASE UNCHANGED pend
    BY <2>1 DEF RequestPreempts
  <2>2. CASE \E t \in Task : RequestFromTask(t)
    BY <2>2 DEF RequestFromTask, RequestPreempts, CurrentRunning, Pending, TypeOK
  <2>3. CASE Evaluate
    <3>1. CASE pend' = pend \/ pend' = NoPending
      BY <3>1 DEF RequestPreempts, NoPending
    <3>2. CASE \E n \in Task : PreemptsCurrent(n) /\ pend' = Pending("IRQ", current, n)
      BY <3>2 DEF PreemptsCurrent, CurrentRunning, RequestPreempts, Pending, TypeOK
    <3> QED BY <2>3, <3>1, <3>2 DEF Evaluate, ForgetIrq
  <2>4. CASE pend' = NoPending
    BY <2>4 DEF RequestPreempts, NoPending
  <2> QED BY <2>1, <2>2, <2>3, <2>4, PendStep
<1> QED BY <1>1, <1>3, <1>4

\* RUNNING means current, in every order of calls, ticks and interrupts, if
\* dispatcher_commit_current() is not called while a task RUNs.
THEOREM OneRunning ==
  ASSUME ~Recommit
  PROVE  Spec => []RunningIsCurrent
<1>1. DispatchInv /\ [Next]_vars => DispatchInv'
  BY StepDispatchInv
<1>2. DispatchInv => RunningIsCurrent
  BY DEF DispatchInv
<1> QED BY <1>1, <1>2, InitDispatchInv, PTL DEF Spec

\* A request consumed at a deferred boundary, however old, switches only from
\* the current task to a more urgent one
\* (dispatch_pending_consume_at_deferred_boundary).
THEOREM RequestsPreempt ==
  ASSUME ~Recommit
  PROVE  Spec => DeferredSwitchPreempts
<1> DEFINE A == pend.source # "NONE" /\ pend' = NoPending /\ current' # current
                  => pend.from = current /\ Priority[current'] < Priority[current]
<1>1. DispatchInv /\ [Next]_vars => DispatchInv'
  BY StepDispatchInv
<1>2. DispatchInv /\ [Next]_vars => [A]_vars
  <2> SUFFICES ASSUME DispatchInv, [Next]_vars,
                      pend.source # "NONE", pend' = NoPending, current' # current
               PROVE  pend.from = current /\ Priority[current'] < Priority[current]
    OBVIOUS
  <2> USE DEF DispatchInv
  <2>1. Consume
    BY OnlyConsume
  <2>2. PendingValid /\ dispatcher_switch_to(tcb, pend.from, pend.to)
    BY <2>1 DEF Consume
  <2>3. current' = pend.to
    BY <2>2 DEF dispatcher_switch_to
  <2>4. pend.from = current
    BY <2>2 DEF PendingValid, RunningIsCurrent, RequestPreempts
  <2> QED BY <2>3, <2>4 DEF RequestPreempts
<1> QED BY <1>1, <1>2, InitDispatchInv, PTL DEF Spec, DeferredSwitchPreempts

\* A dispatch request that a task made survives the interrupt: neither the
\* tick nor preemption_evaluate_from_irq() touches it.
THEOREM RequestSurvives == Spec => TaskRequestSurvivesIrq
<1> DEFINE A == pend.source = "TASK" /\ pc \in {"irq_tick", "irq_eval"} => pend' = pend
<1>1. [Next]_vars => [A]_vars
  <2> SUFFICES ASSUME [Next]_vars, pend.source = "TASK", pc \in {"irq_tick", "irq_eval"}
               PROVE  pend' = pend
    OBVIOUS
  <2>1. ~AtTask /\ ~timer_tick /\ ~IrqEntry /\ ~IrqExit
    BY DEF AtTask, timer_tick, IrqEntry, IrqExit
  <2>2. Tick \/ IrqEvaluate \/ Halt \/ UNCHANGED vars
    BY <2>1, CallsAtTask DEF Next, Interrupt
  <2>3. CASE Tick \/ Halt \/ UNCHANGED vars
    BY <2>3 DEF Tick, TickPass, TickExpire, ExpireEntry, TickEnd, Halt, vars
  <2>4. CASE IrqEvaluate
    BY <2>4 DEF IrqEvaluate, Evaluate, ForgetIrq
  <2> QED BY <2>2, <2>3, <2>4
<1> QED BY <1>1, PTL DEF Spec, TaskRequestSurvivesIrq

\* At its exit the interrupt acts on what it has just seen: a request of its own
\* is from the task that RUNs to the task the scheduler would choose
\* (preemption_evaluate_from_irq, dispatch_pending_clear_irq_for_evaluation).
THEOREM IrqActsOnPresent == Spec => []IrqRequestIsFresh
<1>1. Init => IrqRequestIsFresh
  BY DEF Init, IrqRequestIsFresh
<1>2. IrqRequestIsFresh /\ [Next]_vars => IrqRequestIsFresh'
  <2> SUFFICES ASSUME IrqRequestIsFresh, [Next]_vars, pc' = "irq_exit", pend'.source = "IRQ"
               PROVE  pend'.from = current' /\ PreemptsCurrent(pend.to)'
    BY DEF IrqRequestIsFresh
  <2>1. IrqEvaluate \/ UNCHANGED vars
    <3>1. ~Call
      BY CallsAtTask DEF AtTask, tickVars
    <3>2. (~timer_tick /\ ~Tick /\ ~IrqEntry /\ ~IrqExit /\ ~Halt) \/ UNCHANGED vars
      BY DEF timer_tick, Tick, TickPass, TickExpire, ExpireEntry, TickEnd, InTick,
             IrqEntry, IrqExit, Halt
    <3> QED BY <3>1, <3>2 DEF Next, Interrupt
  <2>2. CASE UNCHANGED vars
    BY <2>2 DEF IrqRequestIsFresh, PreemptsCurrent, CurrentRunning, IsNext, vars
  <2>3. CASE IrqEvaluate
    <3>1. UNCHANGED <<table, tcb, current>> /\ Evaluate
      BY <2>3 DEF IrqEvaluate
    <3>2. PICK n \in Task : PreemptsCurrent(n) /\ pend' = Pending("IRQ", current, n)
      BY <3>1 DEF Evaluate, ForgetIrq, NoPending
    <3>3. PreemptsCurrent(n)'
      BY <3>1, <3>2 DEF PreemptsCurrent, CurrentRunning, IsNext
    <3>4. pend'.from = current' /\ pend'.to = n
      BY <3>1, <3>2 DEF Pending
    <3> QED BY <3>1, <3>3, <3>4 DEF PreemptsCurrent, CurrentRunning, IsNext
  <2> QED BY <2>1, <2>2, <2>3
<1> QED BY <1>1, <1>2, PTL DEF Spec
=============================================================================
