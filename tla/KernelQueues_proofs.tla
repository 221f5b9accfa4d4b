------------------------- MODULE KernelQueues_proofs -------------------------
(***************************************************************************)
(* The queues of the kernel agree with the TCBs, no wakeup is lost, and    *)
(* no queue is ever too small: for every set of tasks and semaphores.      *)
(***************************************************************************)
EXTENDS Kernel_proofs

\* Slots are not handed out beyond the table, and only registered tasks have a
\* state other than UNUSED.
TableInv ==
  /\ Len(table) <= MaxTasks
  /\ \A t \in Task : tcb[t].state # "UNUSED" => t \in Registered

\* A task that waits on a semaphore has one in wait_sem_id.
SemIsSet ==
  \A t \in Task :
    tcb[t].state = "WAITING" /\ tcb[t].reason \in {"SEMAPHORE", "SEMAPHORE_TIMEOUT"}
      => tcb[t].sem \in Sem

\* The inductive invariant.  The agreement of queues and TCBs needs room in the
\* queues (wai_sem marks its caller WAITING before it asks for room), and room
\* needs the agreement (the waiters are registered tasks, each queued once, and
\* the caller is not among them) and the bound on the table.
QueueInv ==
  /\ TypeOK
  /\ TableInv
  /\ SemIsSet
  /\ SemQueueConsistent
  /\ DelayQueueConsistent
  /\ NoLostWakeup

\* The elements of the queues are what they should be.
LEMMA EntriesTyped ==
  ASSUME TypeOK
  PROVE  /\ dq \in Seq(Entry) /\ Len(dq) \in Nat
         /\ \A i \in 1..Len(dq) : dq[i].task \in Task /\ dq[i].rem \in Nat
<1>1. dq \in Seq(Entry) /\ Len(dq) \in Nat
  BY DEF TypeOK, Entry
<1>2. \A i \in 1..Len(dq) : dq[i] \in Entry
  BY <1>1, ElementOfSeq
<1> QED BY <1>1, <1>2 DEF Entry

-----------------------------------------------------------------------------
(***************************************************************************)
(* Room.                                                                   *)
(***************************************************************************)

\* Pairwise different elements of a finite set, one of its elements left out,
\* are fewer than the set has.
LEMMA FewerThanAll ==
  ASSUME NEW S, IsFiniteSet(S), NEW x \in S, NEW n \in Nat,
         NEW f \in [1..n -> S \ {x}],
         \A i, j \in 1..n : f[i] = f[j] => i = j
  PROVE  n < Cardinality(S)
<1>1. IsFiniteSet(S \ {x}) /\ Cardinality(S \ {x}) = Cardinality(S) - 1
  BY FS_RemoveElement
<1>2. IsFiniteSet(1..n) /\ Cardinality(1..n) = n
  BY FS_Interval
<1>3. Cardinality(S) \in Nat
  BY FS_CardinalityType
<1>4. ASSUME n >= Cardinality(S) PROVE FALSE
  <2>1. Cardinality(S \ {x}) < Cardinality(1..n)
    BY <1>1, <1>2, <1>3, <1>4
  <2>2. \E i, j \in 1..n : i # j /\ f[i] = f[j]
    BY <1>1, <1>2, <2>1, FS_PigeonHole
  <2> QED BY <2>2
<1> QED BY <1>3, <1>4

\* There are no more registered tasks than slots.
LEMMA RegisteredBound ==
  ASSUME TypeOK, TableInv
  PROVE  IsFiniteSet(Registered) /\ Cardinality(Registered) <= MaxTasks
<1> DEFINE n == Len(table)
<1>1. n \in Nat /\ table \in [1..n -> Registered]
  <2>1. DOMAIN table = 1..n /\ n \in Nat /\ table = [i \in 1..n |-> table[i]]
    BY LenProperties DEF TypeOK
  <2> QED BY <2>1 DEF Registered
<1>2. table \in Surjection(1..n, Registered)
  BY <1>1 DEF Surjection, Registered
<1>3. IsFiniteSet(1..n) /\ Cardinality(1..n) = n
  BY <1>1, FS_Interval
<1>4. IsFiniteSet(Registered) /\ Cardinality(Registered) <= Cardinality(1..n)
  BY <1>2, <1>3, FS_Surjection
<1>5. Cardinality(Registered) \in Nat
  BY <1>4, FS_CardinalityType
<1> QED BY <1>1, <1>3, <1>4, <1>5, ConstantsAssumption DEF TableInv

\* The task that may block finds room in every queue.
LEMMA Room == QueueInv => RoomForEveryWait
<1> SUFFICES ASSUME QueueInv, CurrentRunning
             PROVE  CanDelay(current) /\ \A s \in Sem : CanQueue(s)
  BY DEF RoomForEveryWait
<1> USE DEF QueueInv
<1>1. current \in Task /\ tcb[current].state = "RUNNING"
  BY DEF CurrentRunning, TypeOK
<1>2. current \in Registered
  BY <1>1 DEF TableInv
<1>3. IsFiniteSet(Registered) /\ Cardinality(Registered) <= MaxTasks
  BY RegisteredBound
<1>4. Cardinality(Registered) \in Nat /\ MaxTasks \in Nat
  BY <1>3, FS_CardinalityType, ConstantsAssumption
<1>5. ASSUME NEW t \in Task, tcb[t].state = "WAITING" PROVE t \in Registered \ {current}
  BY <1>1, <1>5 DEF TableInv
<1>6. CanDelay(current)
  <2>1. ~InDelayQueue(current)
    BY <1>1 DEF DelayQueueConsistent, WaitsOnTime
  <2> DEFINE f == [i \in 1..Len(dq) |-> dq[i].task]
  <2>2. Len(dq) \in Nat /\ \A i \in 1..Len(dq) : dq[i].task \in Task
    BY EntriesTyped
  <2>3. \A i \in 1..Len(dq) : dq[i].task \in Registered \ {current}
    BY <1>5, <2>2 DEF DelayQueueConsistent, WaitsOnTime, InDelayQueue
  <2>4. f \in [1..Len(dq) -> Registered \ {current}]
    BY <2>3
  <2>5. \A i, j \in 1..Len(dq) : f[i] = f[j] => i = j
    BY DEF DelayQueueConsistent
  <2> HIDE DEF f
  <2>6. Len(dq) < Cardinality(Registered)
    BY <1>2, <1>3, <2>2, <2>4, <2>5, FewerThanAll
  <2> QED BY <1>3, <1>4, <2>1, <2>2, <2>6 DEF CanDelay
<1>7. ASSUME NEW s \in Sem PROVE CanQueue(s)
  <2> DEFINE f == waitq[s]
  <2>1. f \in Seq(Task) /\ Len(f) \in Nat
    BY DEF TypeOK
  <2>2. \A i \in 1..Len(f) : f[i] \in Task /\ tcb[f[i]].state = "WAITING"
    BY <2>1, ElementOfSeq DEF SemQueueConsistent, WaitsOnSem, InSeq
  <2>3. \A i \in 1..Len(f) : f[i] \in Registered \ {current}
    BY <1>5, <2>2
  <2>4. f \in [1..Len(f) -> Registered \ {current}]
    BY <2>1, <2>3, LenProperties
  <2>5. \A i, j \in 1..Len(f) : f[i] = f[j] => i = j
    BY DEF SemQueueConsistent
  <2> HIDE DEF f
  <2>6. Len(f) < Cardinality(Registered)
    BY <1>2, <1>3, <2>1, <2>4, <2>5, FewerThanAll
  <2> QED BY <1>3, <1>4, <2>1, <2>6 DEF CanQueue, f
<1> QED BY <1>6, <1>7

-----------------------------------------------------------------------------
(***************************************************************************)
(* What the operations on the queues do to the agreement.                  *)
(***************************************************************************)

\* sem_enqueue_waiter() of a task that did not wait on a semaphore.
LEMMA SemAdd ==
  ASSUME TypeOK, SemQueueConsistent, NEW c \in Task, NEW s \in Sem,
         \A u \in Sem : ~WaitsOnSem(c, u),
         waitq' = [waitq EXCEPT ![s] = Append(@, c)],
         \A t \in Task, u \in Sem :
           WaitsOnSem(t, u)' <=> WaitsOnSem(t, u) \/ (t = c /\ u = s)
  PROVE  SemQueueConsistent'
<1> SUFFICES ASSUME NEW u \in Sem
             PROVE  /\ \A t \in Task : InSeq(waitq'[u], t) <=> WaitsOnSem(t, u)'
                    /\ \A i, j \in 1..Len(waitq'[u]) :
                         waitq'[u][i] = waitq'[u][j] => i = j
  BY DEF SemQueueConsistent
<1>1. CASE u # s
  BY <1>1, SMTT(30) DEF SemQueueConsistent, TypeOK
<1>2. CASE u = s
  <2> DEFINE q == waitq[s]
             r == waitq'[s]
  <2>1. q \in Seq(Task) /\ r = Append(q, c)
    BY DEF TypeOK
  <2>2. /\ Len(q) \in Nat /\ Len(r) = Len(q) + 1 /\ r[Len(q) + 1] = c
        /\ \A i \in 1..Len(q) : r[i] = q[i]
    BY <2>1, AppendProperties
  <2>3. /\ \A t \in Task : InSeq(q, t) <=> WaitsOnSem(t, s)
        /\ \A i, j \in 1..Len(q) : q[i] = q[j] => i = j
    BY DEF SemQueueConsistent
  <2>4. ~InSeq(q, c)
    BY <2>3
  <2> HIDE DEF q, r
  <2>5. \A t \in Task : InSeq(r, t) <=> InSeq(q, t) \/ t = c
    BY <2>2 DEF InSeq
  <2>6. \A i, j \in 1..Len(r) : r[i] = r[j] => i = j
    BY <2>2, <2>3, <2>4 DEF InSeq
  <2> QED BY <1>2, <2>3, <2>5, <2>6 DEF r
<1> QED BY <1>1, <1>2

\* Removing the i-th element of a sequence without repetitions removes that
\* element and no other.
LEMMA DropElement ==
  ASSUME NEW q \in Seq(Task), NEW i \in 1..Len(q),
         \A j, k \in 1..Len(q) : q[j] = q[k] => j = k
  PROVE  /\ \A t \in Task : InSeq(Drop(q, i), t) <=> InSeq(q, t) /\ t # q[i]
         /\ \A j, k \in 1..Len(Drop(q, i)) : Drop(q, i)[j] = Drop(q, i)[k] => j = k
<1> DEFINE r == Drop(q, i)
<1>0. Len(q) \in Nat
  BY LenProperties
<1>1. /\ Len(q) \in Nat /\ Len(r) = Len(q) - 1
      /\ \A j \in 1..(Len(q) - 1) : r[j] = IF j < i THEN q[j] ELSE q[j + 1]
  BY <1>0, DropProperties, Zenon
<1> HIDE DEF r
<1>2. ASSUME NEW t \in Task, InSeq(r, t) PROVE InSeq(q, t) /\ t # q[i]
  BY <1>1, <1>2 DEF InSeq
<1>3. ASSUME NEW t \in Task, InSeq(q, t), t # q[i] PROVE InSeq(r, t)
  <2>1. PICK j \in 1..Len(q) : q[j] = t
    BY <1>3 DEF InSeq
  <2>2. CASE j < i
    BY <1>1, <2>1, <2>2 DEF InSeq
  <2>3. CASE j > i
    <3>1. j - 1 \in 1..Len(r) /\ r[j - 1] = t
      BY <1>1, <2>1, <2>3
    <3> QED BY <3>1 DEF InSeq
  <2> QED BY <1>3, <2>1, <2>2, <2>3
<1>4. \A j, k \in 1..Len(r) : r[j] = r[k] => j = k
  BY <1>1
<1> QED BY <1>2, <1>3, <1>4 DEF r

\* sem_dequeue_waiter() and sem_remove_waiter() of a task that stops waiting.
LEMMA SemDel ==
  ASSUME TypeOK, SemQueueConsistent, NEW s \in Sem, NEW i \in 1..Len(waitq[s]),
         waitq' = [waitq EXCEPT ![s] = Drop(waitq[s], i)],
         \A t \in Task, u \in Sem :
           WaitsOnSem(t, u)' <=> WaitsOnSem(t, u) /\ t # waitq[s][i]
  PROVE  SemQueueConsistent'
<1> SUFFICES ASSUME NEW u \in Sem
             PROVE  /\ \A t \in Task : InSeq(waitq'[u], t) <=> WaitsOnSem(t, u)'
                    /\ \A j, k \in 1..Len(waitq'[u]) :
                         waitq'[u][j] = waitq'[u][k] => j = k
  BY DEF SemQueueConsistent
<1>1. CASE u # s
  <2>1. waitq[s] \in Seq(Task) /\ waitq'[u] = waitq[u]
    BY <1>1 DEF TypeOK
  <2>2. waitq[s][i] \in Task /\ WaitsOnSem(waitq[s][i], s)
    BY <2>1, ElementOfSeq DEF SemQueueConsistent, InSeq
  <2>3. ~WaitsOnSem(waitq[s][i], u)
    BY <1>1, <2>2 DEF WaitsOnSem
  <2> QED BY <2>1, <2>3 DEF SemQueueConsistent
<1>2. CASE u = s
  <2>1. waitq[s] \in Seq(Task) /\ waitq'[s] = Drop(waitq[s], i)
    BY DEF TypeOK
  <2>2. /\ \A t \in Task : InSeq(waitq[s], t) <=> WaitsOnSem(t, s)
        /\ \A j, k \in 1..Len(waitq[s]) : waitq[s][j] = waitq[s][k] => j = k
    BY DEF SemQueueConsistent
  <2>3. /\ \A t \in Task : InSeq(waitq'[s], t) <=> InSeq(waitq[s], t) /\ t # waitq[s][i]
        /\ \A j, k \in 1..Len(waitq'[s]) : waitq'[s][j] = waitq'[s][k] => j = k
    BY <2>1, <2>2, DropElement
  <2> QED BY <1>2, <2>2, <2>3
<1> QED BY <1>1, <1>2

\* delay_queue_enqueue() of a task that did not wait for time.
LEMMA DelayAdd ==
  ASSUME TypeOK, DelayQueueConsistent, NEW c \in Task, NEW n \in Nat \ {0},
         ~WaitsOnTime(c),
         dq' = Append(dq, [task |-> c, rem |-> n]),
         \A t \in Task : WaitsOnTime(t)' <=> WaitsOnTime(t) \/ t = c,
         \A t \in Task : WaitsOnTime(t) => tcb'[t].rem = tcb[t].rem,
         tcb'[c].rem = n
  PROVE  DelayQueueConsistent'
<1>1. /\ dq \in Seq(Entry) /\ Len(dq) \in Nat
      /\ \A i \in 1..Len(dq) : dq[i].task \in Task
  BY EntriesTyped
<1>2. [task |-> c, rem |-> n] \in Entry
  BY DEF Entry
<1>3. /\ Len(dq') = Len(dq) + 1 /\ dq'[Len(dq) + 1] = [task |-> c, rem |-> n]
      /\ \A i \in 1..Len(dq) : dq'[i] = dq[i]
  BY <1>1, <1>2, AppendProperties
<1>4. \A i \in 1..Len(dq) : dq[i].task # c /\ WaitsOnTime(dq[i].task)
  BY <1>1 DEF DelayQueueConsistent, InDelayQueue
<1>5. \A t \in Task : InDelayQueue(t)' <=> InDelayQueue(t) \/ t = c
  BY <1>1, <1>3 DEF InDelayQueue
<1>6. \A i, j \in 1..Len(dq') : dq'[i].task = dq'[j].task => i = j
  BY <1>1, <1>3, <1>4 DEF DelayQueueConsistent
<1>7. \A i \in 1..Len(dq') : dq'[i].rem > 0 /\ tcb'[dq'[i].task].rem = dq'[i].rem
  BY <1>1, <1>3, <1>4 DEF DelayQueueConsistent
<1> QED BY <1>5, <1>6, <1>7 DEF DelayQueueConsistent

\* delay_queue_remove_at() of the entry of a task that stops waiting for time.
LEMMA DelayDel ==
  ASSUME TypeOK, DelayQueueConsistent, NEW i \in 1..Len(dq),
         dq' = Drop(dq, i),
         \A t \in Task : WaitsOnTime(t)' <=> WaitsOnTime(t) /\ t # dq[i].task,
         \A t \in Task : WaitsOnTime(t)' => tcb'[t].rem = tcb[t].rem
  PROVE  DelayQueueConsistent'
<1>1. /\ dq \in Seq(Entry) /\ Len(dq) \in Nat
      /\ \A k \in 1..Len(dq) : dq[k].task \in Task
  BY EntriesTyped
<1>2. /\ Len(dq') = Len(dq) - 1
      /\ \A j \in 1..(Len(dq) - 1) : dq'[j] = IF j < i THEN dq[j] ELSE dq[j + 1]
  BY <1>1, DropProperties
<1>3. ASSUME NEW j \in 1..Len(dq')
      PROVE  \E k \in 1..Len(dq) : k # i /\ dq'[j] = dq[k]
  <2>1. CASE j < i
    BY <1>1, <1>2, <2>1
  <2>2. CASE ~(j < i)
    <3>1. j + 1 \in 1..Len(dq) /\ j + 1 # i /\ dq'[j] = dq[j + 1]
      BY <1>1, <1>2, <2>2
    <3> QED BY <3>1
  <2> QED BY <2>1, <2>2
<1>4. \A j, k \in 1..Len(dq) : dq[j].task = dq[k].task => j = k
  BY DEF DelayQueueConsistent
<1>5. ASSUME NEW t \in Task PROVE InDelayQueue(t)' <=> InDelayQueue(t) /\ t # dq[i].task
  <2>1. ASSUME InDelayQueue(t)' PROVE InDelayQueue(t) /\ t # dq[i].task
    BY <1>3, <1>4, <2>1, SMTT(30) DEF InDelayQueue
  <2>2. ASSUME InDelayQueue(t), t # dq[i].task PROVE InDelayQueue(t)'
    <3>1. PICK k \in 1..Len(dq) : dq[k].task = t
      BY <2>2 DEF InDelayQueue
    <3>2. CASE k < i
      BY <1>1, <1>2, <3>1, <3>2 DEF InDelayQueue
    <3>3. CASE k > i
      <4>1. k - 1 \in 1..Len(dq') /\ dq'[k - 1] = dq[k]
        BY <1>1, <1>2, <3>3
      <4> QED BY <3>1, <4>1 DEF InDelayQueue
    <3> QED BY <2>2, <3>1, <3>2, <3>3
  <2> QED BY <2>1, <2>2
<1>6. \A j, k \in 1..Len(dq') : dq'[j].task = dq'[k].task => j = k
  BY <1>1, <1>2, <1>4
<1>7. ASSUME NEW j \in 1..Len(dq')
      PROVE  dq'[j].rem > 0 /\ tcb'[dq'[j].task].rem = dq'[j].rem
  <2>1. PICK k \in 1..Len(dq) : dq'[j] = dq[k]
    BY <1>3
  <2>2. PICK t \in Task : t = dq'[j].task
    BY <1>1, <2>1
  <2>3. InDelayQueue(t)'
    BY <2>2 DEF InDelayQueue
  <2>4. WaitsOnTime(t)'
    BY <1>5, <2>3 DEF DelayQueueConsistent
  <2> QED BY <2>1, <2>2, <2>4 DEF DelayQueueConsistent
<1> QED BY <1>5, <1>6, <1>7 DEF DelayQueueConsistent

-----------------------------------------------------------------------------
(***************************************************************************)
(* What the steps do to the TCBs of the tasks that wait in a queue.        *)
(***************************************************************************)

\* A TCB that waits in a queue (a sleeping task waits in none).
Queued(r) == r.state = "WAITING" /\ r.reason # "SLEEP"

\* From tc to td no task starts or stops waiting in a queue, or gets a slot.
Keeps(tc, td) ==
  \A t \in Task :
    /\ Queued(tc[t]) \/ Queued(td[t]) => td[t] = tc[t]
    /\ td[t].state # "UNUSED" => tc[t].state # "UNUSED"

\* dispatcher_switch_to() and the return of task entries touch no waiting task.
LEMMA SwitchKeeps ==
  ASSUME NEW tc \in [Task -> TcbRecord], NEW from, NEW to,
         dispatcher_switch_to(tc, from, to)
  PROVE  Keeps(tc, tcb')
<1>1. CASE MaySwitch(tc, from, to)
  <2>1. tcb' = AfterSwitch(tc, from, to)
    BY <1>1 DEF dispatcher_switch_to
  <2>2. /\ tc[from].state \in {"RUNNING", "READY", "WAITING"}
        /\ tc[to].state = "READY"
    BY <1>1 DEF MaySwitch
  <2> SUFFICES ASSUME NEW t \in Task
               PROVE  /\ Queued(tc[t]) \/ Queued(tcb'[t]) => tcb'[t] = tc[t]
                      /\ tcb'[t].state # "UNUSED" => tc[t].state # "UNUSED"
    BY DEF Keeps
  <2>3. CASE t # from /\ t # to
    BY <2>1, <2>3 DEF AfterSwitch
  <2>4. CASE t = to
    BY <2>1, <2>2, <2>4 DEF AfterSwitch, Tcb, Queued
  <2>5. CASE t = from /\ t # to
    BY <2>1, <2>2, <2>5 DEF AfterSwitch, Tcb, Queued
  <2> QED BY <2>3, <2>4, <2>5
<1>2. CASE ~MaySwitch(tc, from, to)
  BY <1>2 DEF dispatcher_switch_to, Keeps
<1> QED BY <1>1, <1>2

\* Nor does the tail of a blocking call.
LEMMA SwitchFromWaitingKeeps ==
  ASSUME NEW tc \in [Task -> TcbRecord], SwitchFromWaiting(tc)
  PROVE  Keeps(tc, tcb')
<1>1. PICK n \in Task \cup {NoTask} :
        tcb' = tc \/ dispatcher_switch_to(tc, current, n)
  BY DEF SwitchFromWaiting
<1>2. CASE tcb' = tc
  BY <1>2 DEF Keeps
<1> QED BY <1>1, <1>2, SwitchKeeps

\* Steps that leave the queues alone and no waiting task changed.
LEMMA QuietStep ==
  ASSUME QueueInv, TypeOK', Keeps(tcb, tcb'),
         UNCHANGED <<table, waitq, dq>>,
         NoLostWakeup'
  PROVE  QueueInv'
<1> USE DEF QueueInv
<1>1. TableInv'
  BY DEF TableInv, Keeps, Registered
<1>2. SemIsSet'
  BY DEF SemIsSet, Keeps, Queued
<1>3. \A t \in Task, u \in Sem : WaitsOnSem(t, u)' <=> WaitsOnSem(t, u)
  BY DEF WaitsOnSem, Keeps, Queued
<1>4. \A t \in Task : /\ WaitsOnTime(t)' <=> WaitsOnTime(t)
                      /\ WaitsOnTime(t) => tcb'[t] = tcb[t]
  BY DEF WaitsOnTime, Keeps, Queued
<1>5. SemQueueConsistent'
  BY <1>3 DEF SemQueueConsistent
<1>6. DelayQueueConsistent'
  <2>1. \A i \in 1..Len(dq) : dq[i].task \in Task /\ WaitsOnTime(dq[i].task)
    BY EntriesTyped DEF DelayQueueConsistent, InDelayQueue
  <2>2. \A t \in Task : InDelayQueue(t)' <=> InDelayQueue(t)
    BY DEF InDelayQueue
  <2> QED BY <1>4, <2>1, <2>2 DEF DelayQueueConsistent
<1> QED BY <1>1, <1>2, <1>5, <1>6

\* The TCBs after the running task blocked with TCB value w and another task
\* perhaps took over: one more task waits in queues.
LEMMA BlockEffect ==
  ASSUME QueueInv, CurrentRunning, NEW w \in TcbRecord, Queued(w),
         Keeps([tcb EXCEPT ![current] = w], tcb'),
         UNCHANGED table
  PROVE  /\ current \in Task
         /\ tcb'[current] = w
         /\ ~WaitsOnTime(current)
         /\ \A u \in Sem : ~WaitsOnSem(current, u)
         /\ \A t \in Task, u \in Sem :
              t # current => (WaitsOnSem(t, u)' <=> WaitsOnSem(t, u))
         /\ \A t \in Task : t # current => /\ WaitsOnTime(t)' <=> WaitsOnTime(t)
                                           /\ WaitsOnTime(t) => tcb'[t] = tcb[t]
         /\ TableInv'
         /\ w.reason = "DELAY" \/ w.sem \in Sem => SemIsSet'
<1> USE DEF QueueInv
<1> DEFINE tc == [tcb EXCEPT ![current] = w]
<1>1. current \in Task /\ tcb[current].state = "RUNNING"
  BY DEF CurrentRunning, TypeOK
<1>2. tc[current] = w /\ \A t \in Task : t # current => tc[t] = tcb[t]
  BY <1>1 DEF TypeOK
<1>3. /\ Keeps(tc, tcb')
  OBVIOUS
<1> HIDE DEF tc
<1>4. tcb'[current] = w
  BY <1>1, <1>2, <1>3 DEF Keeps
<1>5. \A t \in Task : t # current =>
        /\ Queued(tcb[t]) \/ Queued(tcb'[t]) => tcb'[t] = tcb[t]
        /\ tcb'[t].state # "UNUSED" => tcb[t].state # "UNUSED"
  BY <1>2, <1>3 DEF Keeps
<1>6. TableInv'
  BY <1>1, <1>4, <1>5 DEF TableInv, Registered
<1>7. \A t \in Task, u \in Sem :
        t # current => (WaitsOnSem(t, u)' <=> WaitsOnSem(t, u))
  BY <1>5 DEF WaitsOnSem, Queued
<1>8. \A t \in Task : t # current => /\ WaitsOnTime(t)' <=> WaitsOnTime(t)
                                     /\ WaitsOnTime(t) => tcb'[t] = tcb[t]
  BY <1>5 DEF WaitsOnTime, Queued
<1>9. ~WaitsOnTime(current) /\ \A u \in Sem : ~WaitsOnSem(current, u)
  BY <1>1 DEF WaitsOnTime, WaitsOnSem
<1>10. w.reason = "DELAY" \/ w.sem \in Sem => SemIsSet'
  BY <1>4, <1>5 DEF SemIsSet, Queued
<1> QED BY <1>1, <1>4, <1>6, <1>7, <1>8, <1>9, <1>10

-----------------------------------------------------------------------------
(***************************************************************************)
(* The steps.                                                              *)
(***************************************************************************)

\* Calls that concern neither semaphores nor time.
LEMMA TaskSteps ==
  ASSUME QueueInv, TypeOK',
         \/ Tasks \/ CooperativeReturn \/ slp_tsk \/ yield_tsk
         \/ \E t \in Task \cup {NoTask} :
              (\E valid \in BOOLEAN : cre_tsk(t, valid)) \/ sta_tsk(t) \/ wup_tsk(t)
  PROVE  QueueInv'
<1> USE DEF QueueInv
<1>1. tcb \in [Task -> TcbRecord] /\ Registered \subseteq Task
  <2>1. table \in Seq(Task) /\ tcb \in [Task -> TcbRecord]
    BY DEF TypeOK, TcbRecord
  <2>2. \A i \in 1..Len(table) : table[i] \in Task
    BY <2>1, ElementOfSeq
  <2> QED BY <2>1, <2>2 DEF Registered
<1>2. ASSUME Keeps(tcb, tcb'), UNCHANGED <<table, semVars, dq>> PROVE QueueInv'
  <2>1. NoLostWakeup'
    BY <1>2 DEF NoLostWakeup, semVars
  <2> QED BY <1>2, <2>1, QuietStep DEF semVars
<1>3. ASSUME UNCHANGED <<table, tcb, semVars, dq>> PROVE QueueInv'
  BY <1>2, <1>3 DEF Keeps
<1>4. ASSUME NEW t \in Task, NEW st \in {"READY", "DORMANT", "RUNNING"},
             ~Queued(tcb[t]), tcb[t].state # "UNUSED",
             tcb' = [tcb EXCEPT ![t] = Tcb(st)],
             UNCHANGED <<table, semVars, dq>>
      PROVE  QueueInv'
  <2>1. Keeps(tcb, tcb')
    BY <1>1, <1>4 DEF Keeps, Tcb, Queued
  <2> QED BY <1>2, <1>4, <2>1
<1>5. ASSUME NEW t \in Task, NEW st \in {"READY", "DORMANT"},
             t \notin Registered, HasFreeSlot, table' = Append(table, t),
             tcb' = [tcb EXCEPT ![t] = Tcb(st)],
             UNCHANGED <<semVars, dq>>
      PROVE  QueueInv'
  <2>1. table \in Seq(Task) /\ Len(table) \in Nat
    BY DEF TypeOK
  <2>2. /\ Len(table') = Len(table) + 1 /\ table'[Len(table) + 1] = t
        /\ \A i \in 1..Len(table) : table'[i] = table[i]
    BY <1>5, <2>1, AppendProperties
  <2>3. Registered \subseteq Registered' /\ t \in Registered'
    BY <2>1, <2>2 DEF Registered
  <2>4. TableInv'
    BY <1>1, <1>5, <2>1, <2>2, <2>3, ConstantsAssumption DEF TableInv, HasFreeSlot
  <2>5. tcb[t].state = "UNUSED"
    BY <1>5 DEF TableInv
  <2>7. \A u \in Task : Queued(tcb[u]) \/ Queued(tcb'[u]) => tcb'[u] = tcb[u]
    BY <1>1, <1>5, <2>5 DEF Tcb, Queued
  <2>8. \A u \in Task, x \in Sem : WaitsOnSem(u, x)' <=> WaitsOnSem(u, x)
    BY <2>7 DEF WaitsOnSem, Queued
  <2>9. \A u \in Task : /\ WaitsOnTime(u)' <=> WaitsOnTime(u)
                        /\ WaitsOnTime(u) => tcb'[u] = tcb[u]
    BY <2>7 DEF WaitsOnTime, Queued
  <2>10. SemIsSet' /\ SemQueueConsistent' /\ NoLostWakeup'
    BY <1>5, <2>7, <2>8 DEF SemIsSet, SemQueueConsistent, NoLostWakeup, semVars, Queued
  <2>11. DelayQueueConsistent'
    <3>1. \A i \in 1..Len(dq) : dq[i].task \in Task /\ WaitsOnTime(dq[i].task)
      BY EntriesTyped DEF DelayQueueConsistent, InDelayQueue
    <3>2. dq' = dq /\ \A u \in Task : InDelayQueue(u)' <=> InDelayQueue(u)
      BY <1>5 DEF InDelayQueue
    <3> QED BY <2>9, <3>1, <3>2 DEF DelayQueueConsistent
  <2> QED BY <2>4, <2>10, <2>11
<1>6. ASSUME NEW t \in Task, task_register(t) PROVE QueueInv'
  BY <1>5, <1>6 DEF task_register
<1>7. ASSUME NEW t \in Task, dispatcher_commit_current(t) PROVE QueueInv'
  BY <1>4, <1>7 DEF dispatcher_commit_current, Queued
<1>8. ASSUME NEW t \in Task, ContextSwitchSmoke(t) PROVE QueueInv'
  BY <1>1, <1>2, <1>8, SwitchKeeps DEF ContextSwitchSmoke
<1>9. CASE CooperativeReturn
  BY <1>4, <1>9 DEF CooperativeReturn, CurrentRunning, TypeOK, Queued
<1>10. CASE slp_tsk
  <2>1. CASE Reject("E_CTX")
    BY <1>3, <2>1 DEF Reject
  <2> DEFINE tc == [tcb EXCEPT ![current] = Waiting("SLEEP", NoSem, 0)]
  <2>2. CASE CurrentRunning /\ SwitchFromWaiting(tc) /\ UNCHANGED <<table, semVars, dq>>
    <3>1. current \in Task /\ tcb[current].state = "RUNNING"
      BY <2>2 DEF CurrentRunning, TypeOK
    <3>2. tc \in [Task -> TcbRecord]
      BY <1>1, <3>1, TcbTypes DEF Reasons
    <3>3. Keeps(tc, tcb')
      BY <2>2, <3>2, SwitchFromWaitingKeeps
    <3>4. /\ ~Queued(tc[current]) /\ ~Queued(tcb[current])
          /\ \A t \in Task : t # current => tc[t] = tcb[t]
      BY <1>1, <3>1 DEF Waiting, Queued
    <3> HIDE DEF tc
    <3>5. Keeps(tcb, tcb')
      BY <3>1, <3>3, <3>4 DEF Keeps
    <3> QED BY <1>2, <2>2, <3>5
  <2> QED BY <1>10, <2>1, <2>2 DEF slp_tsk
<1>11. CASE yield_tsk
  <2>1. CASE Reject("E_CTX")
    BY <1>3, <2>1 DEF Reject
  <2> DEFINE tc == [tcb EXCEPT ![current] = Tcb("READY")]
  <2>2. CASE /\ CurrentRunning /\ UNCHANGED <<table, semVars, dq>>
             /\ \E n \in Task : tcb' = tc \/ dispatcher_switch_to(tc, current, n)
    <3>1. current \in Task /\ tcb[current].state = "RUNNING"
      BY <2>2 DEF CurrentRunning, TypeOK
    <3>2. tc \in [Task -> TcbRecord]
      BY <1>1, <3>1, TcbTypes DEF States
    <3>3. Keeps(tc, tcb')
      <4>1. CASE tcb' = tc
        BY <4>1 DEF Keeps
      <4> QED BY <2>2, <3>2, <4>1, SwitchKeeps
    <3>4. /\ ~Queued(tc[current]) /\ ~Queued(tcb[current])
          /\ \A t \in Task : t # current => tc[t] = tcb[t]
      BY <1>1, <3>1 DEF Tcb, Queued
    <3> HIDE DEF tc
    <3>5. Keeps(tcb, tcb')
      BY <3>1, <3>3, <3>4 DEF Keeps
    <3> QED BY <1>2, <2>2, <3>5
  <2> QED BY <1>11, <2>1, <2>2 DEF yield_tsk
<1>12. ASSUME NEW t \in Task \cup {NoTask}, NEW valid \in BOOLEAN, cre_tsk(t, valid)
       PROVE  QueueInv'
  <2>1. CASE Reject("E_ID") \/ Reject("E_PAR") \/ Reject("E_OBJ")
    BY <1>3, <2>1 DEF Reject
  <2>2. CASE /\ t # NoTask /\ t \notin Registered /\ HasFreeSlot
             /\ table' = Append(table, t)
             /\ tcb' = [tcb EXCEPT ![t] = Tcb("DORMANT")]
             /\ UNCHANGED <<semVars, dq>>
    BY <1>5, <2>2
  <2> QED BY <1>12, <2>1, <2>2 DEF cre_tsk
<1>13. ASSUME NEW t \in Task \cup {NoTask}, sta_tsk(t) PROVE QueueInv'
  BY <1>1, <1>3, <1>4, <1>13 DEF sta_tsk, Reject, Queued
<1>14. ASSUME NEW t \in Task \cup {NoTask}, wup_tsk(t) PROVE QueueInv'
  BY <1>1, <1>3, <1>4, <1>14 DEF wup_tsk, Reject, Queued, IsSleeping
<1> QED
  BY <1>6, <1>7, <1>8, <1>9, <1>10, <1>11, <1>12, <1>13, <1>14 DEF Tasks

\* Semaphores and time: the steps that put a task on a queue.
LEMMA BlockingSteps ==
  ASSUME QueueInv, TypeOK',
         \/ \E n \in 0..MaxDelay : dly_tsk(n)
         \/ \E s \in Sem \cup {NoSem} :
              wai_sem(s) \/ pol_sem(s) \/ \E n \in 0..MaxDelay : twai_sem(s, n)
  PROVE  QueueInv'
<1> USE DEF QueueInv
<1>1. tcb \in [Task -> TcbRecord]
  BY DEF TypeOK, TcbRecord
<1>2. ASSUME UNCHANGED <<table, tcb, max, count, waitq, dq>> PROVE QueueInv'
  BY <1>2, QuietStep DEF Keeps, NoLostWakeup
<1>3. ASSUME NEW e, Reject(e) PROVE QueueInv'
  BY <1>2, <1>3 DEF Reject, semVars
<1>4. ASSUME NEW s \in Sem, TakeCount(s) PROVE QueueInv'
  <2>1. /\ count[s] > 0 /\ count' = [count EXCEPT ![s] = @ - 1]
        /\ UNCHANGED <<table, tcb, max, waitq, dq>>
    BY <1>4 DEF TakeCount
  <2>2. count \in [Sem -> Nat] /\ max \in [Sem -> Nat]
    BY DEF TypeOK
  <2>3. NoLostWakeup'
    BY <2>1, <2>2 DEF NoLostWakeup
  <2>4. Keeps(tcb, tcb')
    BY <2>1 DEF Keeps
  <2> QED BY <2>1, <2>3, <2>4, QuietStep
<1>5. ASSUME NEW n \in 0..MaxDelay, dly_tsk(n) PROVE QueueInv'
  <2> DEFINE w == Waiting("DELAY", NoSem, n)
             tc == [tcb EXCEPT ![current] = w]
  <2>1. CASE \E e \in Codes : Reject(e)
    BY <1>3, <2>1
  <2>2. CASE /\ CurrentRunning /\ n # 0
             /\ dq' = Append(dq, [task |-> current, rem |-> n])
             /\ SwitchFromWaiting(tc)
             /\ UNCHANGED <<table, semVars>>
    <3>1. n \in Nat \ {0} /\ current \in Task
      BY <2>2, ConstantsAssumption DEF CurrentRunning, TypeOK
    <3>2. w \in TcbRecord /\ Queued(w) /\ w.reason = "DELAY" /\ w.rem = n
      BY <3>1, TcbTypes DEF Reasons, Waiting, Queued
    <3> HIDE DEF w
    <3>3. tc \in [Task -> TcbRecord]
      BY <1>1, <3>1, <3>2
    <3>4. Keeps(tc, tcb')
      BY <2>2, <3>3, SwitchFromWaitingKeeps
    <3>5. /\ tcb'[current] = w
          /\ ~WaitsOnTime(current)
          /\ \A u \in Sem : ~WaitsOnSem(current, u)
          /\ \A t \in Task, u \in Sem :
               t # current => (WaitsOnSem(t, u)' <=> WaitsOnSem(t, u))
          /\ \A t \in Task : t # current => /\ WaitsOnTime(t)' <=> WaitsOnTime(t)
                                            /\ WaitsOnTime(t) => tcb'[t] = tcb[t]
          /\ TableInv' /\ SemIsSet'
      BY <2>2, <3>2, <3>4, BlockEffect
    <3>6. PICK d \in Task : d = current
      BY <3>1
    <3>7. WaitsOnTime(d)' /\ \A u \in Sem : ~WaitsOnSem(d, u)'
      BY <3>2, <3>5, <3>6 DEF WaitsOnTime, WaitsOnSem, Queued
    <3>8. DelayQueueConsistent'
      <4>1. \A t \in Task : WaitsOnTime(t)' <=> WaitsOnTime(t) \/ t = d
        BY <3>5, <3>6, <3>7
      <4>2. \A t \in Task : WaitsOnTime(t) => tcb'[t].rem = tcb[t].rem
        BY <3>5
      <4>3. tcb'[d].rem = n /\ ~WaitsOnTime(d)
        BY <3>2, <3>5, <3>6
      <4> QED BY <2>2, <3>1, <3>6, <4>1, <4>2, <4>3, DelayAdd
    <3>9. SemQueueConsistent' /\ NoLostWakeup'
      <4>1. \A t \in Task, u \in Sem : WaitsOnSem(t, u)' <=> WaitsOnSem(t, u)
        BY <3>5, <3>6, <3>7
      <4> QED BY <2>2, <4>1 DEF SemQueueConsistent, NoLostWakeup, semVars
    <3> QED BY <3>5, <3>8, <3>9
  <2> QED BY <1>5, <2>1, <2>2 DEF dly_tsk, Codes, delay_queue_enqueue
<1>6. ASSUME NEW s \in Sem, CurrentRunning, max[s] # 0, count[s] = 0,
             NEW w \in TcbRecord, Queued(w), w.sem = s,
             w.reason \in {"SEMAPHORE", "SEMAPHORE_TIMEOUT"},
             waitq' = [waitq EXCEPT ![s] = Append(@, current)],
             SwitchFromWaiting([tcb EXCEPT ![current] = w]),
             UNCHANGED <<table, max, count>>
      PROVE  /\ TableInv' /\ SemIsSet' /\ SemQueueConsistent' /\ NoLostWakeup'
             /\ current \in Task /\ tcb'[current] = w /\ ~WaitsOnTime(current)
             /\ \A t \in Task : t # current => /\ WaitsOnTime(t)' <=> WaitsOnTime(t)
                                               /\ WaitsOnTime(t) => tcb'[t] = tcb[t]
  <2> DEFINE tc == [tcb EXCEPT ![current] = w]
  <2>1. tc \in [Task -> TcbRecord]
    BY <1>1, <1>6
  <2>2. Keeps(tc, tcb')
    BY <1>6, <2>1, SwitchFromWaitingKeeps
  <2>3. /\ current \in Task
        /\ tcb'[current] = w
        /\ ~WaitsOnTime(current)
        /\ \A u \in Sem : ~WaitsOnSem(current, u)
        /\ \A t \in Task, u \in Sem :
             t # current => (WaitsOnSem(t, u)' <=> WaitsOnSem(t, u))
        /\ \A t \in Task : t # current => /\ WaitsOnTime(t)' <=> WaitsOnTime(t)
                                          /\ WaitsOnTime(t) => tcb'[t] = tcb[t]
        /\ TableInv' /\ SemIsSet'
    BY <1>6, <2>2, BlockEffect
  <2>4. PICK d \in Task : d = current
    BY <2>3
  <2>5. \A u \in Sem : WaitsOnSem(d, u)' <=> u = s
    BY <1>6, <2>3, <2>4 DEF WaitsOnSem, Queued
  <2>6. \A t \in Task, u \in Sem :
          WaitsOnSem(t, u)' <=> WaitsOnSem(t, u) \/ (t = d /\ u = s)
    BY <2>3, <2>4, <2>5
  <2>7. SemQueueConsistent'
    <3>1. waitq' = [waitq EXCEPT ![s] = Append(@, d)]
      BY <1>6, <2>4
    <3>2. \A u \in Sem : ~WaitsOnSem(d, u)
      BY <2>3, <2>4
    <3> QED BY <2>6, <3>1, <3>2, SemAdd
  <2>8. NoLostWakeup'
    BY <1>6 DEF NoLostWakeup, TypeOK
  <2> QED BY <2>3, <2>7, <2>8
<1>7. ASSUME NEW s \in Sem \cup {NoSem}, wai_sem(s) PROVE QueueInv'
  <2> DEFINE w == Waiting("SEMAPHORE", s, 0)
  <2>1. CASE \E e \in Codes : Reject(e)
    BY <1>3, <2>1
  <2>2. CASE Exists(s) /\ TakeCount(s)
    BY <1>4, <2>2 DEF Exists
  <2>3. CASE /\ CurrentRunning /\ Exists(s) /\ count[s] = 0 /\ CanQueue(s)
             /\ waitq' = [waitq EXCEPT ![s] = Append(@, current)]
             /\ SwitchFromWaiting([tcb EXCEPT ![current] = w])
             /\ UNCHANGED <<table, max, count, dq>>
    <3>1. s \in Sem /\ max[s] # 0
      BY <2>3 DEF Exists
    <3>2. w \in TcbRecord /\ Queued(w) /\ w.reason = "SEMAPHORE" /\ w.sem = s
      BY <3>1, TcbTypes DEF Reasons, Waiting, Queued
    <3> HIDE DEF w
    <3>3. /\ TableInv' /\ SemIsSet' /\ SemQueueConsistent' /\ NoLostWakeup'
          /\ current \in Task /\ tcb'[current] = w /\ ~WaitsOnTime(current)
          /\ \A t \in Task : t # current => /\ WaitsOnTime(t)' <=> WaitsOnTime(t)
                                            /\ WaitsOnTime(t) => tcb'[t] = tcb[t]
      BY <1>6, <2>3, <3>1, <3>2
    <3>4. PICK d \in Task : d = current
      BY <3>3
    <3>5. ~WaitsOnTime(d)'
      BY <3>2, <3>3, <3>4 DEF WaitsOnTime
    <3>6. \A t \in Task : /\ WaitsOnTime(t)' <=> WaitsOnTime(t)
                          /\ WaitsOnTime(t) => tcb'[t] = tcb[t]
      BY <3>3, <3>4, <3>5
    <3>7. \A i \in 1..Len(dq) : dq[i].task \in Task /\ WaitsOnTime(dq[i].task)
      BY EntriesTyped DEF DelayQueueConsistent, InDelayQueue
    <3>8. dq' = dq /\ \A u \in Task : InDelayQueue(u)' <=> InDelayQueue(u)
      BY <2>3 DEF InDelayQueue
    <3>9. DelayQueueConsistent'
      BY <3>6, <3>7, <3>8 DEF DelayQueueConsistent
    <3> QED BY <3>3, <3>9
  <2>4. CurrentRunning /\ Exists(s) => CanQueue(s)
    BY Room DEF RoomForEveryWait, Exists
  <2> QED BY <1>7, <2>1, <2>2, <2>3, <2>4 DEF wai_sem, Codes, sem_enqueue_waiter
<1>8. ASSUME NEW s \in Sem \cup {NoSem}, pol_sem(s) PROVE QueueInv'
  BY <1>3, <1>4, <1>8 DEF pol_sem, Exists
<1>9. ASSUME NEW s \in Sem \cup {NoSem}, NEW n \in 0..MaxDelay, twai_sem(s, n)
      PROVE  QueueInv'
  <2> DEFINE w == Waiting("SEMAPHORE_TIMEOUT", s, n)
  <2>1. CASE \E e \in Codes : Reject(e)
    BY <1>3, <2>1
  <2>2. CASE Exists(s) /\ TakeCount(s)
    BY <1>4, <2>2 DEF Exists
  <2>3. CASE /\ CurrentRunning /\ Exists(s) /\ count[s] = 0 /\ n # 0
             /\ waitq' = [waitq EXCEPT ![s] = Append(@, current)]
             /\ dq' = Append(dq, [task |-> current, rem |-> n])
             /\ SwitchFromWaiting([tcb EXCEPT ![current] = w])
             /\ UNCHANGED <<table, max, count>>
    <3>1. s \in Sem /\ max[s] # 0 /\ n \in Nat \ {0}
      BY <2>3, ConstantsAssumption DEF Exists
    <3>2. /\ w \in TcbRecord /\ Queued(w) /\ w.reason = "SEMAPHORE_TIMEOUT"
          /\ w.sem = s /\ w.rem = n
      BY <3>1, TcbTypes DEF Reasons, Waiting, Queued
    <3> HIDE DEF w
    <3>3. /\ TableInv' /\ SemIsSet' /\ SemQueueConsistent' /\ NoLostWakeup'
          /\ current \in Task /\ tcb'[current] = w /\ ~WaitsOnTime(current)
          /\ \A t \in Task : t # current => /\ WaitsOnTime(t)' <=> WaitsOnTime(t)
                                            /\ WaitsOnTime(t) => tcb'[t] = tcb[t]
      BY <1>6, <2>3, <3>1, <3>2
    <3>4. PICK d \in Task : d = current
      BY <3>3
    <3>5. WaitsOnTime(d)' /\ tcb'[d].rem = n /\ ~WaitsOnTime(d)
      BY <3>2, <3>3, <3>4 DEF WaitsOnTime, Queued
    <3>6. \A t \in Task : /\ WaitsOnTime(t)' <=> WaitsOnTime(t) \/ t = d
                          /\ WaitsOnTime(t) => tcb'[t].rem = tcb[t].rem
      BY <3>3, <3>4, <3>5
    <3>7. DelayQueueConsistent'
      BY <2>3, <3>1, <3>4, <3>5, <3>6, DelayAdd
    <3> QED BY <3>3, <3>7
  <2> QED BY <1>9, <2>1, <2>2, <2>3 DEF twai_sem, Codes,
                                              sem_enqueue_waiter, delay_queue_enqueue
<1> QED BY <1>5, <1>7, <1>8, <1>9

\* The delay queue is left alone, and so are the tasks that wait for time.
LEMMA DelaySame ==
  ASSUME TypeOK, DelayQueueConsistent, UNCHANGED dq,
         \A t \in Task : /\ WaitsOnTime(t)' <=> WaitsOnTime(t)
                         /\ WaitsOnTime(t)' => tcb'[t].rem = tcb[t].rem
  PROVE  DelayQueueConsistent'
<1>1. \A i \in 1..Len(dq) : dq[i].task \in Task /\ WaitsOnTime(dq[i].task)
  BY EntriesTyped DEF DelayQueueConsistent, InDelayQueue
<1>2. \A t \in Task : InDelayQueue(t)' <=> InDelayQueue(t)
  BY DEF InDelayQueue
<1> QED BY <1>1, <1>2 DEF DelayQueueConsistent

\* The TCBs after a queued task was made READY: one task less waits.
LEMMA WakeEffect ==
  ASSUME QueueInv, NEW t \in Task, Queued(tcb[t]),
         tcb' = [tcb EXCEPT ![t] = Tcb("READY")], UNCHANGED table
  PROVE  /\ TableInv' /\ SemIsSet'
         /\ \A x \in Task, u \in Sem : WaitsOnSem(x, u)' <=> WaitsOnSem(x, u) /\ x # t
         /\ \A x \in Task : /\ WaitsOnTime(x)' <=> WaitsOnTime(x) /\ x # t
                            /\ WaitsOnTime(x)' => tcb'[x].rem = tcb[x].rem
<1> USE DEF QueueInv
<1>1. tcb'[t] = Tcb("READY") /\ \A x \in Task : x # t => tcb'[x] = tcb[x]
  BY DEF TypeOK
<1>2. Tcb("READY").state = "READY"
  BY DEF Tcb
<1>3. TableInv'
  BY <1>1, <1>2 DEF TableInv, Registered, Queued
<1>4. SemIsSet'
  BY <1>1, <1>2 DEF SemIsSet
<1>5. \A x \in Task, u \in Sem : WaitsOnSem(x, u)' <=> WaitsOnSem(x, u) /\ x # t
  BY <1>1, <1>2 DEF WaitsOnSem
<1>6. \A x \in Task : /\ WaitsOnTime(x)' <=> WaitsOnTime(x) /\ x # t
                      /\ WaitsOnTime(x)' => tcb'[x].rem = tcb[x].rem
  BY <1>1, <1>2 DEF WaitsOnTime
<1> QED BY <1>3, <1>4, <1>5, <1>6

\* The first element is what Tail leaves out.
LEMMA TailIsDrop ==
  ASSUME NEW q \in Seq(Task), q # <<>>
  PROVE  1 \in 1..Len(q) /\ Head(q) = q[1] /\ Tail(q) = Drop(q, 1)
<1>1. Len(q) \in Nat /\ Len(q) # 0
  BY EmptySeq, LenProperties
<1>2. 1 \in 1..Len(q) /\ Head(q) = q[1]
  BY <1>1
<1>3. /\ Tail(q) \in Seq(Task) /\ Len(Tail(q)) = Len(q) - 1
      /\ \A j \in 1..(Len(q) - 1) : Tail(q)[j] = q[j + 1]
  BY HeadTailProperties
<1>4. /\ Drop(q, 1) \in Seq(Task) /\ Len(Drop(q, 1)) = Len(q) - 1
      /\ \A j \in 1..(Len(q) - 1) : Drop(q, 1)[j] = q[j + 1]
  BY <1>1, <1>2, DropProperties
<1>5. Tail(q) = Drop(q, 1)
  BY <1>3, <1>4, SeqEqual
<1> QED BY <1>2, <1>5

\* Semaphores: the steps that take a task off a queue, and the table.
LEMMA SignalSteps ==
  ASSUME QueueInv, TypeOK', SemTable \/ \E s \in Sem \cup {NoSem} : sig_sem(s)
  PROVE  QueueInv'
<1> USE DEF QueueInv
<1>1. tcb \in [Task -> TcbRecord] /\ waitq \in [Sem -> Seq(Task)]
      /\ count \in [Sem -> Nat] /\ max \in [Sem -> Nat]
  BY DEF TypeOK, TcbRecord
<1>2. Keeps(tcb, tcb)
  BY DEF Keeps
<1>3. CASE sem_init
  <2>1. /\ UNCHANGED <<table, tcb, dq>>
        /\ \A s \in Sem : waitq'[s] = <<>> /\ count'[s] = 0 /\ max'[s] = 0
        /\ \A t \in Task : tcb[t].reason \notin {"SEMAPHORE", "SEMAPHORE_TIMEOUT"}
    BY <1>3 DEF sem_init
  <2>2. \A t \in Task, s \in Sem : ~WaitsOnSem(t, s)'
    BY <2>1 DEF WaitsOnSem
  <2>3. SemQueueConsistent' /\ NoLostWakeup'
    BY <2>1, <2>2 DEF SemQueueConsistent, NoLostWakeup, InSeq
  <2> QED
    BY <2>1, <2>3 DEF TableInv, Registered, SemIsSet, DelayQueueConsistent,
                      InDelayQueue, WaitsOnTime
<1>4. ASSUME NEW s \in Sem, NEW m \in 1..MaxCount, NEW init \in 0..m,
             sem_create(s, init, m)
      PROVE  QueueInv'
  <2>1. waitq[s] = <<>>
    BY <1>4 DEF sem_create, NoLostWakeup
  <2>2. waitq' = waitq /\ UNCHANGED <<table, tcb, dq>>
    BY <1>1, <1>4, <2>1 DEF sem_create
  <2>3. NoLostWakeup'
    BY <1>1, <1>4, <2>1, <2>2 DEF sem_create, NoLostWakeup
  <2> QED BY <1>2, <2>2, <2>3, QuietStep
<1>5. ASSUME NEW s \in Sem \cup {NoSem}, sig_sem(s) PROVE QueueInv'
  <2>1. CASE Reject("E_ID") \/ Reject("E_QOVR")
    <3>1. UNCHANGED <<table, tcb, max, count, waitq, dq>>
      BY <2>1 DEF Reject, semVars
    <3>2. NoLostWakeup'
      BY <3>1 DEF NoLostWakeup
    <3> QED BY <1>2, <3>1, <3>2, QuietStep
  <2>2. CASE /\ Exists(s) /\ NoWaiters(s) /\ count[s] < max[s]
             /\ count' = [count EXCEPT ![s] = @ + 1]
             /\ UNCHANGED <<table, tcb, max, waitq, dq>>
    <3>1. NoLostWakeup'
      BY <1>1, <2>2 DEF NoLostWakeup, NoWaiters, Exists
    <3> QED BY <1>2, <2>2, <3>1, QuietStep
  <2> DEFINE h == Head(waitq[s])
             timed == /\ tcb[h].state = "WAITING"
                      /\ tcb[h].reason = "SEMAPHORE_TIMEOUT"
                      /\ InDelayQueue(h)
             woken == /\ tcb[h].state = "WAITING" /\ tcb[h].sem = s
                      /\ tcb[h].reason = "SEMAPHORE" \/ timed
  <2>3. CASE /\ Exists(s) /\ ~NoWaiters(s)
             /\ waitq' = [waitq EXCEPT ![s] = Tail(@)]
             /\ dq' = IF timed THEN Drop(dq, DelayIndex(h)) ELSE dq
             /\ woken => tcb' = [tcb EXCEPT ![h] = Tcb("READY")]
             /\ UNCHANGED <<table, max, count>>
    <3>1. s \in Sem /\ waitq[s] \in Seq(Task) /\ waitq[s] # <<>>
      BY <1>1, <2>3 DEF Exists, NoWaiters
    <3>2. /\ 1 \in 1..Len(waitq[s]) /\ h = waitq[s][1]
          /\ Tail(waitq[s]) = Drop(waitq[s], 1)
      BY <3>1, TailIsDrop
    <3>3. h \in Task /\ WaitsOnSem(h, s)
      BY <3>1, <3>2, ElementOfSeq DEF SemQueueConsistent, InSeq
    <3>4. /\ timed <=> WaitsOnTime(h)
          /\ woken
      BY <3>3 DEF WaitsOnSem, WaitsOnTime, DelayQueueConsistent
    <3>5. tcb' = [tcb EXCEPT ![h] = Tcb("READY")]
      BY <2>3, <3>4
    <3>6. dq' = IF WaitsOnTime(h) THEN Drop(dq, DelayIndex(h)) ELSE dq
      BY <2>3, <3>4
    <3>7. waitq' = [waitq EXCEPT ![s] = Drop(waitq[s], 1)] /\ UNCHANGED <<table, max, count>>
      BY <2>3, <3>2
    <3> HIDE DEF timed, woken
    <3>8. PICK t \in Task : t = h /\ Queued(tcb[t])
      BY <3>3 DEF WaitsOnSem, Queued
    <3> HIDE DEF h
    <3>9. /\ TableInv' /\ SemIsSet'
          /\ \A x \in Task, u \in Sem : WaitsOnSem(x, u)' <=> WaitsOnSem(x, u) /\ x # t
          /\ \A x \in Task : /\ WaitsOnTime(x)' <=> WaitsOnTime(x) /\ x # t
                             /\ WaitsOnTime(x)' => tcb'[x].rem = tcb[x].rem
      BY <3>5, <3>7, <3>8, WakeEffect
    <3>10. SemQueueConsistent'
      BY <3>1, <3>2, <3>7, <3>8, <3>9, SemDel, ZenonT(60)
    <3>11. NoLostWakeup'
      BY <1>1, <3>1, <3>7 DEF NoLostWakeup
    <3>12. CASE WaitsOnTime(t)
      <4>1. InDelayQueue(t) /\ dq \in Seq([task : Task, rem : Nat])
        BY <3>12 DEF DelayQueueConsistent, TypeOK
      <4>2. DelayIndex(t) \in 1..Len(dq) /\ dq[DelayIndex(t)].task = t
        BY <4>1, DelayIndexFinds
      <4>3. dq' = Drop(dq, DelayIndex(t))
        BY <3>6, <3>8, <3>12
      <4> QED BY <3>9, <3>10, <3>11, <4>2, <4>3, DelayDel
    <3>13. CASE ~WaitsOnTime(t)
      BY <3>6, <3>8, <3>9, <3>10, <3>11, <3>13, DelaySame
    <3> QED BY <3>12, <3>13
  <2> QED BY <1>5, <2>1, <2>2, <2>3 DEF sig_sem
<1> QED BY <1>3, <1>4, <1>5 DEF SemTable

\* An entry with time left keeps its place; entry and TCB lose one tick.
LEMMA PassEffect ==
  ASSUME QueueInv, TickPass
  PROVE  \E i \in 1..Len(dq), t \in Task, n \in Nat :
           /\ i = idx /\ t = dq[i].task /\ n > 0 /\ n = dq[i].rem - 1
           /\ tcb'[t].rem = n /\ tcb'[t].state = tcb[t].state
           /\ tcb'[t].reason = tcb[t].reason /\ tcb'[t].sem = tcb[t].sem
           /\ \A x \in Task : x # t => tcb'[x] = tcb[x]
           /\ Len(dq') = Len(dq)
           /\ \A j \in 1..Len(dq) : /\ dq'[j].task = dq[j].task
                                   /\ dq'[j].rem = IF j = i THEN n ELSE dq[j].rem
<1> USE DEF QueueInv
<1>1. tcb \in [Task -> TcbRecord]
  BY DEF TypeOK, TcbRecord
<1>2. /\ dq \in Seq(Entry) /\ Len(dq) \in Nat
      /\ \A k \in 1..Len(dq) : dq[k].task \in Task
  BY EntriesTyped
<1>3. PICK i \in 1..Len(dq) : i = idx
  BY <1>2 DEF TickPass, TypeOK
<1>4. PICK t \in Task : t = dq[i].task
  BY <1>2
<1>5. dq[i] \in Entry
  BY <1>2, ElementOfSeq
<1>6. PICK n \in Nat : n > 0 /\ n = dq[i].rem - 1
  BY <1>3, <1>5 DEF TickPass, Entry
<1>7. /\ dq' = [dq EXCEPT ![i] = [dq[i] EXCEPT !.rem = n]]
      /\ tcb' = [tcb EXCEPT ![t] = [tcb[t] EXCEPT !.rem = n]]
  BY <1>3, <1>4, <1>6 DEF TickPass
<1>8. /\ tcb'[t].rem = n /\ tcb'[t].state = tcb[t].state
      /\ tcb'[t].reason = tcb[t].reason /\ tcb'[t].sem = tcb[t].sem
      /\ \A x \in Task : x # t => tcb'[x] = tcb[x]
  BY <1>1, <1>7 DEF TcbRecord
<1>9. [dq[i] EXCEPT !.rem = n] \in Entry
  BY <1>5 DEF Entry
<1>10. /\ Len(dq') = Len(dq)
       /\ \A j \in 1..Len(dq) : dq'[j] = IF j = i THEN [dq[i] EXCEPT !.rem = n] ELSE dq[j]
  BY <1>2, <1>7, <1>9, ExceptSeq
<1>11. \A j \in 1..Len(dq) : /\ dq'[j].task = dq[j].task
                             /\ dq'[j].rem = IF j = i THEN n ELSE dq[j].rem
  BY <1>5, <1>10 DEF Entry
<1> QED BY <1>3, <1>4, <1>6, <1>8, <1>10, <1>11

\* The entry that expires is in its last tick; its task is woken and leaves the
\* delay queue and, if it waits on a semaphore, that semaphore's queue.
LEMMA ExpireEffect ==
  ASSUME QueueInv, TickExpire
  PROVE  \E i \in 1..Len(dq), t \in Task :
           /\ i = idx /\ t = dq[i].task /\ dq[i].rem = 1 /\ tcb[t].rem = 1
           /\ WaitsOnTime(t)
           /\ dq' = Drop(dq, i)
           /\ tcb' = [tcb EXCEPT ![t] = Tcb("READY")]
           /\ \/ waitq' = waitq /\ \A u \in Sem : ~WaitsOnSem(t, u)
              \/ \E s \in Sem : \E k \in 1..Len(waitq[s]) :
                   waitq[s][k] = t /\ waitq' = [waitq EXCEPT ![s] = Drop(waitq[s], k)]
<1> USE DEF QueueInv
<1>1. tcb \in [Task -> TcbRecord] /\ waitq \in [Sem -> Seq(Task)]
  BY DEF TypeOK, TcbRecord
<1>2. /\ dq \in Seq(Entry) /\ Len(dq) \in Nat
      /\ \A k \in 1..Len(dq) : dq[k].task \in Task /\ dq[k].rem \in Nat
  BY EntriesTyped
<1>3. idx \in 1..Len(dq) /\ dq[idx].rem <= 1
  BY <1>2 DEF TickExpire, ExpireEntry, TypeOK
<1>4. PICK i \in 1..Len(dq) : i = idx
  BY <1>3
<1>5. PICK t \in Task : t = dq[i].task
  BY <1>2
<1>6. WaitsOnTime(t) /\ dq[i].rem = 1 /\ tcb[t].rem = 1
  BY <1>2, <1>3, <1>4, <1>5 DEF DelayQueueConsistent, InDelayQueue
<1>7. dq' = Drop(dq, i)
  BY <1>4 DEF TickExpire, ExpireEntry
<1>8. CASE tcb[t].reason = "DELAY"
  <2>1. waitq' = waitq /\ tcb' = [tcb EXCEPT ![t] = Tcb("READY")]
    BY <1>4, <1>5, <1>6, <1>8 DEF TickExpire, ExpireEntry, WaitsOnTime
  <2>2. \A u \in Sem : ~WaitsOnSem(t, u)
    BY <1>8 DEF WaitsOnSem
  <2> QED BY <1>4, <1>5, <1>6, <1>7, <2>1, <2>2
<1>9. CASE tcb[t].reason = "SEMAPHORE_TIMEOUT"
  <2>1. PICK s \in Sem : s = tcb[t].sem
    BY <1>6, <1>9 DEF SemIsSet, WaitsOnTime
  <2>2. InSeq(waitq[s], t)
    BY <1>6, <1>9, <2>1 DEF WaitsOnTime, WaitsOnSem, SemQueueConsistent
  <2>3. Exists(s)
    <3>1. waitq[s] # <<>>
      BY <2>2 DEF InSeq
    <3>2. max[s] > 0 /\ max[s] \in Nat
      BY <3>1 DEF NoLostWakeup, TypeOK
    <3> QED BY <3>2, ConstantsAssumption DEF Exists
  <2>4. /\ waitq' = [waitq EXCEPT ![s] = RemoveWaiter(waitq[s], t)]
        /\ tcb' = [tcb EXCEPT ![t] = Tcb("READY")]
    BY <1>4, <1>5, <1>6, <1>9, <2>1, <2>2, <2>3 DEF TickExpire, ExpireEntry, WaitsOnTime
  <2>5. PICK k \in 1..Len(waitq[s]) :
          waitq[s][k] = t /\ RemoveWaiter(waitq[s], t) = Drop(waitq[s], k)
    BY <1>1, <2>2, RemoveWaiterFinds
  <2>6. waitq' = [waitq EXCEPT ![s] = Drop(waitq[s], k)]
    BY <2>4, <2>5
  <2>7. \E u \in Sem : \E l \in 1..Len(waitq[u]) :
          waitq[u][l] = t /\ waitq' = [waitq EXCEPT ![u] = Drop(waitq[u], l)]
    BY <2>5, <2>6
  <2> QED BY <1>4, <1>5, <1>6, <1>7, <2>4, <2>7
<1> QED BY <1>6, <1>8, <1>9 DEF WaitsOnTime

\* The tick: an entry that expires leaves the delay queue and, if its task has
\* a timeout, the semaphore's queue in the same step.
LEMMA TickSteps ==
  ASSUME QueueInv, TypeOK', Tick
  PROVE  QueueInv'
<1> USE DEF QueueInv
<1>1. tcb \in [Task -> TcbRecord] /\ waitq \in [Sem -> Seq(Task)]
  BY DEF TypeOK, TcbRecord
<1>2. /\ dq \in Seq(Entry) /\ Len(dq) \in Nat
      /\ \A k \in 1..Len(dq) : dq[k].task \in Task
  BY EntriesTyped
<1>3. CASE TickEnd
  <2>1. UNCHANGED <<table, tcb, max, count, waitq, dq>>
    BY <1>3 DEF TickEnd, semVars
  <2>2. NoLostWakeup' /\ Keeps(tcb, tcb')
    BY <2>1 DEF NoLostWakeup, Keeps
  <2> QED BY <2>1, <2>2, QuietStep
<1>4. CASE TickPass
  <2>1. PICK i \in 1..Len(dq), t \in Task, n \in Nat :
          /\ t = dq[i].task /\ n > 0
          /\ tcb'[t].rem = n /\ tcb'[t].state = tcb[t].state
          /\ tcb'[t].reason = tcb[t].reason /\ tcb'[t].sem = tcb[t].sem
          /\ \A x \in Task : x # t => tcb'[x] = tcb[x]
          /\ Len(dq') = Len(dq)
          /\ \A j \in 1..Len(dq) : /\ dq'[j].task = dq[j].task
                                  /\ dq'[j].rem = IF j = i THEN n ELSE dq[j].rem
    BY <1>4, PassEffect
  <2>2. UNCHANGED <<table, max, count, waitq>>
    BY <1>4 DEF TickPass, semVars
  <2>3. TableInv' /\ SemIsSet'
    BY <2>1, <2>2 DEF TableInv, Registered, SemIsSet
  <2>4. \A x \in Task, u \in Sem : WaitsOnSem(x, u)' <=> WaitsOnSem(x, u)
    BY <2>1 DEF WaitsOnSem
  <2>5. \A x \in Task : WaitsOnTime(x)' <=> WaitsOnTime(x)
    BY <2>1 DEF WaitsOnTime
  <2>6. SemQueueConsistent' /\ NoLostWakeup'
    BY <2>2, <2>4 DEF SemQueueConsistent, NoLostWakeup
  <2>7. \A x \in Task : InDelayQueue(x)' <=> InDelayQueue(x)
    BY <2>1 DEF InDelayQueue
  <2>8. \A j, k \in 1..Len(dq) : dq[j].task = dq[k].task => j = k
    BY DEF DelayQueueConsistent
  <2>9. ASSUME NEW j \in 1..Len(dq)
        PROVE  dq'[j].rem > 0 /\ tcb'[dq[j].task].rem = dq'[j].rem
    <3>1. CASE j = i
      BY <2>1, <3>1
    <3>2. CASE j # i
      <4>1. dq[j].task # t /\ dq[j].task \in Task
        BY <1>2, <2>1, <2>8, <3>2
      <4> QED BY <2>1, <3>2, <4>1 DEF DelayQueueConsistent
    <3> QED BY <3>1, <3>2
  <2>10. DelayQueueConsistent'
    BY <2>1, <2>5, <2>7, <2>8, <2>9 DEF DelayQueueConsistent
  <2> QED BY <2>3, <2>6, <2>10
<1>5. CASE TickExpire
  <2>1. PICK i \in 1..Len(dq), t \in Task :
          /\ t = dq[i].task /\ WaitsOnTime(t)
          /\ dq' = Drop(dq, i)
          /\ tcb' = [tcb EXCEPT ![t] = Tcb("READY")]
          /\ \/ waitq' = waitq /\ \A u \in Sem : ~WaitsOnSem(t, u)
             \/ \E s \in Sem : \E k \in 1..Len(waitq[s]) :
                  waitq[s][k] = t /\ waitq' = [waitq EXCEPT ![s] = Drop(waitq[s], k)]
    BY <1>5, ExpireEffect
  <2>2. UNCHANGED <<table, max, count>> /\ Queued(tcb[t])
    BY <1>5, <2>1 DEF TickExpire, ExpireEntry, WaitsOnTime, Queued
  <2>3. /\ TableInv' /\ SemIsSet'
        /\ \A x \in Task, u \in Sem : WaitsOnSem(x, u)' <=> WaitsOnSem(x, u) /\ x # t
        /\ \A x \in Task : /\ WaitsOnTime(x)' <=> WaitsOnTime(x) /\ x # t
                           /\ WaitsOnTime(x)' => tcb'[x].rem = tcb[x].rem
    BY <2>1, <2>2, WakeEffect
  <2>4. DelayQueueConsistent'
    BY <2>1, <2>3, DelayDel
  <2>5. CASE waitq' = waitq /\ \A u \in Sem : ~WaitsOnSem(t, u)
    <3>1. \A x \in Task, u \in Sem : WaitsOnSem(x, u)' <=> WaitsOnSem(x, u)
      BY <2>3, <2>5
    <3>2. SemQueueConsistent' /\ NoLostWakeup'
      BY <2>2, <2>5, <3>1 DEF SemQueueConsistent, NoLostWakeup
    <3> QED BY <2>3, <2>4, <3>2
  <2>6. ASSUME NEW s \in Sem, NEW k \in 1..Len(waitq[s]),
               waitq[s][k] = t, waitq' = [waitq EXCEPT ![s] = Drop(waitq[s], k)]
        PROVE  QueueInv'
    <3>1. SemQueueConsistent'
      BY <2>3, <2>6, SemDel
    <3>2. \A u \in Sem : waitq'[u] # <<>> => waitq[u] # <<>>
      BY <1>1, <2>6
    <3>3. NoLostWakeup'
      BY <2>2, <3>2 DEF NoLostWakeup
    <3> QED BY <2>3, <2>4, <3>1, <3>3
  <2> QED BY <2>1, <2>5, <2>6
<1> QED BY <1>3, <1>4, <1>5 DEF Tick

\* Evaluating and consuming dispatch requests, and the interrupt.
LEMMA DispatchSteps ==
  ASSUME QueueInv, TypeOK',
         \/ preemption_evaluate_from_irq
         \/ dispatch_pending_consume_at_deferred_boundary
         \/ dispatch_pending_clear_for_test_or_later_boundary
         \/ timer_tick \/ Interrupt
  PROVE  QueueInv'
<1> USE DEF QueueInv
<1>1. UNCHANGED <<table, max, count, waitq, dq>> /\ (UNCHANGED tcb \/ Consume)
  BY DEF preemption_evaluate_from_irq, dispatch_pending_consume_at_deferred_boundary,
         dispatch_pending_clear_for_test_or_later_boundary, timer_tick,
         Interrupt, IrqEntry, IrqEvaluate, IrqExit, Halt, semVars, vars
<1>2. tcb \in [Task -> TcbRecord]
  BY DEF TypeOK, TcbRecord
<1>3. Keeps(tcb, tcb')
  <2>1. CASE UNCHANGED tcb
    BY <2>1 DEF Keeps
  <2>2. CASE dispatcher_switch_to(tcb, pend.from, pend.to)
    BY <1>2, <2>2, SwitchKeeps
  <2> QED BY <1>1, <2>1, <2>2 DEF Consume
<1>4. NoLostWakeup'
  BY <1>1 DEF NoLostWakeup
<1> QED BY <1>1, <1>3, <1>4, QuietStep

\* The invariant holds initially.
LEMMA InitQueueInv == Init => QueueInv
<1> SUFFICES ASSUME Init PROVE QueueInv
  OBVIOUS
<1>1. TypeOK
  BY InitTypeOK
<1>2. \A t \in Task : tcb[t].state = "UNUSED"
  BY DEF Init, Tcb
<1>3. TableInv /\ SemIsSet
  BY <1>2, ConstantsAssumption DEF Init, TableInv, SemIsSet
<1>4. SemQueueConsistent
  BY <1>2 DEF Init, SemQueueConsistent, InSeq, WaitsOnSem
<1>5. DelayQueueConsistent
  BY <1>2 DEF Init, DelayQueueConsistent, InDelayQueue, WaitsOnTime
<1>6. NoLostWakeup
  BY DEF Init, NoLostWakeup
<1> QED BY <1>1, <1>3, <1>4, <1>5, <1>6 DEF QueueInv

\* Every step keeps it.
LEMMA StepQueueInv == QueueInv /\ [Next]_vars => QueueInv'
<1> SUFFICES ASSUME QueueInv, [Next]_vars PROVE QueueInv'
  OBVIOUS
<1>1. TypeOK'
  BY StepTypeOK DEF QueueInv
<1>2. CASE UNCHANGED vars
  <2>1. UNCHANGED <<table, tcb, max, count, waitq, dq>>
    BY <1>2 DEF vars
  <2>2. NoLostWakeup' /\ Keeps(tcb, tcb')
    BY <2>1 DEF QueueInv, NoLostWakeup, Keeps
  <2> QED BY <1>1, <2>1, <2>2, QuietStep
<1>3. CASE Call
  BY <1>1, <1>3, TaskSteps, BlockingSteps, SignalSteps, DispatchSteps
     DEF Call, TaskApi, SemApi, Boundary
<1>4. CASE timer_tick \/ Interrupt
  BY <1>1, <1>4, DispatchSteps
<1>5. CASE Tick
  BY <1>1, <1>5, TickSteps
<1> QED BY <1>2, <1>3, <1>4, <1>5 DEF Next

\* The inductive invariant holds of every reachable state.
LEMMA QueueInvariance == Spec => []QueueInv
BY InitQueueInv, StepQueueInv, PTL DEF Spec

\* A semaphore's wait queue and the TCBs of the tasks on it never disagree,
\* whatever signals, timeouts, calls and interrupts do and in whatever order
\* (semaphore.c and the blocking calls of itron_api.c).
THEOREM SemQueues == Spec => []SemQueueConsistent
<1>1. QueueInv => SemQueueConsistent
  BY DEF QueueInv
<1> QED BY <1>1, QueueInvariance, PTL

\* The delay queue and the TCBs of the tasks on it never disagree: a timeout
\* that races a signal finds its task or no entry (delay_queue.c).
THEOREM DelayQueues == Spec => []DelayQueueConsistent
<1>1. QueueInv => DelayQueueConsistent
  BY DEF QueueInv
<1> QED BY <1>1, QueueInvariance, PTL

\* No signal is lost: sig_sem() hands it to a waiter or counts it, and nothing
\* waits on a semaphore that has a count to take.
THEOREM WakeupsArrive == Spec => []NoLostWakeup
<1>1. QueueInv => NoLostWakeup
  BY DEF QueueInv
<1> QED BY <1>1, QueueInvariance, PTL

\* A task that may block always finds room, for every MAX_TASKS: wai_sem's
\* failure after it has marked its caller WAITING cannot happen.
THEOREM WaitsHaveRoom == Spec => []RoomForEveryWait
BY QueueInvariance, Room, PTL

=============================================================================
