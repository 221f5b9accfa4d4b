-------------------------- MODULE Semaphore_proofs --------------------------
(***************************************************************************)
(* The ring buffers of semaphore.c implement the queues of SemaphoreSpec,  *)
(* and the slots of its table the semaphores: for every MAX_SEMAPHORES,    *)
(* MAX_TASKS and set of tasks.                                             *)
(***************************************************************************)
EXTENDS Semaphore, SequenceTheorems, TLAPS

SemRecord ==
  [id : Nat, count : Nat, max_count : Nat,
   wait_queue : [Cell -> Task \cup {NoTask}],
   wait_head : Cell, wait_tail : Cell, wait_count : 0..MaxTasks]

\* The cell k places behind the head h, and the places cell c is behind it.
CellAt(h, k) == (h + k) % MaxTasks
PlaceOf(h, c) == (c - h) % MaxTasks

\* RingShape of one semaphore.
Ring(sem) ==
  /\ sem.wait_tail = CellAt(sem.wait_head, sem.wait_count)
  /\ \A c \in Cell : sem.wait_queue[c] # NoTask
                       <=> PlaceOf(sem.wait_head, c) < sem.wait_count

\* sem_create() fills the slots in order, so that a slot and its ID go together.
SlotsInOrder ==
  /\ next_sem_id \in 1..(MaxSems + 1)
  /\ \A i \in Slot : semaphore_table[i].id = IF i + 1 < next_sem_id THEN i + 1 ELSE 0

\* Slots not in use are blank, the others have a maximum, which count respects.
Counts ==
  \A i \in Slot :
    LET sem == semaphore_table[i]
    IN  /\ sem.count <= sem.max_count
        /\ sem.id = 0 => sem.max_count = 0 /\ sem.wait_count = 0
        /\ sem.id # 0 => sem.max_count > 0

\* What the parts say of the semaphore sem in slot i.
SlotInv(sem, i, next) ==
  /\ sem \in SemRecord /\ Ring(sem)
  /\ sem.id = IF i + 1 < next THEN i + 1 ELSE 0
  /\ sem.count <= sem.max_count
  /\ sem.id = 0 => sem.max_count = 0 /\ sem.wait_count = 0
  /\ sem.id # 0 => sem.max_count > 0

\* The inductive invariant.
SemInv == TypeOK /\ RingShape /\ SlotsInOrder /\ Counts

-----------------------------------------------------------------------------
(***************************************************************************)
(* Positions in the ring.                                                  *)
(***************************************************************************)

\* The remainder of a number that wraps at most once.
LEMMA WrapUp ==
  ASSUME NEW x \in Nat, x < MaxTasks + MaxTasks
  PROVE  x % MaxTasks = IF x < MaxTasks THEN x ELSE x - MaxTasks
BY SemaphoreAssumption

\* The same below zero.
LEMMA WrapDown ==
  ASSUME NEW x \in Int, x < MaxTasks, -MaxTasks < x
  PROVE  x % MaxTasks = IF x < 0 THEN x + MaxTasks ELSE x
BY SemaphoreAssumption

\* Cells as the index arithmetic of semaphore.c means them: a ring wraps once.
LEMMA CellAtWraps ==
  ASSUME NEW h \in Cell, NEW k \in 0..MaxTasks
  PROVE  /\ CellAt(h, k) \in Cell
         /\ CellAt(h, k) = IF h + k < MaxTasks THEN h + k ELSE (h + k) - MaxTasks
<1>1. PICK x \in Nat : x = h + k /\ x < MaxTasks + MaxTasks
  BY SemaphoreAssumption DEF Cell
<1>2. x % MaxTasks = IF x < MaxTasks THEN x ELSE x - MaxTasks
  BY <1>1, WrapUp
<1>3. CellAt(h, k) = IF x < MaxTasks THEN x ELSE x - MaxTasks
  BY <1>1, <1>2 DEF CellAt
<1> QED BY <1>1, <1>3, SemaphoreAssumption DEF Cell

\* The same for the places.
LEMMA PlaceOfWraps ==
  ASSUME NEW h \in Cell, NEW c \in Cell
  PROVE  /\ PlaceOf(h, c) \in Cell
         /\ PlaceOf(h, c) = IF c < h THEN (c - h) + MaxTasks ELSE c - h
<1>1. PICK x \in Int : x = c - h /\ x < MaxTasks /\ -MaxTasks < x
  BY SemaphoreAssumption DEF Cell
<1>2. x % MaxTasks = IF x < 0 THEN x + MaxTasks ELSE x
  BY <1>1, WrapDown
<1>3. PlaceOf(h, c) = IF x < 0 THEN x + MaxTasks ELSE x
  BY <1>1, <1>2 DEF PlaceOf
<1> QED BY <1>1, <1>3, SemaphoreAssumption DEF Cell

\* Cells and places behind a head correspond one to one.
LEMMA CellsAndPlaces ==
  ASSUME NEW h \in Cell
  PROVE  /\ \A k \in Cell : PlaceOf(h, CellAt(h, k)) = k
         /\ \A c \in Cell : CellAt(h, PlaceOf(h, c)) = c
<1>1. ASSUME NEW k \in Cell PROVE PlaceOf(h, CellAt(h, k)) = k
  <2>1. k \in 0..MaxTasks
    BY SemaphoreAssumption DEF Cell
  <2>2. PICK c \in Cell : /\ c = CellAt(h, k)
                          /\ c = IF h + k < MaxTasks THEN h + k ELSE (h + k) - MaxTasks
    BY <2>1, CellAtWraps
  <2>3. PlaceOf(h, c) = IF c < h THEN (c - h) + MaxTasks ELSE c - h
    BY PlaceOfWraps
  <2> QED BY <2>2, <2>3, SemaphoreAssumption DEF Cell
<1>2. ASSUME NEW c \in Cell PROVE CellAt(h, PlaceOf(h, c)) = c
  <2>1. PICK k \in Cell : /\ k = PlaceOf(h, c)
                          /\ k = IF c < h THEN (c - h) + MaxTasks ELSE c - h
    BY PlaceOfWraps
  <2>2. k \in 0..MaxTasks
    BY SemaphoreAssumption DEF Cell
  <2>3. CellAt(h, k) = IF h + k < MaxTasks THEN h + k ELSE (h + k) - MaxTasks
    BY <2>2, CellAtWraps
  <2> QED BY <2>1, <2>3, SemaphoreAssumption DEF Cell
<1> QED BY <1>1, <1>2

\* The contents of a ring are a queue of tasks.
LEMMA ContentsType ==
  ASSUME NEW sem \in SemRecord, Ring(sem)
  PROVE  /\ Contents(sem) \in Seq(Task) /\ Len(Contents(sem)) = sem.wait_count
         /\ \A k \in 0..(sem.wait_count - 1) :
              Waiter(sem, k) \in Task /\ Contents(sem)[k + 1] = Waiter(sem, k)
<1>1. sem.wait_head \in Cell /\ sem.wait_count \in 0..MaxTasks
      /\ sem.wait_queue \in [Cell -> Task \cup {NoTask}]
  BY DEF SemRecord
<1>2. ASSUME NEW k \in 0..(sem.wait_count - 1) PROVE Waiter(sem, k) \in Task
  <2>1. k \in Cell /\ k \in 0..MaxTasks
    BY <1>1, SemaphoreAssumption DEF Cell
  <2>2. PICK c \in Cell : c = CellAt(sem.wait_head, k)
    BY <1>1, <2>1, CellAtWraps
  <2>3. PlaceOf(sem.wait_head, c) = k
    BY <1>1, <2>1, <2>2, CellsAndPlaces
  <2>4. sem.wait_queue[c] # NoTask
    BY <1>1, <2>3 DEF Ring
  <2> QED BY <1>1, <2>2, <2>4 DEF Waiter, CellAt
<1>3. \A i \in 1..sem.wait_count : Waiter(sem, i - 1) \in Task
  BY <1>1, <1>2
<1>4. sem.wait_count \in Nat /\ Contents(sem) = [i \in 1..sem.wait_count |-> Waiter(sem, i - 1)]
  BY <1>1, SemaphoreAssumption DEF Contents
<1> HIDE DEF Waiter
<1>5. Contents(sem) \in Seq(Task) /\ Len(Contents(sem)) = sem.wait_count
  BY <1>3, <1>4
<1>6. \A k \in 0..(sem.wait_count - 1) : Contents(sem)[k + 1] = Waiter(sem, k)
  BY <1>4
<1> QED BY <1>2, <1>5, <1>6

-----------------------------------------------------------------------------
(***************************************************************************)
(* The operations on one ring.                                             *)
(***************************************************************************)

\* A task is in a cell of the ring if and only if it is in the queue.
LEMMA CellsAreContents ==
  ASSUME NEW sem \in SemRecord, Ring(sem), NEW t \in Task
  PROVE  (\E c \in Cell : sem.wait_queue[c] = t) <=> Abstract!InSeq(Contents(sem), t)
<1>1. sem.wait_head \in Cell /\ sem.wait_count \in 0..MaxTasks
  BY DEF SemRecord
<1>2. /\ Contents(sem) \in Seq(Task) /\ Len(Contents(sem)) = sem.wait_count
      /\ \A k \in 0..(sem.wait_count - 1) : Contents(sem)[k + 1] = Waiter(sem, k)
  BY ContentsType
<1>3. ASSUME NEW c \in Cell, sem.wait_queue[c] = t PROVE Abstract!InSeq(Contents(sem), t)
  <2>1. PICK k \in Cell : k = PlaceOf(sem.wait_head, c)
    BY <1>1, PlaceOfWraps
  <2>2. k < sem.wait_count /\ CellAt(sem.wait_head, k) = c
    BY <1>1, <1>3, <2>1, CellsAndPlaces, SemaphoreAssumption DEF Ring
  <2>3. Waiter(sem, k) = t
    BY <1>3, <2>2 DEF Waiter, CellAt
  <2>4. k \in 0..(sem.wait_count - 1) /\ k + 1 \in 1..sem.wait_count
    BY <1>1, <2>2 DEF Cell
  <2> QED BY <1>2, <2>3, <2>4 DEF Abstract!InSeq
<1>4. ASSUME Abstract!InSeq(Contents(sem), t) PROVE \E c \in Cell : sem.wait_queue[c] = t
  <2>1. PICK i \in 1..sem.wait_count : Contents(sem)[i] = t
    BY <1>2, <1>4 DEF Abstract!InSeq
  <2>2. PICK k \in 0..(sem.wait_count - 1) : i = k + 1
    BY <1>1, <2>1
  <2>3. Waiter(sem, k) = t
    BY <1>2, <2>1, <2>2
  <2>4. k \in 0..MaxTasks
    BY <1>1, SemaphoreAssumption
  <2>5. CellAt(sem.wait_head, k) \in Cell
    BY <1>1, <2>4, CellAtWraps
  <2> QED BY <2>3, <2>5 DEF Waiter, CellAt
<1> QED BY <1>3, <1>4

\* What sem_enqueue_waiter() makes of a semaphore.
WithTail(sem, t) == [sem EXCEPT !.wait_queue[sem.wait_tail] = t,
                                !.wait_tail = (@ + 1) % MaxTasks,
                                !.wait_count = @ + 1]

\* sem_enqueue_waiter() writes the cell at the tail.
LEMMA EnqueueRing ==
  ASSUME NEW sem \in SemRecord, Ring(sem), sem.wait_count < MaxTasks, NEW t \in Task,
         NEW new, new = WithTail(sem, t)
  PROVE  /\ new \in SemRecord /\ Ring(new)
         /\ new.id = sem.id /\ new.count = sem.count /\ new.max_count = sem.max_count
         /\ Contents(new) = Append(Contents(sem), t)
<1>0. PICK h \in Cell, n \in Nat : h = sem.wait_head /\ n = sem.wait_count
  BY SemaphoreAssumption DEF SemRecord
<1>1. /\ n \in 0..MaxTasks /\ n \in Cell /\ n + 1 \in 0..MaxTasks
      /\ sem.wait_queue \in [Cell -> Task \cup {NoTask}]
      /\ sem.wait_tail \in Cell /\ sem.wait_tail = CellAt(h, n)
  BY <1>0, SemaphoreAssumption DEF SemRecord, Ring, Cell
<1>2. /\ new.id = sem.id /\ new.count = sem.count /\ new.max_count = sem.max_count
      /\ new.wait_head = h /\ new.wait_count = n + 1
      /\ new.wait_queue = [sem.wait_queue EXCEPT ![CellAt(h, n)] = t]
      /\ new.wait_tail = (CellAt(h, n) + 1) % MaxTasks
  BY <1>0, <1>1 DEF SemRecord, WithTail
<1>3. new.wait_tail = CellAt(h, n + 1)
  <2>1. 1 \in 0..MaxTasks
    BY SemaphoreAssumption
  <2>2. PICK c \in Cell : c = CellAt(h, n)
    BY <1>1
  <2>3. c = IF h + n < MaxTasks THEN h + n ELSE (h + n) - MaxTasks
    BY <1>1, <2>2, CellAtWraps
  <2>4. CellAt(c, 1) = IF c + 1 < MaxTasks THEN c + 1 ELSE (c + 1) - MaxTasks
    BY <2>1, CellAtWraps
  <2>5. PICK m \in 0..MaxTasks : m = n + 1
    BY <1>1
  <2>6. CellAt(h, m) = IF h + m < MaxTasks THEN h + m ELSE (h + m) - MaxTasks
    BY CellAtWraps
  <2>7. CellAt(c, 1) = CellAt(h, m)
    BY <1>1, <2>3, <2>4, <2>5, <2>6, SemaphoreAssumption DEF Cell
  <2> QED BY <1>2, <2>2, <2>5, <2>7 DEF CellAt
<1>4. new \in SemRecord
  <2>1. CellAt(h, n + 1) \in Cell /\ CellAt(h, n) \in Cell
    BY <1>1, CellAtWraps
  <2> QED BY <1>1, <1>2, <1>3, <2>1 DEF SemRecord, WithTail
<1>5. \A c \in Cell : PlaceOf(h, c) = n <=> c = CellAt(h, n)
  BY <1>1, CellsAndPlaces
<1>6. \A c \in Cell : new.wait_queue[c] # NoTask <=> PlaceOf(h, c) < n + 1
  <2> SUFFICES ASSUME NEW c \in Cell
               PROVE  new.wait_queue[c] # NoTask <=> PlaceOf(h, c) < n + 1
    OBVIOUS
  <2>1. PICK k \in Cell : k = PlaceOf(h, c)
    BY <1>1, PlaceOfWraps
  <2>2. k < n + 1 <=> k < n \/ k = n
    BY <1>1 DEF Cell
  <2>3. sem.wait_queue[c] # NoTask <=> k < n
    BY <1>0, <2>1 DEF Ring
  <2>4. new.wait_queue[c] = IF k = n THEN t ELSE sem.wait_queue[c]
    BY <1>1, <1>2, <1>5, <2>1
  <2> QED BY <2>1, <2>2, <2>3, <2>4, SemaphoreAssumption
<1>7. Ring(new)
  BY <1>2, <1>3, <1>6 DEF Ring
<1>8. /\ Contents(sem) \in Seq(Task) /\ Len(Contents(sem)) = n
      /\ \A k \in 0..(n - 1) : Contents(sem)[k + 1] = Waiter(sem, k)
  BY <1>0, ContentsType
<1>9. /\ Contents(new) \in Seq(Task) /\ Len(Contents(new)) = n + 1
      /\ \A k \in 0..n : Contents(new)[k + 1] = Waiter(new, k)
  <2>1. /\ Contents(new) \in Seq(Task) /\ Len(Contents(new)) = new.wait_count
        /\ \A k \in 0..(new.wait_count - 1) : Contents(new)[k + 1] = Waiter(new, k)
    BY <1>4, <1>7, ContentsType
  <2>2. new.wait_count = n + 1 /\ 0..((n + 1) - 1) = 0..n
    BY <1>2
  <2> QED BY <2>1, <2>2
<1>10. ASSUME NEW k \in 0..n
       PROVE  Waiter(new, k) = IF k = n THEN t ELSE Waiter(sem, k)
  <2>1. k \in Cell /\ k \in 0..MaxTasks
    BY <1>1, SemaphoreAssumption DEF Cell
  <2>2. PICK c \in Cell : c = CellAt(h, k)
    BY <1>1, <2>1, CellAtWraps
  <2>3. PlaceOf(h, c) = k
    BY <1>1, <2>1, <2>2, CellsAndPlaces
  <2>4. new.wait_queue[c] = IF k = n THEN t ELSE sem.wait_queue[c]
    BY <1>1, <1>2, <1>5, <2>3
  <2> QED BY <1>0, <1>2, <2>2, <2>4 DEF Waiter, CellAt
<1>11. /\ Append(Contents(sem), t) \in Seq(Task) /\ Len(Append(Contents(sem), t)) = n + 1
       /\ Append(Contents(sem), t)[n + 1] = t
       /\ \A k \in 0..(n - 1) : Append(Contents(sem), t)[k + 1] = Contents(sem)[k + 1]
  BY <1>1, <1>8, AppendProperties
<1>12. \A i \in 1..(n + 1) : Contents(new)[i] = Append(Contents(sem), t)[i]
  <2> SUFFICES ASSUME NEW i \in 1..(n + 1)
               PROVE  Contents(new)[i] = Append(Contents(sem), t)[i]
    OBVIOUS
  <2>1. PICK k \in 0..n : k = i - 1 /\ i = k + 1
    OBVIOUS
  <2>2. CASE k = n
    BY <1>9, <1>10, <1>11, <2>1, <2>2
  <2>3. CASE k # n
    <3>1. k \in 0..(n - 1)
      BY <1>1, <2>3
    <3> QED BY <1>8, <1>9, <1>10, <1>11, <2>1, <2>3, <3>1
  <2> QED BY <2>2, <2>3
<1>13. Contents(new) = Append(Contents(sem), t)
  BY <1>1, <1>9, <1>11, <1>12, SeqEqual
<1> QED BY <1>2, <1>4, <1>7, <1>13

\* Seen from the cell after the head, every cell is one place nearer.
LEMMA NextHead ==
  ASSUME NEW h \in Cell, NEW g \in Cell, g = CellAt(h, 1)
  PROVE  /\ \A k \in Cell : CellAt(g, k) = CellAt(h, k + 1)
         /\ \A c \in Cell : PlaceOf(g, c) = IF PlaceOf(h, c) = 0 THEN MaxTasks - 1
                                            ELSE PlaceOf(h, c) - 1
         /\ \A c \in Cell : PlaceOf(h, c) = 0 <=> c = h
<1>1. g = IF h + 1 < MaxTasks THEN h + 1 ELSE (h + 1) - MaxTasks
  <2>1. 1 \in 0..MaxTasks
    BY SemaphoreAssumption
  <2> QED BY <2>1, CellAtWraps
<1>2. ASSUME NEW k \in Cell PROVE CellAt(g, k) = CellAt(h, k + 1)
  <2>1. k \in 0..MaxTasks
    BY SemaphoreAssumption DEF Cell
  <2>2. PICK m \in 0..MaxTasks : m = k + 1
    BY SemaphoreAssumption DEF Cell
  <2>3. /\ CellAt(g, k) = IF g + k < MaxTasks THEN g + k ELSE (g + k) - MaxTasks
        /\ CellAt(h, m) = IF h + m < MaxTasks THEN h + m ELSE (h + m) - MaxTasks
    BY <2>1, CellAtWraps
  <2>4. CellAt(g, k) = CellAt(h, m)
    BY <1>1, <2>2, <2>3, SemaphoreAssumption DEF Cell
  <2> QED BY <2>2, <2>4
<1>3. ASSUME NEW c \in Cell
      PROVE  /\ PlaceOf(g, c) = IF PlaceOf(h, c) = 0 THEN MaxTasks - 1
                                ELSE PlaceOf(h, c) - 1
             /\ PlaceOf(h, c) = 0 <=> c = h
  <2>1. PICK p \in Cell : /\ p = PlaceOf(h, c)
                          /\ p = IF c < h THEN (c - h) + MaxTasks ELSE c - h
    BY PlaceOfWraps
  <2>2. PICK r \in Cell : /\ r = PlaceOf(g, c)
                          /\ r = IF c < g THEN (c - g) + MaxTasks ELSE c - g
    BY PlaceOfWraps
  <2>3. /\ r = IF p = 0 THEN MaxTasks - 1 ELSE p - 1
        /\ p = 0 <=> c = h
    BY <1>1, <2>1, <2>2, SemaphoreAssumption DEF Cell
  <2> QED BY <2>1, <2>2, <2>3
<1> QED BY <1>2, <1>3

\* sem_dequeue_waiter() hands out the cell at the head and clears it.
LEMMA DequeueRing ==
  ASSUME NEW sem \in SemRecord, Ring(sem), sem.wait_count > 0,
         NEW new, new = WithoutHead(sem)
  PROVE  /\ new \in SemRecord /\ Ring(new)
         /\ new.id = sem.id /\ new.count = sem.count /\ new.max_count = sem.max_count
         /\ Contents(sem) # <<>>
         /\ Contents(new) = Tail(Contents(sem))
         /\ sem.wait_queue[sem.wait_head] = Head(Contents(sem))
<1>1. PICK h \in Cell, n \in Nat : h = sem.wait_head /\ n = sem.wait_count
  BY SemaphoreAssumption DEF SemRecord
<1>2. /\ n > 0 /\ n <= MaxTasks /\ n - 1 \in Cell /\ n - 1 \in 0..MaxTasks /\ 0 \in Cell
      /\ n - 1 \in Nat /\ 1 \in 0..MaxTasks
      /\ sem.wait_queue \in [Cell -> Task \cup {NoTask}]
      /\ sem.wait_tail \in Cell /\ sem.wait_tail = CellAt(h, n)
  BY <1>1, SemaphoreAssumption DEF SemRecord, Ring, Cell
<1>3. PICK g \in Cell : g = CellAt(h, 1)
  BY <1>2, CellAtWraps
<1>4. /\ new.id = sem.id /\ new.count = sem.count /\ new.max_count = sem.max_count
      /\ new.wait_head = g /\ new.wait_count = n - 1
      /\ new.wait_queue = [sem.wait_queue EXCEPT ![h] = NoTask]
      /\ new.wait_tail = sem.wait_tail
  BY <1>1, <1>3 DEF SemRecord, WithoutHead, CellAt
<1>5. new \in SemRecord
  BY <1>1, <1>2, <1>4 DEF SemRecord, WithoutHead
<1>6. new.wait_tail = CellAt(g, n - 1)
  <2>1. CellAt(g, n - 1) = CellAt(h, (n - 1) + 1)
    BY <1>2, <1>3, NextHead
  <2> QED BY <1>2, <1>4, <2>1
<1>7. \A c \in Cell : new.wait_queue[c] # NoTask <=> PlaceOf(g, c) < n - 1
  <2> SUFFICES ASSUME NEW c \in Cell
               PROVE  new.wait_queue[c] # NoTask <=> PlaceOf(g, c) < n - 1
    OBVIOUS
  <2>1. PICK k \in Cell : k = PlaceOf(h, c)
    BY PlaceOfWraps
  <2>2. /\ PlaceOf(g, c) = IF k = 0 THEN MaxTasks - 1 ELSE k - 1
        /\ k = 0 <=> c = h
    BY <1>3, <2>1, NextHead
  <2>3. sem.wait_queue[c] # NoTask <=> k < n
    BY <1>1, <2>1 DEF Ring
  <2>4. new.wait_queue[c] = IF k = 0 THEN NoTask ELSE sem.wait_queue[c]
    BY <1>2, <1>4, <2>2
  <2>5. PlaceOf(g, c) < n - 1 <=> k # 0 /\ k < n
    BY <1>2, <2>2, SemaphoreAssumption DEF Cell
  <2> QED BY <2>3, <2>4, <2>5
<1>8. Ring(new)
  BY <1>4, <1>6, <1>7 DEF Ring
<1>9. /\ Contents(sem) \in Seq(Task) /\ Len(Contents(sem)) = n
      /\ \A k \in 0..(n - 1) : Contents(sem)[k + 1] = Waiter(sem, k)
  BY <1>1, ContentsType
<1>10. /\ Contents(new) \in Seq(Task) /\ Len(Contents(new)) = n - 1
       /\ \A k \in 0..((n - 1) - 1) : Contents(new)[k + 1] = Waiter(new, k)
  <2>1. /\ Contents(new) \in Seq(Task) /\ Len(Contents(new)) = new.wait_count
        /\ \A k \in 0..(new.wait_count - 1) : Contents(new)[k + 1] = Waiter(new, k)
    BY <1>5, <1>8, ContentsType
  <2> QED BY <1>4, <2>1
<1>11. ASSUME NEW k \in 0..((n - 1) - 1) PROVE Waiter(new, k) = Waiter(sem, k + 1)
  <2>1. k \in Cell /\ k + 1 \in Cell /\ k + 1 \in 0..MaxTasks /\ k + 1 # 0
    BY <1>2, SemaphoreAssumption DEF Cell
  <2>2. PICK c \in Cell : c = CellAt(h, k + 1)
    BY <2>1, CellAtWraps
  <2>3. CellAt(g, k) = c /\ PlaceOf(h, c) = k + 1
    BY <1>3, <2>1, <2>2, NextHead, CellsAndPlaces
  <2>4. c # h
    BY <1>3, <2>1, <2>3, NextHead
  <2>5. new.wait_queue[c] = sem.wait_queue[c]
    BY <1>2, <1>4, <2>4
  <2> QED BY <1>1, <1>4, <2>2, <2>3, <2>5 DEF Waiter, CellAt
<1>12. Contents(sem) # <<>>
  BY <1>2, <1>9
<1>13. /\ Tail(Contents(sem)) \in Seq(Task) /\ Len(Tail(Contents(sem))) = n - 1
       /\ \A i \in 1..(n - 1) : Tail(Contents(sem))[i] = Contents(sem)[i + 1]
       /\ Head(Contents(sem)) = Contents(sem)[1]
  BY <1>2, <1>9, <1>12, HeadTailProperties
<1>14. ASSUME NEW i \in 1..(n - 1) PROVE Contents(new)[i] = Tail(Contents(sem))[i]
  <2>1. PICK k \in 0..((n - 1) - 1) : k = i - 1 /\ i = k + 1
    OBVIOUS
  <2>2. k + 1 \in 0..(n - 1)
    BY <1>2
  <2> QED BY <1>9, <1>10, <1>11, <1>13, <2>1, <2>2, ZenonT(60)
<1>15. Contents(new) = Tail(Contents(sem))
  BY <1>2, <1>10, <1>13, <1>14, SeqEqual
<1>16. sem.wait_queue[sem.wait_head] = Head(Contents(sem))
  <2>1. 0 \in 0..(n - 1) /\ 0 \in 0..MaxTasks
    BY <1>2, SemaphoreAssumption
  <2>2. CellAt(h, 0) = h
    BY <2>1, CellAtWraps, SemaphoreAssumption DEF Cell
  <2>3. Waiter(sem, 0) = sem.wait_queue[h]
    BY <1>1, <2>2 DEF Waiter, CellAt
  <2> QED BY <1>1, <1>9, <1>13, <2>1, <2>3
<1> QED BY <1>4, <1>5, <1>8, <1>12, <1>15, <1>16

\* sem_remove_waiter() rebuilds the ring from cell 0 without its k-th waiter.
LEMMA RemoveRing ==
  ASSUME NEW sem \in SemRecord, Ring(sem), NEW k \in 0..(sem.wait_count - 1),
         NEW new, new = WithoutWaiter(sem, k)
  PROVE  /\ new \in SemRecord /\ Ring(new)
         /\ new.id = sem.id /\ new.count = sem.count /\ new.max_count = sem.max_count
         /\ Contents(new) = Abstract!Drop(Contents(sem), k + 1)
<1>1. PICK n \in Nat : n = sem.wait_count /\ n <= MaxTasks /\ n > 0
  BY SemaphoreAssumption DEF SemRecord
<1>2. PICK m \in Nat : m = n - 1
  BY <1>1
<1>3. m \in Cell /\ m \in 0..MaxTasks /\ 0 \in Cell
  BY <1>1, <1>2, SemaphoreAssumption DEF Cell
<1>4. /\ Contents(sem) \in Seq(Task) /\ Len(Contents(sem)) = n
      /\ \A i \in 0..(n - 1) : Waiter(sem, i) \in Task /\ Contents(sem)[i + 1] = Waiter(sem, i)
  BY <1>1, ContentsType
<1>5. \A i \in Cell : CellAt(0, i) = i /\ PlaceOf(0, i) = i
  <2> SUFFICES ASSUME NEW i \in Cell PROVE CellAt(0, i) = i /\ PlaceOf(0, i) = i
    OBVIOUS
  <2>1. i \in 0..MaxTasks
    BY SemaphoreAssumption DEF Cell
  <2> QED BY <1>3, <2>1, CellAtWraps, PlaceOfWraps, SemaphoreAssumption DEF Cell
<1>6. m % MaxTasks = CellAt(0, m)
  BY DEF CellAt
<1> DEFINE q == [i \in Cell |-> IF i >= m THEN NoTask
                                ELSE IF i < k THEN Waiter(sem, i)
                                ELSE Waiter(sem, i + 1)]
<1>7. /\ new.id = sem.id /\ new.count = sem.count /\ new.max_count = sem.max_count
      /\ new.wait_head = 0 /\ new.wait_count = m
      /\ new.wait_queue = q
      /\ new.wait_tail = CellAt(0, m)
  BY <1>1, <1>2, <1>6 DEF SemRecord, WithoutWaiter
<1>8. \A i \in Cell : /\ i >= m => q[i] = NoTask
                      /\ i < m => /\ q[i] = IF i < k THEN Waiter(sem, i) ELSE Waiter(sem, i + 1)
                                  /\ q[i] \in Task
  <2> SUFFICES ASSUME NEW i \in Cell
               PROVE  /\ i >= m => q[i] = NoTask
                      /\ i < m => /\ q[i] = IF i < k THEN Waiter(sem, i) ELSE Waiter(sem, i + 1)
                                  /\ q[i] \in Task
    OBVIOUS
  <2>1. i < m => i \in 0..(n - 1) /\ i + 1 \in 0..(n - 1)
    BY <1>1, <1>2 DEF Cell
  <2>2. i \in Nat
    BY DEF Cell
  <2> HIDE DEF Waiter
  <2> QED BY <1>2, <1>4, <2>1, <2>2
<1> HIDE DEF q
<1>9. q \in [Cell -> Task \cup {NoTask}]
  <2>1. \A i \in Cell : q[i] \in Task \cup {NoTask}
    BY <1>2, <1>8 DEF Cell
  <2> QED BY <2>1 DEF q
<1>10. new \in SemRecord
  BY <1>3, <1>5, <1>7, <1>9 DEF SemRecord, WithoutWaiter
<1>11. Ring(new)
  <2>1. \A c \in Cell : new.wait_queue[c] # NoTask <=> PlaceOf(0, c) < m
    BY <1>2, <1>5, <1>7, <1>8, SemaphoreAssumption DEF Cell
  <2> QED BY <1>7, <2>1 DEF Ring
<1>12. Contents(new) = [i \in 1..m |-> Waiter(new, i - 1)]
  BY <1>7 DEF Contents
<1>13. Abstract!Drop(Contents(sem), k + 1) =
         [i \in 1..m |-> IF i < k + 1 THEN Contents(sem)[i] ELSE Contents(sem)[i + 1]]
  BY <1>2, <1>4 DEF Abstract!Drop
<1>14. ASSUME NEW i \in 1..m
       PROVE  Waiter(new, i - 1) =
                IF i < k + 1 THEN Contents(sem)[i] ELSE Contents(sem)[i + 1]
  <2>1. PICK j \in Cell : j = i - 1 /\ i = j + 1 /\ j < m
    BY <1>3, SemaphoreAssumption DEF Cell
  <2>2. Waiter(new, j) = q[j]
    BY <1>5, <1>7 DEF Waiter, CellAt
  <2>3. q[j] = IF j < k THEN Waiter(sem, j) ELSE Waiter(sem, j + 1)
    BY <1>8, <2>1
  <2>4. /\ j \in 0..(n - 1) /\ j + 1 \in 0..(n - 1) /\ j + 1 = i /\ (j + 1) + 1 = i + 1
        /\ j < k <=> i < k + 1
    BY <1>1, <1>2, <2>1 DEF Cell
  <2> QED BY <1>4, <2>1, <2>2, <2>3, <2>4
<1>15. Contents(new) = Abstract!Drop(Contents(sem), k + 1)
  BY <1>12, <1>13, <1>14
<1> QED BY <1>7, <1>10, <1>11, <1>15

-----------------------------------------------------------------------------
(***************************************************************************)
(* What an ID stands for.                                                  *)
(***************************************************************************)

\* The invariant is one of every slot, the ID counter and the waiting tasks.
LEMMA InvBySlots ==
  SemInv <=> /\ semaphore_table \in [Slot -> SemRecord]
             /\ next_sem_id \in 1..(MaxSems + 1) /\ waits \in [Task -> 0..MaxSems]
             /\ \A i \in Slot : SlotInv(semaphore_table[i], i, next_sem_id)
<1>1. TypeOK /\ next_sem_id \in 1..(MaxSems + 1)
        <=> /\ semaphore_table \in [Slot -> SemRecord]
            /\ next_sem_id \in 1..(MaxSems + 1) /\ waits \in [Task -> 0..MaxSems]
  BY SemaphoreAssumption DEF TypeOK, SemRecord
<1>2. RingShape <=> \A i \in Slot : Ring(semaphore_table[i])
  BY DEF RingShape, Ring, CellAt, PlaceOf
<1>3. ASSUME semaphore_table \in [Slot -> SemRecord]
      PROVE  (\A i \in Slot : Ring(semaphore_table[i])) /\ SlotsInOrder /\ Counts
               <=> /\ next_sem_id \in 1..(MaxSems + 1)
                   /\ \A i \in Slot : SlotInv(semaphore_table[i], i, next_sem_id)
  BY <1>3 DEF SlotsInOrder, Counts, SlotInv
<1> QED BY <1>1, <1>2, <1>3 DEF SemInv, SlotsInOrder

\* The same in the next state.
LEMMA InvBySlotsNext ==
  SemInv' <=> /\ semaphore_table' \in [Slot -> SemRecord]
              /\ next_sem_id' \in 1..(MaxSems + 1) /\ waits' \in [Task -> 0..MaxSems]
              /\ \A i \in Slot : SlotInv(semaphore_table'[i], i, next_sem_id')
<1>1. (SemInv <=> /\ semaphore_table \in [Slot -> SemRecord]
                  /\ next_sem_id \in 1..(MaxSems + 1) /\ waits \in [Task -> 0..MaxSems]
                  /\ \A i \in Slot : SlotInv(semaphore_table[i], i, next_sem_id))'
  BY InvBySlots, PTL
<1> QED BY <1>1

\* find_semaphore_by_id() finds ID s in slot s - 1, and only an ID in use.
LEMMA Lookup ==
  ASSUME SemInv, NEW s \in 0..MaxSems
  PROVE  /\ Found(s) <=> s > 0 /\ s < next_sem_id
         /\ Found(s) => s - 1 \in Slot /\ SlotOf(s) = s - 1
<1>1. \A i \in Slot : semaphore_table[i].id = IF i + 1 < next_sem_id THEN i + 1 ELSE 0
  BY InvBySlots DEF SlotInv
<1>2. next_sem_id \in 1..(MaxSems + 1)
  BY DEF SemInv, SlotsInOrder
<1>3. Found(s) <=> s > 0 /\ s < next_sem_id
  <2>1. ASSUME s > 0, s < next_sem_id PROVE Found(s)
    <3>1. s - 1 \in Slot /\ (s - 1) + 1 = s
      BY <2>1, SemaphoreAssumption DEF Slot
    <3> QED BY <1>1, <2>1, <3>1 DEF Found
  <2>2. ASSUME Found(s) PROVE s > 0 /\ s < next_sem_id
    <3>1. PICK i \in Slot : semaphore_table[i].id = s /\ s > 0
      BY <2>2 DEF Found
    <3>2. i \in Int
      BY DEF Slot
    <3> QED BY <1>1, <1>2, <3>1, <3>2
  <2> QED BY <2>1, <2>2
<1>4. ASSUME Found(s) PROVE s - 1 \in Slot /\ SlotOf(s) = s - 1
  <2>1. s - 1 \in Slot /\ (s - 1) + 1 = s /\ s > 0 /\ s < next_sem_id
    BY <1>2, <1>3, <1>4, SemaphoreAssumption DEF Slot
  <2>2. \A i \in Slot : semaphore_table[i].id = s <=> i = s - 1
    <3> SUFFICES ASSUME NEW i \in Slot PROVE semaphore_table[i].id = s <=> i = s - 1
      OBVIOUS
    <3>1. i \in Int
      BY DEF Slot
    <3> QED BY <1>1, <1>2, <2>1, <3>1
  <2>3. \A j \in 0..((s - 1) - 1) : semaphore_table[j].id # s
    <3> SUFFICES ASSUME NEW j \in 0..((s - 1) - 1) PROVE semaphore_table[j].id # s
      OBVIOUS
    <3>1. j \in Slot /\ j # s - 1
      BY <2>1, SemaphoreAssumption DEF Slot
    <3> QED BY <2>2, <3>1
  <2> QED BY <2>1, <2>2, <2>3 DEF SlotOf
<1> QED BY <1>3, <1>4

\* What ID s + 1 of the abstract specification stands for is in slot s, whether
\* the slot is in use or not.
LEMMA Meaning ==
  SemInv => \A i \in Slot :
              /\ i + 1 \in 1..MaxSems
              /\ IdMax[i + 1] = semaphore_table[i].max_count
              /\ IdCount[i + 1] = semaphore_table[i].count
              /\ IdQueue[i + 1] = Contents(semaphore_table[i])
              /\ Found(i + 1) <=> semaphore_table[i].max_count > 0
<1> SUFFICES ASSUME SemInv, NEW i \in Slot
             PROVE  /\ i + 1 \in 1..MaxSems
                    /\ IdMax[i + 1] = semaphore_table[i].max_count
                    /\ IdCount[i + 1] = semaphore_table[i].count
                    /\ IdQueue[i + 1] = Contents(semaphore_table[i])
                    /\ Found(i + 1) <=> semaphore_table[i].max_count > 0
  OBVIOUS
<1>1. PICK s \in 1..MaxSems : s = i + 1 /\ i = s - 1 /\ s \in 0..MaxSems
  BY SemaphoreAssumption DEF Slot
<1>2. /\ Found(s) <=> s > 0 /\ s < next_sem_id
      /\ Found(s) => SlotOf(s) = i
  BY <1>1, Lookup
<1>3. PICK sem \in SemRecord : sem = semaphore_table[i]
  BY InvBySlots DEF SlotInv
<1>4. /\ Ring(sem) /\ sem.id = IF s < next_sem_id THEN s ELSE 0
      /\ sem.count <= sem.max_count /\ sem.count \in Nat /\ sem.max_count \in Nat
      /\ sem.id = 0 => sem.max_count = 0 /\ sem.wait_count = 0
      /\ sem.id # 0 => sem.max_count > 0
  BY <1>1, <1>3, InvBySlots DEF SemRecord, SlotInv
<1>5. CASE Found(s)
  <2>1. IdMax[s] = sem.max_count /\ IdCount[s] = sem.count /\ IdQueue[s] = Contents(sem)
    BY <1>2, <1>3, <1>5 DEF IdMax, IdCount, IdQueue
  <2>2. sem.max_count > 0
    BY <1>1, <1>2, <1>4, <1>5
  <2> QED BY <1>1, <1>3, <1>5, <2>1, <2>2
<1>6. CASE ~Found(s)
  <2>1. sem.max_count = 0 /\ sem.count = 0 /\ sem.wait_count = 0
    BY <1>1, <1>2, <1>4, <1>6
  <2>2. Contents(sem) \in Seq(Task) /\ Len(Contents(sem)) = 0
    BY <1>4, <2>1, ContentsType
  <2>3. Contents(sem) = <<>>
    BY <2>2
  <2>4. IdMax[s] = 0 /\ IdCount[s] = 0 /\ IdQueue[s] = <<>>
    BY <1>6 DEF IdMax, IdCount, IdQueue
  <2> QED BY <1>1, <1>3, <1>6, <2>1, <2>3, <2>4
<1> QED BY <1>5, <1>6

\* The abstract specification is about functions on the IDs.
LEMMA MeaningType ==
  SemInv => /\ IdMax = [s \in 1..MaxSems |-> IdMax[s]]
            /\ IdCount = [s \in 1..MaxSems |-> IdCount[s]]
            /\ IdQueue = [s \in 1..MaxSems |-> IdQueue[s]]
BY DEF IdMax, IdCount, IdQueue

\* Meaning in the next state.
LEMMA MeaningNext ==
  ASSUME SemInv'
  PROVE  \A i \in Slot :
           /\ IdMax'[i + 1] = semaphore_table'[i].max_count
           /\ IdCount'[i + 1] = semaphore_table'[i].count
           /\ IdQueue'[i + 1] = Contents(semaphore_table'[i])
<1>1. SemInv' => (\A i \in Slot :
              /\ i + 1 \in 1..MaxSems
              /\ IdMax[i + 1] = semaphore_table[i].max_count
              /\ IdCount[i + 1] = semaphore_table[i].count
              /\ IdQueue[i + 1] = Contents(semaphore_table[i])
              /\ Found(i + 1) <=> semaphore_table[i].max_count > 0)'
  BY Meaning, PTL
<1> QED BY <1>1

\* A call that writes no slot changes nothing an ID stands for.
LEMMA NothingWritten ==
  ASSUME SemInv, SemInv', semaphore_table' = semaphore_table
  PROVE  IdMax' = IdMax /\ IdCount' = IdCount /\ IdQueue' = IdQueue
<1>1. /\ IdMax' = [s \in 1..MaxSems |-> IdMax'[s]]
      /\ IdCount' = [s \in 1..MaxSems |-> IdCount'[s]]
      /\ IdQueue' = [s \in 1..MaxSems |-> IdQueue'[s]]
  BY DEF IdMax, IdCount, IdQueue
<1>2. ASSUME NEW s \in 1..MaxSems
      PROVE  IdMax'[s] = IdMax[s] /\ IdCount'[s] = IdCount[s] /\ IdQueue'[s] = IdQueue[s]
  <2>1. PICK i \in Slot : s = i + 1
    BY SemaphoreAssumption DEF Slot
  <2> QED BY <2>1, Meaning, MeaningNext
<1> QED BY <1>1, <1>2, MeaningType

\* A call that writes slot i changes what ID i + 1 stands for, and no other.
LEMMA OneWritten ==
  ASSUME SemInv, SemInv', NEW i \in Slot, NEW sem,
         semaphore_table' = [semaphore_table EXCEPT ![i] = sem]
  PROVE  /\ IdMax' = [IdMax EXCEPT ![i + 1] = sem.max_count]
         /\ IdCount' = [IdCount EXCEPT ![i + 1] = sem.count]
         /\ IdQueue' = [IdQueue EXCEPT ![i + 1] = Contents(sem)]
<1>1. /\ IdMax' = [s \in 1..MaxSems |-> IdMax'[s]]
      /\ IdCount' = [s \in 1..MaxSems |-> IdCount'[s]]
      /\ IdQueue' = [s \in 1..MaxSems |-> IdQueue'[s]]
  BY DEF IdMax, IdCount, IdQueue
<1>2. semaphore_table \in [Slot -> SemRecord]
  BY DEF SemInv, TypeOK, SemRecord
<1>3. ASSUME NEW s \in 1..MaxSems
      PROVE  /\ IdMax'[s] = IF s = i + 1 THEN sem.max_count ELSE IdMax[s]
             /\ IdCount'[s] = IF s = i + 1 THEN sem.count ELSE IdCount[s]
             /\ IdQueue'[s] = IF s = i + 1 THEN Contents(sem) ELSE IdQueue[s]
  <2>1. PICK j \in Slot : s = j + 1 /\ (s = i + 1 <=> j = i)
    BY SemaphoreAssumption DEF Slot
  <2>2. semaphore_table'[j] = IF j = i THEN sem ELSE semaphore_table[j]
    BY <1>2
  <2> QED BY <2>1, <2>2, Meaning, MeaningNext
<1> HIDE DEF Contents
<1> QED BY <1>1, <1>3, MeaningType

-----------------------------------------------------------------------------
(***************************************************************************)
(* Every call keeps the invariant.                                         *)
(***************************************************************************)

\* A refused call changes only the answer.
LEMMA RefuseKeeps ==
  ASSUME SemInv, UNCHANGED <<semaphore_table, next_sem_id, waits>>
  PROVE  SemInv' /\ IdMax' = IdMax /\ IdCount' = IdCount /\ IdQueue' = IdQueue
<1>1. SemInv'
  BY DEF SemInv, TypeOK, RingShape, SlotsInOrder, Counts
<1> QED BY <1>1, NothingWritten

\* A call on an existing semaphore that leaves a ring and a legal count.
LEMMA StoreKeeps ==
  ASSUME SemInv, NEW s \in 0..MaxSems, Found(s),
         NEW sem, sem = semaphore_table[SlotOf(s)],
         NEW new \in SemRecord, Ring(new), new.id = sem.id,
         new.max_count = sem.max_count, new.count <= sem.max_count,
         NEW v, Store(s, new, v)
  PROVE  /\ SemInv'
         /\ IdMax' = IdMax
         /\ IdCount' = [IdCount EXCEPT ![s] = new.count]
         /\ IdQueue' = [IdQueue EXCEPT ![s] = Contents(new)]
         /\ answer' = [code |-> "SEM_OK", value |-> v] /\ waits' = waits
<1>1. PICK i \in Slot : i = SlotOf(s) /\ s = i + 1 /\ s > 0 /\ s < next_sem_id
  BY Lookup
<1>2. semaphore_table' = [semaphore_table EXCEPT ![i] = new]
      /\ next_sem_id' = next_sem_id /\ waits' = waits
      /\ answer' = [code |-> "SEM_OK", value |-> v]
  BY <1>1 DEF Store, Answer
<1>3. semaphore_table \in [Slot -> SemRecord] /\ next_sem_id \in 1..(MaxSems + 1)
      /\ waits \in [Task -> 0..MaxSems]
  BY DEF SemInv, TypeOK, SemRecord, SlotsInOrder
<1>4. sem = semaphore_table[i] /\ sem.id # 0
  BY <1>1, <1>3, InvBySlots DEF SlotInv
<1>5. ASSUME NEW j \in Slot PROVE SlotInv(semaphore_table'[j], j, next_sem_id')
  <2>1. semaphore_table'[j] = IF j = i THEN new ELSE semaphore_table[j]
    BY <1>2, <1>3
  <2> QED BY <1>2, <1>4, <2>1, InvBySlots DEF SlotInv
<1>6. semaphore_table' \in [Slot -> SemRecord]
  BY <1>2, <1>3
<1>7. SemInv'
  BY <1>2, <1>3, <1>5, <1>6, InvBySlotsNext
<1>8. /\ IdMax' = [IdMax EXCEPT ![i + 1] = new.max_count]
      /\ IdCount' = [IdCount EXCEPT ![i + 1] = new.count]
      /\ IdQueue' = [IdQueue EXCEPT ![i + 1] = Contents(new)]
  BY <1>2, <1>7, OneWritten
<1>9. new.max_count = IdMax[i + 1]
  BY <1>4, Meaning
<1>10. IdMax' = IdMax
  BY <1>8, <1>9, MeaningType
<1> QED BY <1>1, <1>2, <1>7, <1>8, <1>10

\* A blank slot is an empty ring.
LEMMA BlankRing ==
  ASSUME NEW id \in Nat, NEW c \in Nat, NEW m \in Nat
  PROVE  /\ Blank(id, c, m) \in SemRecord /\ Ring(Blank(id, c, m))
         /\ Blank(id, c, m).id = id /\ Blank(id, c, m).count = c
         /\ Blank(id, c, m).max_count = m /\ Blank(id, c, m).wait_count = 0
         /\ Contents(Blank(id, c, m)) = <<>>
<1>1. PICK b : b = Blank(id, c, m)
  OBVIOUS
<1>2. /\ b.id = id /\ b.count = c /\ b.max_count = m /\ b.wait_count = 0
      /\ b.wait_head = 0 /\ b.wait_tail = 0 /\ b.wait_queue = [i \in Cell |-> NoTask]
  BY <1>1 DEF Blank
<1>3. 0 \in Cell /\ 0 \in 0..MaxTasks
  BY SemaphoreAssumption DEF Cell
<1>4. b \in SemRecord
  BY <1>1, <1>3 DEF Blank, SemRecord
<1>5. Ring(b)
  <2>1. CellAt(0, 0) = 0
    BY <1>3, CellAtWraps, SemaphoreAssumption
  <2>2. \A i \in Cell : ~(PlaceOf(0, i) < 0)
    BY <1>3, PlaceOfWraps, SemaphoreAssumption DEF Cell
  <2> QED BY <1>2, <2>1, <2>2 DEF Ring
<1>6. Contents(b) \in Seq(Task) /\ Len(Contents(b)) = 0
  BY <1>2, <1>4, <1>5, ContentsType
<1>7. Contents(b) = <<>>
  BY <1>6
<1> QED BY <1>1, <1>2, <1>4, <1>5, <1>7

-----------------------------------------------------------------------------
(***************************************************************************)
(* Every call is the call of the same name of SemaphoreSpec.               *)
(***************************************************************************)

\* The IDs find_semaphore_by_id() finds are those in use, and a semaphore found
\* is what the abstract state says of its ID.
LEMMA ExistsIsFound ==
  ASSUME SemInv, NEW s \in 0..MaxSems
  PROVE  /\ Abstract!Exists(s) <=> Found(s)
         /\ Found(s) => LET sem == semaphore_table[SlotOf(s)]
                        IN  /\ sem \in SemRecord /\ Ring(sem) /\ sem.count <= sem.max_count
                            /\ IdMax[s] = sem.max_count /\ IdCount[s] = sem.count
                            /\ IdQueue[s] = Contents(sem)
<1>1. CASE s = 0
  BY <1>1, Lookup DEF Abstract!Exists, Abstract!Id
<1>2. CASE s # 0
  <2>1. PICK i \in Slot : s = i + 1 /\ s - 1 = i
    BY <1>2, SemaphoreAssumption DEF Slot
  <2>2. Found(s) => SlotOf(s) = i
    BY <2>1, Lookup
  <2>3. SlotInv(semaphore_table[i], i, next_sem_id)
    BY InvBySlots
  <2> HIDE DEF Contents
  <2> QED BY <2>1, <2>2, <2>3, Meaning DEF Abstract!Exists, Abstract!Id, SlotInv
<1> QED BY <1>1, <1>2

\* A refused call is refused there too.
LEMMA RefuseRefines ==
  ASSUME SemInv, NEW code, Refuse(code)
  PROVE  SemInv' /\ Abstract!Refuse(code)
BY RefuseKeeps DEF Refuse, Answer, Abstract!Refuse, Abstract!Answer, Abstract!semVars

\* sem_take_if_available()
LEMMA TakeRefines ==
  ASSUME SemInv, NEW s \in 0..MaxSems, sem_take_if_available(s)
  PROVE  SemInv' /\ Abstract!sem_take_if_available(s)
<1>1. CASE ~Found(s)
  <2>1. Refuse("SEM_ERR_INVAL")
    BY <1>1 DEF sem_take_if_available
  <2> QED BY <1>1, <2>1, RefuseRefines, ExistsIsFound DEF Abstract!sem_take_if_available
<1>2. CASE Found(s)
  <2>1. PICK sem \in SemRecord :
          /\ sem = semaphore_table[SlotOf(s)] /\ Ring(sem) /\ sem.count <= sem.max_count
          /\ IdCount[s] = sem.count
    BY <1>2, ExistsIsFound
  <2>2. sem.count \in Nat /\ sem.max_count \in Nat
    BY DEF SemRecord
  <2>3. CASE sem.count = 0
    <3>1. Refuse("SEM_WAIT_REQUIRED")
      BY <1>2, <2>1, <2>3 DEF sem_take_if_available
    <3> QED BY <1>2, <2>1, <2>3, <3>1, RefuseRefines, ExistsIsFound
            DEF Abstract!sem_take_if_available
  <2>4. CASE sem.count > 0
    <3>1. PICK new : new = [sem EXCEPT !.count = @ - 1]
      OBVIOUS
    <3>2. Store(s, new, NoTask)
      BY <1>2, <2>1, <2>4, <3>1 DEF sem_take_if_available
    <3>3. /\ new \in SemRecord /\ new.count = sem.count - 1
          /\ new.id = sem.id /\ new.max_count = sem.max_count
          /\ new.wait_queue = sem.wait_queue /\ new.wait_head = sem.wait_head
          /\ new.wait_tail = sem.wait_tail /\ new.wait_count = sem.wait_count
      BY <2>2, <2>4, <3>1 DEF SemRecord
    <3>4. Ring(new) /\ Contents(new) = Contents(sem) /\ new.count <= sem.max_count
      BY <2>1, <2>2, <3>3 DEF Ring, Contents, Waiter
    <3>5. /\ SemInv' /\ IdMax' = IdMax /\ IdCount' = [IdCount EXCEPT ![s] = new.count]
          /\ IdQueue' = [IdQueue EXCEPT ![s] = Contents(new)]
          /\ answer' = [code |-> "SEM_OK", value |-> NoTask] /\ waits' = waits
      BY <1>2, <2>1, <3>2, <3>3, <3>4, StoreKeeps
    <3>6. IdQueue' = IdQueue
      BY <1>2, <2>1, <3>4, <3>5, ExistsIsFound, MeaningType
    <3> QED BY <1>2, <2>1, <2>4, <3>3, <3>5, <3>6, ExistsIsFound
            DEF Abstract!sem_take_if_available, Abstract!Answer
  <2> QED BY <2>2, <2>3, <2>4
<1> QED BY <1>1, <1>2

\* sem_increment_count()
LEMMA IncrementRefines ==
  ASSUME SemInv, NEW s \in 0..MaxSems, sem_increment_count(s)
  PROVE  SemInv' /\ Abstract!sem_increment_count(s)
<1>1. CASE ~Found(s)
  <2>1. Refuse("SEM_ERR_INVAL")
    BY <1>1 DEF sem_increment_count
  <2> QED BY <1>1, <2>1, RefuseRefines, ExistsIsFound DEF Abstract!sem_increment_count
<1>2. CASE Found(s)
  <2>1. PICK sem \in SemRecord :
          /\ sem = semaphore_table[SlotOf(s)] /\ Ring(sem) /\ sem.count <= sem.max_count
          /\ IdCount[s] = sem.count /\ IdMax[s] = sem.max_count
    BY <1>2, ExistsIsFound
  <2>2. sem.count \in Nat /\ sem.max_count \in Nat
    BY DEF SemRecord
  <2>3. CASE sem.count = sem.max_count
    <3>1. Refuse("SEM_ERR_OVERFLOW")
      BY <1>2, <2>1, <2>2, <2>3 DEF sem_increment_count
    <3> QED BY <1>2, <2>1, <2>3, <3>1, RefuseRefines, ExistsIsFound
            DEF Abstract!sem_increment_count
  <2>4. CASE sem.count < sem.max_count
    <3>1. PICK new : new = [sem EXCEPT !.count = @ + 1]
      OBVIOUS
    <3>2. Store(s, new, NoTask)
      BY <1>2, <2>1, <2>2, <2>4, <3>1 DEF sem_increment_count
    <3>3. /\ new \in SemRecord /\ new.count = sem.count + 1
          /\ new.id = sem.id /\ new.max_count = sem.max_count
          /\ new.wait_queue = sem.wait_queue /\ new.wait_head = sem.wait_head
          /\ new.wait_tail = sem.wait_tail /\ new.wait_count = sem.wait_count
      BY <2>2, <2>4, <3>1 DEF SemRecord
    <3>4. Ring(new) /\ Contents(new) = Contents(sem) /\ new.count <= sem.max_count
      BY <2>1, <2>2, <2>4, <3>3 DEF Ring, Contents, Waiter
    <3>5. /\ SemInv' /\ IdMax' = IdMax /\ IdCount' = [IdCount EXCEPT ![s] = new.count]
          /\ IdQueue' = [IdQueue EXCEPT ![s] = Contents(new)]
          /\ answer' = [code |-> "SEM_OK", value |-> NoTask] /\ waits' = waits
      BY <1>2, <2>1, <3>2, <3>3, <3>4, StoreKeeps
    <3>6. IdQueue' = IdQueue
      BY <1>2, <2>1, <3>4, <3>5, ExistsIsFound, MeaningType
    <3> QED BY <1>2, <2>1, <2>4, <3>3, <3>5, <3>6, ExistsIsFound
            DEF Abstract!sem_increment_count, Abstract!Answer
  <2> QED BY <2>1, <2>2, <2>3, <2>4
<1> QED BY <1>1, <1>2

\* sem_enqueue_waiter()
LEMMA EnqueueRefines ==
  ASSUME SemInv, NEW s \in 0..MaxSems, NEW t \in Task, sem_enqueue_waiter(s, t)
  PROVE  SemInv' /\ Abstract!sem_enqueue_waiter(s, t)
<1>1. CASE ~Found(s)
  <2>1. Refuse("SEM_ERR_INVAL")
    BY <1>1 DEF sem_enqueue_waiter
  <2> QED BY <1>1, <2>1, RefuseRefines, ExistsIsFound DEF Abstract!sem_enqueue_waiter
<1>2. CASE Found(s) /\ waits[t] # s
  <2>1. Refuse("SEM_ERR_TASK")
    BY <1>2 DEF sem_enqueue_waiter
  <2> QED BY <1>2, <2>1, RefuseRefines, ExistsIsFound DEF Abstract!sem_enqueue_waiter
<1>3. CASE Found(s) /\ waits[t] = s
  <2>1. PICK sem \in SemRecord :
          /\ sem = semaphore_table[SlotOf(s)] /\ Ring(sem) /\ sem.count <= sem.max_count
          /\ IdCount[s] = sem.count /\ IdQueue[s] = Contents(sem)
    BY <1>3, ExistsIsFound
  <2>2. sem.wait_count \in 0..MaxTasks /\ Len(IdQueue[s]) = sem.wait_count
    BY <2>1, ContentsType DEF SemRecord
  <2>3. CASE sem.wait_count = MaxTasks
    <3>1. Refuse("SEM_ERR_OVERFLOW")
      BY <1>3, <2>1, <2>3, SemaphoreAssumption DEF sem_enqueue_waiter
    <3> QED BY <1>3, <2>2, <2>3, <3>1, RefuseRefines, ExistsIsFound
            DEF Abstract!sem_enqueue_waiter
  <2>4. CASE sem.wait_count < MaxTasks
    <3>1. PICK new : new = WithTail(sem, t)
      OBVIOUS
    <3>2. Store(s, new, NoTask)
      <4>1. ~(sem.wait_count >= MaxTasks)
        BY <2>2, <2>4, SemaphoreAssumption
      <4> QED BY <1>3, <2>1, <4>1, <3>1 DEF sem_enqueue_waiter, WithTail
    <3>3. /\ new \in SemRecord /\ Ring(new) /\ new.id = sem.id
          /\ new.count = sem.count /\ new.max_count = sem.max_count
          /\ Contents(new) = Append(Contents(sem), t)
      BY <2>1, <2>4, <3>1, EnqueueRing
    <3>4. /\ SemInv' /\ IdMax' = IdMax /\ IdCount' = [IdCount EXCEPT ![s] = new.count]
          /\ IdQueue' = [IdQueue EXCEPT ![s] = Contents(new)]
          /\ answer' = [code |-> "SEM_OK", value |-> NoTask] /\ waits' = waits
      BY <1>3, <2>1, <3>2, <3>3, StoreKeeps
    <3>5. IdCount' = IdCount
      BY <2>1, <3>3, <3>4, MeaningType
    <3>6. IdQueue' = [IdQueue EXCEPT ![s] = Append(@, t)]
      BY <2>1, <3>3, <3>4
    <3> QED BY <1>3, <2>2, <2>4, <3>4, <3>5, <3>6, ExistsIsFound
            DEF Abstract!sem_enqueue_waiter, Abstract!Answer
  <2> QED BY <2>2, <2>3, <2>4, SemaphoreAssumption
<1> QED BY <1>1, <1>2, <1>3

\* sem_dequeue_waiter()
LEMMA DequeueRefines ==
  ASSUME SemInv, NEW s \in 0..MaxSems, sem_dequeue_waiter(s)
  PROVE  SemInv' /\ Abstract!sem_dequeue_waiter(s)
<1>1. CASE ~Found(s)
  <2>1. Refuse("SEM_ERR_INVAL")
    BY <1>1 DEF sem_dequeue_waiter
  <2> QED BY <1>1, <2>1, RefuseRefines, ExistsIsFound DEF Abstract!sem_dequeue_waiter
<1>2. CASE Found(s)
  <2>1. PICK sem \in SemRecord :
          /\ sem = semaphore_table[SlotOf(s)] /\ Ring(sem) /\ sem.count <= sem.max_count
          /\ IdCount[s] = sem.count /\ IdQueue[s] = Contents(sem)
    BY <1>2, ExistsIsFound
  <2>2. /\ sem.wait_count \in Nat /\ Len(IdQueue[s]) = sem.wait_count
        /\ IdQueue[s] \in Seq(Task)
    BY <2>1, ContentsType, SemaphoreAssumption DEF SemRecord
  <2>3. CASE sem.wait_count = 0
    <3>1. Refuse("SEM_WAIT_QUEUE_EMPTY")
      BY <1>2, <2>1, <2>3 DEF sem_dequeue_waiter
    <3>2. IdQueue[s] = <<>>
      BY <2>2, <2>3
    <3> QED BY <1>2, <3>1, <3>2, RefuseRefines, ExistsIsFound
            DEF Abstract!sem_dequeue_waiter
  <2>4. CASE sem.wait_count > 0
    <3>1. PICK new : new = WithoutHead(sem)
      OBVIOUS
    <3>2. Store(s, new, sem.wait_queue[sem.wait_head])
      <4>1. ~(sem.wait_count <= 0)
        BY <2>2, <2>4
      <4> QED BY <1>2, <2>1, <4>1, <3>1 DEF sem_dequeue_waiter
    <3>3. /\ new \in SemRecord /\ Ring(new) /\ new.id = sem.id
          /\ new.count = sem.count /\ new.max_count = sem.max_count
          /\ Contents(sem) # <<>> /\ Contents(new) = Tail(Contents(sem))
          /\ sem.wait_queue[sem.wait_head] = Head(Contents(sem))
      BY <2>1, <2>4, <3>1, DequeueRing
    <3>4. /\ SemInv' /\ IdMax' = IdMax /\ IdCount' = [IdCount EXCEPT ![s] = new.count]
          /\ IdQueue' = [IdQueue EXCEPT ![s] = Contents(new)]
          /\ answer' = [code |-> "SEM_OK", value |-> sem.wait_queue[sem.wait_head]]
          /\ waits' = waits
      BY <1>2, <2>1, <3>2, <3>3, StoreKeeps
    <3>5. IdCount' = IdCount
      BY <2>1, <3>3, <3>4, MeaningType
    <3>6. IdQueue' = [IdQueue EXCEPT ![s] = Tail(@)]
      BY <2>1, <3>3, <3>4
    <3> QED BY <1>2, <2>1, <3>3, <3>4, <3>5, <3>6, ExistsIsFound
            DEF Abstract!sem_dequeue_waiter, Abstract!Answer
  <2> QED BY <2>2, <2>3, <2>4
<1> QED BY <1>1, <1>2

\* sem_remove_waiter()
LEMMA RemoveRefines ==
  ASSUME SemInv, NEW s \in 0..MaxSems, NEW t \in Task, sem_remove_waiter(s, t)
  PROVE  SemInv' /\ Abstract!sem_remove_waiter(s, t)
<1>1. CASE ~Found(s)
  <2>1. Refuse("SEM_ERR_INVAL")
    BY <1>1 DEF sem_remove_waiter
  <2> QED BY <1>1, <2>1, RefuseRefines, ExistsIsFound DEF Abstract!sem_remove_waiter
<1>2. CASE Found(s)
  <2>1. PICK sem \in SemRecord :
          /\ sem = semaphore_table[SlotOf(s)] /\ Ring(sem) /\ sem.count <= sem.max_count
          /\ IdCount[s] = sem.count /\ IdQueue[s] = Contents(sem)
    BY <1>2, ExistsIsFound
  <2>2. /\ sem.wait_count \in Nat /\ Len(Contents(sem)) = sem.wait_count
        /\ \A k \in 0..(sem.wait_count - 1) : Contents(sem)[k + 1] = Waiter(sem, k)
    BY <2>1, ContentsType, SemaphoreAssumption DEF SemRecord
  <2>3. PICK hits : hits = {i \in 0..(sem.wait_count - 1) : Waiter(sem, i) = t}
    OBVIOUS
  <2>4. \A k \in 0..(sem.wait_count - 1) : k \in hits <=> Contents(sem)[k + 1] = t
    BY <2>2, <2>3
  <2>5. CASE hits = {}
    <3>1. Refuse("SEM_WAIT_QUEUE_EMPTY")
      BY <1>2, <2>1, <2>3, <2>5 DEF sem_remove_waiter
    <3>2. ASSUME NEW i \in 1..Len(Contents(sem)) PROVE Contents(sem)[i] # t
      <4>1. i - 1 \in 0..(sem.wait_count - 1) /\ (i - 1) + 1 = i
        BY <2>2
      <4> QED BY <2>4, <2>5, <4>1
    <3>3. ~Abstract!InSeq(IdQueue[s], t)
      BY <2>1, <3>2 DEF Abstract!InSeq
    <3> QED BY <1>2, <3>1, <3>3, RefuseRefines, ExistsIsFound
            DEF Abstract!sem_remove_waiter
  <2>6. CASE hits # {}
    <3>1. PICK k \in hits : (\A i \in hits : k <= i) /\ Store(s, WithoutWaiter(sem, k), NoTask)
      BY <1>2, <2>1, <2>3, <2>6 DEF sem_remove_waiter
    <3>2. PICK new : new = WithoutWaiter(sem, k)
      OBVIOUS
    <3>3. k \in 0..(sem.wait_count - 1)
      BY <2>3
    <3>4. /\ new \in SemRecord /\ Ring(new) /\ new.id = sem.id
          /\ new.count = sem.count /\ new.max_count = sem.max_count
          /\ Contents(new) = Abstract!Drop(Contents(sem), k + 1)
      BY <2>1, <3>2, <3>3, RemoveRing
    <3>5. /\ SemInv' /\ IdMax' = IdMax /\ IdCount' = [IdCount EXCEPT ![s] = new.count]
          /\ IdQueue' = [IdQueue EXCEPT ![s] = Contents(new)]
          /\ answer' = [code |-> "SEM_OK", value |-> NoTask] /\ waits' = waits
      BY <1>2, <2>1, <3>1, <3>2, <3>4, StoreKeeps
    <3>6. IdCount' = IdCount
      BY <2>1, <3>4, <3>5, MeaningType
    <3>7. k + 1 \in 1..Len(Contents(sem)) /\ Contents(sem)[k + 1] = t
      BY <2>2, <2>4, <3>3
    <3>8. ASSUME NEW j \in 1..k PROVE Contents(sem)[j] # t
      <4>1. j - 1 \in 0..(sem.wait_count - 1) /\ (j - 1) + 1 = j /\ ~(k <= j - 1)
        BY <2>2, <3>3
      <4> QED BY <2>4, <3>1, <4>1
    <3>9. (CHOOSE i \in 1..Len(Contents(sem)) :
             /\ Contents(sem)[i] = t
             /\ \A j \in 1..(i - 1) : Contents(sem)[j] # t) = k + 1
      <4>1. \A j \in 1..((k + 1) - 1) : Contents(sem)[j] # t
        BY <3>3, <3>8
      <4>2. ASSUME NEW i \in 1..Len(Contents(sem)), Contents(sem)[i] = t,
                   \A j \in 1..(i - 1) : Contents(sem)[j] # t
            PROVE  i = k + 1
        <5>1. ~(i < k + 1)
          BY <3>3, <3>8, <4>2
        <5>2. ~(k + 1 < i)
          BY <2>2, <3>3, <3>7, <4>2
        <5> QED BY <2>2, <3>3, <5>1, <5>2
      <4> HIDE DEF Contents
      <4> QED BY <3>7, <4>1, <4>2
    <3>10. IdQueue' = [IdQueue EXCEPT ![s] = Abstract!RemoveWaiter(@, t)]
      BY <2>1, <3>4, <3>5, <3>9 DEF Abstract!RemoveWaiter
    <3>11. Abstract!InSeq(IdQueue[s], t)
      BY <2>1, <3>7 DEF Abstract!InSeq
    <3> QED BY <1>2, <3>5, <3>6, <3>10, <3>11, ExistsIsFound
            DEF Abstract!sem_remove_waiter, Abstract!Answer
  <2> QED BY <2>5, <2>6
<1> QED BY <1>1, <1>2

\* sem_init()
LEMMA InitRefines ==
  ASSUME SemInv, sem_init
  PROVE  SemInv' /\ Abstract!sem_init
<1>1. /\ semaphore_table' = [i \in Slot |-> Blank(0, 0, 0)] /\ next_sem_id' = 1
      /\ answer' = [code |-> "SEM_OK", value |-> NoTask] /\ waits' = waits
  BY DEF sem_init, Answer
<1>2. waits' \in [Task -> 0..MaxSems]
  BY <1>1 DEF SemInv, TypeOK
<1>3. PICK b : b = Blank(0, 0, 0)
  OBVIOUS
<1>4. /\ b \in SemRecord /\ Ring(b) /\ b.id = 0 /\ b.count = 0 /\ b.max_count = 0
      /\ b.wait_count = 0 /\ Contents(b) = <<>>
  BY <1>3, BlankRing
<1>5. \A i \in Slot : SlotInv(semaphore_table'[i], i, next_sem_id')
  BY <1>1, <1>3, <1>4 DEF SlotInv, Slot
<1>6. SemInv'
  BY <1>1, <1>2, <1>3, <1>4, <1>5, InvBySlotsNext, SemaphoreAssumption
<1>7. ASSUME NEW s \in 1..MaxSems PROVE IdMax'[s] = 0 /\ IdCount'[s] = 0 /\ IdQueue'[s] = <<>>
  <2>1. PICK i \in Slot : s = i + 1
    BY SemaphoreAssumption DEF Slot
  <2> QED BY <1>1, <1>3, <1>4, <1>6, <2>1, MeaningNext
<1>8. /\ IdMax' = [s \in 1..MaxSems |-> IdMax'[s]]
      /\ IdCount' = [s \in 1..MaxSems |-> IdCount'[s]]
      /\ IdQueue' = [s \in 1..MaxSems |-> IdQueue'[s]]
  BY DEF IdMax, IdCount, IdQueue
<1> QED BY <1>1, <1>6, <1>7, <1>8 DEF Abstract!sem_init, Abstract!Id, Abstract!Answer

\* find_free_semaphore_slot() finds the slot of the next ID.
LEMMA FreeSlotIsNext ==
  ASSUME SemInv, NEW i \in FreeSlots, \A j \in FreeSlots : i <= j
  PROVE  i \in Slot /\ i + 1 = next_sem_id
<1>1. /\ \A j \in Slot : semaphore_table[j].id = IF j + 1 < next_sem_id THEN j + 1 ELSE 0
      /\ next_sem_id \in 1..(MaxSems + 1)
  BY DEF SemInv, SlotsInOrder
<1>2. i \in Slot /\ i \in Int /\ ~(i + 1 < next_sem_id)
  BY <1>1, SemaphoreAssumption DEF FreeSlots, Slot
<1>3. PICK j \in Slot : j + 1 = next_sem_id
  BY <1>1, <1>2, SemaphoreAssumption DEF Slot
<1>4. j \in FreeSlots /\ j \in Int
  BY <1>1, <1>3, SemaphoreAssumption DEF FreeSlots, Slot
<1> QED BY <1>1, <1>2, <1>3, <1>4

\* sem_create()
LEMMA CreateRefines ==
  ASSUME SemInv, NEW m \in 0..MaxCount, NEW init \in 0..MaxCount, sem_create(init, m)
  PROVE  SemInv' /\ Abstract!sem_create(init, m)
<1>0. m \in Nat /\ init \in Nat
  BY SemaphoreAssumption
<1>1. CASE m = 0 \/ init > m
  <2>1. Refuse("SEM_ERR_INVAL")
    BY <1>0, <1>1 DEF sem_create
  <2> QED BY <1>1, <2>1, RefuseRefines DEF Abstract!sem_create
<1>2. ASSUME m > 0, init <= m, FreeSlots = {}
      PROVE  SemInv' /\ Abstract!sem_create(init, m)
  <2>1. Refuse("SEM_ERR_FULL")
    BY <1>0, <1>2 DEF sem_create
  <2>2. ASSUME NEW s \in 1..MaxSems PROVE Abstract!Exists(s)
    <3>1. PICK i \in Slot : s = i + 1
      BY SemaphoreAssumption DEF Slot
    <3>2. semaphore_table[i].id # 0
      BY <1>2 DEF FreeSlots
    <3>3. semaphore_table[i].max_count > 0
      BY <3>2, InvBySlots DEF SlotInv
    <3> QED BY <3>1, <3>3, Meaning DEF Abstract!Exists, Abstract!Id
  <2> QED BY <1>2, <2>1, <2>2, RefuseRefines DEF Abstract!sem_create, Abstract!Id
<1>3. ASSUME m > 0, init <= m, FreeSlots # {}
      PROVE  SemInv' /\ Abstract!sem_create(init, m)
  <2>1. next_sem_id \in 1..(MaxSems + 1) /\ CanAllocate
    BY SemaphoreAssumption DEF SemInv, SlotsInOrder, CanAllocate
  <2>2. PICK i \in FreeSlots :
          /\ \A j \in FreeSlots : i <= j
          /\ semaphore_table' = [semaphore_table EXCEPT ![i] = Blank(next_sem_id, init, m)]
          /\ next_sem_id' = next_sem_id + 1
          /\ answer' = [code |-> "SEM_OK", value |-> next_sem_id]
          /\ waits' = waits
    BY <1>0, <1>3, <2>1 DEF sem_create, Answer
  <2>3. i \in Slot /\ i + 1 = next_sem_id /\ semaphore_table[i].id = 0
    BY <2>2, FreeSlotIsNext DEF FreeSlots
  <2>4. PICK new : new = Blank(next_sem_id, init, m)
    OBVIOUS
  <2>5. /\ new \in SemRecord /\ Ring(new) /\ new.id = next_sem_id /\ new.count = init
        /\ new.max_count = m /\ new.wait_count = 0 /\ Contents(new) = <<>>
    BY <1>0, <2>1, <2>4, BlankRing, SemaphoreAssumption
  <2>6. semaphore_table \in [Slot -> SemRecord] /\ waits \in [Task -> 0..MaxSems]
    BY InvBySlots
  <2>7. ASSUME NEW j \in Slot PROVE SlotInv(semaphore_table'[j], j, next_sem_id')
    <3>1. semaphore_table'[j] = IF j = i THEN new ELSE semaphore_table[j]
      BY <2>2, <2>3, <2>4, <2>6
    <3>2. CASE j = i
      BY <1>3, <2>1, <2>2, <2>3, <2>5, <3>1, <3>2 DEF SlotInv
    <3>3. CASE j # i
      <4>1. SlotInv(semaphore_table[j], j, next_sem_id)
        BY InvBySlots
      <4>2. j + 1 < next_sem_id' <=> j + 1 < next_sem_id
        BY <2>1, <2>2, <2>3, <3>3 DEF Slot
      <4> QED BY <3>1, <3>3, <4>1, <4>2 DEF SlotInv
    <3> QED BY <3>2, <3>3
  <2>8. semaphore_table' \in [Slot -> SemRecord] /\ next_sem_id' \in 1..(MaxSems + 1)
    BY <2>1, <2>2, <2>3, <2>4, <2>5, <2>6, SemaphoreAssumption DEF Slot
  <2>9. SemInv'
    BY <2>2, <2>6, <2>7, <2>8, InvBySlotsNext
  <2>10. /\ IdMax' = [IdMax EXCEPT ![i + 1] = m]
         /\ IdCount' = [IdCount EXCEPT ![i + 1] = init]
         /\ IdQueue' = [IdQueue EXCEPT ![i + 1] = <<>>]
    <3>1. semaphore_table' = [semaphore_table EXCEPT ![i] = new]
      BY <2>2, <2>4
    <3>2. /\ IdMax' = [IdMax EXCEPT ![i + 1] = new.max_count]
          /\ IdCount' = [IdCount EXCEPT ![i + 1] = new.count]
          /\ IdQueue' = [IdQueue EXCEPT ![i + 1] = Contents(new)]
      BY <2>3, <2>9, <3>1, OneWritten
    <3> QED BY <2>5, <3>2
  <2>11. i + 1 \in 1..MaxSems /\ ~Abstract!Exists(i + 1)
    <3>1. semaphore_table[i].max_count = 0
      BY <2>3, InvBySlots DEF SlotInv
    <3> QED BY <2>3, <3>1, Meaning DEF Abstract!Exists
  <2> QED BY <1>3, <2>2, <2>3, <2>9, <2>10, <2>11
          DEF Abstract!sem_create, Abstract!Id, Abstract!Answer
<1> QED BY <1>0, <1>1, <1>2, <1>3

\* A task is in a ring if and only if it is in a queue.
LEMMA QueuedIsQueued ==
  ASSUME SemInv, NEW t \in Task
  PROVE  Queued(t) <=> Abstract!Queued(t)
<1>1. ASSUME NEW i \in Slot
      PROVE  /\ (\E c \in Cell : semaphore_table[i].wait_queue[c] = t)
                  <=> Abstract!InSeq(IdQueue[i + 1], t)
             /\ i + 1 \in 1..MaxSems
  <2>1. PICK sem \in SemRecord : sem = semaphore_table[i] /\ Ring(sem)
    BY InvBySlots DEF SlotInv
  <2>2. IdQueue[i + 1] = Contents(sem) /\ i + 1 \in 1..MaxSems
    BY <2>1, Meaning
  <2> QED BY <2>1, <2>2, CellsAreContents
<1>2. \A s \in 1..MaxSems : \E i \in Slot : s = i + 1
  BY SemaphoreAssumption DEF Slot
<1> QED BY <1>1, <1>2 DEF Queued, Abstract!Queued, Abstract!Id

\* The task module's part.
LEMMA TaskStateRefines ==
  ASSUME SemInv, NEW s \in 0..MaxSems, NEW t \in Task, TaskState(t, s)
  PROVE  SemInv' /\ Abstract!TaskState(t, s)
<1>1. /\ semaphore_table' = semaphore_table /\ next_sem_id' = next_sem_id
      /\ waits' = [waits EXCEPT ![t] = s] /\ answer' = answer /\ ~Queued(t)
  BY DEF TaskState
<1>2. SemInv'
  BY <1>1, InvBySlots, InvBySlotsNext
<1>3. IdMax' = IdMax /\ IdCount' = IdCount /\ IdQueue' = IdQueue
  BY <1>1, <1>2, NothingWritten
<1> QED BY <1>1, <1>2, <1>3, QueuedIsQueued DEF Abstract!TaskState, Abstract!semVars

-----------------------------------------------------------------------------
(***************************************************************************)
(* The theorems.                                                           *)
(***************************************************************************)

\* The table as sem_init() leaves it at boot.
LEMMA InitSem == Init => SemInv /\ Abstract!Init
<1> SUFFICES ASSUME Init PROVE SemInv /\ Abstract!Init
  OBVIOUS
<1>1. /\ semaphore_table = [i \in Slot |-> Blank(0, 0, 0)] /\ next_sem_id = 1
      /\ waits = [t \in Task |-> 0] /\ answer = [code |-> "SEM_OK", value |-> NoTask]
  BY DEF Init
<1>2. PICK b : b = Blank(0, 0, 0)
  OBVIOUS
<1>3. /\ b \in SemRecord /\ Ring(b) /\ b.id = 0 /\ b.count = 0 /\ b.max_count = 0
      /\ b.wait_count = 0 /\ Contents(b) = <<>>
  BY <1>2, BlankRing
<1>4. \A i \in Slot : SlotInv(semaphore_table[i], i, next_sem_id)
  BY <1>1, <1>2, <1>3 DEF SlotInv, Slot
<1>5. SemInv
  BY <1>1, <1>2, <1>3, <1>4, InvBySlots, SemaphoreAssumption
<1>6. ASSUME NEW s \in 1..MaxSems PROVE IdMax[s] = 0 /\ IdCount[s] = 0 /\ IdQueue[s] = <<>>
  <2>1. PICK i \in Slot : s = i + 1
    BY SemaphoreAssumption DEF Slot
  <2> QED BY <1>1, <1>2, <1>3, <1>5, <2>1, Meaning
<1> QED BY <1>1, <1>5, <1>6, MeaningType DEF Abstract!Init, Abstract!Id

\* Every step keeps the invariant and is a step of SemaphoreSpec, or none.
LEMMA StepSem == SemInv /\ [Next]_vars => SemInv' /\ [Abstract!Next]_Abstract!vars
<1> SUFFICES ASSUME SemInv, [Next]_vars PROVE SemInv' /\ [Abstract!Next]_Abstract!vars
  OBVIOUS
<1>1. CASE sem_init
  BY <1>1, InitRefines DEF Abstract!Next
<1>2. ASSUME NEW m \in 0..MaxCount, NEW init \in 0..MaxCount, sem_create(init, m)
      PROVE  SemInv' /\ Abstract!Next
  BY <1>2, CreateRefines DEF Abstract!Next
<1>3. ASSUME NEW s \in 0..MaxSems, sem_take_if_available(s)
      PROVE  SemInv' /\ Abstract!Next
  BY <1>3, TakeRefines DEF Abstract!Next
<1>4. ASSUME NEW s \in 0..MaxSems, sem_increment_count(s)
      PROVE  SemInv' /\ Abstract!Next
  BY <1>4, IncrementRefines DEF Abstract!Next
<1>5. ASSUME NEW s \in 0..MaxSems, sem_dequeue_waiter(s)
      PROVE  SemInv' /\ Abstract!Next
  BY <1>5, DequeueRefines DEF Abstract!Next
<1>6. ASSUME NEW s \in 0..MaxSems, NEW t \in Task, ~Queued(t), sem_enqueue_waiter(s, t)
      PROVE  SemInv' /\ Abstract!Next
  BY <1>6, EnqueueRefines, QueuedIsQueued DEF Abstract!Next
<1>7. ASSUME NEW s \in 0..MaxSems, NEW t \in Task, sem_remove_waiter(s, t)
      PROVE  SemInv' /\ Abstract!Next
  BY <1>7, RemoveRefines DEF Abstract!Next
<1>8. ASSUME NEW s \in 0..MaxSems, NEW t \in Task, TaskState(t, s)
      PROVE  SemInv' /\ Abstract!Next
  BY <1>8, TaskStateRefines DEF Abstract!Next
<1>9. CASE UNCHANGED vars
  BY <1>9, RefuseKeeps DEF vars, Abstract!vars
<1> QED BY <1>1, <1>2, <1>3, <1>4, <1>5, <1>6, <1>7, <1>8, <1>9 DEF Next

\* The inductive invariant holds of every table semaphore.c can reach.
LEMMA SemInvariance == Spec => []SemInv
<1>1. Init => SemInv
  BY InitSem
<1>2. SemInv /\ [Next]_vars => SemInv'
  BY StepSem
<1> QED BY <1>1, <1>2, PTL DEF Spec

\* Every field of semaphore_table stays in its type: head and tail are indices
\* of the ring, and no ring claims more waiters than it has cells.
THEOREM SemTyping == Spec => []TypeOK
<1>1. SemInv => TypeOK
  BY DEF SemInv
<1> QED BY <1>1, SemInvariance, PTL

\* Through every wrap of the head and every rebuild by sem_remove_waiter(), the
\* cells from head to tail, and no others, hold tasks.
THEOREM RingsKeepShape == Spec => []RingShape
<1>1. SemInv => RingShape
  BY DEF SemInv
<1> QED BY <1>1, SemInvariance, PTL

\* find_semaphore_by_id() never has two semaphores to choose from.
THEOREM SemIdsUnique == Spec => []IdsAreUnique
<1>1. SemInv => IdsAreUnique
  <2> SUFFICES ASSUME SemInv, NEW i \in Slot, NEW j \in Slot, semaphore_table[i].id # 0
               PROVE  /\ semaphore_table[i].id < next_sem_id
                      /\ i # j => semaphore_table[i].id # semaphore_table[j].id
    BY DEF IdsAreUnique
  <2>1. /\ semaphore_table[i].id = IF i + 1 < next_sem_id THEN i + 1 ELSE 0
        /\ semaphore_table[j].id = IF j + 1 < next_sem_id THEN j + 1 ELSE 0
    BY DEF SemInv, SlotsInOrder
  <2>2. i \in Int /\ j \in Int /\ i >= 0 /\ j >= 0
    BY DEF Slot
  <2> QED BY <2>1, <2>2
<1> QED BY <1>1, SemInvariance, PTL

\* The table of rings implements SemaphoreSpec, whose queues module Kernel uses:
\* every call of semaphore.c answers and changes the semaphores as promised.
THEOREM RingsImplementQueues == Spec => ImplementsQueues
<1>1. Init => Abstract!Init
  BY InitSem
<1>2. SemInv /\ [Next]_vars => [Abstract!Next]_Abstract!vars
  BY StepSem
<1> QED BY <1>1, <1>2, SemInvariance, PTL DEF Spec, ImplementsQueues, Abstract!Spec

=============================================================================
