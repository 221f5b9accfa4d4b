-------------------------- MODULE DelayQueue_proofs --------------------------
(***************************************************************************)
(* The array of delay_queue.c implements the list of DelayQueueSpec, its   *)
(* tick loop one step of it: for every MAX_TASKS and set of tasks.         *)
(***************************************************************************)
EXTENDS DelayQueue, FiniteSetTheorems, SequenceTheorems, WellFoundedInduction, TLAPS

Entry == [task_id : Task \cup {NoTask}, remaining : 0..MaxDelay]

\* An entry in use waits for a task, and has a tick left at least.
Used == [task_id : Task, remaining : 1..MaxDelay]
Item == [task : Task, rem : 1..MaxDelay]

\* An item of the list and the entry it is stored in.
Stored(e) == [task_id |-> e.task, remaining |-> e.rem]

\* The cells below the count are in use, the others are cleared.
CellsInUse ==
  \A i \in Cell : IF i < delay_queue_count THEN delay_queue_entries[i] \in Used
                                           ELSE delay_queue_entries[i] = Empty

\* The places of the items of b that stay and of those that go.
Early(b) == {j \in 1..Len(b) : b[j].rem > 1}
Late(b) == {j \in 1..Len(b) : b[j].rem <= 1}

\* The items of the list at its beginning that a tick has looked at.
Done == index + Len(hand)

\* Cell n - 1 holds the n-th item that stays, with a tick less.
KeptSoFar(b) ==
  /\ Abstract!Rank(Early(b), Done) = index
  /\ \A n \in 1..index :
       \E j \in Early(b) : /\ Abstract!Rank(Early(b), j) = n
                           /\ delay_queue_entries[n - 1] =
                                [task_id |-> b[j].task, remaining |-> b[j].rem - 1]

\* The n-th task handed on is that of the n-th item that goes.
HandedSoFar(b) ==
  /\ Abstract!Rank(Late(b), Done) = Len(hand)
  /\ \A n \in 1..Len(hand) :
       \E j \in Late(b) : Abstract!Rank(Late(b), j) = n /\ hand[n] = b[j].task

\* The cells the loop has still to look at hold the rest of the list.
RestOf(b) ==
  \A i \in index..(delay_queue_count - 1) :
    delay_queue_entries[i] = Stored(b[(i + Len(hand)) + 1])

\* In the middle of a tick.
LoopInv ==
  index >= 0 =>
    /\ before.list \in Seq(Item) /\ hand \in Seq(Task)
    /\ Len(before.list) = delay_queue_count + Len(hand) /\ index <= delay_queue_count
    /\ KeptSoFar(before.list) /\ HandedSoFar(before.list) /\ RestOf(before.list)
    /\ reason = [t \in Task |-> IF Abstract!InSeq(hand, t) THEN "NONE" ELSE before.reason[t]]

\* The inductive invariant.
ArrayInv == TypeOK /\ CellsInUse /\ LoopInv

-----------------------------------------------------------------------------
(***************************************************************************)
(* Counting places.                                                        *)
(***************************************************************************)

Upto(S, j) == {i \in S : i <= j}

\* The elements of a set of places up to j can be counted.
LEMMA RankType ==
  ASSUME NEW N \in Nat, NEW S, S \subseteq 1..N, NEW j
  PROVE  /\ IsFiniteSet(Upto(S, j)) /\ IsFiniteSet(S)
         /\ Abstract!Rank(S, j) = Cardinality(Upto(S, j))
         /\ Abstract!Rank(S, j) \in Nat
<1>1. IsFiniteSet(1..N)
  BY FS_Interval
<1>2. IsFiniteSet(S)
  <2>1. S \in SUBSET (1..N)
    OBVIOUS
  <2> QED BY <1>1, <2>1, FS_Subset
<1>3. Upto(S, j) \in SUBSET S
  BY DEF Upto
<1>4. IsFiniteSet(Upto(S, j))
  BY <1>2, <1>3, FS_Subset
<1>5. Abstract!Rank(S, j) = Cardinality(Upto(S, j))
  BY DEF Abstract!Rank, Upto, Abstract!Cardinality, Cardinality
<1> QED BY <1>2, <1>4, <1>5, FS_CardinalityType

\* Nothing comes before the first place, everything up to the last.
LEMMA RankEnds ==
  ASSUME NEW N \in Nat, NEW S, S \subseteq 1..N
  PROVE  Abstract!Rank(S, 0) = 0 /\ Abstract!Rank(S, N) = Cardinality(S)
<1>1. \A x \in S : ~(x <= 0) /\ x <= N
  OBVIOUS
<1>2. Upto(S, 0) = {}
  BY <1>1, Zenon DEF Upto
<1>3. Upto(S, N) = S
  BY <1>1, Zenon DEF Upto
<1> QED BY <1>2, <1>3, RankType, FS_EmptySet

\* One place further the rank is that of the next element, or the same.
LEMMA RankStep ==
  ASSUME NEW N \in Nat, NEW S, S \subseteq 1..N, NEW k \in Nat
  PROVE  Abstract!Rank(S, k + 1) = IF k + 1 \in S THEN Abstract!Rank(S, k) + 1
                                   ELSE Abstract!Rank(S, k)
<1>1. ASSUME NEW x \in S PROVE x <= k + 1 <=> x <= k \/ x = k + 1
  <2>1. x \in Int
    OBVIOUS
  <2> QED BY <2>1
<1>2. k + 1 <= k + 1 /\ ~(k + 1 <= k)
  OBVIOUS
<1>3. CASE k + 1 \in S
  <2>1. Upto(S, k + 1) = Upto(S, k) \cup {k + 1} /\ k + 1 \notin Upto(S, k)
    BY <1>1, <1>2, <1>3, Zenon DEF Upto
  <2>2. Cardinality(Upto(S, k + 1)) = Cardinality(Upto(S, k)) + 1
    BY <2>1, RankType, FS_AddElement
  <2> QED BY <1>3, <2>2, RankType
<1>4. CASE k + 1 \notin S
  <2>1. Upto(S, k + 1) = Upto(S, k)
    BY <1>1, <1>2, <1>4, Zenon DEF Upto
  <2> QED BY <1>4, <2>1, RankType
<1> QED BY <1>3, <1>4

\* A later element has a higher rank.
LEMMA RankGrows ==
  ASSUME NEW N \in Nat, NEW S, S \subseteq 1..N, NEW i \in S, NEW j \in S, i < j
  PROVE  Abstract!Rank(S, i) < Abstract!Rank(S, j)
<1>1. i \in Int /\ j \in Int
  OBVIOUS
<1>2. ASSUME NEW x \in S PROVE x <= i => x <= j
  <2>1. x \in Int
    OBVIOUS
  <2> QED BY <1>1, <2>1
<1>3. j <= j /\ ~(j <= i)
  BY <1>1
<1>4. Upto(S, i) \in SUBSET Upto(S, j) /\ Upto(S, j) # Upto(S, i)
  BY <1>2, <1>3, Zenon DEF Upto
<1>5. /\ IsFiniteSet(Upto(S, j)) /\ Abstract!Rank(S, j) = Cardinality(Upto(S, j))
      /\ Abstract!Rank(S, i) = Cardinality(Upto(S, i))
      /\ Abstract!Rank(S, i) \in Nat /\ Abstract!Rank(S, j) \in Nat
  BY RankType
<1>6. Cardinality(Upto(S, i)) <= Cardinality(Upto(S, j))
      /\ Cardinality(Upto(S, i)) # Cardinality(Upto(S, j))
  BY <1>4, <1>5, FS_Subset
<1> QED BY <1>5, <1>6

\* The n-th element is the one of rank n.
LEMMA NthIsOfRank ==
  ASSUME NEW N \in Nat, NEW S, S \subseteq 1..N, NEW j \in S
  PROVE  Abstract!Nth(S, Abstract!Rank(S, j)) = j
<1>1. ASSUME NEW i \in S, Abstract!Rank(S, i) = Abstract!Rank(S, j) PROVE i = j
  <2>1. i \in Nat /\ j \in Nat
    OBVIOUS
  <2>2. Abstract!Rank(S, i) \in Nat /\ Abstract!Rank(S, j) \in Nat
    BY <2>1, RankType
  <2>3. ~(i < j)
    <3> SUFFICES ASSUME i < j PROVE FALSE
      OBVIOUS
    <3>1. Abstract!Rank(S, i) < Abstract!Rank(S, j)
      BY RankGrows
    <3> QED BY <1>1, <2>2, <3>1
  <2>4. ~(j < i)
    <3> SUFFICES ASSUME j < i PROVE FALSE
      OBVIOUS
    <3>1. Abstract!Rank(S, j) < Abstract!Rank(S, i)
      BY RankGrows
    <3> QED BY <1>1, <2>2, <3>1
  <2> QED BY <2>1, <2>3, <2>4
<1> QED BY <1>1 DEF Abstract!Nth

\* A set of cells that is not empty has a least one.
LEMMA LeastCell ==
  ASSUME NEW T, T \subseteq Nat, T # {}
  PROVE  \E i \in T : \A j \in 0..(i - 1) : j \notin T
<1> DEFINE R == OpToRel(<, Nat)
<1>1. IsWellFoundedOn(R, Nat)
  BY NatLessThanWellFounded
<1>2. \A a, b \in Nat : a < b => <<a, b>> \in R
  BY DEF OpToRel
<1> HIDE DEF R
<1>3. PICK i \in T : \A j \in T : ~(<<j, i>> \in R)
  BY <1>1, WFMin
<1>4. i \in Nat /\ \A j \in T : ~(j < i)
  BY <1>2, <1>3
<1> QED BY <1>4

-----------------------------------------------------------------------------
(***************************************************************************)
(* The array as a list.                                                    *)
(***************************************************************************)

\* The list the array stands for.
LEMMA EntriesType ==
  TypeOK /\ CellsInUse =>
    /\ Entries \in Seq(Item) /\ Len(Entries) = delay_queue_count
    /\ \A i \in 0..(delay_queue_count - 1) :
         /\ i \in Cell /\ Entries[i + 1] \in Item
         /\ Entries[i + 1] = [task |-> delay_queue_entries[i].task_id,
                              rem |-> delay_queue_entries[i].remaining]
         /\ delay_queue_entries[i] = Stored(Entries[i + 1])
<1> SUFFICES ASSUME TypeOK, CellsInUse
             PROVE  /\ Entries \in Seq(Item) /\ Len(Entries) = delay_queue_count
                    /\ \A i \in 0..(delay_queue_count - 1) :
                         /\ i \in Cell /\ Entries[i + 1] \in Item
                         /\ Entries[i + 1] = [task |-> delay_queue_entries[i].task_id,
                                              rem |-> delay_queue_entries[i].remaining]
                         /\ delay_queue_entries[i] = Stored(Entries[i + 1])
  OBVIOUS
<1>1. delay_queue_count \in Nat /\ delay_queue_count <= MaxTasks
  BY DelayQueueAssumption DEF TypeOK
<1>2. ASSUME NEW i \in 0..(delay_queue_count - 1)
      PROVE  i \in Cell /\ delay_queue_entries[i] \in Used
  BY <1>1, DelayQueueAssumption DEF CellsInUse, Cell
<1>3. ASSUME NEW n \in 1..delay_queue_count
      PROVE  [task |-> delay_queue_entries[n - 1].task_id,
              rem |-> delay_queue_entries[n - 1].remaining] \in Item
  <2>1. n - 1 \in 0..(delay_queue_count - 1)
    BY <1>1
  <2> QED BY <1>2, <2>1 DEF Used, Item
<1>4. Entries = [n \in 1..delay_queue_count |->
                   [task |-> delay_queue_entries[n - 1].task_id,
                    rem |-> delay_queue_entries[n - 1].remaining]]
  BY DEF Entries
<1>5. Entries \in Seq(Item) /\ Len(Entries) = delay_queue_count
  BY <1>1, <1>3, <1>4
<1>6. ASSUME NEW i \in 0..(delay_queue_count - 1)
      PROVE  /\ i \in Cell /\ Entries[i + 1] \in Item
             /\ Entries[i + 1] = [task |-> delay_queue_entries[i].task_id,
                                  rem |-> delay_queue_entries[i].remaining]
             /\ delay_queue_entries[i] = Stored(Entries[i + 1])
  <2>1. i + 1 \in 1..delay_queue_count /\ (i + 1) - 1 = i
    BY <1>1
  <2>2. Entries[i + 1] = [task |-> delay_queue_entries[i].task_id,
                          rem |-> delay_queue_entries[i].remaining]
    BY <1>4, <2>1
  <2>3. delay_queue_entries[i] \in Used /\ i \in Cell
    BY <1>2
  <2>4. Entries[i + 1] \in Item
    BY <2>2, <2>3 DEF Item, Used
  <2>5. delay_queue_entries[i] = Stored(Entries[i + 1])
    BY <2>2, <2>3 DEF Stored, Used
  <2> QED BY <2>2, <2>3, <2>4, <2>5
<1> QED BY <1>5, <1>6

\* The same in the next state.
LEMMA EntriesTypeNext ==
  ASSUME TypeOK', CellsInUse'
  PROVE  /\ Entries' \in Seq(Item) /\ Len(Entries') = delay_queue_count'
         /\ \A i \in 0..(delay_queue_count' - 1) :
              Entries'[i + 1] = [task |-> delay_queue_entries'[i].task_id,
                                 rem |-> delay_queue_entries'[i].remaining]
<1>1. (TypeOK /\ CellsInUse =>
         /\ Entries \in Seq(Item) /\ Len(Entries) = delay_queue_count
         /\ \A i \in 0..(delay_queue_count - 1) :
              /\ i \in Cell /\ Entries[i + 1] \in Item
              /\ Entries[i + 1] = [task |-> delay_queue_entries[i].task_id,
                                   rem |-> delay_queue_entries[i].remaining]
              /\ delay_queue_entries[i] = Stored(Entries[i + 1]))'
  BY EntriesType, PTL
<1> QED BY <1>1

\* delay_queue_find_index_by_task_id() finds a task that is on the list.
LEMMA HasEntryIsListed ==
  ASSUME TypeOK, CellsInUse, NEW t \in Task
  PROVE  HasEntry(t) <=> \E n \in 1..Len(Entries) : Entries[n].task = t
<1>1. /\ Len(Entries) = delay_queue_count /\ delay_queue_count \in Nat
      /\ \A i \in 0..(delay_queue_count - 1) :
           i \in Cell /\ Entries[i + 1].task = delay_queue_entries[i].task_id
  <2>1. delay_queue_count \in Nat
    BY DelayQueueAssumption DEF TypeOK
  <2>2. /\ Len(Entries) = delay_queue_count
        /\ \A i \in 0..(delay_queue_count - 1) :
             /\ i \in Cell
             /\ Entries[i + 1] = [task |-> delay_queue_entries[i].task_id,
                                  rem |-> delay_queue_entries[i].remaining]
    BY EntriesType
  <2>3. ASSUME NEW i \in 0..(delay_queue_count - 1)
        PROVE  i \in Cell /\ Entries[i + 1].task = delay_queue_entries[i].task_id
    <3>1. PICK e : e = Entries[i + 1]
      OBVIOUS
    <3>2. e = [task |-> delay_queue_entries[i].task_id,
               rem |-> delay_queue_entries[i].remaining]
      BY <2>2, <3>1
    <3> QED BY <2>2, <3>1, <3>2
  <2> QED BY <2>1, <2>2, <2>3
<1>2. ASSUME HasEntry(t) PROVE \E n \in 1..Len(Entries) : Entries[n].task = t
  <2>1. PICK i \in 0..(delay_queue_count - 1) : delay_queue_entries[i].task_id = t
    BY <1>2 DEF HasEntry, IsIndexOf
  <2>2. i + 1 \in 1..Len(Entries)
    BY <1>1
  <2> QED BY <1>1, <2>1, <2>2
<1>3. ASSUME NEW n \in 1..Len(Entries), Entries[n].task = t PROVE HasEntry(t)
  <2>1. PICK T : T = {i \in 0..(delay_queue_count - 1) : delay_queue_entries[i].task_id = t}
    OBVIOUS
  <2>2. n - 1 \in 0..(delay_queue_count - 1) /\ (n - 1) + 1 = n
    BY <1>1
  <2>3. T # {} /\ T \subseteq Nat
    <3>1. delay_queue_entries[n - 1].task_id = t
      BY <1>1, <1>3, <2>2
    <3>2. n - 1 \in T
      BY <2>1, <2>2, <3>1
    <3> QED BY <1>1, <2>1, <3>2
  <2>4. PICK i \in T : \A j \in 0..(i - 1) : j \notin T
    BY <2>3, LeastCell
  <2>5. i \in 0..(delay_queue_count - 1) /\ delay_queue_entries[i].task_id = t /\ i \in Cell
    BY <1>1, <2>1
  <2>6. ASSUME NEW j \in 0..(i - 1) PROVE delay_queue_entries[j].task_id # t
    <3>1. j \in 0..(delay_queue_count - 1)
      BY <1>1, <2>5
    <3> QED BY <2>1, <2>4, <3>1
  <2> QED BY <2>5, <2>6 DEF HasEntry, IsIndexOf
<1> QED BY <1>2, <1>3

-----------------------------------------------------------------------------
(***************************************************************************)
(* The calls outside a tick are those of DelayQueueSpec.                   *)
(***************************************************************************)

\* Entries of the array have the types of TypeOK, cleared ones too.
LEMMA EntryKinds ==
  /\ Used \subseteq Entry /\ Empty \in Entry /\ Empty \notin Used
  /\ TypeOK => delay_queue_entries \in [Cell -> Entry]
<1>1. Used \subseteq Entry
  BY DelayQueueAssumption DEF Used, Entry
<1>2. Empty \in Entry /\ Empty \notin Used
  BY DelayQueueAssumption DEF Used, Entry, Empty
<1> QED BY <1>1, <1>2 DEF TypeOK, Entry

\* A refused call changes only the answer.
LEMMA RefuseRefines ==
  ASSUME ArrayInv, index = -1, NEW code, Refuse(code)
  PROVE  ArrayInv' /\ Abstract!Refuse(code)
<1>1. /\ delay_queue_entries' = delay_queue_entries /\ delay_queue_count' = delay_queue_count
      /\ reason' = reason /\ index' = -1 /\ answer' = code /\ expired' = <<>>
  BY DEF Refuse, Answer, queue, loop
<1>2. TypeOK' /\ CellsInUse'
  BY <1>1 DEF ArrayInv, TypeOK, CellsInUse
<1>3. ArrayInv'
  BY <1>1, <1>2 DEF ArrayInv, LoopInv
<1>4. Entries' = Entries /\ ~InTick /\ ~InTick'
  BY <1>1 DEF Entries, InTick
<1> QED BY <1>1, <1>3, <1>4 DEF Abstract!Refuse, Abstract!Answer

\* delay_queue_enqueue() with room left.
LEMMA AppendEntry ==
  ASSUME ArrayInv, index = -1, NEW t \in Task, NEW n \in 1..MaxDelay,
         delay_queue_count < MaxTasks,
         delay_queue_entries' = [delay_queue_entries EXCEPT
                ![delay_queue_count] = [task_id |-> t, remaining |-> n]],
         delay_queue_count' = delay_queue_count + 1,
         index' = index, reason' = reason
  PROVE  ArrayInv' /\ Entries' = Append(Entries, [task |-> t, rem |-> n])
<1>1. PICK c \in Nat : c = delay_queue_count /\ c \in Cell /\ c + 1 <= MaxTasks
  BY DelayQueueAssumption DEF ArrayInv, TypeOK, Cell
<1>2. PICK e \in Used : e = [task_id |-> t, remaining |-> n]
  BY DEF Used
<1>3. /\ delay_queue_entries \in [Cell -> Entry]
      /\ delay_queue_entries' = [delay_queue_entries EXCEPT ![c] = e]
  BY <1>1, <1>2, EntryKinds DEF ArrayInv
<1>4. \A i \in Cell : delay_queue_entries'[i] = IF i = c THEN e ELSE delay_queue_entries[i]
  BY <1>1, <1>3
<1>5. delay_queue_entries' \in [Cell -> Entry]
  BY <1>1, <1>3, EntryKinds
<1>6. TypeOK'
  BY <1>1, <1>5, DelayQueueAssumption DEF ArrayInv, TypeOK, Entry
<1>7. CellsInUse'
  <2> SUFFICES ASSUME NEW i \in Cell
               PROVE  IF i < c + 1 THEN delay_queue_entries'[i] \in Used
                                   ELSE delay_queue_entries'[i] = Empty
    BY <1>1 DEF CellsInUse
  <2>1. IF i < c THEN delay_queue_entries[i] \in Used ELSE delay_queue_entries[i] = Empty
    BY <1>1 DEF ArrayInv, CellsInUse
  <2>2. i < c + 1 <=> i < c \/ i = c
    BY <1>1 DEF Cell
  <2> QED BY <1>1, <1>4, <2>1, <2>2
<1>8. ArrayInv'
  BY <1>6, <1>7 DEF ArrayInv, LoopInv
<1>9. /\ Entries \in Seq(Item) /\ Len(Entries) = c
      /\ \A i \in 0..(c - 1) :
           i \in Cell /\ Entries[i + 1] = [task |-> delay_queue_entries[i].task_id,
                                           rem |-> delay_queue_entries[i].remaining]
  BY <1>1, EntriesType DEF ArrayInv
<1>10. /\ Entries' \in Seq(Item) /\ Len(Entries') = c + 1
       /\ \A i \in 0..c :
            Entries'[i + 1] = [task |-> delay_queue_entries'[i].task_id,
                               rem |-> delay_queue_entries'[i].remaining]
  <2>1. 0..((c + 1) - 1) = 0..c
    OBVIOUS
  <2> QED BY <1>1, <1>6, <1>7, <2>1, EntriesTypeNext
<1>11. PICK x \in Item : x = [task |-> t, rem |-> n]
  BY DEF Item
<1>12. /\ Append(Entries, x) \in Seq(Item) /\ Len(Append(Entries, x)) = c + 1
       /\ Append(Entries, x)[c + 1] = x
       /\ \A i \in 1..c : Append(Entries, x)[i] = Entries[i]
  BY <1>9, AppendProperties
<1>13. ASSUME NEW k \in 1..(c + 1) PROVE Entries'[k] = Append(Entries, x)[k]
  <2>1. PICK i \in 0..c : k = i + 1
    BY <1>1
  <2>2. CASE i = c
    <3>1. delay_queue_entries'[i] = e
      BY <1>1, <1>4, <2>2
    <3>2. Entries'[k] = [task |-> e.task_id, rem |-> e.remaining]
      BY <1>10, <2>1, <3>1
    <3>3. Entries'[k] = x
      BY <1>2, <1>11, <3>2
    <3> QED BY <1>12, <2>1, <2>2, <3>3
  <2>3. CASE i # c
    <3>1. i \in 0..(c - 1) /\ k \in 1..c
      BY <2>1, <2>3
    <3>2. delay_queue_entries'[i] = delay_queue_entries[i]
      BY <1>4, <1>9, <2>3, <3>1
    <3>3. Entries[k] = [task |-> delay_queue_entries[i].task_id,
                        rem |-> delay_queue_entries[i].remaining]
      BY <1>9, <2>1, <3>1
    <3>4. Entries'[k] = Entries[k]
      BY <1>10, <2>1, <3>2, <3>3
    <3> QED BY <1>12, <3>1, <3>4
  <2> QED BY <2>2, <2>3
<1>14. Entries' = Append(Entries, x)
  BY <1>1, <1>10, <1>12, <1>13, SeqEqual
<1> QED BY <1>8, <1>11, <1>14

\* delay_queue_enqueue()
LEMMA EnqueueRefines ==
  ASSUME ArrayInv, NEW t \in Task, NEW n \in 0..MaxDelay, delay_queue_enqueue(t, n)
  PROVE  ArrayInv' /\ Abstract!delay_queue_enqueue(t, n)
<1>1. index = -1 /\ ~InTick
  BY DEF delay_queue_enqueue, InTick
<1>2. /\ delay_queue_count \in 0..MaxTasks /\ Len(Entries) = delay_queue_count
      /\ HasEntry(t) <=> Abstract!Listed(t)
  BY <1>1, EntriesType, HasEntryIsListed DEF ArrayInv, TypeOK, Abstract!Listed
<1>3. CASE n = 0
  <2>1. Refuse("ERR_INVAL")
    BY <1>3 DEF delay_queue_enqueue
  <2> QED BY <1>1, <1>3, <2>1, RefuseRefines DEF Abstract!delay_queue_enqueue
<1>4. CASE n # 0 /\ reason[t] = "NONE"
  <2>1. Refuse("ERR_TASK_STATE") /\ n > 0
    BY <1>4 DEF delay_queue_enqueue
  <2> QED BY <1>1, <1>4, <2>1, RefuseRefines DEF Abstract!delay_queue_enqueue
<1>5. CASE n # 0 /\ reason[t] # "NONE" /\ HasEntry(t)
  <2>1. Refuse("ERR_DUPLICATE") /\ n > 0
    BY <1>5 DEF delay_queue_enqueue, delay_queue_can_enqueue
  <2> QED BY <1>1, <1>2, <1>5, <2>1, RefuseRefines DEF Abstract!delay_queue_enqueue
<1>6. CASE n # 0 /\ reason[t] # "NONE" /\ ~HasEntry(t) /\ delay_queue_count = MaxTasks
  <2>1. Refuse("ERR_FULL") /\ n > 0
    BY <1>6, DelayQueueAssumption DEF delay_queue_enqueue, delay_queue_can_enqueue
  <2> QED BY <1>1, <1>2, <1>6, <2>1, RefuseRefines DEF Abstract!delay_queue_enqueue
<1>7. CASE n # 0 /\ reason[t] # "NONE" /\ ~HasEntry(t) /\ delay_queue_count < MaxTasks
  <2>1. ~(delay_queue_count >= MaxTasks) /\ n \in 1..MaxDelay /\ n > 0
    BY <1>2, <1>7, DelayQueueAssumption
  <2>2. /\ delay_queue_entries' = [delay_queue_entries EXCEPT
                ![delay_queue_count] = [task_id |-> t, remaining |-> n]]
        /\ delay_queue_count' = delay_queue_count + 1
        /\ answer' = "OK" /\ expired' = <<>> /\ reason' = reason /\ index' = index
    BY <1>7, <2>1 DEF delay_queue_enqueue, delay_queue_can_enqueue, Answer, loop
  <2>3. ArrayInv' /\ Entries' = Append(Entries, [task |-> t, rem |-> n])
    BY <1>1, <1>7, <2>1, <2>2, AppendEntry
  <2>4. ~InTick'
    BY <1>1, <2>2 DEF InTick
  <2> QED BY <1>1, <1>2, <1>7, <2>1, <2>2, <2>3, <2>4
          DEF Abstract!delay_queue_enqueue, Abstract!Answer
<1> QED BY <1>2, <1>3, <1>4, <1>5, <1>6, <1>7, DelayQueueAssumption

\* c cells of es are in use, but for cell r, which may hold anything.
InUseBut(es, r, c) ==
  \A i \in Cell : i # r => IF i < c THEN es[i] \in Used ELSE es[i] = Empty

\* The cells f are those of es without the gap at r: one less is in use.
ClosedUp(f, es, r, c) ==
  /\ f \in [Cell -> Entry]
  /\ \A i \in Cell : IF i < c - 1 THEN f[i] \in Used ELSE f[i] = Empty
  /\ \A i \in 0..(c - 2) : i \in Cell /\ f[i] = IF i < r THEN es[i] ELSE es[i + 1]

\* delay_queue_remove_at() closes the gap at cell r, whatever was in it.
LEMMA RemovedCells ==
  ASSUME NEW es \in [Cell -> Entry], NEW r \in 0..(delay_queue_count - 1),
         delay_queue_count \in 0..MaxTasks, InUseBut(es, r, delay_queue_count)
  PROVE  ClosedUp(RemovedAt(es, r), es, r, delay_queue_count)
<1>1. PICK c \in Nat : c = delay_queue_count /\ c > 0 /\ c <= MaxTasks
  BY DelayQueueAssumption
<1>2. PICK f : f = RemovedAt(es, r)
  OBVIOUS
<1>3. f = [i \in Cell |-> IF i = c - 1 THEN Empty
                          ELSE IF i \in r..(c - 2) THEN es[i + 1] ELSE es[i]]
  BY <1>1, <1>2 DEF RemovedAt
<1>4. ASSUME NEW i \in 0..(c - 2)
      PROVE  /\ i \in Cell /\ i + 1 \in Cell /\ f[i] \in Used
             /\ f[i] = IF i < r THEN es[i] ELSE es[i + 1]
  <2>1. /\ i \in Cell /\ i + 1 \in Cell /\ i # c - 1 /\ i < c /\ i + 1 < c
        /\ i \in r..(c - 2) <=> ~(i < r)
    BY <1>1, DelayQueueAssumption DEF Cell
  <2>2. f[i] = IF i < r THEN es[i] ELSE es[i + 1]
    BY <1>3, <2>1
  <2>3. i < r => es[i] \in Used
    BY <1>1, <2>1 DEF InUseBut
  <2>4. ~(i < r) => es[i + 1] \in Used
    BY <1>1, <2>1 DEF InUseBut
  <2> QED BY <2>1, <2>2, <2>3, <2>4
<1>5. ASSUME NEW i \in Cell, ~(i < c - 1) PROVE f[i] = Empty
  <2>1. CASE i = c - 1
    BY <1>3, <2>1
  <2>2. CASE i # c - 1
    <3>1. i \notin r..(c - 2) /\ i # r /\ ~(i < c)
      BY <1>1, <1>5, <2>2 DEF Cell
    <3> QED BY <1>1, <1>3, <2>2, <3>1 DEF InUseBut
  <2> QED BY <2>1, <2>2
<1>6. \A i \in Cell : IF i < c - 1 THEN f[i] \in Used ELSE f[i] = Empty
  <2> SUFFICES ASSUME NEW i \in Cell PROVE IF i < c - 1 THEN f[i] \in Used ELSE f[i] = Empty
    OBVIOUS
  <2>1. i < c - 1 => i \in 0..(c - 2)
    BY <1>1 DEF Cell
  <2> QED BY <1>4, <1>5, <2>1
<1>7. f \in [Cell -> Entry]
  <2>1. \A i \in Cell : f[i] \in Entry
    BY <1>6, EntryKinds
  <2> QED BY <1>3, <2>1
<1> QED BY <1>1, <1>2, <1>4, <1>6, <1>7 DEF ClosedUp

\* delay_queue_remove_sem_timeout_waiter() that finds the task in cell r.
LEMMA DropEntry ==
  ASSUME ArrayInv, index = -1, NEW r \in 0..(delay_queue_count - 1),
         delay_queue_entries' = RemovedAt(delay_queue_entries, r),
         delay_queue_count' = delay_queue_count - 1,
         index' = index, reason' = reason
  PROVE  ArrayInv' /\ Entries' = Abstract!Drop(Entries, r + 1)
<1>1. PICK c \in Nat : c = delay_queue_count /\ c > 0 /\ c <= MaxTasks
  BY DelayQueueAssumption DEF ArrayInv, TypeOK
<1>2. /\ delay_queue_entries \in [Cell -> Entry] /\ delay_queue_count \in 0..MaxTasks
      /\ \A i \in Cell : IF i < delay_queue_count THEN delay_queue_entries[i] \in Used
                                                  ELSE delay_queue_entries[i] = Empty
  BY EntryKinds DEF ArrayInv, TypeOK, CellsInUse
<1>3. /\ delay_queue_entries' \in [Cell -> Entry]
      /\ \A i \in Cell : IF i < c - 1 THEN delay_queue_entries'[i] \in Used
                                      ELSE delay_queue_entries'[i] = Empty
      /\ \A i \in 0..(c - 2) :
           /\ i \in Cell
           /\ delay_queue_entries'[i] = IF i < r THEN delay_queue_entries[i]
                                        ELSE delay_queue_entries[i + 1]
  <2>1. InUseBut(delay_queue_entries, r, delay_queue_count)
    BY <1>2 DEF InUseBut
  <2>2. ClosedUp(delay_queue_entries', delay_queue_entries, r, delay_queue_count)
    BY <1>2, <2>1, RemovedCells
  <2> QED BY <1>1, <2>2 DEF ClosedUp
<1>4. TypeOK' /\ CellsInUse'
  <2>1. delay_queue_count' = c - 1 /\ c - 1 \in 0..MaxTasks
    BY <1>1, DelayQueueAssumption
  <2>2. TypeOK'
    BY <1>3, <2>1 DEF ArrayInv, TypeOK, Entry
  <2> QED BY <1>3, <2>1, <2>2 DEF CellsInUse
<1>5. ArrayInv'
  BY <1>4 DEF ArrayInv, LoopInv
<1>6. /\ Len(Entries) = c
      /\ \A i \in 0..(c - 1) : Entries[i + 1] = [task |-> delay_queue_entries[i].task_id,
                                                 rem |-> delay_queue_entries[i].remaining]
  BY <1>1, EntriesType DEF ArrayInv
<1>7. Entries' = [k \in 1..(c - 1) |-> [task |-> delay_queue_entries'[k - 1].task_id,
                                        rem |-> delay_queue_entries'[k - 1].remaining]]
  BY <1>1 DEF Entries
<1>8. Abstract!Drop(Entries, r + 1) =
        [k \in 1..(c - 1) |-> IF k < r + 1 THEN Entries[k] ELSE Entries[k + 1]]
  BY <1>6 DEF Abstract!Drop
<1>9. ASSUME NEW k \in 1..(c - 1)
      PROVE  [task |-> delay_queue_entries'[k - 1].task_id,
              rem |-> delay_queue_entries'[k - 1].remaining] =
                IF k < r + 1 THEN Entries[k] ELSE Entries[k + 1]
  <2>1. PICK i \in 0..(c - 2) : i = k - 1 /\ k = i + 1
    BY <1>1
  <2>2. /\ i \in 0..(c - 1) /\ i + 1 \in 0..(c - 1)
        /\ k < r + 1 <=> i < r
    BY <1>1, <2>1
  <2>3. CASE i < r
    <3>1. delay_queue_entries'[i] = delay_queue_entries[i]
      BY <1>3, <2>3
    <3> QED BY <1>6, <2>1, <2>2, <2>3, <3>1
  <2>4. CASE ~(i < r)
    <3>1. delay_queue_entries'[i] = delay_queue_entries[i + 1]
      BY <1>3, <2>4
    <3>2. Entries[k + 1] = [task |-> delay_queue_entries[i + 1].task_id,
                            rem |-> delay_queue_entries[i + 1].remaining]
      BY <1>6, <2>1, <2>2
    <3> QED BY <2>1, <2>2, <2>4, <3>1, <3>2
  <2> QED BY <2>3, <2>4
<1>10. Entries' = Abstract!Drop(Entries, r + 1)
  BY <1>7, <1>8, <1>9, Zenon
<1> QED BY <1>5, <1>10

\* delay_queue_remove_sem_timeout_waiter()
LEMMA RemoveRefines ==
  ASSUME ArrayInv, NEW t \in Task, delay_queue_remove_sem_timeout_waiter(t)
  PROVE  ArrayInv' /\ Abstract!delay_queue_remove_sem_timeout_waiter(t)
<1>1. index = -1 /\ ~InTick
  BY DEF delay_queue_remove_sem_timeout_waiter, InTick
<1>2. /\ Len(Entries) = delay_queue_count /\ delay_queue_count \in Nat
      /\ HasEntry(t) <=> Abstract!Listed(t)
  <2>1. delay_queue_count \in Nat
    BY DelayQueueAssumption DEF ArrayInv, TypeOK
  <2> QED BY <1>1, <2>1, EntriesType, HasEntryIsListed DEF ArrayInv, Abstract!Listed
<1>3. CASE reason[t] # "SEMAPHORE_TIMEOUT"
  <2>1. Refuse("ERR_TASK_STATE")
    BY <1>3 DEF delay_queue_remove_sem_timeout_waiter
  <2> QED BY <1>1, <1>3, <2>1, RefuseRefines
          DEF Abstract!delay_queue_remove_sem_timeout_waiter
<1>4. CASE reason[t] = "SEMAPHORE_TIMEOUT" /\ ~HasEntry(t)
  <2>1. Refuse("ERR_INVAL")
    BY <1>4 DEF delay_queue_remove_sem_timeout_waiter
  <2> QED BY <1>1, <1>2, <1>4, <2>1, RefuseRefines
          DEF Abstract!delay_queue_remove_sem_timeout_waiter
<1>5. CASE reason[t] = "SEMAPHORE_TIMEOUT" /\ HasEntry(t)
  <2>1. PICK r \in Cell :
          /\ IsIndexOf(t, r)
          /\ delay_queue_entries' = RemovedAt(delay_queue_entries, r)
          /\ delay_queue_count' = delay_queue_count - 1
          /\ answer' = "OK" /\ expired' = <<>> /\ reason' = reason /\ index' = index
    BY <1>5 DEF delay_queue_remove_sem_timeout_waiter, Answer, loop
  <2>2. r \in 0..(delay_queue_count - 1) /\ delay_queue_entries[r].task_id = t
    BY <2>1 DEF IsIndexOf
  <2>3. ArrayInv' /\ Entries' = Abstract!Drop(Entries, r + 1)
    BY <1>1, <2>1, <2>2, DropEntry
  <2>4. r + 1 \in 1..Len(Entries) /\ Entries[r + 1].task = t
    <3>1. PICK e : e = Entries[r + 1]
      OBVIOUS
    <3>2. e = [task |-> delay_queue_entries[r].task_id,
               rem |-> delay_queue_entries[r].remaining]
      BY <2>2, <3>1, EntriesType DEF ArrayInv
    <3> QED BY <1>2, <2>2, <3>1, <3>2
  <2>5. ~InTick'
    BY <1>1, <2>1 DEF InTick
  <2> QED BY <1>1, <1>5, <2>1, <2>3, <2>4, <2>5
          DEF Abstract!delay_queue_remove_sem_timeout_waiter, Abstract!Answer
<1> QED BY <1>3, <1>4, <1>5

\* The task module's part.
LEMMA TaskStateRefines ==
  ASSUME ArrayInv, NEW t \in Task, NEW why \in Reasons, TaskState(t, why)
  PROVE  ArrayInv' /\ Abstract!TaskState(t, why)
<1>1. /\ index = -1 /\ index' = -1 /\ ~HasEntry(t) /\ reason' = [reason EXCEPT ![t] = why]
      /\ delay_queue_entries' = delay_queue_entries /\ delay_queue_count' = delay_queue_count
      /\ expired' = expired /\ answer' = answer
  BY DEF TaskState, queue, loop
<1>2. TypeOK' /\ CellsInUse'
  BY <1>1 DEF ArrayInv, TypeOK, CellsInUse
<1>3. ArrayInv'
  BY <1>1, <1>2 DEF ArrayInv, LoopInv
<1>4. Entries' = Entries /\ ~InTick /\ ~InTick'
  BY <1>1 DEF Entries, InTick
<1>5. ~Abstract!Listed(t)
  BY <1>1, <1>4, HasEntryIsListed DEF ArrayInv, Abstract!Listed
<1> QED BY <1>1, <1>3, <1>4, <1>5 DEF Abstract!TaskState

-----------------------------------------------------------------------------
(***************************************************************************)
(* The loop of delay_queue_tick().                                         *)
(***************************************************************************)

\* The places that stay and go are places of the list.
LEMMA PlacesOfList ==
  ASSUME NEW b \in Seq(Item)
  PROVE  /\ Len(b) \in Nat /\ Early(b) \subseteq 1..Len(b) /\ Late(b) \subseteq 1..Len(b)
         /\ \A j \in 1..Len(b) : /\ b[j] \in Item
                                 /\ j \in Early(b) <=> b[j].rem > 1
                                 /\ j \in Late(b) <=> ~(b[j].rem > 1)
<1>1. Len(b) \in Nat /\ \A j \in 1..Len(b) : b[j] \in Item
  BY ElementOfSeq, LenProperties
<1>2. ASSUME NEW j \in 1..Len(b) PROVE b[j].rem <= 1 <=> ~(b[j].rem > 1)
  <2>1. b[j].rem \in Int
    BY <1>1 DEF Item
  <2> QED BY <2>1
<1> QED BY <1>1, <1>2 DEF Early, Late

\* A tick begins: nothing is done, and the list does not change.
LEMMA TickBeginRefines ==
  ASSUME ArrayInv, TickBegin
  PROVE  ArrayInv' /\ UNCHANGED Abstract!vars
<1>1. /\ index = -1 /\ index' = 0 /\ hand' = <<>>
      /\ before' = [list |-> Entries, reason |-> reason]
      /\ delay_queue_entries' = delay_queue_entries /\ delay_queue_count' = delay_queue_count
      /\ reason' = reason /\ expired' = expired /\ answer' = answer
  BY DEF TickBegin, queue
<1>2. /\ Entries \in Seq(Item) /\ Len(Entries) = delay_queue_count
      /\ \A i \in 0..(delay_queue_count - 1) : delay_queue_entries[i] = Stored(Entries[i + 1])
  BY EntriesType DEF ArrayInv
<1>3. delay_queue_count \in Nat /\ TypeOK' /\ CellsInUse'
  BY <1>1, DelayQueueAssumption DEF ArrayInv, TypeOK, CellsInUse
<1>4. PICK b : b = Entries /\ before'.list = b /\ before'.reason = reason
  BY <1>1
<1>5. Len(hand') = 0 /\ hand' \in Seq(Task) /\ Done' = 0
  BY <1>1 DEF Done
<1>6. KeptSoFar(b)' /\ HandedSoFar(b)'
  <2>1. Abstract!Rank(Early(b), 0) = 0 /\ Abstract!Rank(Late(b), 0) = 0
    BY <1>2, <1>4, PlacesOfList, RankEnds
  <2> QED BY <1>1, <1>5, <2>1 DEF KeptSoFar, HandedSoFar
<1>7. RestOf(b)'
  <2> SUFFICES ASSUME NEW i \in 0..(delay_queue_count - 1)
               PROVE  delay_queue_entries[i] = Stored(b[(i + 0) + 1])
    BY <1>1, <1>5 DEF RestOf
  <2> QED BY <1>2, <1>4
<1>8. reason' = [t \in Task |-> IF Abstract!InSeq(hand', t) THEN "NONE" ELSE before'.reason[t]]
  <2>1. \A t : ~Abstract!InSeq(hand', t)
    BY <1>5 DEF Abstract!InSeq
  <2> QED BY <1>1, <1>4, <2>1 DEF ArrayInv, TypeOK
<1>9. ArrayInv'
  BY <1>1, <1>2, <1>3, <1>4, <1>5, <1>6, <1>7, <1>8 DEF ArrayInv, LoopInv
<1>10. ~InTick /\ InTick'
  BY <1>1 DEF InTick
<1> QED BY <1>1, <1>4, <1>9, <1>10 DEF Abstract!vars

\* What the loop finds in its next cell: the next item of the list.
LEMMA RoundFacts ==
  ASSUME ArrayInv, index >= 0, index < delay_queue_count,
         NEW b, b = before.list, NEW h, h = Len(hand)
  PROVE  /\ index \in Nat /\ delay_queue_count \in Nat /\ h \in Nat /\ index \in Cell
         /\ b \in Seq(Item) /\ Len(b) = delay_queue_count + h /\ hand \in Seq(Task)
         /\ Done = index + h /\ (index + h) + 1 \in 1..Len(b)
         /\ b[(index + h) + 1] \in Item
         /\ delay_queue_entries[index] = Stored(b[(index + h) + 1])
         /\ KeptSoFar(b) /\ HandedSoFar(b) /\ RestOf(b)
         /\ Abstract!Rank(Early(b), (index + h) + 1) =
              IF b[(index + h) + 1].rem > 1 THEN index + 1 ELSE index
         /\ Abstract!Rank(Late(b), (index + h) + 1) =
              IF b[(index + h) + 1].rem > 1 THEN h ELSE h + 1
<1>1. /\ b \in Seq(Item) /\ hand \in Seq(Task) /\ Len(b) = delay_queue_count + h
      /\ KeptSoFar(b) /\ HandedSoFar(b) /\ RestOf(b)
  BY DEF ArrayInv, LoopInv
<1>2. index \in Nat /\ delay_queue_count \in Nat /\ h \in Nat /\ index \in Cell
  <2>1. h \in Nat
    BY <1>1, LenProperties
  <2> QED BY <2>1, DelayQueueAssumption DEF ArrayInv, TypeOK, Cell
<1>3. PICK k \in Nat : k = index + h
  BY <1>2
<1>4. Done = k /\ k + 1 \in 1..Len(b) /\ index \in index..(delay_queue_count - 1)
  BY <1>1, <1>2, <1>3 DEF Done
<1>5. b[k + 1] \in Item /\ (k + 1 \in Early(b) <=> b[k + 1].rem > 1)
      /\ (k + 1 \in Late(b) <=> ~(b[k + 1].rem > 1))
  BY <1>1, <1>4, PlacesOfList
<1>6. delay_queue_entries[index] = Stored(b[k + 1])
  BY <1>1, <1>3, <1>4 DEF RestOf
<1>7. Abstract!Rank(Early(b), k) = index /\ Abstract!Rank(Late(b), k) = h
  BY <1>1, <1>4 DEF KeptSoFar, HandedSoFar
<1>8. Abstract!Rank(Early(b), k + 1) = IF b[k + 1].rem > 1 THEN index + 1 ELSE index
  BY <1>1, <1>5, <1>7, PlacesOfList, RankStep
<1>9. Abstract!Rank(Late(b), k + 1) = IF b[k + 1].rem > 1 THEN h ELSE h + 1
  BY <1>1, <1>5, <1>7, PlacesOfList, RankStep
<1> QED BY <1>1, <1>2, <1>3, <1>4, <1>5, <1>6, <1>8, <1>9

\* A round that leaves the entry where it is, with a tick less.
LEMMA RoundStays ==
  ASSUME ArrayInv, index >= 0, index < delay_queue_count,
         NEW e, e = delay_queue_entries[index], e.remaining - 1 > 0,
         NEW x, x = [task_id |-> e.task_id, remaining |-> e.remaining - 1],
         delay_queue_entries' = [delay_queue_entries EXCEPT ![index] = x],
         UNCHANGED <<delay_queue_count, reason, hand, before>>, index' = index + 1
  PROVE  ArrayInv'
<1>1. PICK b, h : b = before.list /\ h = Len(hand)
  OBVIOUS
<1>2. PICK k : k = (index + h) + 1
  OBVIOUS
<1>3. PICK i, c : i = index /\ c = delay_queue_count
  OBVIOUS
<1>4. /\ i \in Nat /\ c \in Nat /\ h \in Nat /\ i \in Cell /\ i < c /\ k = (i + h) + 1
      /\ b \in Seq(Item) /\ Len(b) = c + h /\ hand \in Seq(Task)
      /\ Done = i + h /\ k \in 1..Len(b) /\ b[k] \in Item /\ e = Stored(b[k])
      /\ KeptSoFar(b) /\ HandedSoFar(b) /\ RestOf(b)
      /\ Abstract!Rank(Early(b), k) = IF b[k].rem > 1 THEN i + 1 ELSE i
      /\ Abstract!Rank(Late(b), k) = IF b[k].rem > 1 THEN h ELSE h + 1
  BY <1>1, <1>2, <1>3, RoundFacts
<1>5. /\ e.task_id = b[k].task /\ e.remaining = b[k].rem /\ b[k].rem \in 1..MaxDelay
      /\ b[k].task \in Task
  BY <1>4 DEF Stored, Item
<1>6. b[k].rem > 1 /\ b[k].rem - 1 \in 1..MaxDelay
  BY <1>5, DelayQueueAssumption
<1>7. delay_queue_entries \in [Cell -> Entry]
  BY EntryKinds DEF ArrayInv
<1>8. PICK new \in Used : new = [task_id |-> b[k].task, remaining |-> b[k].rem - 1]
  BY <1>5, <1>6 DEF Used
<1>9. x = new
  BY <1>5, <1>8
<1>10. \A j \in Cell : delay_queue_entries'[j] = IF j = i THEN new ELSE delay_queue_entries[j]
  BY <1>3, <1>4, <1>7, <1>9
<1>11. TypeOK' /\ CellsInUse'
  <2>1. delay_queue_entries' \in [Cell -> Entry]
    BY <1>3, <1>7, <1>9, <1>10, EntryKinds
  <2>2. i + 1 \in -1..MaxTasks
    BY <1>4, DelayQueueAssumption DEF Cell
  <2>3. TypeOK'
    BY <1>3, <2>1, <2>2 DEF ArrayInv, TypeOK, Entry
  <2>4. CellsInUse'
    BY <1>3, <1>4, <1>10 DEF ArrayInv, CellsInUse
  <2> QED BY <2>3, <2>4
<1>12. index' = i + 1 /\ Len(hand') = h /\ Done' = k /\ i + 1 \in Nat /\ k \in Early(b)
  <2>1. (i + 1) + h = k
    BY <1>4
  <2> QED BY <1>1, <1>3, <1>4, <1>6, <2>1, PlacesOfList, SMTT(30) DEF Done
<1>13. KeptSoFar(b)'
  <2>1. ASSUME NEW n \in 1..(i + 1)
        PROVE  \E j \in Early(b) : /\ Abstract!Rank(Early(b), j) = n
                                   /\ delay_queue_entries'[n - 1] =
                                        [task_id |-> b[j].task, remaining |-> b[j].rem - 1]
    <3>1. CASE n = i + 1
      <4>0. n - 1 = i /\ i \in Cell
        BY <1>4, <3>1
      <4>1. delay_queue_entries'[n - 1] = new
        BY <1>10, <4>0
      <4> QED BY <1>4, <1>6, <1>8, <1>12, <3>1, <4>1
    <3>2. CASE n # i + 1
      <4>1. n \in 1..i /\ n - 1 # i /\ n - 1 \in Cell
        BY <1>4, <3>2, DelayQueueAssumption, SMTT(30) DEF Cell
      <4>2. delay_queue_entries'[n - 1] = delay_queue_entries[n - 1]
        BY <1>10, <4>1
      <4> QED BY <1>3, <1>4, <4>1, <4>2 DEF KeptSoFar
    <3> QED BY <3>1, <3>2
  <2> QED BY <1>4, <1>6, <1>12, <2>1 DEF KeptSoFar
<1>14. HandedSoFar(b)'
  BY <1>1, <1>4, <1>6, <1>12 DEF HandedSoFar
<1>15. RestOf(b)'
  <2> SUFFICES ASSUME NEW m \in (i + 1)..(c - 1)
               PROVE  delay_queue_entries'[m] = Stored(b[(m + h) + 1])
    BY <1>1, <1>3, <1>12 DEF RestOf
  <2>1. c \in 0..MaxTasks
    BY <1>3 DEF ArrayInv, TypeOK
  <2>2. i \in Nat /\ c \in Nat
    BY <1>4
  <2>3. m \in i..(c - 1) /\ m # i /\ m \in Cell
    BY <2>1, <2>2, DelayQueueAssumption DEF Cell
  <2> QED BY <1>1, <1>3, <1>4, <1>10, <2>3 DEF RestOf
<1>16. LoopInv'
  <2>1. i + 1 <= c
    BY <1>4
  <2>2. reason = [t \in Task |-> IF Abstract!InSeq(hand, t) THEN "NONE" ELSE before.reason[t]]
    BY DEF ArrayInv, LoopInv
  <2> QED BY <1>1, <1>3, <1>4, <1>12, <1>13, <1>14, <1>15, <2>1, <2>2 DEF LoopInv
<1> QED BY <1>11, <1>16 DEF ArrayInv

\* A round whose entry has no tick left: it leaves the array, and its task is
\* handed on.
LEMMA RoundExpires ==
  ASSUME ArrayInv, index >= 0, index < delay_queue_count,
         NEW e, e = delay_queue_entries[index], ~(e.remaining - 1 > 0),
         NEW x \in Entry, NEW ticked, ticked = [delay_queue_entries EXCEPT ![index] = x],
         delay_queue_entries' = RemovedAt(ticked, index),
         delay_queue_count' = delay_queue_count - 1,
         reason' = [reason EXCEPT ![e.task_id] = "NONE"],
         hand' = Append(hand, e.task_id), before' = before, index' = index
  PROVE  ArrayInv'
<1>1. PICK b, h : b = before.list /\ h = Len(hand)
  OBVIOUS
<1>2. PICK k : k = (index + h) + 1
  OBVIOUS
<1>3. PICK i, c : i = index /\ c = delay_queue_count
  OBVIOUS
<1>4. /\ i \in Nat /\ c \in Nat /\ h \in Nat /\ i \in Cell /\ i < c /\ k = (i + h) + 1
      /\ b \in Seq(Item) /\ Len(b) = c + h /\ hand \in Seq(Task)
      /\ Done = i + h /\ k \in 1..Len(b) /\ b[k] \in Item /\ e = Stored(b[k])
      /\ KeptSoFar(b) /\ HandedSoFar(b) /\ RestOf(b)
      /\ Abstract!Rank(Early(b), k) = IF b[k].rem > 1 THEN i + 1 ELSE i
      /\ Abstract!Rank(Late(b), k) = IF b[k].rem > 1 THEN h ELSE h + 1
  BY <1>1, <1>2, <1>3, RoundFacts
<1>5. PICK t \in Task : t = b[k].task /\ e.task_id = t /\ ~(b[k].rem > 1)
  BY <1>4 DEF Stored, Item
<1>6. /\ delay_queue_entries \in [Cell -> Entry] /\ c <= MaxTasks
      /\ \A j \in Cell : IF j < c THEN delay_queue_entries[j] \in Used
                                  ELSE delay_queue_entries[j] = Empty
  BY <1>3, EntryKinds DEF ArrayInv, TypeOK, CellsInUse
<1>7. /\ ticked \in [Cell -> Entry]
      /\ \A j \in Cell : j # i => ticked[j] = delay_queue_entries[j]
  BY <1>3, <1>4, <1>6
<1>8. /\ delay_queue_entries' \in [Cell -> Entry]
      /\ \A j \in Cell : IF j < c - 1 THEN delay_queue_entries'[j] \in Used
                                      ELSE delay_queue_entries'[j] = Empty
      /\ \A j \in 0..(c - 2) :
           j \in Cell /\ delay_queue_entries'[j] = IF j < i THEN ticked[j] ELSE ticked[j + 1]
  <2>1. i \in 0..(c - 1) /\ c \in 0..MaxTasks
    BY <1>4, <1>6, DelayQueueAssumption
  <2>2. InUseBut(ticked, i, delay_queue_count)
    BY <1>3, <1>6, <1>7 DEF InUseBut
  <2>3. /\ i \in 0..(delay_queue_count - 1) /\ delay_queue_count \in 0..MaxTasks
        /\ delay_queue_entries' = RemovedAt(ticked, i)
    BY <1>3, <2>1
  <2>4. ClosedUp(delay_queue_entries', ticked, i, delay_queue_count)
    BY <1>7, <2>2, <2>3, RemovedCells
  <2> QED BY <1>3, <2>4 DEF ClosedUp
<1>9. reason \in [Task -> Reasons] /\ reason' = [reason EXCEPT ![t] = "NONE"]
  BY <1>5 DEF ArrayInv, TypeOK
<1>10. TypeOK' /\ CellsInUse'
  <2>1. delay_queue_count' = c - 1 /\ c - 1 \in 0..MaxTasks
    BY <1>3, <1>4, <1>6, DelayQueueAssumption
  <2>2. reason' \in [Task -> Reasons]
    BY <1>9 DEF Reasons
  <2>3. TypeOK'
    BY <1>8, <2>1, <2>2 DEF ArrayInv, TypeOK, Entry
  <2>4. CellsInUse'
    BY <1>8, <2>1 DEF CellsInUse
  <2> QED BY <2>3, <2>4
<1>11. /\ hand' \in Seq(Task) /\ Len(hand') = h + 1 /\ hand'[h + 1] = t
       /\ \A n \in 1..h : hand'[n] = hand[n]
  BY <1>1, <1>4, <1>5, AppendProperties
<1>12. index' = i /\ Done' = k /\ k \in Late(b)
  <2>1. i + (h + 1) = k
    BY <1>4
  <2> QED BY <1>3, <1>4, <1>5, <1>11, <2>1, PlacesOfList DEF Done
<1>13. KeptSoFar(b)'
  <2>1. ASSUME NEW n \in 1..i PROVE delay_queue_entries'[n - 1] = delay_queue_entries[n - 1]
    <3>1. n - 1 \in 0..(c - 2) /\ n - 1 < i /\ n - 1 # i
      BY <1>4
    <3> QED BY <1>7, <1>8, <3>1
  <2> QED BY <1>3, <1>4, <1>5, <1>12, <2>1 DEF KeptSoFar
<1>14. HandedSoFar(b)'
  <2>1. ASSUME NEW n \in 1..(h + 1)
        PROVE  \E j \in Late(b) : Abstract!Rank(Late(b), j) = n /\ hand'[n] = b[j].task
    <3>1. CASE n = h + 1
      BY <1>4, <1>5, <1>11, <1>12, <3>1
    <3>2. CASE n # h + 1
      <4>1. n \in 1..h
        BY <1>4, <3>2
      <4> QED BY <1>1, <1>4, <1>11, <4>1 DEF HandedSoFar
    <3> QED BY <3>1, <3>2
  <2> QED BY <1>4, <1>5, <1>11, <1>12, <2>1 DEF HandedSoFar
<1>15. RestOf(b)'
  <2> SUFFICES ASSUME NEW m \in i..((c - 1) - 1)
               PROVE  delay_queue_entries'[m] = Stored(b[(m + (h + 1)) + 1])
    BY <1>3, <1>11, <1>12 DEF RestOf
  <2>0. i \in Nat /\ c \in Nat /\ h \in Nat /\ c <= MaxTasks
    BY <1>4, <1>6
  <2>1. /\ m \in 0..(c - 2) /\ ~(m < i) /\ m + 1 \in i..(c - 1) /\ m + 1 # i
        /\ m + 1 \in Cell /\ ((m + 1) + h) + 1 = (m + (h + 1)) + 1
    BY <2>0, DelayQueueAssumption DEF Cell
  <2>2. delay_queue_entries'[m] = delay_queue_entries[m + 1]
    BY <1>7, <1>8, <2>1
  <2>3. delay_queue_entries[m + 1] = Stored(b[((m + 1) + h) + 1])
    BY <1>1, <1>3, <1>4, <2>1 DEF RestOf
  <2> QED BY <2>1, <2>2, <2>3
<1>16. reason' = [u \in Task |-> IF Abstract!InSeq(hand', u) THEN "NONE" ELSE before.reason[u]]
  <2>1. reason = [u \in Task |-> IF Abstract!InSeq(hand, u) THEN "NONE" ELSE before.reason[u]]
    BY DEF ArrayInv, LoopInv
  <2>2. ASSUME NEW u \in Task PROVE Abstract!InSeq(hand', u) <=> Abstract!InSeq(hand, u) \/ u = t
    <3>1. ASSUME Abstract!InSeq(hand', u) PROVE Abstract!InSeq(hand, u) \/ u = t
      <4>1. PICK n \in 1..(h + 1) : hand'[n] = u
        BY <1>11, <3>1 DEF Abstract!InSeq
      <4>2. n \in 1..h \/ n = h + 1
        BY <1>4
      <4> QED BY <1>1, <1>11, <4>1, <4>2 DEF Abstract!InSeq
    <3>2. ASSUME Abstract!InSeq(hand, u) PROVE Abstract!InSeq(hand', u)
      <4>1. PICK n \in 1..h : hand[n] = u
        BY <1>1, <3>2 DEF Abstract!InSeq
      <4>2. n \in 1..(h + 1)
        BY <1>4
      <4> QED BY <1>11, <4>1, <4>2 DEF Abstract!InSeq
    <3>3. ASSUME u = t PROVE Abstract!InSeq(hand', u)
      <4>1. h + 1 \in 1..(h + 1)
        BY <1>4
      <4> QED BY <1>11, <3>3, <4>1 DEF Abstract!InSeq
    <3> QED BY <3>1, <3>2, <3>3
  <2>3. \A u \in Task : reason'[u] = IF u = t THEN "NONE" ELSE reason[u]
    BY <1>9
  <2>4. reason' = [u \in Task |-> reason'[u]]
    BY <1>9
  <2> QED BY <2>1, <2>2, <2>3, <2>4
<1>17. LoopInv'
  <2>1. i <= c - 1 /\ c + h = (c - 1) + (h + 1)
    BY <1>4
  <2> QED BY <1>1, <1>3, <1>4, <1>11, <1>12, <1>13, <1>14, <1>15, <1>16, <2>1 DEF LoopInv
<1> QED BY <1>10, <1>17 DEF ArrayInv

\* Writing one field of an entry.
LEMMA SetRemaining ==
  ASSUME NEW f \in [Cell -> Entry], NEW i \in Cell, NEW v
  PROVE  [f EXCEPT ![i].remaining = v] =
           [f EXCEPT ![i] = [task_id |-> f[i].task_id, remaining |-> v]]
<1>1. PICK e \in Entry : e = f[i]
  OBVIOUS
<1>2. [e EXCEPT !.remaining = v] = [task_id |-> e.task_id, remaining |-> v]
  BY DEF Entry
<1> QED BY <1>1, <1>2

\* A round of the loop keeps the invariant and does not show on the list.
LEMMA TickEntryRefines ==
  ASSUME ArrayInv, TickEntry
  PROVE  ArrayInv' /\ UNCHANGED Abstract!vars
<1>1. /\ index >= 0 /\ index < delay_queue_count /\ index \in Cell
      /\ delay_queue_entries \in [Cell -> Entry] /\ delay_queue_entries[index] \in Used
  <2>1. index >= 0 /\ index < delay_queue_count
    BY DEF TickEntry
  <2>2. index \in Cell
    BY <2>1, DelayQueueAssumption DEF ArrayInv, TypeOK, Cell
  <2> QED BY <2>1, <2>2, EntryKinds DEF ArrayInv, CellsInUse
<1>2. PICK e \in Used : e = delay_queue_entries[index]
  BY <1>1
<1>3. PICK after : after = IF e.remaining > 0 THEN e.remaining - 1 ELSE 0
  OBVIOUS
<1>4. PICK x : x = [task_id |-> e.task_id, remaining |-> after]
  OBVIOUS
<1>5. PICK ticked : ticked = [delay_queue_entries EXCEPT ![index] = x]
  OBVIOUS
<1>6. [delay_queue_entries EXCEPT ![index].remaining = after] = ticked
  <2>1. x = [task_id |-> delay_queue_entries[index].task_id, remaining |-> after]
    BY <1>2, <1>4
  <2>2. index \in Cell /\ delay_queue_entries \in [Cell -> Entry]
    BY <1>1
  <2>3. [delay_queue_entries EXCEPT ![index].remaining = after] =
          [delay_queue_entries EXCEPT ![index] =
             [task_id |-> delay_queue_entries[index].task_id, remaining |-> after]]
    BY <2>2, SetRemaining, Zenon
  <2> QED BY <1>5, <2>1, <2>3, Zenon
<1>7. /\ IF after > 0
         THEN /\ delay_queue_entries' = ticked
              /\ UNCHANGED <<delay_queue_count, reason, hand>>
         ELSE /\ delay_queue_entries' = RemovedAt(ticked, index)
              /\ delay_queue_count' = delay_queue_count - 1
              /\ reason' = [reason EXCEPT ![e.task_id] = "NONE"]
              /\ hand' = Append(hand, e.task_id)
      /\ index' = NextIndex(after)
      /\ before' = before /\ expired' = expired /\ answer' = answer
  BY <1>2, <1>3, <1>6, Zenon DEF TickEntry
<1>8. after = e.remaining - 1 /\ after \in 0..MaxDelay /\ e.task_id \in Task
  BY <1>2, <1>3, DelayQueueAssumption DEF Used
<1>9. ASSUME after > 0 PROVE ArrayInv'
  <2>1. /\ delay_queue_entries' = [delay_queue_entries EXCEPT ![index] = x]
        /\ UNCHANGED <<delay_queue_count, reason, hand, before>> /\ index' = index + 1
    BY <1>5, <1>7, <1>9 DEF NextIndex
  <2>2. e.remaining - 1 > 0 /\ x = [task_id |-> e.task_id, remaining |-> e.remaining - 1]
    BY <1>4, <1>8, <1>9
  <2> QED BY <1>1, <1>2, <2>1, <2>2, RoundStays
<1>10. ASSUME ~(after > 0) PROVE ArrayInv'
  <2>1. /\ delay_queue_entries' = RemovedAt(ticked, index)
        /\ delay_queue_count' = delay_queue_count - 1
        /\ reason' = [reason EXCEPT ![e.task_id] = "NONE"]
        /\ hand' = Append(hand, e.task_id) /\ before' = before /\ index' = index
    BY <1>7, <1>10 DEF NextIndex
  <2>2. ~(e.remaining - 1 > 0) /\ x \in Entry
    BY <1>4, <1>8, <1>10 DEF Entry
  <2> QED BY <1>1, <1>2, <1>5, <2>1, <2>2, RoundExpires
<1>11. ArrayInv'
  BY <1>9, <1>10
<1>12. InTick /\ InTick'
  BY <1>1, <1>7, DelayQueueAssumption DEF InTick, NextIndex, Cell
<1> QED BY <1>7, <1>11, <1>12 DEF Abstract!vars

\* The end of the loop is the tick of the list.
LEMMA TickEndRefines ==
  ASSUME ArrayInv, TickEnd
  PROVE  ArrayInv' /\ Abstract!delay_queue_tick
<1>1. /\ index >= delay_queue_count /\ index' = -1 /\ expired' = hand /\ answer' = "OK"
      /\ delay_queue_entries' = delay_queue_entries /\ delay_queue_count' = delay_queue_count
      /\ reason' = reason
  BY DEF TickEnd, queue
<1>2. TypeOK' /\ CellsInUse'
  <2>1. -1 \in -1..MaxTasks
    BY DelayQueueAssumption
  <2>2. TypeOK'
    BY <1>1, <2>1 DEF ArrayInv, TypeOK
  <2> QED BY <1>1, <2>2 DEF ArrayInv, CellsInUse
<1>3. ArrayInv'
  BY <1>1, <1>2 DEF ArrayInv, LoopInv
<1>4. delay_queue_count \in Nat /\ index \in Int /\ index >= 0
  BY <1>1, DelayQueueAssumption DEF ArrayInv, TypeOK
<1>5. PICK b, h : b = before.list /\ h = Len(hand)
  OBVIOUS
<1>6. /\ b \in Seq(Item) /\ hand \in Seq(Task) /\ Len(b) = delay_queue_count + h
      /\ index <= delay_queue_count /\ KeptSoFar(b) /\ HandedSoFar(b)
      /\ reason = [t \in Task |-> IF Abstract!InSeq(hand, t) THEN "NONE" ELSE before.reason[t]]
  BY <1>4, <1>5 DEF ArrayInv, LoopInv
<1>7. PICK c \in Nat : c = delay_queue_count /\ index = c /\ Done = Len(b)
  BY <1>1, <1>4, <1>5, <1>6 DEF Done
<1>8. /\ Len(b) \in Nat /\ Early(b) \subseteq 1..Len(b) /\ Late(b) \subseteq 1..Len(b)
      /\ \A j \in 1..Len(b) : b[j] \in Item
  BY <1>6, PlacesOfList
<1>9. Cardinality(Early(b)) = c /\ Cardinality(Late(b)) = h
  <2>1. /\ Abstract!Rank(Early(b), Len(b)) = Cardinality(Early(b))
        /\ Abstract!Rank(Late(b), Len(b)) = Cardinality(Late(b))
    BY <1>8, RankEnds
  <2> QED BY <1>5, <1>6, <1>7, <2>1 DEF KeptSoFar, HandedSoFar
<1>10. InTick /\ ~InTick' /\ Abstract!Staying = Early(b) /\ Abstract!Expiring = Late(b)
  <2>1. InTick /\ ~InTick'
    BY <1>1, <1>4 DEF InTick
  <2> QED BY <1>5, <2>1 DEF Abstract!Staying, Abstract!Expiring, Early, Late
<1>11. Abstract!Cardinality(Early(b)) = c /\ Abstract!Cardinality(Late(b)) = h
  BY <1>9 DEF Abstract!Cardinality, Cardinality
<1>12. Entries' = [n \in 1..c |-> [task |-> delay_queue_entries[n - 1].task_id,
                                   rem |-> delay_queue_entries[n - 1].remaining]]
  BY <1>1, <1>7 DEF Entries
<1>13. ASSUME NEW n \in 1..c
       PROVE  [task |-> delay_queue_entries[n - 1].task_id,
               rem |-> delay_queue_entries[n - 1].remaining] =
                [b[Abstract!Nth(Early(b), n)] EXCEPT !.rem = @ - 1]
  <2>1. PICK j \in Early(b) : /\ Abstract!Rank(Early(b), j) = n
                              /\ delay_queue_entries[n - 1] =
                                   [task_id |-> b[j].task, remaining |-> b[j].rem - 1]
    BY <1>6, <1>7 DEF KeptSoFar
  <2>2. Abstract!Nth(Early(b), n) = j
    BY <1>8, <2>1, NthIsOfRank
  <2>3. PICK y \in Item : y = b[j]
    BY <1>8
  <2>4. [task |-> y.task, rem |-> y.rem - 1] = [y EXCEPT !.rem = @ - 1]
    BY DEF Item
  <2>5. /\ delay_queue_entries[n - 1].task_id = y.task
        /\ delay_queue_entries[n - 1].remaining = y.rem - 1
    BY <2>1, <2>3
  <2> QED BY <2>2, <2>3, <2>4, <2>5
<1>14. Entries' = [n \in 1..Abstract!Cardinality(Abstract!Staying) |->
                     [b[Abstract!Nth(Abstract!Staying, n)] EXCEPT !.rem = @ - 1]]
  BY <1>10, <1>11, <1>12, <1>13, Zenon
<1>15. ASSUME NEW n \in 1..h PROVE hand[n] = b[Abstract!Nth(Late(b), n)].task
  <2>1. PICK j \in Late(b) : Abstract!Rank(Late(b), j) = n /\ hand[n] = b[j].task
    BY <1>5, <1>6 DEF HandedSoFar
  <2>2. Abstract!Nth(Late(b), n) = j
    BY <1>8, <2>1, NthIsOfRank
  <2> QED BY <2>1, <2>2
<1>16. hand = [n \in 1..h |-> hand[n]]
  BY <1>5, <1>6, LenProperties
<1>17. expired' = [n \in 1..Abstract!Cardinality(Abstract!Expiring) |->
                     b[Abstract!Nth(Abstract!Expiring, n)].task]
  BY <1>1, <1>10, <1>11, <1>15, <1>16, Zenon
<1>18. reason' = [t \in Task |-> IF Abstract!InSeq(expired', t) THEN "NONE"
                                 ELSE before.reason[t]]
  BY <1>1, <1>6
<1> QED BY <1>1, <1>3, <1>5, <1>10, <1>14, <1>17, <1>18, Zenon DEF Abstract!delay_queue_tick

-----------------------------------------------------------------------------
(***************************************************************************)
(* The theorems.                                                           *)
(***************************************************************************)

\* The array as delay_queue_init() leaves it.
LEMMA InitArray == Init => ArrayInv /\ Abstract!Init
<1> SUFFICES ASSUME Init PROVE ArrayInv /\ Abstract!Init
  OBVIOUS
<1>1. /\ delay_queue_entries = [i \in Cell |-> Empty] /\ delay_queue_count = 0
      /\ index = -1 /\ reason = [t \in Task |-> "NONE"] /\ expired = <<>> /\ answer = "OK"
  BY DEF Init
<1>2. TypeOK
  <2>1. -1 \in -1..MaxTasks /\ 0 \in 0..MaxTasks
    BY DelayQueueAssumption
  <2>2. delay_queue_entries \in [Cell -> Entry]
    BY <1>1, EntryKinds
  <2>3. reason \in [Task -> Reasons]
    BY <1>1 DEF Reasons
  <2> QED BY <1>1, <2>1, <2>2, <2>3 DEF TypeOK, Entry
<1>3. CellsInUse
  <2>1. \A i \in Cell : ~(i < 0)
    BY DEF Cell
  <2> QED BY <1>1, <2>1 DEF CellsInUse
<1>4. ArrayInv
  BY <1>1, <1>2, <1>3 DEF ArrayInv, LoopInv
<1>5. Entries \in Seq(Item) /\ Len(Entries) = 0
  BY <1>1, <1>2, <1>3, EntriesType
<1>6. Entries = <<>> /\ ~InTick
  BY <1>1, <1>5 DEF InTick
<1> QED BY <1>1, <1>4, <1>6 DEF Abstract!Init

\* Every step keeps the invariant and is a step of DelayQueueSpec, or none.
LEMMA StepArray == ArrayInv /\ [Next]_vars => ArrayInv' /\ [Abstract!Next]_Abstract!vars
<1> SUFFICES ASSUME ArrayInv, [Next]_vars PROVE ArrayInv' /\ [Abstract!Next]_Abstract!vars
  OBVIOUS
<1>1. ASSUME NEW t \in Task, NEW n \in 0..MaxDelay, delay_queue_enqueue(t, n)
      PROVE  ArrayInv' /\ Abstract!Next
  BY <1>1, EnqueueRefines DEF Abstract!Next
<1>2. ASSUME NEW t \in Task, delay_queue_remove_sem_timeout_waiter(t)
      PROVE  ArrayInv' /\ Abstract!Next
  BY <1>2, RemoveRefines DEF Abstract!Next
<1>3. ASSUME NEW t \in Task, NEW why \in Reasons, TaskState(t, why)
      PROVE  ArrayInv' /\ Abstract!Next
  <2>1. why \in Abstract!Reasons
    BY DEF Reasons, Abstract!Reasons
  <2> QED BY <1>3, <2>1, TaskStateRefines DEF Abstract!Next
<1>4. ASSUME TickBegin PROVE ArrayInv' /\ UNCHANGED Abstract!vars
  BY <1>4, TickBeginRefines
<1>5. ASSUME TickEntry PROVE ArrayInv' /\ UNCHANGED Abstract!vars
  BY <1>5, TickEntryRefines
<1>6. ASSUME TickEnd PROVE ArrayInv' /\ Abstract!Next
  BY <1>6, TickEndRefines DEF Abstract!Next
<1>7. ASSUME UNCHANGED vars PROVE ArrayInv' /\ UNCHANGED Abstract!vars
  <2>1. ArrayInv'
    BY <1>7 DEF vars, ArrayInv, TypeOK, CellsInUse, LoopInv, KeptSoFar, HandedSoFar,
                RestOf, Done
  <2>2. Entries' = Entries /\ InTick' = InTick
    BY <1>7 DEF vars, Entries, InTick
  <2> QED BY <1>7, <2>1, <2>2 DEF vars, Abstract!vars
<1> QED BY <1>1, <1>2, <1>3, <1>4, <1>5, <1>6, <1>7 DEF Next

\* The inductive invariant holds of every array delay_queue.c can reach.
LEMMA ArrayInvariance == Spec => []ArrayInv
<1>1. Init => ArrayInv
  BY InitArray
<1>2. ArrayInv /\ [Next]_vars => ArrayInv'
  BY StepArray
<1> QED BY <1>1, <1>2, PTL DEF Spec

\* The count never exceeds the array and the loop of delay_queue_tick() never
\* leaves it, whatever the loop removes under its own index.
THEOREM ArrayTyping == Spec => []TypeOK
<1>1. ArrayInv => TypeOK
  BY DEF ArrayInv
<1> QED BY <1>1, ArrayInvariance, PTL

\* delay_queue_remove_at() leaves no stale entry and no hole, in a tick or not.
THEOREM NoStaleCell == Spec => []CellsMatchCount
<1>1. ArrayInv => CellsMatchCount
  BY EntryKinds DEF ArrayInv, CellsInUse, CellsMatchCount
<1> QED BY <1>1, ArrayInvariance, PTL

\* The array implements DelayQueueSpec: a loop that removes entries from the
\* array it walks skips none, takes none twice, and hands on in the order of
\* the list exactly the tasks whose time has run out.
THEOREM ArrayImplementsList == Spec => ImplementsList
<1>1. Init => Abstract!Init
  BY InitArray
<1>2. ArrayInv /\ [Next]_vars => [Abstract!Next]_Abstract!vars
  BY StepArray
<1> QED BY <1>1, <1>2, ArrayInvariance, PTL DEF Spec, ImplementsList, Abstract!Spec

=============================================================================
