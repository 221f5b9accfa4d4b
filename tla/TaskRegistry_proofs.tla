------------------------- MODULE TaskRegistry_proofs -------------------------
(***************************************************************************)
(* Task IDs are unique as long as no caller of cre_tsk() asks for the      *)
(* largest int.  The bound is needed: the run task_id_overflow shows what  *)
(* happens without it.                                                     *)
(***************************************************************************)
EXTENDS TaskRegistry, TLAPS

\* UniqueIds is inductive only together with the counter staying ahead of the
\* IDs in use, since allocate_task_id() does not search the table; and the
\* counter stays ahead only while it does not wrap.
IInv ==
  /\ TypeOK
  /\ next_task_id <= IdMax
  /\ CounterAhead
  /\ UniqueIds

\* One ID more keeps the invariant if it is new and the counter is past it.
LEMMA AppendId ==
  ASSUME IInv, NEW id \in 1..IdMax, ~task_id_is_in_use(id),
         ids' = Append(ids, id),
         next_task_id' \in 1..IdMax,
         id < next_task_id', next_task_id <= next_task_id'
  PROVE  IInv'
<1> USE IdAssumption DEF IInv, TypeOK, Int32
<1>1. ids' \in Seq(1..IdMax) /\ Len(ids') = Len(ids) + 1
  OBVIOUS
<1>2. /\ \A i \in 1..Len(ids) : ids'[i] = ids[i]
      /\ ids'[Len(ids) + 1] = id
  OBVIOUS
<1>3. TypeOK' /\ (next_task_id <= IdMax)'
  BY <1>1
<1>4. CounterAhead'
  BY <1>1, <1>2 DEF CounterAhead
<1>5. UniqueIds'
  BY <1>1, <1>2 DEF UniqueIds, task_id_is_in_use
<1> QED BY <1>3, <1>4, <1>5

\* As long as no caller of cre_tsk() names the largest int, every call keeps the
\* invariant.
LEMMA RegistryInvariance ==
  ASSUME MaxCreateId < IdMax
  PROVE  Spec => []IInv
<1>1. Init => IInv
  BY IdAssumption DEF Init, IInv, TypeOK, Int32, CounterAhead, UniqueIds
<1>2. IInv /\ [Next]_vars => IInv'
  <2> SUFFICES ASSUME IInv, [Next]_vars PROVE IInv'
    OBVIOUS
  <2> USE IdAssumption
  <2>1. ASSUME UNCHANGED <<ids, next_task_id>> PROVE IInv'
    BY <2>1 DEF IInv, TypeOK, CounterAhead, UniqueIds
  <2>2. CASE task_init
    BY <2>2 DEF task_init, IInv, TypeOK, Int32, CounterAhead, UniqueIds
  <2>3. ASSUME NEW valid \in BOOLEAN, task_register(valid) PROVE IInv'
    <3>1. CASE HasFreeSlot /\ CanAllocate /\ ids' = Append(ids, next_task_id)
               /\ next_task_id' = next_task_id + 1
      <4>1. next_task_id \in 1..IdMax /\ next_task_id' \in 1..IdMax
        BY <3>1 DEF IInv, TypeOK, Int32, CanAllocate
      <4>2. ~task_id_is_in_use(next_task_id)
        BY DEF IInv, TypeOK, Int32, CounterAhead, task_id_is_in_use
      <4> QED BY <3>1, <4>1, <4>2, AppendId
    <3> QED BY <2>1, <2>3, <3>1 DEF task_register, Fail
  <2>4. ASSUME NEW id \in 0..MaxCreateId, NEW valid \in BOOLEAN,
               task_create_dormant(id, valid)
        PROVE  IInv'
    <3>1. CASE /\ id > 0 /\ ~task_id_is_in_use(id)
               /\ ids' = Append(ids, id) /\ next_task_id' = CounterPast(id)
      <4>1. id \in 1..IdMax /\ id + 1 <= IdMax
        BY <3>1
      <4>2. /\ next_task_id' \in 1..IdMax
            /\ id < next_task_id' /\ next_task_id <= next_task_id'
        BY <3>1, <4>1 DEF CounterPast, Wrap, IInv, TypeOK, Int32, CounterAhead
      <4> QED BY <3>1, <4>1, <4>2, AppendId
    <3> QED BY <2>1, <2>4, <3>1 DEF task_create_dormant, Fail
  <2>5. CASE UNCHANGED vars
    BY <2>1, <2>5 DEF vars
  <2> QED BY <2>2, <2>3, <2>4, <2>5 DEF Next
<1> QED BY <1>1, <1>2, PTL DEF Spec

\* Every task ID task.c hands out or accepts belongs to one slot, as long as no
\* caller of cre_tsk() names the largest int.
THEOREM IdsStayUnique ==
  ASSUME MaxCreateId < IdMax
  PROVE  Spec => []UniqueIds
<1>1. IInv => UniqueIds
  BY DEF IInv
<1> QED BY <1>1, RegistryInvariance, PTL

\* Under the same condition allocate_task_id() never hands out an ID in use,
\* although it does not search the table: the counter is past all of them.
THEOREM CounterStaysAhead ==
  ASSUME MaxCreateId < IdMax
  PROVE  Spec => []CounterAhead
<1>1. IInv => CounterAhead
  BY DEF IInv
<1> QED BY <1>1, RegistryInvariance, PTL

\* Whatever ID cre_tsk() is asked for, the largest int too, IDs in the table
\* are positive and the counter is an int.
THEOREM RegistryTyping == Spec => []TypeOK
<1> USE IdAssumption
<1>1. Init => TypeOK
  BY DEF Init, TypeOK, Int32
<1>2. TypeOK /\ [Next]_vars => TypeOK'
  <2> SUFFICES ASSUME TypeOK, [Next]_vars PROVE TypeOK'
    OBVIOUS
  <2>1. ASSUME UNCHANGED <<ids, next_task_id>> PROVE TypeOK'
    BY <2>1 DEF TypeOK
  <2>2. CASE task_init
    BY <2>2 DEF task_init, TypeOK, Int32
  <2>3. ASSUME NEW valid \in BOOLEAN, task_register(valid) PROVE TypeOK'
    <3>1. CASE CanAllocate /\ ids' = Append(ids, next_task_id)
               /\ next_task_id' = next_task_id + 1
      BY <3>1 DEF TypeOK, Int32, CanAllocate
    <3> QED BY <2>1, <2>3, <3>1 DEF task_register, Fail
  <2>4. ASSUME NEW id \in 0..MaxCreateId, NEW valid \in BOOLEAN,
               task_create_dormant(id, valid)
        PROVE  TypeOK'
    <3>1. CASE id > 0 /\ ids' = Append(ids, id) /\ next_task_id' = CounterPast(id)
      <4>1. id \in 1..IdMax /\ Wrap(id + 1) \in Int32
        BY <3>1 DEF Wrap, Int32
      <4> QED BY <3>1, <4>1 DEF TypeOK, CounterPast
    <3> QED BY <2>1, <2>4, <3>1 DEF task_create_dormant, Fail
  <2>5. CASE UNCHANGED vars
    BY <2>1, <2>5 DEF vars
  <2> QED BY <2>2, <2>3, <2>4, <2>5 DEF Next
<1> QED BY <1>1, <1>2, PTL DEF Spec

=============================================================================
