------------------------- MODULE TaskContext_proofs -------------------------
(***************************************************************************)
(* A task switch, taken through frames, reservation and several stacks,    *)
(* never resumes a context that leads nowhere and has the effect of the    *)
(* one step that module Kernel makes of it: for every set of tasks.        *)
(***************************************************************************)
EXTENDS TaskContext, TLAPS

\* What a TCB can hold here: the wait fields are set only in WAITING.
TcbValues ==
  {K!Tcb("READY"), K!Tcb("RUNNING"), K!Tcb("DORMANT"), K!Waiting("SLEEP", 0, 0)}

\* The places the processor can be in.
LivePlaces ==
  {"caller", "check", "from", "to", "prepare first", "prepare last", "reserve",
   "leave boot", "trampoline", "finalized", "back in boot"}

Allowed == K!MaySwitch(before, from, to)

\* The source is not run again.
SourceWaits == before[from].state = "WAITING"

\* The tasks' states after dispatcher_switch_to() has marked source and target,
\* and after the entry of the source has returned.
Marked ==
  [before EXCEPT ![from] = IF SourceWaits THEN @ ELSE K!Tcb("READY"),
                 ![to] = K!Tcb("RUNNING")]
SourceRan == [Marked EXCEPT ![from] = K!Tcb("DORMANT")]

\* The boundary has been passed and the states are marked.
Committed ==
  Allowed /\ current = to /\ (pair <=> ~SourceWaits)

\* Both frames are built; boot goes on after the switch when it is resumed.
Framed == Committed /\ K!FramesOk(before, from, to)
InTask == Framed /\ context[Boot] = "back in boot"

Reservation == IF pair THEN [first |-> from, second |-> to] ELSE NoReservation

\* What is known at each place.  The entry of the first task runs with the
\* reservation made; that of the last task with none.
AtPlace ==
  /\ pc = "check" => tcb = before
  /\ pc = "from" => Allowed /\ tcb = before
  /\ pc = "to" =>
       /\ Allowed
       /\ tcb = [before EXCEPT ![from] = IF @.state = "RUNNING" THEN K!Tcb("READY") ELSE @]
  /\ pc = "prepare first" => Committed /\ tcb = Marked /\ pair
  /\ pc = "prepare last" =>
       /\ Committed /\ tcb = Marked
       /\ pair => context[from] = "trampoline" /\ StackOk[from]
  /\ pc \in {"reserve", "leave boot"} =>
       /\ Framed /\ tcb = Marked
       /\ context[First] = "trampoline" /\ context[to] = "trampoline"
  /\ pc = "trampoline" =>
       /\ InTask
       /\ \/ /\ pair /\ runs = from /\ reserved = Reservation
             /\ tcb = Marked /\ context[to] = "trampoline"
          \/ /\ ~pair /\ runs = to /\ reserved = NoReservation /\ tcb = Marked
          \/ /\ pair /\ runs = to /\ reserved = NoReservation /\ tcb = SourceRan
  /\ pc = "finalized" =>
       /\ InTask
       /\ \/ /\ pair /\ runs = from /\ reserved = Reservation
             /\ tcb = SourceRan /\ context[to] = "trampoline"
          \/ /\ runs = to /\ reserved = NoReservation
             /\ tcb = K!AfterSwitch(before, from, to)
  /\ pc = "back in boot" => Framed /\ tcb = K!AfterSwitch(before, from, to)

\* On the boot stack, with a reservation only between Reserve and the switch.
Stacks ==
  /\ pc \notin {"trampoline", "finalized"} => runs = Boot
  /\ pc \notin {"leave boot", "trampoline", "finalized"} => reserved = NoReservation
  /\ pc = "leave boot" => reserved = Reservation

\* The inductive invariant: the promise of TypeOK about the places needs to
\* know, step by step, which frames exist and what the reservation says.
ContextInv ==
  /\ TypeOK
  /\ tcb \in [Task -> TcbValues] /\ before \in [Task -> TcbValues]
  /\ pc \in LivePlaces
  /\ pc # "caller" => from \in Task /\ to \in Task
  /\ Stacks
  /\ AtPlace

\* The fields of the TCB values.
LEMMA TcbFields ==
  /\ \A st : K!Tcb(st).state = st /\ K!Tcb(st).reason = "NONE"
  /\ K!Waiting("SLEEP", 0, 0).state = "WAITING"
  /\ K!Waiting("SLEEP", 0, 0).reason = "SLEEP"
BY DEF K!Tcb, K!Waiting

\* A TCB whose state is not WAITING is the cleared one.
LEMMA TcbOfState ==
  ASSUME NEW v \in TcbValues
  PROVE  /\ v.state \in {"READY", "RUNNING", "DORMANT", "WAITING"}
         /\ v.state # "WAITING" => v = K!Tcb(v.state)
         /\ v.state \in K!States /\ v.reason \in K!Reasons
BY TcbFields DEF TcbValues, K!States, K!Reasons

\* The invariant holds initially.
LEMMA InitContextInv == Init => ContextInv
<1> SUFFICES ASSUME Init PROVE ContextInv
  OBVIOUS
<1>1. tcb \in [Task -> TcbValues] /\ before \in [Task -> TcbValues]
  BY DEF Init, TcbValues
<1>2. TypeOK
  BY <1>1, TcbOfState, ContextAssumption DEF Init, TypeOK, Places
<1> QED BY <1>1, <1>2 DEF Init, ContextInv, LivePlaces, Stacks, AtPlace

-----------------------------------------------------------------------------
(***************************************************************************)
(* The steps.                                                              *)
(***************************************************************************)

\* Callers change the states of tasks between switches.
LEMMA CallerSteps ==
  ASSUME ContextInv, NEW t \in Task, NEW old, NEW new \in TcbValues,
         Become(t, old, new), current' \in {t, current}
  PROVE  ContextInv'
<1>1. /\ tcb' \in [Task -> TcbValues] /\ current' \in Task \cup {NoTask}
      /\ pc = "caller"
      /\ UNCHANGED <<from, to, before, context, runs, pc, pair, reserved, result>>
  BY DEF ContextInv, TypeOK, Become, callVars
<1>2. TypeOK'
  BY <1>1, TcbOfState DEF ContextInv, TypeOK
<1> QED BY <1>1, <1>2 DEF ContextInv, LivePlaces, Stacks, AtPlace

\* dispatcher_switch_to() up to the point where both tasks are marked.
LEMMA DispatcherSteps ==
  ASSUME ContextInv,
         \/ \E t \in Task : CallSwitch(t)
         \/ CheckBoundary \/ FromReady \/ ToRunning
  PROVE  ContextInv'
<1> USE DEF ContextInv
<1>1. ASSUME NEW t \in Task, CallSwitch(t) PROVE ContextInv'
  <2>1. /\ from' \in Task /\ to' \in Task /\ before' = tcb /\ pc' = "check" /\ pc = "caller"
        /\ UNCHANGED <<tcb, current, context, runs, pair, reserved, result>>
    BY <1>1 DEF CallSwitch, TypeOK
  <2> QED BY <2>1 DEF TypeOK, LivePlaces, Stacks, AtPlace
<1>2. CASE CheckBoundary
  <2>1. /\ pc = "check" /\ UNCHANGED <<tcb, current, from, to, before, context, runs, pair, reserved>>
        /\ \/ pc' = "caller"
           \/ pc' = "from" /\ Allowed
    BY <1>2 DEF CheckBoundary, Return, Allowed, K!MaySwitch, AtPlace, callVars
  <2>2. Allowed' <=> Allowed
    BY <2>1 DEF Allowed, K!MaySwitch
  <2> QED BY <2>1, <2>2 DEF TypeOK, LivePlaces, Stacks, AtPlace
<1>3. CASE FromReady
  <2>1. /\ pc = "from" /\ pc' = "to" /\ Allowed /\ tcb = before
        /\ tcb' = [before EXCEPT ![from] = IF @.state = "RUNNING" THEN K!Tcb("READY") ELSE @]
        /\ UNCHANGED <<current, from, to, before, context, runs, pair, reserved, result>>
    BY <1>3 DEF FromReady, AtPlace, callVars
  <2>2. tcb' \in [Task -> TcbValues]
    BY <2>1 DEF TcbValues
  <2>3. TypeOK'
    BY <2>1, <2>2, TcbOfState DEF TypeOK
  <2>4. Allowed'
    BY <2>1 DEF Allowed, K!MaySwitch
  <2> QED BY <2>1, <2>2, <2>3, <2>4 DEF LivePlaces, Stacks, AtPlace
<1>4. CASE ToRunning
  <2>1. /\ pc = "to" /\ Allowed /\ from \in Task /\ to \in Task
        /\ tcb = [before EXCEPT ![from] = IF @.state = "RUNNING" THEN K!Tcb("READY") ELSE @]
        /\ tcb' = [tcb EXCEPT ![to] = K!Tcb("RUNNING")]
        /\ current' = to
        /\ pair' = (tcb[from].state # "WAITING")
        /\ pc' = IF pair' THEN "prepare first" ELSE "prepare last"
        /\ UNCHANGED <<from, to, before, context, runs, reserved, result>>
    BY <1>4 DEF ToRunning, AtPlace, callVars
  <2>2. /\ from # to /\ before[from].state \in {"RUNNING", "READY", "WAITING"}
        /\ before[from] \in TcbValues
    BY <2>1 DEF Allowed, K!MaySwitch
  <2>3. /\ pair' <=> ~SourceWaits
        /\ tcb[from] = IF SourceWaits THEN before[from] ELSE K!Tcb("READY")
    <3>1. tcb[from] = IF before[from].state = "RUNNING" THEN K!Tcb("READY") ELSE before[from]
      BY <2>1
    <3> QED BY <2>1, <2>2, <3>1, TcbOfState, TcbFields DEF SourceWaits
  <2>4. tcb' = Marked
    BY <2>1, <2>2, <2>3 DEF Marked, SourceWaits
  <2>5. Allowed' /\ (SourceWaits' <=> SourceWaits) /\ Marked' = Marked
    BY <2>1 DEF Allowed, K!MaySwitch, SourceWaits, Marked
  <2>6. tcb' \in [Task -> TcbValues]
    BY <2>1 DEF TcbValues
  <2>7. TypeOK'
    BY <2>1, <2>6, TcbOfState DEF TypeOK
  <2>8. Committed'
    BY <2>1, <2>3, <2>5 DEF Committed
  <2> QED BY <2>1, <2>4, <2>5, <2>6, <2>7, <2>8 DEF LivePlaces, Stacks, AtPlace
<1> QED BY <1>1, <1>2, <1>3, <1>4

\* While the arguments of the call stand, so does what is said in their terms.
LEMMA SameCall ==
  ASSUME UNCHANGED <<from, to, before, current, pair>>
  PROVE  /\ Committed' <=> Committed
         /\ Framed' <=> Framed
         /\ Marked' = Marked /\ SourceRan' = SourceRan
         /\ First' = First /\ Reservation' = Reservation
         /\ K!AfterSwitch(before, from, to)' = K!AfterSwitch(before, from, to)
<1>1. Allowed' <=> Allowed
  BY DEF Allowed, K!MaySwitch
<1>2. SourceWaits' <=> SourceWaits
  BY DEF SourceWaits
<1>3. Marked' = Marked
  BY <1>2 DEF Marked
<1>4. SourceRan' = SourceRan
  BY <1>3 DEF SourceRan
<1>5. K!FramesOk(before, from, to)' <=> K!FramesOk(before, from, to)
  BY DEF K!FramesOk
<1>6. K!AfterSwitch(before, from, to)' = K!AfterSwitch(before, from, to)
  BY <1>5 DEF K!AfterSwitch
<1> QED BY <1>1, <1>2, <1>3, <1>4, <1>5, <1>6
        DEF Committed, Framed, First, Reservation, NoReservation

\* Building the frames and making the reservation.
LEMMA PrepareSteps ==
  ASSUME ContextInv, PrepareFirst \/ PrepareLast \/ Reserve
  PROVE  ContextInv'
<1> USE DEF ContextInv
<1>1. UNCHANGED <<tcb, current, from, to, before, runs, pair>>
  BY DEF PrepareFirst, PrepareLast, Reserve, task_context_prepare_initial_frame, callVars
<1>2. /\ Committed' <=> Committed
      /\ Framed' <=> Framed
      /\ Marked' = Marked /\ First' = First /\ Reservation' = Reservation
  BY <1>1, SameCall
<1>3. from \in Task /\ to \in Task /\ from # Boot /\ to # Boot /\ Committed /\ tcb = Marked
      /\ from # to
  BY ContextAssumption
     DEF PrepareFirst, PrepareLast, Reserve, AtPlace, Framed, Committed, Allowed, K!MaySwitch
<1>4. CASE PrepareFirst \/ PrepareLast
  <2>1. /\ pc \in {"prepare first", "prepare last"} /\ UNCHANGED reserved
        /\ runs = Boot /\ reserved = NoReservation
    BY <1>4 DEF PrepareFirst, PrepareLast, task_context_prepare_initial_frame, Stacks
  <2>2. CASE pc' = "caller" /\ UNCHANGED context
    BY <1>1, <2>1, <2>2 DEF TypeOK, LivePlaces, Stacks, AtPlace
  <2>3. ASSUME NEW t \in {from, to}, context' = [context EXCEPT ![t] = "trampoline"], pc' # "caller"
        PROVE  TypeOK' /\ context'[t] = "trampoline"
               /\ \A o \in Task : o # t => context'[o] = context[o]
    BY <1>1, <1>3, <2>1, <2>3 DEF TypeOK, Places
  <2>4. CASE /\ PrepareFirst /\ StackOk[from]
             /\ context' = [context EXCEPT ![from] = "trampoline"]
             /\ pc' = "prepare last"
    BY <1>1, <1>2, <1>3, <2>1, <2>3, <2>4 DEF LivePlaces, Stacks, AtPlace
  <2>5. CASE /\ PrepareLast /\ StackOk[to]
             /\ context' = [context EXCEPT ![to] = "trampoline"]
             /\ pc' = "reserve"
    <3>1. pair => context[from] = "trampoline" /\ StackOk[from]
      BY <2>5 DEF PrepareLast, AtPlace
    <3>2. Framed
      BY <1>3, <2>5, <3>1 DEF Framed, Committed, SourceWaits, K!FramesOk
    <3>3. context'[First] = "trampoline" /\ context'[to] = "trampoline"
      BY <1>3, <2>3, <2>5, <3>1 DEF First
    <3> QED BY <1>1, <1>2, <1>3, <2>1, <2>3, <2>5, <3>2, <3>3 DEF LivePlaces, Stacks, AtPlace
  <2> QED BY <1>4, <2>2, <2>4, <2>5
          DEF PrepareFirst, PrepareLast, task_context_prepare_initial_frame, Return
<1>5. CASE Reserve
  <2>1. /\ pc = "reserve" /\ pc' = "leave boot" /\ UNCHANGED context
        /\ reserved = NoReservation /\ reserved' = Reservation
    BY <1>5 DEF Reserve, Stacks, Reservation
  <2> QED BY <1>1, <1>2, <1>5, <2>1 DEF TypeOK, LivePlaces, Stacks, AtPlace
<1> QED BY <1>4, <1>5

\* What the entries that ran have left of the states.
LEMMA AfterEntries ==
  ASSUME before \in [Task -> TcbValues], from \in Task, to \in Task, Framed
  PROVE  /\ Marked[to].state = "RUNNING" /\ SourceRan[to].state = "RUNNING"
         /\ pair => Marked[from].state = "READY"
         /\ K!AfterSwitch(before, from, to) =
              IF pair THEN [SourceRan EXCEPT ![to] = K!Tcb("DORMANT")]
              ELSE [Marked EXCEPT ![to] = K!Tcb("DORMANT")]
         /\ SourceRan = [Marked EXCEPT ![from] = K!Tcb("DORMANT")]
         /\ Marked \in [Task -> TcbValues] /\ SourceRan \in [Task -> TcbValues]
         /\ K!AfterSwitch(before, from, to) \in [Task -> TcbValues]
<1>1. from # to /\ (pair <=> ~SourceWaits) /\ K!FramesOk(before, from, to)
  BY DEF Framed, Committed, Allowed, K!MaySwitch
<1>2. K!AfterSwitch(before, from, to) =
        IF SourceWaits THEN [before EXCEPT ![to] = K!Tcb("DORMANT")]
        ELSE [before EXCEPT ![from] = K!Tcb("DORMANT"), ![to] = K!Tcb("DORMANT")]
  BY <1>1 DEF K!AfterSwitch, SourceWaits
<1>3. /\ Marked \in [Task -> TcbValues] /\ SourceRan \in [Task -> TcbValues]
      /\ K!AfterSwitch(before, from, to) \in [Task -> TcbValues]
  BY <1>2 DEF Marked, SourceRan, TcbValues
<1>4. /\ Marked[to].state = "RUNNING" /\ SourceRan[to].state = "RUNNING"
      /\ pair => Marked[from].state = "READY"
  BY <1>1, TcbFields DEF Marked, SourceRan
<1>5. CASE SourceWaits
  BY <1>1, <1>2, <1>3, <1>4, <1>5 DEF Marked, SourceRan
<1>6. CASE ~SourceWaits
  BY <1>1, <1>2, <1>3, <1>4, <1>6 DEF Marked, SourceRan
<1> QED BY <1>3, <1>4, <1>5, <1>6 DEF SourceRan

\* Leaving boot, running the entries and coming back.
LEMMA EntrySteps ==
  ASSUME ContextInv,
         \/ task_context_switch_to_task \/ EnterAndFinalize
         \/ SwitchToSecond \/ SwitchBack \/ BackInBoot
  PROVE  ContextInv'
<1> USE DEF ContextInv
<1>1. UNCHANGED <<current, from, to, before, pair>>
  BY DEF task_context_switch_to_task, EnterAndFinalize, SwitchToSecond, SwitchBack,
         BackInBoot, callVars
<1>2. /\ Framed' <=> Framed
      /\ Marked' = Marked /\ SourceRan' = SourceRan
      /\ First' = First /\ Reservation' = Reservation
      /\ K!AfterSwitch(before, from, to)' = K!AfterSwitch(before, from, to)
  BY <1>1, SameCall
<1>3. /\ from \in Task /\ to \in Task /\ from # Boot /\ to # Boot /\ Framed /\ from # to
      /\ from # NoTask /\ to # NoTask
  BY ContextAssumption
     DEF task_context_switch_to_task, EnterAndFinalize, SwitchToSecond, SwitchBack,
         BackInBoot, TakesReservation, LivePlaces, AtPlace, InTask, Framed, Committed,
         Allowed, K!MaySwitch
<1>4. /\ Marked[to].state = "RUNNING" /\ SourceRan[to].state = "RUNNING"
      /\ pair => Marked[from].state = "READY"
      /\ K!AfterSwitch(before, from, to) =
           IF pair THEN [SourceRan EXCEPT ![to] = K!Tcb("DORMANT")]
           ELSE [Marked EXCEPT ![to] = K!Tcb("DORMANT")]
      /\ SourceRan = [Marked EXCEPT ![from] = K!Tcb("DORMANT")]
      /\ Marked \in [Task -> TcbValues] /\ SourceRan \in [Task -> TcbValues]
      /\ K!AfterSwitch(before, from, to) \in [Task -> TcbValues]
  BY <1>3, AfterEntries
<1>5. CASE task_context_switch_to_task
  <2>1. /\ pc = "leave boot" /\ UNCHANGED <<tcb, reserved>> /\ tcb = Marked
        /\ context' = [context EXCEPT ![Boot] = "back in boot"]
        /\ runs' = First /\ pc' = context[First]
        /\ context[First] = "trampoline" /\ context[to] = "trampoline"
        /\ reserved = Reservation
    BY <1>5 DEF task_context_switch_to_task, arch_context_switch, Stacks, AtPlace
  <2>2. TypeOK' /\ context'[Boot] = "back in boot" /\ context'[to] = "trampoline"
    <3>1. First \in Task /\ pc' = "trampoline"
      BY <1>3, <2>1 DEF First
    <3>2. /\ context' \in [Task \cup {Boot} -> Places]
          /\ context'[Boot] = "back in boot"
          /\ \A t \in Task : context'[t] = context[t]
      BY <2>1, ContextAssumption DEF TypeOK, Places
    <3> QED BY <1>1, <1>3, <2>1, <3>1, <3>2 DEF TypeOK
  <2>3. Reservation = IF pair THEN [first |-> from, second |-> to] ELSE NoReservation
    BY DEF Reservation
  <2>4. InTask'
    BY <1>2, <1>3, <2>2 DEF InTask
  <2> QED BY <1>1, <1>2, <1>3, <2>1, <2>2, <2>3, <2>4
          DEF First, NoReservation, LivePlaces, Stacks, AtPlace
<1>6. CASE EnterAndFinalize
  <2>1. /\ pc = "trampoline" /\ pc' = "finalized"
        /\ tcb' = [tcb EXCEPT ![runs] = task_mark_dormant_from_entry_return(runs)]
        /\ UNCHANGED <<context, runs, reserved>> /\ InTask
    BY <1>6 DEF EnterAndFinalize, AtPlace
  <2>2. tcb[runs].state \in {"RUNNING", "READY"} /\ runs \in Task
    BY <1>3, <1>4, <2>1 DEF AtPlace
  <2>3. tcb' = [tcb EXCEPT ![runs] = K!Tcb("DORMANT")]
    BY <2>1, <2>2 DEF task_mark_dormant_from_entry_return
  <2>4. \/ /\ pair /\ runs = from /\ reserved = Reservation
           /\ tcb' = SourceRan /\ context[to] = "trampoline"
        \/ /\ runs = to /\ reserved = NoReservation
           /\ tcb' = K!AfterSwitch(before, from, to)
    <3>1. CASE pair /\ runs = from /\ reserved = Reservation
               /\ tcb = Marked /\ context[to] = "trampoline"
      BY <1>4, <2>3, <3>1
    <3>2. CASE ~pair /\ runs = to /\ reserved = NoReservation /\ tcb = Marked
      BY <1>4, <2>3, <3>2
    <3>3. CASE pair /\ runs = to /\ reserved = NoReservation /\ tcb = SourceRan
      BY <1>4, <2>3, <3>3
    <3> QED BY <2>1, <3>1, <3>2, <3>3 DEF AtPlace
  <2>5. tcb' \in [Task -> TcbValues]
    BY <1>4, <2>4
  <2>6. TypeOK'
    BY <1>1, <2>1, <2>5, TcbOfState DEF TypeOK
  <2>7. InTask' /\ NoReservation' = NoReservation
    BY <1>2, <2>1 DEF InTask, NoReservation
  <2> QED BY <1>1, <1>2, <2>1, <2>4, <2>5, <2>6, <2>7 DEF LivePlaces, Stacks, AtPlace
<1>7. CASE SwitchToSecond
  <2>1. pc = "finalized" /\ reserved.first = runs /\ reserved.second # NoTask
    BY <1>7 DEF SwitchToSecond, TakesReservation
  <2>2. NoReservation.first = NoTask
    BY DEF NoReservation
  <2>3. /\ pair /\ runs = from /\ reserved = Reservation
        /\ tcb = SourceRan /\ context[to] = "trampoline" /\ InTask
    BY <1>3, <2>1, <2>2 DEF AtPlace
  <2>4. reserved.second = to
    BY <2>3 DEF Reservation
  <2>5. /\ context' = [context EXCEPT ![from] = "switched"] /\ runs' = to
        /\ pc' = "trampoline" /\ reserved' = NoReservation /\ UNCHANGED tcb
    BY <1>7, <2>3, <2>4 DEF SwitchToSecond, arch_context_switch
  <2>6. TypeOK' /\ context'[Boot] = "back in boot"
    BY <1>1, <1>3, <2>3, <2>5 DEF TypeOK, Places, InTask
  <2>7. InTask' /\ NoReservation' = NoReservation
    BY <1>2, <1>3, <2>6 DEF InTask, NoReservation
  <2> QED BY <1>1, <1>2, <1>3, <2>3, <2>5, <2>6, <2>7 DEF LivePlaces, Stacks, AtPlace
<1>8. CASE SwitchBack
  <2>1. pc = "finalized" /\ ~TakesReservation
    BY <1>8 DEF SwitchBack, LivePlaces
  <2>2. /\ runs = to /\ reserved = NoReservation
        /\ tcb = K!AfterSwitch(before, from, to) /\ InTask
    BY <1>3, <2>1 DEF AtPlace, TakesReservation, Reservation
  <2>3. /\ context' = [context EXCEPT ![to] = "hlt"] /\ runs' = Boot
        /\ pc' = "back in boot" /\ UNCHANGED <<tcb, reserved>>
    BY <1>8, <2>2 DEF SwitchBack, arch_context_switch, InTask
  <2>4. TypeOK'
    BY <1>1, <1>3, <2>3 DEF TypeOK, Places
  <2>5. NoReservation' = NoReservation
    BY DEF NoReservation
  <2> QED BY <1>1, <1>2, <1>3, <2>2, <2>3, <2>4, <2>5 DEF LivePlaces, Stacks, AtPlace
<1>9. CASE BackInBoot
  <2>1. /\ pc = "back in boot" /\ pc' = "caller" /\ reserved' = NoReservation
        /\ runs = Boot /\ UNCHANGED <<tcb, context, runs>>
    BY <1>9 DEF BackInBoot, Return, Stacks
  <2>2. NoReservation' = NoReservation
    BY DEF NoReservation
  <2> QED BY <1>1, <2>1, <2>2 DEF TypeOK, LivePlaces, Stacks, AtPlace
<1> QED BY <1>5, <1>6, <1>7, <1>8, <1>9

\* Every step keeps the invariant.
LEMMA StepContextInv == ContextInv /\ [Next]_vars => ContextInv'
<1> SUFFICES ASSUME ContextInv, [Next]_vars PROVE ContextInv'
  OBVIOUS
<1>1. ASSUME NEW t \in Task,
             \/ task_mark_running(t) \/ task_mark_ready_from_running(t)
             \/ task_start_dormant(t)
             \/ task_mark_waiting_on_sleep(t) \/ task_wake_waiting_on_sleep_by_id(t)
      PROVE  ContextInv'
  <2>1. {K!Tcb("READY"), K!Tcb("RUNNING"), K!Waiting("SLEEP", 0, 0)} \subseteq TcbValues
    BY DEF TcbValues
  <2>2. \E old : \E new \in TcbValues : Become(t, old, new) /\ current' \in {t, current}
    BY <1>1, <2>1 DEF task_mark_running, task_mark_ready_from_running, task_start_dormant,
                task_mark_waiting_on_sleep, task_wake_waiting_on_sleep_by_id
  <2> QED BY <2>2, CallerSteps
<1>2. CASE UNCHANGED vars
  <2>1. UNCHANGED <<tcb, current, from, to, before, context, runs, pc, pair, reserved>>
    BY <1>2 DEF vars, callVars
  <2>2. /\ Committed' <=> Committed
        /\ Framed' <=> Framed
        /\ Marked' = Marked /\ SourceRan' = SourceRan
        /\ First' = First /\ Reservation' = Reservation
        /\ K!AfterSwitch(before, from, to)' = K!AfterSwitch(before, from, to)
    BY <2>1, SameCall
  <2>3. (Allowed' <=> Allowed) /\ (InTask' <=> InTask)
    BY <2>1, <2>2 DEF Allowed, K!MaySwitch, InTask
  <2>4. TypeOK' /\ Stacks'
    BY <2>1, <2>2 DEF ContextInv, TypeOK, Stacks, NoReservation
  <2>5. AtPlace'
    BY <2>1, <2>2, <2>3 DEF ContextInv, AtPlace, NoReservation
  <2> QED BY <2>1, <2>4, <2>5 DEF ContextInv
<1> QED BY <1>1, <1>2, DispatcherSteps, PrepareSteps, EntrySteps DEF Next, Switching

-----------------------------------------------------------------------------
(***************************************************************************)
(* The theorems.                                                           *)
(***************************************************************************)

\* Only the boot code saves the boot context, a task's context resumes in the
\* task's own code, and no reservation outlives its switch (task_context.c).
THEOREM ContextTyping == Spec => []TypeOK
<1>1. ContextInv => TypeOK
  BY DEF ContextInv
<1> QED BY <1>1, InitContextInv, StepContextInv, PTL DEF Spec

\* No switch resumes a stack without a frame or a place in task_context_enter()
\* that is not returned to, though every task that ran left such a context.
THEOREM NobodyStranded == Spec => []NeverStranded
<1>1. ContextInv => NeverStranded
  BY DEF ContextInv, LivePlaces, Stacks, NeverStranded
<1> QED BY <1>1, InitContextInv, StepContextInv, PTL DEF Spec

\* The walk of a switch over several stacks ends in the states, the current
\* task and the result of the atomic dispatcher_switch_to() of module Kernel.
THEOREM SwitchIsAtomic == Spec => SwitchAsSpecified
<1> DEFINE Outcome ==
             /\ K!dispatcher_switch_to(before, from, to)
             /\ result' = (K!MaySwitch(before, from, to) /\ K!FramesOk(before, from, to))
           A == pc # "caller" /\ pc' = "caller" => Outcome
<1>1. ContextInv /\ [Next]_vars => [A]_vars
  <2> SUFFICES ASSUME ContextInv, [Next]_vars, pc # "caller", pc' = "caller"
               PROVE  Outcome
    OBVIOUS
  <2> USE DEF ContextInv
  <2>1. \/ CheckBoundary \/ PrepareFirst \/ PrepareLast \/ BackInBoot
        \/ task_context_switch_to_task \/ SwitchToSecond \/ SwitchBack
    BY DEF Next, Switching, Become, task_mark_running, task_mark_ready_from_running,
           task_start_dormant, task_mark_waiting_on_sleep, task_wake_waiting_on_sleep_by_id,
           CallSwitch, FromReady, ToRunning, Reserve, EnterAndFinalize, vars
  <2>2. CASE CheckBoundary
    <3>1. tcb' = before /\ UNCHANGED current /\ result' = FALSE /\ ~K!MaySwitch(before, from, to)
      BY <2>2 DEF CheckBoundary, Return, AtPlace, K!MaySwitch
    <3> QED BY <3>1 DEF K!dispatcher_switch_to
  <2>3. CASE PrepareFirst \/ PrepareLast
    <3>1. /\ Committed /\ tcb' = Marked /\ UNCHANGED current /\ result' = FALSE
          /\ from \in Task /\ to \in Task
          /\ (pair /\ ~StackOk[from]) \/ ~StackOk[to]
      BY <2>3 DEF PrepareFirst, PrepareLast, task_context_prepare_initial_frame, Return,
                  AtPlace, First
    <3>2. /\ K!MaySwitch(before, from, to) /\ current' = to
          /\ ~K!FramesOk(before, from, to)
      BY <3>1 DEF Committed, Allowed, SourceWaits, K!FramesOk
    <3>3. tcb' = K!AfterSwitch(before, from, to)
      BY <3>1, <3>2 DEF K!AfterSwitch, Marked, SourceWaits
    <3> QED BY <3>1, <3>2, <3>3 DEF K!dispatcher_switch_to
  <2>4. CASE BackInBoot
    <3>1. /\ Framed /\ UNCHANGED <<tcb, current>> /\ result' = TRUE
          /\ tcb = K!AfterSwitch(before, from, to)
      BY <2>4 DEF BackInBoot, Return, AtPlace
    <3> QED BY <3>1 DEF Framed, Committed, Allowed, K!dispatcher_switch_to
  <2>5. CASE task_context_switch_to_task \/ SwitchToSecond \/ SwitchBack
    <3>1. from \in Task /\ to \in Task
      OBVIOUS
    <3>2. CASE task_context_switch_to_task \/ SwitchBack
      BY <3>1, <3>2 DEF task_context_switch_to_task, SwitchBack, arch_context_switch,
                        First, TypeOK, Places
    <3>3. CASE SwitchToSecond
      <4>1. pc = "finalized" /\ reserved.second # NoTask /\ pc' = context[reserved.second]
        BY <3>3 DEF SwitchToSecond, TakesReservation, arch_context_switch
      <4>2. reserved = NoReservation \/ (pair /\ reserved = Reservation)
        BY <4>1 DEF AtPlace
      <4>3. reserved.second = to
        BY <4>1, <4>2 DEF NoReservation, Reservation
      <4> QED BY <3>1, <4>1, <4>3 DEF TypeOK, Places
    <3> QED BY <2>5, <3>2, <3>3
  <2> QED BY <2>1, <2>2, <2>3, <2>4, <2>5
<1> QED BY <1>1, InitContextInv, StepContextInv, PTL DEF Spec, SwitchAsSpecified

=============================================================================
