SPECIFICATION Spec
CONSTANTS
  t1 = t1
  t2 = t2
  t3 = t3
  Task = {t1, t2, t3}
  Sem = {s1}
  NoTask = NoTask
  NoSem = NoSem
  Priority <- PriorityOf
  StackOk <- SmallStack
  MaxTasks = 3
  MaxCount = 1
  MaxDelay = 2
  Recommit = TRUE
  TimerIrq = FALSE
INVARIANTS
  RunningIsCurrent
