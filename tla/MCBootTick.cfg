SPECIFICATION BootSpec
CONSTANTS
  Task <- BootTask
  Sem <- BootSem
  NoTask = "NoTask"
  NoSem = 0
  Priority <- BootPriority
  StackOk <- BootStackOk
  MaxTasks = 256
  MaxCount = 1
  MaxDelay = 10
  Recommit = TRUE
  TimerIrq = TRUE
INVARIANT TickRequestRecorded
