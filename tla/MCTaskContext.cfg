SPECIFICATION Spec
CONSTANTS
  t1 = t1
  t2 = t2
  t3 = t3
  Task <- MCTask
  NoTask = NoTask
  Boot = Boot
  StackOk <- MCStackOk
INVARIANTS
  TypeOK
  NeverStranded
PROPERTIES
  SwitchAsSpecified
  SwitchReturns
