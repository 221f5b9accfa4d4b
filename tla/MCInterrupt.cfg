SPECIFICATION Spec
CONSTANTS
  MasterLines = {0, 1}
  SlaveLines = {0}
  CallIrqs = {0, 1, 8, 16}
INVARIANTS
  TypeOK
  OnlyTheTimerArrives
  MasksAsAsked
  NothingInService
  RestsAsBuilt
PROPERTY EndsAsBuilt
CHECK_DEADLOCK FALSE
