SPECIFICATION Spec
CONSTANTS
  IdMax = 7
  MaxCreateId = 6
  MaxTasks = 4
INVARIANTS
  TypeOK
  UniqueIds
  CounterAhead
