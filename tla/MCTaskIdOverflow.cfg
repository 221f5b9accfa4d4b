SPECIFICATION Spec
CONSTANTS
  IdMax = 4
  MaxCreateId = 4
  MaxTasks = 4
INVARIANTS
  UniqueIds
