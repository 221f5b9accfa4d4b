SPECIFICATION Spec
CONSTANTS
  t1 = t1  t2 = t2  t3 = t3  t4 = t4
  Task = {t1, t2, t3, t4}
  NoTask = NoTask
  MaxTasks = 3
  MaxDelay = 3
INVARIANTS TypeOK CellsMatchCount
PROPERTY ImplementsList
SYMMETRY Symmetry
