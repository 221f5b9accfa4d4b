SPECIFICATION Spec
CONSTANTS
  t1 = t1  t2 = t2  t3 = t3  t4 = t4
  Task = {t1, t2, t3, t4}
  NoTask = NoTask
  MaxSems = 2
  MaxTasks = 3
  MaxCount = 1
  SemIdMax = 4
INVARIANTS TypeOK RingShape IdsAreUnique
PROPERTY ImplementsQueues
SYMMETRY Symmetry
