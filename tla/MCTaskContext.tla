---------------------------- MODULE MCTaskContext ----------------------------
\* Three tasks, one of them with a stack too small for a frame.
EXTENDS TaskContext

CONSTANTS t1, t2, t3

MCTask == {t1, t2, t3}
MCStackOk == [t \in MCTask |-> t # t3]
=============================================================================
