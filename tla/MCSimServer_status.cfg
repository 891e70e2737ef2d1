SPECIFICATION Spec
CONSTANTS
  t1 = t1
  t2 = t2
  i1 = i1
  None = None
  Threads = {t1, t2}
  Commands = {"stop"}
  Inserts = {}
  MaxSteps = 1
  Replay = FALSE
  MaxGenerations = 3

INVARIANTS
  StatusIsCurrent
