SPECIFICATION PartsSpec
CONSTANTS
  j1 = j1  j2 = j2  j3 = j3  m1 = m1  m2 = m2
  None = None
  Jobs = {j1, j2, j3}
  Machines = {m1, m2}
  MaxOps = 2
  NumOps <- MCNumOps
  Options <- MCOptions
  Capacity <- OneAndTwo
  v1 = v1  v2 = v2  v3 = v3  v4 = v4  v5 = v5
  Nil = Nil
  Vehicles = {v1, v2, v3, v4, v5}
  Cells = {0, 1, 2, 3, 4, 5}
  Ports = {4}
  Adjacent <- Grid
SYMMETRY Symmetry
INVARIANTS
  DrainOrderIsExact
  ServesInTurn
  PlanIsSafe
  FirstGetsItsWay
\* All jobs may be drained, and all workpieces shipped.
CHECK_DEADLOCK FALSE
