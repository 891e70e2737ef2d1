SPECIFICATION Spec
CONSTANTS
  j1 = j1  j2 = j2  m1 = m1  m2 = m2  a1 = a1  a2 = a2
  None = None
  Jobs = {j1, j2}
  Machines = {m1, m2}
  AGVs = {a1, a2}
  MaxOps = 2
  NumOps <- TwoOps
  Options <- Crossing
  Priority <- Equal
  ProcTimes = {1}
  Capacity <- UnitCapacity
  PickupDwell = 0
  DropoffDwell = 0
  Cells <- MCCells
  Adj <- MCAdj
  Location <- MCLocation
  RawSource = "raw"
  FinishedDest = "out"
  StartPos <- MCStart
  MaxFailures = 0
  MaxReschedules = 0
INVARIANTS
  TypeOK
  TransfersKept
