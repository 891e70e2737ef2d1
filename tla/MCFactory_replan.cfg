SPECIFICATION Spec
CONSTANTS
  j1 = j1  j2 = j2  m1 = m1  m2 = m2  a1 = a1  a2 = a2
  None = None
  Jobs = {j1, j2}
  Machines = {m1, m2}
  AGVs = {a1, a2}
  MaxOps = 1
  NumOps <- OneOp
  Options <- AnyMachine
  Priority <- Equal
  ProcTimes = {1}
  Capacity <- UnitCapacity
  PickupDwell = 1
  DropoffDwell = 2
  Cells <- SquareCells
  Adj <- SquareAdj
  Location <- MCLocation
  RawSource = "raw"
  FinishedDest = "out"
  StartPos <- SquareStart
  MaxFailures = 0
  MaxReschedules = 1
INVARIANTS
  ReschedulesCleanly
PROPERTIES
  LoadedStaysAboard
