SPECIFICATION Spec
CONSTANTS
  j1 = j1  j2 = j2  m1 = m1  m2 = m2  a1 = a1  a2 = a2
  None = None
  Jobs = {j1, j2}
  Machines = {m1}
  AGVs = {a1}
  MaxOps = 2
  NumOps <- OneAndTwo
  Options <- AnyMachine
  Priority <- UrgentSecond
  ProcTimes = {1, 2}
  Capacity <- UnitCapacity
  PickupDwell = 1
  DropoffDwell = 2
  Cells <- RowCells
  Adj <- RowAdj
  Location <- RowLocation
  RawSource = "raw"
  FinishedDest = "out"
  StartPos <- RowStart
  MaxFailures = 1
  MaxReschedules = 1
PROPERTIES
  ImplementsWorkpiece
INVARIANTS
  BufferBound
  PreemptionIsFair
  NoLostWakeup
  WorkpieceConservation
