SPECIFICATION PartsSpec
CONSTANTS
  t1 = t1
  t2 = t2
  i1 = i1
  None = None
  Threads = {t1, t2}
  Commands = {"stop", "reset"}
  Inserts = {i1}
  MaxSteps = 1
  Replay = FALSE
  MaxGenerations = 3
  x1 = x1
  x2 = x2
  x3 = x3
  g1 = g1
  Plans = {x1}
  Replays = {x2, x3}
  PlannedRuns = 2
  Algorithms = {g1}
  Planned = g1
  MaxRunSteps = 1
  SnapshotInterval = 1
  MaxFaults = 1
SYMMETRY Symmetry
INVARIANTS
  TypeOK
  FreshStepsOnly
  SessionStartsAfresh
  RunsTypeOK
  RecordsAreTrue
