SPECIFICATION PartsSpec
CONSTANTS
  a1 = a1
  Floor = {0, 1, 2, 3, 4}
  NextTo <- Corner
  Movers = {a1}
  MachineCells = {2}
  Durations = {2}
  Configured <- ThreeEvents
  MaxTimeline = 3
  MaxManual = 1
  c1 = c1
  c2 = c2
  s1 = s1
  s2 = s2
  Nothing = Nothing
  Carts = {c1, c2}
  Stations = {s1, s2}
  Templates = {1}
  Operations <- OneJob
  Order <- JustOne
  CartPoint <- CartAt
  StationPoint <- StationAt
  Travel <- TwoApart
  Slice = 1
  Kinds = {"restart", "pause", "run", "fail agv", "recover agv", "fail machine", "recover machine", "add job"}
  MaxCommands = 3
  MaxJobs = 2
INVARIANTS
  PartsTypeOK
  WaysStayOpen
  EventsTakeEffect
  OperationsAreKept
