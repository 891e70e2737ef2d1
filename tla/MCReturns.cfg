SPECIFICATION PartsSpec
CONSTANTS
  t1 = t1
  t2 = t2
  i1 = i1
  None = None
  Threads = {t1, t2}
  Commands = {"create"}
  Inserts = {}
  MaxSteps = 1
  Replay = TRUE
  MaxGenerations = 3
  MaxRequests = 1
  Clashing = {}
PROPERTIES
  RequestsEnd
CHECK_DEADLOCK FALSE
