SPECIFICATION FairSpec
CONSTANTS
  c1 = c1  c2 = c2
  Cancellers = {c1, c2}
  NumRuns = 2
  MaxRestarts = 0
PROPERTIES
  CancelEnds
CHECK_DEADLOCK FALSE
