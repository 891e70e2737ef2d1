SPECIFICATION PartsSpec
CONSTANTS
  c1 = c1  c2 = c2
  Cancellers = {c1, c2}
  NumRuns = 2
  MaxRestarts = 1
  r1 = r1  r2 = r2
  MaxBatches = 2
  Episodes = 2
  CancelRequests = {c1, c2}
  BatchReaders = {r1, r2}
  BatchQueueSize = 2
  NumEnvs = 2
  JobCounts = {1, 3}
  MaxRounds = 2
  MaxFailures = 1
  TrainingEpisodes = 3
  PipelineEnvs = 2
  ValidationInterval = 2
  Scores = {0, 1}
  MaxRuns = 2
  NoBatch = NoBatch
INVARIANTS
  TypeOK
  AcceptedCancelIsBinding
  SuccessIsComplete
  ArchivedIsQuiet
  PartsTypeOK
  BatchIsOwn
  EpisodesCountOnce
PROPERTIES
  NoRunAfterCancel
  ExecutionsEnd
  BackgroundEnds
\* All requests may have been made and carried out.
CHECK_DEADLOCK FALSE
