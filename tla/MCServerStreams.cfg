SPECIFICATION PartsSpec
CONSTANTS
  r1 = r1
  Readers = {r1}
  NoReader = NoReader
  QueueSize = 2
  MaxEvents = 3
  v1 = v1
  v2 = v2
  Viewers = {v1, v2}
  NoViewer = NoViewer
  MaxWorld = 3
  MaxRequests = 2
  Clashing = {2}
  h1 = h1
  h2 = h2
  Calls = {h1, h2}
  MaxProxies = 1
  l1 = l1
  l2 = l2
  Logs = {l1, l2}
  MaxLines = 2
  MaxIndexes = 2
  Limit = 1
SYMMETRY Symmetry
INVARIANTS
  PartsTypeOK
  ClientsKeepUp
  RequestsAreKept
  ControlAgrees
  PagesAreTrue
\* Streams and requests may come to an end.
CHECK_DEADLOCK FALSE
