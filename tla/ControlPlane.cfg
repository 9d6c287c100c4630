SPECIFICATION MCSpec
CONSTANTS
  Runs = {r1, r2}
  Workers = {w1, w2}
  NoWorker = NoWorker
  MaxAttempts = 2
  LeaseSeconds = 2
  RetryDelay = 1
  FailureAliases = {"engine-harness-error"}
  ForeignKeys = TRUE
  MaxNow = 3
  Callers = {c1, c2, c3}
  MaxThreads = 3
  ConfigNames = {"a", "b", "c"}
  Plugins = {"gain"}
  Missing = Missing
  RawConfigs <- MCConfigs
  RawManifests <- MCManifests
  LabelPaths <- MCPaths
  MaxManifests = 1
  MaxConfigs = 3
CHECK_DEADLOCK FALSE
INVARIANTS
  QueueTypeOK
  AttemptsHandedOutOnce
  StoredResultIsNewest
  OneLoop
  ResolvedConfigIsRight
PROPERTIES
  LiveLeaseIsKept
  EndedStaysEnded
  StopReachesLoop
  StopWorks
