SPECIFICATION MCSpec
CONSTANTS
  Runs = {r1}
  Workers = {w1, w2}
  NoWorker = NoWorker
  NoLease = NoLease
  MaxAttempts = 2
  LeaseSeconds = 2
  RetryDelay = 1
  FailureAliases = {"engine-harness-error"}
  ForeignKeys = FALSE
  MaxNow = 4
  HeartbeatInterval = 1
  ExecLimit = 0
  Timely = FALSE
  MaxFaults = 2
  LastSubmit = 4
CHECK_DEADLOCK FALSE
INVARIANTS
  WorkerTypeOK
  ResultsCommitTogether
  LeasesAreExclusive
  PunctualHeartbeatKeepsLease
PROPERTIES
  RowsAreTheHolders
  ImplementsLifecycle
  PunctualJobsEnd
