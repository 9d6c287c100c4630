SPECIFICATION MCSpec
CONSTANTS
  Runs = {r1}
  Workers = {w1}
  NoWorker = NoWorker
  NoLease = NoLease
  MaxAttempts = 2
  LeaseSeconds = 2
  RetryDelay = 1
  FailureAliases = {"engine-harness-error"}
  ForeignKeys = TRUE
  MaxNow = 5
  HeartbeatInterval = 1
  ExecLimit = 0
  Timely = FALSE
  MaxFaults = 2
  LastSubmit = 5
CHECK_DEADLOCK FALSE
INVARIANTS FailuresCommitTogether
