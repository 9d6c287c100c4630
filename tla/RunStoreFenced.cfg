SPECIFICATION MCSpec
CONSTANTS
  Processes = {"api"}
  Worker = "worker"
  Kinds = {"queued"}
  MaxPoints = 3
  MaxAttempts = 2
  MaxFaults = 2
  MaxViews = 2
  Runs = {"r1"}
INVARIANTS
  EndedJobHasEndedRun
CHECK_DEADLOCK FALSE
