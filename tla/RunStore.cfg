SPECIFICATION MCSpec
CONSTANTS
  Processes = {"api"}
  Worker = "worker"
  Kinds = {"observed"}
  MaxPoints = 4
  MaxAttempts = 2
  MaxFaults = 2
  MaxViews = 2
  Runs = {"r1", "r2"}
CHECK_DEADLOCK FALSE
INVARIANTS
  StoredRunIsWhole
PROPERTIES
  EndIsShownWhole
  MemoryShowsTheEnd
