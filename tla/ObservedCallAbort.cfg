SPECIFICATION MCSpec
CONSTANTS
  Flushers = {"task", "close"}
  Limit <- SmallLimits
  Refused <- NoneRefused
  MaxItems <- FewItems
  MaxPosts = 0
  MaxFaults = 1
CHECK_DEADLOCK FALSE
INVARIANTS DisconnectFailsRun
