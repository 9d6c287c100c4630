SPECIFICATION MCSpec
CONSTANTS
  Flushers = {f1, f2}
  Limit <- SmallLimits
  Refused = {}
  MaxItems <- FewItems
  MaxPosts = 1
  MaxFaults = 2
  Formats <- MCFormats
  Samples <- MCSamples
  Threshold = 2
  MinLevel = 1
  Dedup = 3
  MaxChunk = 2
  MaxFrames = 5
  MaxSegments = 2
SYMMETRY Symmetry
CHECK_DEADLOCK FALSE
PROPERTIES CompletedRunIsImmutable
