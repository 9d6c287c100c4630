SPECIFICATION MCSpec
CONSTANTS
  Kinds = {"response", "playback", "late"}
  Stages <- TwoStages
  Durations = {1, 2}
  MinSilence = 2
  MaxSilenceGap = 1
  MinDeadAir = 2
  MinUnderrun = 2
  MaxNow = 3
  MaxObservations = 5
  MaxBursts = 2
  Nothing = Nothing
  Pipeline <- MCPipeline
  Deltas <- MCDeltas
  FullScale = {0}
  Times = {0, 3}
  RecordingDurations = {50, 100}
  Levels <- MCLevels
  DurationTolerance = 2
  LevelTolerance = 3
  LevelThreshold = 1
  NearbyWindow = 2
  StageKinds = {"chunk", "recording", "cadence", "click", "failure"}
  MaxStageObservations = 3
CHECK_DEADLOCK FALSE
INVARIANTS
  TurnsAreTrue
  SilenceIsTrue
  IncidentsAreWhole
  StagesAreJudged
