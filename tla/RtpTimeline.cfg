SPECIFICATION MCSpec
CONSTANTS
  SequenceModulus = 8
  TimestampModulus = 16
  FirstSequence = 4
  FirstTimestamp = 12
  MediaStep = 2
  StallExcess = 4
  ArrivalGaps <- TwoGaps
  CounterSupported = FALSE
  MaxPackets = 5
  MaxFaults = 2
  MaxReports = 0
  MaxAdapters = 2
  Times <- MCTimes
  Directions = {"inbound", "unknown"}
  Readings <- MCReadings
  LossWarning = 1
  JitterWarning = 30
  MosWarning = 35
  WindowGap = 5
  MaxStats = 3
CHECK_DEADLOCK FALSE
INVARIANTS
  PacketEvidenceIsTrue
  CaptureIsJudged
  QualityIncidentsAreTrue
