SPECIFICATION MCSpec
CONSTANTS
  ProviderSessions <- AllSessions
  MaxItems = 2
  ChunkSizes <- Chunks03
  Packet = 2
  BufferSize = 3
  EvidenceLimit = 2
  MaxMessages = 2
  Attempts = 3
  InitialBackoff = 2
  MaxBackoff = 3
  Errors <- TwoErrors
  RtcpEvents <- EdgeEvents
  MaxEvents = 2
  MaxFaults = 2
CHECK_DEADLOCK FALSE
INVARIANTS
  PlaybackInv
  BargeInInv
  PumpFailureFailsRun
  ConnectionInv
  CollectorInv
PROPERTIES
  BriefCallsEnd
