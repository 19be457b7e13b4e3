SPECIFICATION FairSpec
CONSTANTS
  Req = {"r1", "r2", "r3"}
  Calls = 2
  Tracing = TRUE
  CloseFails = TRUE
INVARIANTS
  AllIsClosed
  LostOnlyByShutdown
PROPERTIES
  SignalEnds
CHECK_DEADLOCK FALSE
