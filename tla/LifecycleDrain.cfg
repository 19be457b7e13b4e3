SPECIFICATION FairSpec
CONSTANTS
  Req = {"r1"}
  Calls = 1
  Tracing = FALSE
  CloseFails = FALSE
PROPERTIES
  RequestsAreDrained
CHECK_DEADLOCK FALSE
