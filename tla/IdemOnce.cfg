SPECIFICATION FairSpec
CONSTANTS
  Req <- OnceReq
  KeyOf <- OnceKeyOf
  InstOf <- OnceInstOf
  Inst = {"i1", "i2"}
  Key = {"ka", "kb"}
  LockKey = {"l"}
  LockOf <- OneLock
  MaxConns = 4
  MaxEntries = 1
  Faults = {}
  MaxCrashes = 0
  None = None
  Error = Error
PROPERTIES
  KeepsPromise
  EveryRequestAnswered
CHECK_DEADLOCK FALSE
