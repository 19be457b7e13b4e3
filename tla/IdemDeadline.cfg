SPECIFICATION TimedSpec
CONSTANTS
  Req <- FewReq
  KeyOf <- FewKeyOf
  InstOf <- PoolInstOf
  Inst = {"i1", "i2"}
  Key = {"ka", "kb"}
  LockKey = {"l"}
  LockOf <- OneLock
  MaxConns = 2
  MaxEntries = 1
  Faults = {"deadline"}
  MaxCrashes = 0
  None = None
  Error = Error
INVARIANTS
  WedgeMeansPoolFull
PROPERTIES
  EveryRequestAnswered
CHECK_DEADLOCK FALSE
