SPECIFICATION Spec
CONSTANTS
  Req <- FewReq
  KeyOf <- FewKeyOf
  InstOf <- FewInstOf
  Inst = {"i1", "i2"}
  Key = {"ka", "kb"}
  LockKey = {"l"}
  LockOf <- OneLock
  MaxConns = 4
  MaxEntries = 1
  Faults = {"dberr", "ttl", "crash"}
  MaxCrashes = 1
  None = None
  Error = Error
INVARIANTS
  RepeatIsExcused
  LockProtects
  EffectIsSaved
  ReplayFaithful
  ErrorMeansNotDone
PROPERTIES
  RowsOnlyExpire
CHECK_DEADLOCK FALSE
