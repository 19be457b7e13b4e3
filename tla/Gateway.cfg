SPECIFICATION Spec
CONSTANTS
  Call = {c1, c2, c3}
  Inst = {i1, i2}
  Tok = {t1, t2}
  Claims = {t1}
  Header = {h1}
  None = None
  CallsFail = TRUE
SYMMETRY Sym
INVARIANTS
  RepeatOnlyAfterError
  RetryIsToldTheTruth
  LogoutBites
  LogoutIsNotReplayed
  ResponseWasEarned
CHECK_DEADLOCK FALSE
