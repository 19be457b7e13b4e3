SPECIFICATION Spec
CONSTANTS
  User = {u1, u2, u3, u4}
  DefaultLimit = 1
  MaxLimit = 2
  Refused = Refused
SYMMETRY Sym
INVARIANTS
  MissesAreDeletions
  RepeatsAreArrivals
PROPERTIES
  PageFitsTotal
CHECK_DEADLOCK FALSE
