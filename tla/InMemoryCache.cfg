SPECIFICATION CacheSpec
CONSTANTS
  Keys = {k1, k2, k3, k4}
  Times = {1, 2}
  MaxSize = 2
  WideSize = 3
  Absent = Absent
INVARIANTS
  ListMatchesIndex
  LargerKeepsMore
PROPERTIES
  IsRecencyMap
