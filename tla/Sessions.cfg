SPECIFICATION FairSpec
CONSTANTS
  Tok = {"a", "b"}
  Call = {"aRead", "aOut", "bPass"}
  Inst = {"i1", "i2"}
  TokOf <- SmallTokOf
  InstOf <- SmallInstOf
  KindOf <- SmallKindOf
  TTL = 2
  MaxTime = 4
  MaxBoots = 1
  DbErrors = TRUE
INVARIANTS
  RevokedIsRefused
PROPERTIES
  ExpiredIsForgotten
