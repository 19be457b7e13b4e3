SPECIFICATION FairSpec
CONSTANTS
  User = {"u1"}
  Token = {"t1", "t2"}
  Confirm = {"c1", "c2", "d1"}
  Change = {"h1"}
  OwnerOf <- SmallOwnerOf
  TokenOf <- SmallTokenOf
  UserOf <- SmallUserOf
  Initial = "registered"
  CallsFail = TRUE
INVARIANTS
  SpentTokenIsDead
  TokenIsNotBurnt
  OldPasswordIsDead
PROPERTIES
  DeletedKeepPassword
  TokensAreCleaned
CHECK_DEADLOCK FALSE
