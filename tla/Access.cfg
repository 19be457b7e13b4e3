SPECIFICATION FairSpec
CONSTANTS
  User = {"ann"}
  Slot = {"a1", "a2"}
  UserOf <- SmallUserOf
  TTL <- SmallTTL
  MaxAway = 4
  CallsFail = TRUE
INVARIANTS
  DeletionBites
  DismissalBites
PROPERTIES
  DeletedAreLockedOut
