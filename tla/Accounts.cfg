SPECIFICATION FairSpec
CONSTANTS
  Signup = {"r1", "c2", "r3"}
  Edit = {"me1", "ad3", "ad2"}
  Removal = {"d1", "d2"}
  Email = {"a", "A", "b", "B"}
  Nobody = "nobody"
  Public = {"r1", "r3", "me1"}
  Lower <- SmallLower
  EmailOf <- SmallEmailOf
  TargetOf <- SmallTargetOf
  CallsFail = TRUE
INVARIANTS
  AnswersAreHonest
  OneSpelling
  OneDeletes
  AuditIsTrue
PROPERTIES
  IsDirectory
  SignupsAnswered
CHECK_DEADLOCK FALSE
