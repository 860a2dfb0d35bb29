SPECIFICATION FairSpec
CONSTANTS
  a1 = a1
  a2 = a2
  s1 = s1
  None = None
  Ids = {a1, a2, s1}
  Sync = {s1}
  MaxCrashes = 1
  Features = {"noexec", "version", "slow", "reload"}
INVARIANT TypeOK
INVARIANT EveryQuerySent
PROPERTY ServiceSpec
PROPERTY Answered
CHECK_DEADLOCK FALSE
