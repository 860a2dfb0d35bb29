SPECIFICATION FairSpec
CONSTANTS
  Problems = {"WARNING", "CRITICAL"}
  Contacts = {"ann", "bob", "cat"}
  Normal = {"ann"}
  Pool <- Levels
  Filters <- Wishes
  Interval = 1
  MaxNumber = 4
  MaxChanges = 2
INVARIANT TypeOK
PROPERTY RecoveryToTold
PROPERTY LevelsReached
