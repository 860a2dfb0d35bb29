SPECIFICATION FairSpec
CONSTANTS
  None = None
  Problems = {"WARNING", "CRITICAL"}
  Attempts = {2}
  Interval = 0
  FirstDelay = 1
  RecoveryDelay = 1
  Volatile = FALSE
  NotifyOn <- Always
  NotifyFlapping = FALSE
  NotifyDowntime = FALSE
  MaxDepth = 1
  MaxClosed = 1
  MaxNumber = 1
  Features <- Steady
INVARIANT RecoveryOwed
INVARIANT NoUntoldRecovery
INVARIANT EarnedProblem
PROPERTY RecoveryComes
PROPERTY ProblemComes
