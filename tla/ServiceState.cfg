SPECIFICATION Spec
CONSTANTS
  None = None
  Problems = {warning, critical}
  Attempts = {2, 3}
  Interval = 2
  FirstDelay = 0
  RecoveryDelay = 0
  Volatile = FALSE
  NotifyOn <- Always
  NotifyFlapping = TRUE
  NotifyDowntime = TRUE
  MaxDepth = 1
  MaxClosed = 1
  MaxNumber = 1
  Features <- All
SYMMETRY ProblemSymmetry
VIEW WithoutHistory
INVARIANT TypeOK
PROPERTY ConfirmedStaysHard
PROPERTY RenotifySpacing
