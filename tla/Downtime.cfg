SPECIFICATION FairSpec
CONSTANTS
  host = host
  svc = svc
  Objects = {host, svc}
  Hosts = {host}
  MaxId = 2
  MaxTime = 3
  MaxPending = 3
  MaxRestarts = 1
  Windows <- OneWindow
  Duration = 1
  Kinds <- NotHanging
INVARIANT TypeOK
INVARIANT DepthExact
INVARIANT PendingCovers
PROPERTY Concluded
CHECK_DEADLOCK FALSE
