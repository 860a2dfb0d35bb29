SPECIFICATION FairSpec
CONSTANTS
  host = host
  svc = svc
  Objects = {host}
  Hosts = {host}
  MaxId = 2
  MaxTime = 4
  MaxPending = 3
  MaxRestarts = 0
  Windows <- OneWindow
  Duration = 1
  Kinds <- Propagated
PROPERTY Returns
CHECK_DEADLOCK FALSE
