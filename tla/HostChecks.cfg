SPECIFICATION FairSpec
CONSTANTS
  router = router
  server = server
  None = None
  Hosts = {router, server}
  Parents <- Behind
  Attempts <- OneAndTwo
  OnDemandOnly <- RouterOrNone
  NoCommand = {}
  MaxDisturbances = 2
  Features = {"ondemand", "aggressive", "forced", "freshness", "lost", "late", "passive", "switch", "unviable"}
INVARIANT TypeOK
INVARIANT NeverDropped
INVARIANT RetriesQueued
INVARIANT HardEarned
PROPERTY Settled
CHECK_DEADLOCK FALSE
