SPECIFICATION FairSpec
CONSTANTS
  s1 = s1
  s2 = s2
  None = None
  Services = {s1, s2}
  OneShot = {}
  Ids = {c1, c2}
  MaxParallel = 0
  MaxDelay = 1
  MaxLate = 1
  PluginTimeout = 1
  OrphanAfter = 2
  FreshAfter = 0
  MaxPending = 2
  MaxCounter = 2
  Masters <- Independent
  Features = {"lost", "orphans"}
PROPERTY NoFalseOrphan
PROPERTY CheckedForever
