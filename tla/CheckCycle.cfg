SPECIFICATION Spec
CONSTANTS
  s1 = s1
  s2 = s2
  None = None
  Services = {s1}
  OneShot = {}
  Ids = {c1, c2}
  MaxParallel = 1
  MaxDelay = 1
  MaxLate = 1
  PluginTimeout = 1
  OrphanAfter = 1
  FreshAfter = 0
  MaxPending = 2
  MaxCounter = 2
  Masters <- Independent
  Features = {"unviable", "failing", "orphans", "freshness", "passive", "schedule", "switch", "stop", "reload"}
SYMMETRY IdSymmetry
INVARIANT TypeOK
INVARIANT ExecutingHasCheck
