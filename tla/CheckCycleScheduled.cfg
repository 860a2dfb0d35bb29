SPECIFICATION Spec
CONSTANTS
  s1 = s1
  s2 = s2
  None = None
  Services = {s1, s2}
  OneShot = {}
  Ids = {c1, c2}
  MaxParallel = 1
  MaxDelay = 1
  MaxLate = 0
  PluginTimeout = 1
  OrphanAfter = 0
  FreshAfter = 0
  MaxPending = 3
  MaxCounter = 3
  Masters <- Depends
  Features = {"unviable", "failing", "passive", "predictive", "switch", "stop"}
SYMMETRY IdSymmetry
INVARIANT CounterExact
INVARIANT NeverForgotten
INVARIANT ParallelLimit
