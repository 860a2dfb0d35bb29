CONSTANTS
  Nodes = {n1, n2, n3}
  Objects = {s1}
  NULL = NULL
  MaxTime = 2
  Interval = 1
  Threshold = 2
  Reack = FALSE
SPECIFICATION Spec
SYMMETRY NodeSymmetry
VIEW LiveView
INVARIANTS TypeOK WellLinked CheckIndexExact NoEventOfGoneService
PROPERTIES QueuesSpec
