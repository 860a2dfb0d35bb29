SPECIFICATION FairSpec
CONSTANTS
  c1 = c1
  c2 = c2
  c3 = c3
  p1 = p1
  p2 = p2
  None = None
  Commands = {c1, c2, c3, p1, p2}
  Safe = {p1, p2}
  Refused = {p2}
  Slots = 2
INVARIANT TypeOK
INVARIANT InOrder
PROPERTY QueueSpec
PROPERTY Delivered
