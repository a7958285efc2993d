SPECIFICATION Spec
CONSTANTS
  p1 = p1
  r1 = r1
  r2 = r2
  r3 = r3
  r4 = r4
  None = None
  Product = {p1}
  Request = {r1, r2, r3, r4}
  Target <- MCTarget
  ImageLimit = 2
  Cascades = FALSE
  MaxFaults = 1
SYMMETRY Symmetry
INVARIANTS
  ListedOpens
  ObjectsAccounted
  TidyUnlessDisturbed
PROPERTIES
  ChecksHoldUnlessDisturbed
CHECK_DEADLOCK FALSE
