SPECIFICATION Spec
CONSTANTS
  b1 = b1
  r1 = r1
  r2 = r2
  r3 = r3
  r4 = r4
  r5 = r5
  None = None
  Browser = {b1}
  Request = {r1, r2, r3, r4, r5}
  BrowserOf <- MCBrowserOf
CONSTRAINT FewExpire
SYMMETRY Symmetry
INVARIANTS
  SessionKept
PROPERTIES
  FamiliesKept
CHECK_DEADLOCK FALSE
