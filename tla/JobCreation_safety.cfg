SPECIFICATION CreationSpec
CONSTANTS
  j1 = j1
  j2 = j2
  j3 = j3
  j4 = j4
  j5 = j5
  u1 = u1
  u2 = u2
  k1 = k1
  k2 = k2
  p1 = p1
  p2 = p2
  p3 = p3
  c1 = c1
  c2 = c2
  Job = {j1, j2, j3, j4, j5}
  User = {u1, u2}
  Key = {k1, k2}
  Preview = {p1, p2, p3}
  Content = {c1, c2}
  Asked <- MCAsked
  KeyPerUser = FALSE
  Owner <- MCOwner
  MaxAttempts = 1
  MaxActive = 1
  ReportStages = {}
  MaxFaults = 1
SYMMETRY Symmetry
CONSTRAINT NoTimeout
CONSTRAINT OtherUserFirst
CONSTRAINT PlainRuns
INVARIANTS
  PreviewSpentOnce
  ReplayReturnsJobUnlessRaced
PROPERTIES
  JobKeysKept
  CreationRefined
CHECK_DEADLOCK FALSE
