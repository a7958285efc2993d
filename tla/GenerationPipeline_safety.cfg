SPECIFICATION PipeSpec
CONSTANTS
  j1 = j1
  u1 = u1
  w1 = w1
  w2 = w2
  Job = {j1}
  User = {u1}
  Owner <- MCOwner
  MaxAttempts = 2
  MaxActive = 1
  ReportStages <- MCStages
  MaxFaults = 1
  Worker = {w1, w2}
  MaxPublish = 2
  ProviderCancels = TRUE
  Mishaps = {"mark", "publish", "call", "fail", "ack", "crash", "loop"}
  MaxMishaps = 1
SYMMETRY Symmetry
CONSTRAINT Bound
INVARIANTS
  AttemptNotForgotten
  SettledWhenAcked
  CompletingHoldsRow
  PipeTypeOK
  AnnouncedOnce
CHECK_DEADLOCK FALSE
