SPECIFICATION FairPipeSpec
CONSTANTS
  j1 = j1
  u1 = u1
  w1 = w1
  w2 = w2
  Job = {j1}
  User = {u1}
  Owner <- MCOwner
  MaxAttempts = 1
  MaxActive = 1
  ReportStages <- MCStages
  MaxFaults = 0
  Worker = {w1, w2}
  MaxPublish = 1
  Mishaps = {"mark", "call", "ack", "crash", "loop"}
  MaxMishaps = 1
  ProviderCancels = TRUE
PROPERTIES
  Delivered
  ServiceRefined
CHECK_DEADLOCK FALSE
