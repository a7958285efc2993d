SPECIFICATION PipeSpec
CONSTANTS
  j1 = j1
  u1 = u1
  w1 = w1
  w2 = w2
  Job = {j1}
  User = {u1}
  Owner <- MCOwner
  MaxAttempts = 1
  MaxActive = 1
  ReportStages <- MCStages
  MaxFaults = 0
  Worker = {w1}
  MaxPublish = 1
  ProviderCancels = FALSE
  Mishaps = {"fail"}
  MaxMishaps = 1
INVARIANTS
  FailureKeptPending
CHECK_DEADLOCK FALSE
