SPECIFICATION FairSpec
CONSTANTS
  j1 = j1
  j2 = j2
  u1 = u1
  Job = {j1, j2}
  User = {u1}
  Owner <- MCOwner
  MaxAttempts = 2
  MaxActive = 1
  ReportStages = {"GENERATING"}
  MaxFaults = 1
INVARIANTS
  TypeOK
  CancelRequestPins
  OutputIffSucceeded
  OutboxPerAttempt
  AssetsAccounted
  RowConsistent
PROPERTIES
  TimeoutsEndListedAttempts
  LifecycleKept
  AttemptsEnd
  CancelLands
CHECK_DEADLOCK FALSE
