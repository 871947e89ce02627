SPECIFICATION Spec
CONSTANTS
  t1 = t1
  Tasks = {t1}
  Requests <- OneTask
  MaxAttempts = 2
  Workers = 2
  Published <- BothOutcomes
  Reported <- BothOutcomes
  StreamMaxLen = 1
  ScanLimit = 1
  Expiring = {"dispatched"}
  MaxId = 3
  MaxFaults = 1
INVARIANTS TimeoutCoverage FailedCopyHasStatus
PROPERTIES DeletedOnlyAfterCopy
CHECK_DEADLOCK FALSE
