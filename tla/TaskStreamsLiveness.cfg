SPECIFICATION FairSpec
CONSTANTS
  t1 = t1
  Tasks = {t1}
  Requests <- OneTask
  MaxAttempts = 1
  Workers = 1
  Published <- OnlyFirst
  Reported <- OnlyFirst
  StreamMaxLen = 2
  ScanLimit = 1
  Expiring = {}
  MaxId = 8
  MaxFaults = 2
PROPERTIES EventuallySettled ExpiredDrained
CHECK_DEADLOCK FALSE
