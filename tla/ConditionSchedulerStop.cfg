SPECIFICATION FairSpec
CONSTANTS
  c = c
  s = s
  e = e
  ConditionJobs = {c}
  WebSocketJobs = {}
  EventJobs = {e}
  Recurring = {}
  MaxSchedules <- Once
  MaxEvents = 1
  MaxFaults = 0
PROPERTIES StopTerminates
CHECK_DEADLOCK FALSE
