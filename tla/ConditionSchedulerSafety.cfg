SPECIFICATION Spec
CONSTANTS
  c = c
  s = s
  e = e
  ConditionJobs = {c}
  WebSocketJobs = {s}
  EventJobs = {}
  Recurring = {s}
  MaxSchedules <- Twice
  MaxEvents = 1
  MaxFaults = 1
INVARIANTS NotificationKeepsData
CHECK_DEADLOCK FALSE
