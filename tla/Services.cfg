SPECIFICATION Spec
CONSTANTS
  w1 = w1
  e1 = e1
  e2 = e2
  t1 = t1
  t2 = t2
  x1 = x1
  x2 = x2
  Watchers = {w1}
  TaskEvents = {e1, e2}
  Wanted <- MCWanted
  SendCap = 1
  EventCap = 1
  BroadcastCap = 1
  MaxPings = 1
  MaxHangups = 1
  Execs = {x1, x2}
  StaticExecs = {}
  SourceExecs = {x2}
  MaxContainers = 1
  MinContainers = 1
  MaxCreated = 3
  MaxExecFaults = 2
  Targets = {t1, t2}
  MaxAttempt = 2
  MaxForeign = 1
  MaxCrashes = 1
  MaxRunFaults = 1
  EventWorkers = {x1, x2}
  MaxHead = 2
  MaxRange = 1
  BufferSize = 2
  MaxPollFaults = 1
INVARIANTS CapacityBound PoolRecovers CoveredOnce
PROPERTIES CloseEnds PublishedIsDelivered ExecutesOnce CaughtUp
CHECK_DEADLOCK FALSE
