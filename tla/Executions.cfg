SPECIFICATION Spec
CONSTANTS
  x1 = x1
  x2 = x2
  f1 = f1
  f2 = f2
  f3 = f3
  u1 = u1
  u2 = u2
  Runs = {x1, x2}
  MaxRunErrors = 2
  Fetchers = {f1, f2, f3}
  Urls = {u1, u2}
  CacheMax = 1
  MaxRestarts = 1
  Narrow = 2
  W32 = 3
  Mantissa = 3
  W64 = 4
  W256 = 6
  Significant = 5
  Sources <- MCSources
  ParamLists <- MCParams
  e1 = e1
  Calls = {x1, x2}
  NoCall = NoCall
  MaxTries = 2
  PoolSize = 1
  MaxNetFaults = 1
  MaxStops = 1
  Procs = {x1, x2}
  Starter = x1
  NoTopic = NoTopic
  Topics = {e1}
  MaxClients = 2
  MaxDials = 3
  MaxLosses = 1
  SubmittedRequests <- MCRequests
  Validators = {x1, x2}
  StaticLead = 1
  DynamicLead = 2
  TimeTolerance = 1
  ExpirationTolerance = 2
  MaxClock = 4
  MaxPerfFaults = 2
INVARIANTS OutputIsOwn ServedIsWhole CallIsExact OpenIsOwned SocketIsServed PendingIsAwaited
  AcceptedIsDone RejectedForCause
CONSTRAINT Bounds
CHECK_DEADLOCK FALSE
