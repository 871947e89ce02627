SPECIFICATION Spec
CONSTANTS
  k1 = k1
  r1 = r1
  r2 = r2
  Keys = {k1}
  Requests = {r1, r2}
  KeyOf <- OneEvent
  Supported = {k1}
  LookbackBlocks = 0
  MaxBlockRange = 1
  MaxCalls = 2
  MaxEntries = 1
  MaxWorkers = 2
  MaxStops = 0
  MaxBlock = 3
  MaxFaults = 1
INVARIANTS LiveWorkerServesEntry NoSilentGap
SYMMETRY Perms
CHECK_DEADLOCK FALSE
