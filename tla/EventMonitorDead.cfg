SPECIFICATION FairSpec
CONSTANTS
  k1 = k1
  r1 = r1
  r2 = r2
  Keys = {k1}
  Requests = {r1}
  KeyOf <- OneRequest
  Supported = {k1}
  LookbackBlocks = 0
  MaxBlockRange = 1
  MaxCalls = 2
  MaxEntries = 2
  MaxWorkers = 2
  MaxStops = 0
  MaxBlock = 1
  MaxFaults = 0
PROPERTIES RegisteredIsPolled
CHECK_DEADLOCK FALSE
