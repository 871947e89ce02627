SPECIFICATION FairSpec
CONSTANTS
  k1 = k1
  k2 = k2
  Keepers <- Two
  MaxCheckIns <- TwiceOnce
  MaxRetries = 2
  MaxFaults = 2
  MaxRestarts = 1
INVARIANTS StatusAgrees
PROPERTIES SilentGoesOffline
CHECK_DEADLOCK FALSE
