SPECIFICATION Spec
CONSTANTS
  t1 = t1
  t2 = t2
  Traders <- MCTraders1
  NSessions = 1
  MaxRetries = 2
  MaxQueue = 2
  MaxCrash = 0
INVARIANT KillStopsEntries
