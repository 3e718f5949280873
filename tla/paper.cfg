SPECIFICATION FairSpec
CONSTANTS
  t1 = t1
  t2 = t2
  Traders <- MCTraders1
  NSessions = 2
  MaxRetries = 2
  MaxQueue = 2
  MaxCrash = 1
INVARIANTS
  KillReaches
  PauseOutlivesErrors
  OneTrader
  LiveTracked
PROPERTIES
  KillTakesHold
