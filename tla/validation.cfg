CONSTANTS
  btc = btc
  eth = eth
  Symbols = {btc, eth}
  Balance = 10
  LastDay = 4
  Books <- MCBooks
  Coverages <- MCCoverages
  Spans <- MCSpans
  Configs <- MCConfigs
  MaxRuns = 1
  MaxExecs = 2
  MaxBatch = 2
SPECIFICATION ValidationSpec
INVARIANTS
  TradesFollowResult
  DrawdownsAgree
CHECK_DEADLOCK FALSE
