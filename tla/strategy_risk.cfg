SPECIFICATION RiskSpec
CONSTANTS
  Equities <- MCEquities
  Pnls <- MCPnls
  MaxOpen = 2
  MaxPnl = 3
  MaxDrawdown = 15
  MaxDailyLoss = 2
  DrawdownScale = 10
  MaxLosses = 2
  MaxPositions = 2
  Cooldown = 2
  DayLength = 2
INVARIANTS
  ActiveIsSafe
  CooldownObserved
