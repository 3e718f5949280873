SPECIFICATION Spec
CONSTANTS
  Strategies <- MCStrategies
  Bars <- MCBars
  Levels = {0, 1, 2}
  Gaps = {1, 2}
  DayLen = 4
  Funding = {0}
  MaxBars = 5
  MaxWire = 1
INVARIANTS
  Protected
  NoOrphans
PROPERTIES
  CrossingsAreReal
  EntersInHours
