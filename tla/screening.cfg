SPECIFICATION Spec
CONSTANTS
  a = a
  b = b
  c = c
  p1 = p1
  p2 = p2
  Grid <- MCGrid
  Metrics <- MCMetrics
  Limits <- MCLimits
  Lucky <- MCLucky
  MaxWorkers = 2
  MaxStarts = 2
  MaxFailed = 1
  Pipelines = {p1, p2}
  Configs <- MCConfigs
  Deflated <- MCDeflated
  Returns <- MCReturns
  FoldSharpes <- MCFoldSharpes
  Promoted = b
INVARIANTS
  StoredFront
  SplitsSuffice
  VerdictsOwn
SYMMETRY Symmetry
CHECK_DEADLOCK FALSE
