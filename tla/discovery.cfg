CONSTANTS
  Genomes = {1, 2, 3}
  Dirs = {"long", "short"}
  Score <- MCScore
  Near <- MCNear
  Seeds <- MCSeeds
  Constraint = "long"
  NoDir = "none"
  PopSize = 3
  EliteCount = 2
  MaxGen = 3
  ConvGens = 1
  TopK = 2
  NReplace = 1
  Allowed = {"RSI", "MACD"}
  Averages = {"KAMA"}
  ParamRanges <- MCParamRanges
  ThresholdRanges <- MCThresholdRanges
  StopRanges <- MCStopRanges
  MinGenes <- MCMinGenes
  MaxGenes <- MCMaxGenes
  DrawnGenes <- MCDrawnGenes
  Directions = {"long", "both"}
  OnlyDirection = "long"
  Firsts <- MCFirsts
  EliteCounts = {0, 1}
  MaxRetries = 1
  MaxMutations = 1
  MaxBreedings = 1
SPECIFICATION MCSpec
INVARIANTS
  TopIsBest
  BredValidates
PROPERTIES
  PipelineEnds
CHECK_DEADLOCK FALSE
