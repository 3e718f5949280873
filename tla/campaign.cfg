CONSTANTS
  t1 = t1
  t2 = t2
  w1 = w1
  w2 = w2
  Train <- MCOneTrain
  Oos <- MCTwoOos
  TopK = 1
  LoadedTopK = 2
  d1 = d1
  d2 = d2
  Dsls = {d1, d2}
  Tops <- MCTops
  CliOptions <- DistinctOptions
  Procs = {p1, p2}
  NoProc = NoProc
  NoWindow = NoWindow
  MaxTops = 2
  MaxStarts = 2
  MaxCrash = 1
  MaxManual = 1
SPECIFICATION FairSpec
INVARIANTS
  OneReportPerWindow
  CompletedHasResult
PROPERTIES
  MatrixOnlyGrows
  RunnerEnds
CHECK_DEADLOCK FALSE
