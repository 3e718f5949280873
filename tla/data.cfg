SPECIFICATION Spec
CONSTANTS
  j1 = j1
  j2 = j2
  Jobs = {j1, j2}
  Frames <- MCFrames
  MonthLen = 3
  Enough = 2
  Horizon = 4
  MaxStarts = 3
INVARIANTS
  CatalogFromArchive
PROPERTIES
  UpdateMakesNoHole
  CompletesWhole
SYMMETRY Symmetry
CHECK_DEADLOCK FALSE
