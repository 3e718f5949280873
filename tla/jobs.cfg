CONSTANTS
  screen = screen
  valid = valid
  disc = disc
  disc2 = disc2
  paper = paper
  data = data
  Runs = {disc, disc2, valid}
  Kind <- MCKind
  Pids = {p1, p2}
  p1 = p1
  p2 = p2
  p3 = p3
  NoRun = NoRun
  NoPid = NoPid
  STALE = 2
  MaxDiscoveries = 1
  MaxCrash = 1
  MaxHang = 1
SPECIFICATION FairSpec
INVARIANTS
  SingleWorker
  DiscoveryLimit
  TablesAgree
PROPERTIES
  KilledStaysKilled
  DiscoveryEnds
CHECK_DEADLOCK FALSE
