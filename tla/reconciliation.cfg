SPECIFICATION RunsSpec
CONSTANTS
  Topics <- MCTopics
  MaxAttempts = 2
  MaxSockets = 3
  MaxLoops = 2
  Bars <- MCBars
  Funding <- MCFunding
  Months = 2
  Commands = {c1}
  MaxFailures = 1
  MaxCommands = 3
  MaxLines = 3
  MaxDrops = 2
  j1 = j1
  j2 = j2
  t1 = t1
  jobs = jobs
  trading = trading
  r1 = r1
  Clients = {j1, j2, t1}
  ChannelOf <- MCChannelOf
  Broadcasters = {r1}
  ToChannel <- MCToChannel
  NoClient = none
  NoSet = none
  MaxBeats = 1
  btc = btc
  eth = eth
  p1 = p1
  p2 = p2
  p3 = p3
  Traded = {btc, eth}
  Ids = {}
  SymbolOf <- MCNoIds
  NoId = none
  MaxTime = 2
  MaxOpens = 2
  Tolerance = 1
  Instruments <- MCInstruments
  Equities <- MCEquities
  Notionals <- MCNotionals
  MaxDrawdown = 20
  MaxExposure = 55
  MaxSingle = 30
  MaxHeat = 1
  StopDistance = 2
  Cooldown = 2
INVARIANT ParityMeansAgreement
CHECK_DEADLOCK FALSE
