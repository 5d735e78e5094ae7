SPECIFICATION FairSpec
CONSTANTS
  a = a
  b = b
  Mac = {a, b}
  Days = 1
  StatusTicks = 1
  MinuteTicks = 1
  SaveTicks = 1
  AutoLoad = TRUE
  DhcpLeases = {}
  ManagedMac = {}
  GlobalRequests <- Nothing
  TimeRequests <- SharedOnly
  InitialUci <- BootSplit
  InitialNow <- FirstMorning
  ClockMoves = FALSE
  MaxActive = 1
  MaxKills = 0
PROPERTIES Enforced Released SharedEnforced
