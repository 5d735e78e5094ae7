SPECIFICATION FairSpec
CONSTANTS
  a = a
  b = b
  Mac = {a}
  Days = 1
  StatusTicks = 1
  MinuteTicks = 1
  SaveTicks = 1
  AutoLoad = TRUE
  DhcpLeases = {}
  ManagedMac = {a}
  GlobalRequests <- Nothing
  TimeRequests <- Nothing
  InitialUci <- BootSplit
  InitialNow <- FirstMorning
  ClockMoves = FALSE
  MaxActive = 1
  MaxKills = 0
PROPERTY ManualModeHolds
