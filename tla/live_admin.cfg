SPECIFICATION FairSpec
CONSTANTS
  a = a
  b = b
  Mac = {a}
  Days = 1
  StatusTicks = 1
  MinuteTicks = 1
  SaveTicks = 1
  AutoLoad = TRUE
  DhcpLeases = {}
  ManagedMac = {a}
  GlobalRequests <- Nothing
  TimeRequests <- SplitTimes
  InitialUci <- BootBothModes
  InitialNow <- FirstMorning
  ClockMoves = FALSE
  MaxActive = 1
  MaxKills = 0
PROPERTIES UnlistedReleased ConfigApplied
