SPECIFICATION Spec
CONSTANTS
  a = a
  b = b
  Mac = {a}
  Days = 2
  StatusTicks = 1
  MinuteTicks = 1
  SaveTicks = 1
  AutoLoad = FALSE
  DhcpLeases = {a}
  ManagedMac = {}
  GlobalRequests <- Nothing
  TimeRequests <- Nothing
  InitialUci <- BootDynamic
  InitialNow <- FirstMorning
  ClockMoves = TRUE
  MaxActive = 1
  MaxKills = 1
INVARIANT DynamicBounded
PROPERTY MinutesKept
