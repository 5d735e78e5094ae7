SPECIFICATION Spec
CONSTANTS
  a = a
  b = b
  Mac = {a, b}
  Days = 1
  StatusTicks = 1
  MinuteTicks = 1
  SaveTicks = 1
  AutoLoad = TRUE
  DhcpLeases = {}
  ManagedMac = {}
  GlobalRequests <- OnOff
  TimeRequests <- SplitTimes
  InitialUci <- BootManual
  InitialNow <- FirstMorning
  ClockMoves = FALSE
  MaxActive = 1
  MaxKills = 0
SYMMETRY Devices
INVARIANTS TypeOK KernelFollowsConfig ModeSwitchClears ReloadInv
PROPERTY BlockOnlyExhausted
