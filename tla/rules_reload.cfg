SPECIFICATION GwSpec
CONSTANTS
  a1 = a1
  x1 = x1
  y1 = y1
  c1 = c1
  Mac = {a1}
  NoApp = NoApp
  Quic = Quic
  DpiPackets = 1
  App = {x1}
  AppRequests <- AppLists
  ModeRequests <- Modes
  UserModeRequests <- UserModes
  ListedMac = {a1}
  Conn = {}
  Owner <- OneOwner
  Carries <- AllX1
  QuicConn = {}
  InitialRules <- BootRules
  Switches = {}
INVARIANT ReloadExact
