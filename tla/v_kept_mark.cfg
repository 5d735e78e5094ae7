SPECIFICATION GwSpec
CONSTANTS
  a1 = a1
  x1 = x1
  y1 = y1
  c1 = c1
  Mac = {a1}
  NoApp = NoApp
  Quic = Quic
  DpiPackets = 1
  App = {x1, y1}
  AppRequests <- Nothing
  ModeRequests <- Nothing
  UserModeRequests <- Nothing
  ListedMac = {}
  Conn = {c1}
  Owner <- OneOwner
  Carries <- AllY1
  QuicConn = {c1}
  InitialRules <- BootRules
  Switches = {"enable", "disable_quic"}
INVARIANT OnlySpecifiedApps
