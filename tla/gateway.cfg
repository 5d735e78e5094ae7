SPECIFICATION GwSpec
CONSTANTS
  a1 = a1
  x1 = x1
  y1 = y1
  c1 = c1
  Mac = {a1}
  NoApp = NoApp
  Quic = Quic
  DpiPackets = 1
  App = {x1}
  AppRequests <- AppLists
  ModeRequests <- Modes
  UserModeRequests <- Nothing
  ListedMac = {}
  Conn = {c1}
  Owner <- OneOwner
  Carries <- AllX1
  QuicConn = {c1}
  InitialRules <- BootLists
  Switches = {"enable", "split_time", "disable_quic"}
INVARIANTS GwTypeOK NoOverblock
