SPECIFICATION Spec
CONSTANTS
  k1 = k1
  x1 = x1
  Conn = {k1}
  Bucket <- FirstBucket
  Buckets = 4
  CheckCount = 1
  Timeout = 2
  Window = 2
  AcclPackets = 1
  App = {x1}
  NoApp = NoApp
  Quic = Quic
  Carries <- AllKnown
  QuicConn = {k1}
  RuleSets <- ListedOrNot
  Switches = {"enable", "app_filter_mode", "disable_quic"}
  Cpu = {c1, c2}
  HookSeconds = 1
INVARIANTS BypassTypeOK NoConnUseAfterFree 
PROPERTIES TimedOutFreed
