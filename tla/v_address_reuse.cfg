SPECIFICATION Spec
CONSTANTS
  a1 = a1
  b1 = b1
  i1 = i1
  i2 = i2
  Mac = {a1, b1}
  Ip = {i1, i2}
  Lease <- AnyAddress
  Rank <- WalkOrder
  Cpu = {c1}
  TimerPeriod = 1
  ReportTicks = 2
  InactiveTicks = 2
  IdleLimit = 3
  CheckPeriod = 2
  HookSeconds = 1
  WrapIn = 0
  Limited = {a1}
  Heavy = {a1}
  AddressReuse = TRUE
INVARIANT OnlyOwnLimit
