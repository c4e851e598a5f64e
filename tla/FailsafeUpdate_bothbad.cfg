\* One power loss while the blocks of one call are written back in any order.
SPECIFICATION Spec
CONSTANTS
  l1 = l1
  l2 = l2
  xbl = xbl
  Xbl = xbl
  Lun <- OneLun
  Unusual <- NoLun
  UsesXbl = FALSE
  SyncWrites = FALSE
  ShortWrites = FALSE
  AnyOrder = FALSE
  MaxPowerLoss = 1
  MaxFault = 0
INVARIANT NeverBothBad
CHECK_DEADLOCK FALSE
