\* UPDATE_BACKUP interrupted after the switch of the XBL boot LUN.
SPECIFICATION Spec
CONSTANTS
  l1 = l1
  l2 = l2
  xbl = xbl
  Xbl = xbl
  Lun <- OneLun
  Unusual <- NoLun
  UsesXbl = TRUE
  SyncWrites = TRUE
  ShortWrites = FALSE
  AnyOrder = FALSE
  MaxPowerLoss = 1
  MaxFault = 0
INVARIANT AlreadySetMeansReady
CHECK_DEADLOCK FALSE
