\* Blocks reach the medium in program order; the script runs the stages in order.
SPECIFICATION FairSpec
CONSTANTS
  l1 = l1
  l2 = l2
  xbl = xbl
  Xbl = xbl
  Lun <- TwoLuns
  Unusual <- NoLun
  UsesXbl = FALSE
  SyncWrites = TRUE
  ShortWrites = FALSE
  AnyOrder = FALSE
  MaxPowerLoss = 2
  MaxFault = 1
PROPERTIES
  ImplementsPromise
  Completes
CHECK_DEADLOCK FALSE
