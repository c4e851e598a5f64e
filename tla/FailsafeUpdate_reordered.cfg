\* Blocks reach the medium in any order; stages are called in any order.
SPECIFICATION Spec
CONSTANTS
  l1 = l1
  l2 = l2
  xbl = xbl
  Xbl = xbl
  Lun <- TwoLuns
  Unusual <- SecondLun
  UsesXbl = TRUE
  SyncWrites = FALSE
  ShortWrites = TRUE
  AnyOrder = TRUE
  MaxPowerLoss = 2
  MaxFault = 1
INVARIANTS
  TypeOK
  SurvivesPowerLoss
  GrantedCopyNotLive
  XblBackupNotLive
  FinalizedIsRedundant
  SignatureTellsStage
CHECK_DEADLOCK FALSE
