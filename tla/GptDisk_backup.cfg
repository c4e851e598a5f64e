\* A second handle after a commit.
SPECIFICATION Spec
CONSTANTS
  h1 = h1
  h2 = h2
  p1 = p1
  p2 = p2
  Null = Null
  Handle <- TwoHandles
  Part <- TwoParts
  MaxSession = 2
  MaxPowerLoss = 0
  MaxFault = 0
SYMMETRY Symmetric
INVARIANT BackupHeaderIsBackup
CHECK_DEADLOCK FALSE
