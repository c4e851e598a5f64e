\* Two handles, together or one after the other, with a power loss and a failing call.
SPECIFICATION Spec
CONSTANTS
  h1 = h1
  h2 = h2
  p1 = p1
  p2 = p2
  Null = Null
  Handle <- TwoHandles
  Part <- TwoParts
  MaxSession = 3
  MaxPowerLoss = 1
  MaxFault = 1
SYMMETRY Symmetric
INVARIANTS
  TypeOK
  PowerLossLeavesATable
  CommitMakesValid
  NoLostUpdate
CHECK_DEADLOCK FALSE
