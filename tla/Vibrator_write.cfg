\* One call whose write to the device fails.
SPECIFICATION FairSpec
CONSTANTS
  Slot <- TwoSlots
  Timeout <- Timeouts
  Effect <- Effects
  LengthMod = 65536
  SleepMod = 1000000
  MaxCall = 1
  MaxFault = 1
PROPERTY AcceptedOnPlays
CHECK_DEADLOCK FALSE
