\* Sequences of calls on either device, with failing system calls.
SPECIFICATION FairSpec
CONSTANTS
  Slot <- TwoSlots
  Timeout <- Timeouts
  Effect <- Effects
  LengthMod = 4
  SleepMod = 5000
  MaxCall = 3
  MaxFault = 2
INVARIANTS
  TypeOK
  OffSilences
  OneEffect
  CompleteNotEarly
PROPERTIES
  EveryoneNotified
CHECK_DEADLOCK FALSE
