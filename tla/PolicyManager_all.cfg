\* Calls, recordings and players, tracks and HDMI events, in any order.
SPECIFICATION ManagerSpec
CONSTANTS
  c1 = c1
  c2 = c2
  s1 = s1
  s2 = s2
  Client <- TwoClients
  Primary <- OnePrimary
  Session <- TwoSessions
  Records <- RecordedSources
  Config <- Configs
  MaxOutput = 2
  MaxGranted = 1
  MaxSuspend = 2
INVARIANTS
  ManagerTypeOK
  CallStateKnown
  RecordingTold
  OffloadExcluded
  NoBlockedRecordingInCall
  PrimaryRestored
  CaptureReported
  StopUndoesStart
  HdmiFollowsBoth
SYMMETRY SessionSymmetry
