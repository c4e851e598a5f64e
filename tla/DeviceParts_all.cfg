\* Every order of each part's views, clicks, broadcasts, users, falls, rates and reboots.
SPECIFICATION PartsSpec
CONSTANTS
  OldPrefs <- SomeOn
  MaxThread = 2
INVARIANTS
  PartsTypeOK
  NodesFollowSettings
  OneMode
  HiddenIsClean
  SystemUserGetsOwnGestures
  ServicesFollowScreen
  RateFollowsChoice
PROPERTIES
  FallClosesCamera
