\* Settings, display, sensor, slider and gestures in any order.
SPECIFICATION FairSpecOffFirst
CONSTANTS
  config_proxiSensorWakupCheck = TRUE
  MaxEvent = 5
INVARIANTS
  TypeOK
  NothingListens
  PocketPulseIsRemoval
  GateFollowsSensor
  SliderTorchEnds
PROPERTY
  SettingsApplied
CHECK_DEADLOCK FALSE
