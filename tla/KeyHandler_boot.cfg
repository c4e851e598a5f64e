\* The display goes off for the first time after boot.
SPECIFICATION Spec
CONSTANTS
  config_proxiSensorWakupCheck = TRUE
  MaxEvent = 2
INVARIANT ProximityCheckUsed
CHECK_DEADLOCK FALSE
