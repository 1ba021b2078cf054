SPECIFICATION Spec
CONSTANTS
  WeekLen = 2
  ChainCap = 2
  Configs <- MCConfigs
  SlowEvery = 2
  Grace = 1
  MaxDay = 3
  Bounds <- MCBounds
INVARIANTS
  
  RestartLosesLittle
PROPERTIES
  OnlyALaterDayRefills
CHECK_DEADLOCK FALSE
