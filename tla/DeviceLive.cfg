SPECIFICATION LiveSpec
CONSTANTS
  Parts = {"lock", "update"}
  c1 = c1
  c2 = c2
  Children = {c1, c2}
  GiveUpTicks = 2
  MaxRestarts = 2
  MaxMishaps = 2
  None = None
  Unknown = Unknown
  a = a
  b = b
  Versions = {1, 2}
  Hashes = {a, b}
  UpdateScenes <- MCUpdateScenes
PROPERTIES
  LocksBiteAndLift
  
  UpdatesAreMeasured
  UpdateLands
CHECK_DEADLOCK FALSE
