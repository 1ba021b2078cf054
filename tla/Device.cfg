SPECIFICATION DeviceSpec
CONSTANTS
  Parts = {"schedule", "time", "pairing"}
  None = None
  tea = tea
  nap = nap
  o1 = o1
  o2 = o2
  g1 = g1
  g2 = g2
  DayLen = 4
  WeekLen = 2
  Known = {tea}
  Schedules <- MCSchedules
  Zones <- MCZones
  Horizon = 8
  Grace = 2
  Ten = 2
  One = 1
  NamedTimes = {tea, nap}
  Counts = {tea}
  OnlyThese = {nap}
  TimeScenes <- MCTimeScenes
  Guardians = {g1, g2}
  Ttl = 1
  PairHorizon = 1
  MaxTokens = 1
  MaxCommits = 2
  PairScenes <- MCPairScenes
INVARIANTS
  HoursAreRight
  LockedInTime
  StandDownBites
  OneGuardianRules
PROPERTIES
  MinutesAreBoughtAndTold
CHECK_DEADLOCK FALSE
