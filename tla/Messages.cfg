SPECIFICATION MessagesSpec
CONSTANTS
  Parts = {"status", "unlock", "warden"}
  None = None
  Heartbeat = 2
  Scale = 3
  Tolerance = 1
  FlagAge = 3
  Moves <- MCMoves
  MaxReal = 4
  MaxReadings = 3
  MaxMishaps = 2
  Rebuild = 4
  Jitter = 6
  Floor = 4
  Sweep = 2
  Overlap = 1
  UnlockBounds <- MCUnlockBounds
  Guardians = {g1, g2}
  MaxPairs = 2
  MaxRewires = 1
  MaxFaults = 1
SYMMETRY MCSymmetry
INVARIANTS
  NeverSilent
  
  UnlockIsShown
  OneGuardianDecides
PROPERTIES
  TheNewestIsShown
  ClockNoteIsTrue
  
CHECK_DEADLOCK FALSE
