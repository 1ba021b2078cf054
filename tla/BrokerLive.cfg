SPECIFICATION FairSpec
CONSTANTS
  c1 = c1
  Requests = {r1, r2}
  Callers = {c1}
  Owner <- MCOneOwner
  TTL = 1
  MaxTerminal = 1
  MaxPending = 2
  MaxSubmits = 1
  Window = 1
  MaxAttempts = 2
  MaxNow = 2
  MaxCrashes = 1
  MaxLost = 0
INVARIANTS
  CapsHold
PROPERTIES
  EveryAskResolved
  TurnComesBack
CHECK_DEADLOCK FALSE
