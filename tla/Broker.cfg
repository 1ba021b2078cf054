SPECIFICATION Spec
CONSTANTS
  c1 = c1
  Requests = {r1, r2}
  Callers = {c1}
  Owner <- MCOneOwner
  TTL = 1
  MaxTerminal = 1
  MaxPending = 2
  MaxSubmits = 2
  Window = 1
  MaxAttempts = 2
  MaxNow = 2
  MaxCrashes = 2
  MaxLost = 1
SYMMETRY MCSymmetry
INVARIANTS
  EffectsAreRight
  PublishedIsDurable
  NeverExpiredInFlight
PROPERTIES
  ResolvedOnce
  NothingAfterRelease
  AuthoritySpec
CHECK_DEADLOCK FALSE
