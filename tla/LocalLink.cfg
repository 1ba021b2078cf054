SPECIFICATION FairSpec
CONSTANTS
  None = None
  u1 = u1
  u2 = u2
  d1 = d1
  d2 = d2
  a1 = a1
  a2 = a2
  Up = {u1, u2}
  Down = {d1, d2}
  Addrs = {a1, a2}
  OutboxCap = 1
  QueueCap = 1
  InboxCap = 1
  Scenes <- MCScenes
INVARIANTS
  CarrierKeepsItsWord
PROPERTIES
  RecordsOnlyAdvance
  EverythingLeaves
CHECK_DEADLOCK FALSE
