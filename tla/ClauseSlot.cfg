SPECIFICATION FairSpec
CONSTANTS
  Stamps = {1, 2, 3}
  Bodies = {b1, b2}
  SlotKind = "clause"
  MaxFaults = 3
INVARIANTS
  NoRollback
  FloorIsRight
PROPERTIES
  AnswersAreTrue
  NewestLands
