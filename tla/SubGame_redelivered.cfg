CONSTANTS
  GridSize = 3
  MaxBarriers = 1
  CopStart <- TopLeft
  ThiefStart <- Centre
  SurvivalThreshold = 3
  MaxMoves = 3
  Window = 4
  Faults = {"reply_lost"}
  MaxDrops = 1
SPECIFICATION Spec
INVARIANTS OutcomesAgree
CHECK_DEADLOCK FALSE
