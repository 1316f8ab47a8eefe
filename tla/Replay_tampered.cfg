CONSTANTS
  GridSize = 3
  MaxBarriers = 1
  CopStart <- TopLeft
  ThiefStart <- Centre
  SurvivalThreshold = 3
  MaxMoves = 3
  MaxTurn = 3
  ClaimKinds = {}
SPECIFICATION ReplaySpec
INVARIANTS HonestMatchNotTampered
CHECK_DEADLOCK FALSE
