CONSTANTS
  GridSize = 3
  MaxBarriers = 3
  CopStart <- TopLeft
  ThiefStart <- Centre
  SurvivalThreshold = 5
  MaxMoves = 5
  Window = 4
  Faults = {"request_lost", "timeout"}
  MaxDrops = 2
SPECIFICATION FairSpec
INVARIANTS SubGameInvariant Alternation OutcomesAgree CaptureIsReal
PROPERTIES SubGameDecided
CHECK_DEADLOCK FALSE
