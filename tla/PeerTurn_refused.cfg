CONSTANTS
  north = north
  south = south
  None = None
  Action = {north, south}
  CorruptAction = north
  MaxTurn = 1
  MaxAttempts = 1
  QueueDepth = 1
  TamperModes = {"none"}
  Faults = {}
SPECIFICATION Spec
INVARIANTS RejectionIsRealMismatch
CHECK_DEADLOCK FALSE
