CONSTANTS
  north = north
  south = south
  None = None
  Action = {north}
  CorruptAction = north
  MaxTurn = 2
  MaxAttempts = 2
  QueueDepth = 1
  TamperModes = {"none"}
  Faults = {"expiry"}
SPECIFICATION Spec
CONSTRAINT OnlyPoliceRepeats
INVARIANTS CommitNeverRejected MatchInvariant
CHECK_DEADLOCK FALSE
