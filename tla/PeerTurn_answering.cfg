CONSTANTS
  north = north
  south = south
  None = None
  Action = {north, south}
  CorruptAction = north
  MaxTurn = 3
  MaxAttempts = 1
  QueueDepth = 1
  TamperModes = {"none", "action", "nonce"}
  Faults = {}
SPECIFICATION FairSpec
INVARIANTS AuditMeansUntampered
PROPERTIES AllTurnsPlayed
CHECK_DEADLOCK FALSE
