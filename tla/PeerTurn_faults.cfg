CONSTANTS
  north = north
  south = south
  None = None
  Action = {north, south}
  CorruptAction = north
  MaxTurn = 2
  MaxAttempts = 1
  QueueDepth = 1
  TamperModes = {"none"}
  Faults = {"expiry", "crash", "illegal_action"}
SPECIFICATION BoundedWaitSpec
INVARIANTS NoFreeLook MovesAgree DisclosureAfterLastSeal
PROPERTIES ImplementsGame EveryPeerStops
CHECK_DEADLOCK FALSE
