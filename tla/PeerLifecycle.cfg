CONSTANTS
  p1 = p1
  p2 = p2
  h1 = h1
  h2 = h2
  Peer = {p1, p2}
  Hash = {h1, h2}
  MaxAttempts = 2
  MaxTurn = 2
SPECIFICATION Spec
INVARIANTS LifecycleInvariant NoTurnBeforeBothVerified LifecycleSound
PROPERTIES EveryPeerLeaves PeersThatAgreePlay
CHECK_DEADLOCK FALSE
