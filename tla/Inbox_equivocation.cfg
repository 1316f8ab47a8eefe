CONSTANTS
  Window = 3
  Receiver = {r1, r2}
  Stream <- TwoFacedStream
SPECIFICATION InboxSpec
INVARIANTS EquivocationIsRefused
CHECK_DEADLOCK FALSE
