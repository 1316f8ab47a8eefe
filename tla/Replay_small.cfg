CONSTANTS
  GridSize = 2
  MaxBarriers = 3
  CopStart <- TopLeft
  ThiefStart <- Centre
  SurvivalThreshold = 3
  MaxMoves = 3
  MaxTurn = 3
  ClaimKinds <- CLAIM_KINDS
SPECIFICATION ReplaySpec
INVARIANTS ReplayInvariant BoardsConverge ThiefTracksCop ReplayIsFaithful CopTracksReplayedThief ConfirmedClaimFreezes AnswersStandOtherwise
CHECK_DEADLOCK FALSE
