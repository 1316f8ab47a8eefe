CONSTANTS
  Caller = {"a", "b"}
  Prober = {"p"}
  MaxAttempts = 3
  MaxRestarts = 1
  ConcurrentRequests = 2
  QueueDepth = 2
  Capacity = 4
  Cost = 2
  Backoff = 3
  Window = 2
  Receiver = {r1, r2}
  Stream <- ShortStream
  MaxLines = 3
  MaxProcesses = 2
  MaxEdits = 2
  SubGames = 2
  PossibleFaults = {"timeout", "resend", "failure", "stranger"}
  MaxFaults = 1
  MaxMatches = 2
  EarlierGames = {0, 7}
  SharedEdits <- OwnersSharedEdits
  PrivateEdits <- OwnersPrivateEdits
  MaxChanges = 2
  GridSize = 3
  MaxBarriers = 1
  CopStart <- Corner
  ThiefStart <- Middle
  SurvivalThreshold = 3
  MaxMoves = 3
  TrackedTurns = 3
  IntakeTurns = 2
  RegistryDepth = 2
  Offers <- OpponentsOffers
SPECIFICATION ServicesSpec
INVARIANTS ServicesInvariant AdmissionIsFair VerdictFitsTheLog AcceptedIsPlayable BeliefNeverRulesOut
PROPERTIES CallsEndForGood StreamIsDelivered GuiShowsTheEnd RoundsStayApart  LearningIsSafe AdaptationIsGradual AgreedPhysics LockedCommitIsKept
CHECK_DEADLOCK FALSE
