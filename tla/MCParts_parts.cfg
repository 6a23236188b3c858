SPECIFICATION Spec
CONSTANTS
  Samples = 2
  WireCap = 3
  Count = 2
  MaxTries = 2
  Cycles = 2
  NumPages = 2
  QueuePages = {1}
  MaxWrites = 1
  MaxCrashes = 1
  Missing = Missing
  Hole = Hole
INVARIANTS TypeOK TurnNeverCut VerdictIsEarned OutcomeIsTrue
           RecordIsReal ShotsStayApart
           MemorySurvives SpawnedListens NothingLeftBehind
PROPERTIES FollowsFsm CommandsEnd FaultsAreServed
CHECK_DEADLOCK FALSE
