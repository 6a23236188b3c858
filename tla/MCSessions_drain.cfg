SPECIFICATION FairSpec
CONSTANTS
  NoTurn = NoTurn
  NoLink = NoLink
  MaxLinks = 3
  MaxTurns = 2
  PipeCap = 2
INVARIANTS TypeOK TrackerFollowsChild SeenTurnWins ChildHasItsSecrets
PROPERTIES MoveEnds RestingChildLooksQuiet
CHECK_DEADLOCK FALSE
