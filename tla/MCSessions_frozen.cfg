SPECIFICATION Spec
CONSTANTS
  NoTurn = NoTurn
  NoLink = NoLink
  MaxLinks = 1
  MaxTurns = 1
  PipeCap = 2
INVARIANTS NeverFrozenMidTurn
CHECK_DEADLOCK FALSE
