SPECIFICATION Spec
CONSTANTS
  NoTurn = NoTurn
  MaxTurns = 3
  MaxHostTurns = 2
  MaxDrains = 2
  LinkCap = 3
  Breaks = TRUE
INVARIANTS TypeOK ZeroDroppedTurns ViewConverges QuietViewIsTrue
CHECK_DEADLOCK FALSE
