SPECIFICATION Spec
CONSTANTS
  NoTurn = NoTurn
  MaxTurns = 0
  MaxHostTurns = 1
  MaxDrains = 1
  LinkCap = 2
  Breaks = FALSE
PROPERTIES DeferredNeverLost
CHECK_DEADLOCK FALSE
