SPECIFICATION LiveSpec
CONSTANTS
  Times <- MCTimes
  Duration = 3
  Deadline = 2
  Freezes = TRUE
  Horizon = 5
  WireCap = 1
INVARIANTS TypeOK WaitersAreWaiting ReportIsTrue
PROPERTIES LoadEnds
CHECK_DEADLOCK FALSE
