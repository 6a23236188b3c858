SPECIFICATION Spec
CONSTANTS
  g1 = g1
  g2 = g2
  g3 = g3
  Hosts = {1, 2, 3}
  Guests = {g1, g2, g3}
  VmIds = {1, 2, 3, 4}
  Class <- MCClass
  Size <- MCSize
  Other <- MCOther
  Total = 4
  Watermark = 1
  MaxSteps = 2
  NoMove = NoMove
INVARIANTS TypeOK VictimIsThere DecisionsAreTrue
CHECK_DEADLOCK FALSE
