SPECIFICATION Spec
CONSTANTS
  Node = {1}
  Thread = {t1, t2}
  Physical <- TwoReadings
  MaxOffset = 1
  MaxCounter = 2
  MinWall <- MCMinWall
  MaxWall = 4
  Foreign <- NoForeign
  MaxCalls = 3
INVARIANT ObservationConsistent
CHECK_DEADLOCK FALSE
