SPECIFICATION Spec
CONSTANTS
  Node = {1, 2}
  Thread = {t1, t2}
  Physical <- TwoReadings
  MaxOffset = 1
  MaxCounter = 1
  MinWall <- MCMinWall
  MaxWall = 4
  Foreign <- MCForeign
  MaxCalls = 2
SYMMETRY Threads
INVARIANTS
  TypeOK
  StampsStrictlyIncrease
  CausalOrder
  FenceContainment
  RegressionBounded
CHECK_DEADLOCK FALSE
