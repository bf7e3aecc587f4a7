SPECIFICATION FairSpec
CONSTANTS
  a1 = a1
  b1 = b1
  r1 = r1
  r2 = r2
  x1 = x1
  x2 = x2
  x3 = x3
  Jobs = {"j1"}
  Slots = {a1, b1}
  Instances <- TwoInstances
  Recoverers = {r1}
  MaxAttempts = 2
  Records = {x1, x2, x3}
  Listings <- ChangingLists
  MaxTargets = 3
  BatchSize = 2
  MaxManual = 0
  MaxZombies = 1
INVARIANTS NoUnitSkipped
PROPERTIES JobsSettle
CHECK_DEADLOCK FALSE
