SPECIFICATION Spec
CONSTANTS
  a1 = a1
  b1 = b1
  r1 = r1
  r2 = r2
  x1 = x1
  x2 = x2
  x3 = x3
  Jobs = {"j1"}
  Slots = {a1, b1}
  Instances <- TwoInstances
  Recoverers = {r1, r2}
  MaxAttempts = 2
  Records = {x1, x2, x3}
  Listings <- OneRecord
  MaxTargets = 1
  BatchSize = 1
  MaxManual = 1
  MaxZombies = 1
SYMMETRY Symmetry
INVARIANTS TypeOK AttemptsWithinBudget OwnerRunsLatestAttempt
PROPERTIES FreshJobKeptByItsWorker ImplementsLifecycle
CHECK_DEADLOCK FALSE
