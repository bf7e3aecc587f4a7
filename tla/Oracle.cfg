SPECIFICATION MCSpec
CONSTANTS
  p1 = p1
  p2 = p2
  p3 = p3
  h1 = h1
  h2 = h2
  Subjects = {"providers", "contract"}
  Providers = {p1, p2, p3}
  Measured = {p1}
  MaxFailures = 1
  FailureCooldown = 2
  Threshold = 70
  TargetSets <- MCTargets
  Samples <- MCSamples
  MaxVerifications = 1
  MaxSamples = 3
  LastLedger = 3
  MaxEntries = 4
  MaxReports = 3
  Ttls = {1}
  BatchLimit = 2
  ArchivalThreshold = 1
  WithdrawalCooldown = 1
  MinimumStake = 1
  Amounts = {1, 2}
  Penalties = {10}
  Packages = {h1, h2}
  MaxAnchors = 2
  MaxRequests = 2
  MaxDisputes = 2
  MaxDeposit = 2
SYMMETRY Symmetry
INVARIANTS ListServesInTurns UptimeNeverFlatters RecordsAgree RequestsAccountedFor PayoutsCovered
CHECK_DEADLOCK FALSE
