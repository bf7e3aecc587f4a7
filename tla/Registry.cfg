SPECIFICATION RegistrySpec
CONSTANTS
  h1 = h1
  h2 = h2
  h3 = h3
  p1 = p1
  p2 = p2
  Hashes = {h1, h2, h3}
  NoHash = none
  Versions = {1, 2}
  Validity = 1
  LastTime = 2
  MaxLog = 3
  Providers = {p1, p2}
  GracePeriod = 1
  MaxScore = 4
  DecayPeriod = 1
  DecayAmount = 1
  Limits = {1}
  Timelocks = {0, 1}
  Thresholds = {1, 2}
  MaxResults = 3
  MaxApplications = 1
  MaxGroups = 2
  MaxProposals = 1
  MaxEntries = 3
SYMMETRY Symmetry
CONSTRAINT Focus
INVARIANTS HashesAgree ProvidersAgree
PROPERTIES DecisionsStand
CHECK_DEADLOCK FALSE
