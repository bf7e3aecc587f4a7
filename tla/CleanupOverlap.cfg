SPECIFICATION Spec
CONSTANTS
  a1 = a1
  a2 = a2
  ca = ca
  cb = cb
  RawEvents <- MCRawEvents
  NoCursor = NoCursor
  NoActor = NoActor
  LastEvent = 4
  MaxCollected = 1
  Fetched <- MCFetched
  ProofNames <- MCProofNames
  ProofContract = ca
  DedupeByContent = TRUE
  MaxAuditRecords = 1
  MaxFetched = 1
  LastTime = 2
  Sessions = {s1}
  Runs = {r1, r2, r3}
  InstanceOf <- MCSharedInstance
  NoInstance = NoInstance
  LeaseTtl = 2
  StaleAfter <- MCStaleAfter
  ArchiveTime = 2
  MinAge = 1
  MaxDeletePercent = 100
  BatchSize = 1
  MaxBatches = 1
  LastUpload = 0
  Deliveries = {"d1"}
  Jobs = {r1}
  Callers = {c1}
  MaxAttempts = 1
  MaxRedeliver = 0
  MaxBudgets = 1
INVARIANT OverlapNeedsExpiry
CHECK_DEADLOCK FALSE
