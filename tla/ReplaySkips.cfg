SPECIFICATION Spec
CONSTANTS
  a1 = a1
  a2 = a2
  ca = ca
  cb = cb
  RawEvents <- MCRawEvents
  NoCursor = NoCursor
  NoActor = NoActor
  LastEvent = 4
  MaxCollected = 3
  Fetched <- MCFetched
  ProofNames <- MCProofNames
  ProofContract = ca
  DedupeByContent = TRUE
  MaxAuditRecords = 1
  MaxFetched = 5
  LastTime = 6
  Sessions = {s1}
  Runs = {r1, r2}
  InstanceOf <- MCInstanceOf
  NoInstance = NoInstance
  LeaseTtl = 1
  StaleAfter <- MCStaleAfter
  ArchiveTime = 2
  MinAge = 1
  MaxDeletePercent = 100
  BatchSize = 1
  MaxBatches = 2
  LastUpload = 0
  Deliveries = {"d1"}
  Jobs = {r1, r2}
  Callers = {c1, c2}
  MaxAttempts = 2
  MaxRedeliver = 1
  MaxBudgets = 2
INVARIANT NothingIsSkipped
CHECK_DEADLOCK FALSE
