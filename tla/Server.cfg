SPECIFICATION Spec
CONSTANTS
  Uploads = {u1, u2}
  Pollers = {p1, p2}
  Nothing = nothing
  MaxWriteErrors = 1
  MaxCrashes = 1
  Clients = {c1, c2}
  NoTag = NoTag
  FileSize = 3
  ChunkSizes = {2, 3}
  Reports = {{0}, {0, 1}, {1, 2}}
  Ttl = 1
  LastTick = 1
  MaxRequests = 3
  Servers = {i1, i2}
  Forced = {i2}
  NoRead = NoRead
  MaxEdits = 2
  MaxReadErrors = 1
  LastTime = 4
  StatusKeys = {k1}
  ContentKeys = {k2}
  NoLoad = NoLoad
  MaxEntries = 1
  CacheTtl = 2
  NegativeTtl = 1
  MaxLoad = 1
  MaxContentChanges = 2
INVARIANTS UploadsAreSafe JobsAreSafe HeldIsSound
PROPERTIES JobsAreDecided RequestsAreAnswered InstancesFollow
CHECK_DEADLOCK FALSE
