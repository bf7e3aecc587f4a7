SPECIFICATION Spec
CONSTANTS
  a1 = a1
  a2 = a2
  m1 = m1
  m2 = m2
  m3 = m3
  c1 = c1
  c2 = c2
  t1 = t1
  t2 = t2
  Addresses = {a1, a2}
  Nobody = nobody
  Oracle = oracle
  Manifests = {m1, m2, m3}
  BatchLimit = 2
  MaxDepth = 2
  LastDay = 1
  MaxCerts = 3
  MaxLinks = 3
  MaxHistory = 3
  Codes = {c1, c2}
  NoCode = none
  ContentTypes = {"Image", "Video"}
  NoMedia = none
  Tags = {t1, t2}
  MaxTags = 2
  MaxCollections = 2
  MaxEntries = 2
SYMMETRY Symmetry
CONSTRAINT Focus
INVARIANTS ManifestIndexExact CodesResolve HistoryTellsOwnership LinksAreSound IndexesAgree
PROPERTIES LockedStaysPut
CHECK_DEADLOCK FALSE
