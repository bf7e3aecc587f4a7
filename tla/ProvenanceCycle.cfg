SPECIFICATION Spec
CONSTANTS
  a1 = a1
  a2 = a2
  m1 = m1
  m2 = m2
  m3 = m3
  c1 = c1
  c2 = c2
  t1 = t1
  t2 = t2
  Addresses = {a1}
  Nobody = nobody
  Oracle = oracle
  Manifests = {m1, m2, m3}
  BatchLimit = 1
  MaxDepth = 20
  LastDay = 0
  MaxCerts = 3
  MaxLinks = 3
  MaxHistory = 1
  Codes = {}
  NoCode = none
  ContentTypes = {}
  NoMedia = none
  Tags = {}
  MaxTags = 0
  MaxCollections = 0
  MaxEntries = 3
SYMMETRY Symmetry
CONSTRAINT Focus
INVARIANT ParentsAcyclic
CHECK_DEADLOCK FALSE
