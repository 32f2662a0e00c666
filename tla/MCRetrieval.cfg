SPECIFICATION Spec
CONSTANTS
  i1 = i1
  i2 = i2
  r1 = r1
  r2 = r2
  a = a
  b = b
  c = c
  Indexers = {i1, i2}
  Readers = {r1, r2}
  Contents = {a, b, c}
  MaxEditions = 2
  MaxRevision = 2
  NoRow = NoRow
  NoEvidence = NoEvidence
SYMMETRY Symmetry
INVARIANTS
  EvidenceIsCurrent
  LatestWins
PROPERTIES
  DeletedIsStale
