SPECIFICATION Spec
CONSTANTS
  i1 = i1
  i2 = i2
  r1 = r1
  r2 = r2
  a = a
  b = b
  c = c
  Indexers = {i1}
  Readers = {}
  Contents = {a, b}
  MaxEditions = 3
  MaxRevision = 2
  NoRow = NoRow
  NoEvidence = NoEvidence
INVARIANT UsesLatestIndexed
