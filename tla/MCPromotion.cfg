SPECIFICATION FairSpec
CONSTANTS
  first = first
  second = second
  crossed = crossed
  i1 = i1
  i2 = i2
  n1 = n1
  n2 = n2
  h1 = h1
  h2 = h2
  Requests = {first, second, crossed}
  Ids = {i1, i2}
  Nonces = {n1, n2}
  IdOf <- MCIdOf
  SignedAt <- MCSignedAt
  NonceOf <- MCNonceOf
  Malformed = {second}
  Handlers = {h1, h2}
  MaxLinks = 2
  MaxPromoted = 1
  Skew = 1
  Retention = 2
  PruneInterval = 2
  MaxClock = 4
  MaxFaults = 2
  NoRow = NoRow
  NoRequest = NoRequest
INVARIANTS
  PromotedInTurn
PROPERTIES
  SettledOnce
CHECK_DEADLOCK FALSE
