SPECIFICATION FairSpec
CONSTANTS
  h1 = h1
  h2 = h2
  u1 = u1
  u2 = u2
  Handlers = {h1, h2}
  Updates = {u1, u2}
  Undecryptable = {u2}
  RetryLimit = 2
  MaxFaults = 3
INVARIANTS
  UserIsTold
PROPERTIES
  QuietAfterSettled
  ComesToRest
