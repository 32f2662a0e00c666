SPECIFICATION FairSpec
CONSTANTS
  h1 = h1
  h2 = h2
  u1 = u1
  u2 = u2
  u3 = u3
  alice = alice
  bob = bob
  Handlers = {h1, h2}
  Updates = {u1, u2, u3}
  Users = {alice, bob}
  UserOf <- MCUserOf
  Secrets = {u2}
  Legacy = {u3}
  RetryLimit = 1
  SendLimit = 2
  MaxFaults = 2
INVARIANTS
  HistoryKept
  DoneIsDelivered
PROPERTIES
  ComesToRest
