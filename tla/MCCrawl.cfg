SPECIFICATION FairSpec
CONSTANTS
  h1 = h1
  h2 = h2
  Handlers = {h1, h2}
  Updates = {1, 2}
  RetryLimit = 1
  MaxFaults = 2
  Endpoints = {1, 2}
  Changing = {1}
  Delays = {1}
  MaxClock = 3
  seed = seed
  map = map
  left = left
  right = right
  pdf = pdf
  Pages = {seed, map, left, right, pdf}
  Seed = seed
  Sites <- MCSites
  Sitemaps = {map}
  Pdfs = {pdf}
  SizeOf <- MCSizes
  MaxResponse = 2
  MaxTotal = 5
  MaxRequests = 4
  MaxConcurrency = 2
  o1 = o1
  o2 = o2
  o3 = o3
  o4 = o4
  Operations = {o1, o2, o3, o4}
  BoundedOperations = {o1, o2, o3}
  PoolSize = 2
INVARIANTS
  StateIsTrue
  EnqueuedIsFresh
  WholeWithinBudget
PROPERTIES
  DeferralKept
  ComesToRest
