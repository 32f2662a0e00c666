SPECIFICATION FairSpec
CONSTANTS
  h1 = h1
  h2 = h2
  u1 = u1
  u2 = u2
  u3 = u3
  alice = alice
  bob = bob
  group = group
  Handlers = {h1, h2}
  Updates = {u1, u2, u3}
  Users = {alice, bob}
  Chats = {group}
  UserOf <- MCUserOf
  ChatOf <- MCChatOf
  LIMIT = 2
  WINDOW = 2
  MaxClock = 2
  MaxFaults = 1
  NoRow = NoRow
  Free = Free
INVARIANTS
  DecidedOnce
  RateKept
  NoWaitCycle
PROPERTIES
  ImplementsPromise
  EventuallyAcked
