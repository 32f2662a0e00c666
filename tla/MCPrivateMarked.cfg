SPECIFICATION Spec
CONSTANTS
  h1 = h1
  h2 = h2
  u1 = u1
  u2 = u2
  Handlers = {h1}
  Updates = {u1, u2}
  Undecryptable = {u2}
  RetryLimit = 3
  MaxFaults = 0
INVARIANT
  TerminalIsMarked
