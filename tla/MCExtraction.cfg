SPECIFICATION FairSpec
CONSTANTS
  c1 = c1
  c2 = c2
  Calls = {c1, c2}
  Unparsable = {c2}
  Nameless = {c1}
  Requests <- MCRequests
  MaxFaults = 2
INVARIANTS
  SlotGuardsParser
  TerminalIsDeserved
PROPERTIES
  FailedIsFinal
  ComesToRest
