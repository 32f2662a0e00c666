SPECIFICATION FairSpec
CONSTANTS
  group = group
  dm = dm
  Last = 5
  KindOf <- MCKindOf
  Chats = {group, dm}
  ChatOf <- MCChatOf
  LIMIT = 2
  WINDOW = 2
  SendLimit = 2
  MaxClock = 2
  MaxFaults = 2
  MaxRestarts = 1
  NoWindow = NoWindow
INVARIANTS
  NothingSkipped
  OncePerRun
PROPERTIES
  EventuallyConfirmed
