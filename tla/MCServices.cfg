SPECIFICATION FairSpec
CONSTANTS
  MaxEvidence = 4
  MaxEvidenceSize = 3
  MaxClaims = 2
  MaxDraftSize = 2
  MaxAnswerSize = 4
  Questions <- MCQuestions
  Retrievals <- MCRetrievals
  Drafts <- MCDrafts
  Comparisons <- MCComparisons
  Findings <- MCFindings
  MaxChunks = 2
  MaxPublic = 3
  Texts <- MCTexts
  MaxInputs = 2
  MaxChars = 3
  MaxBody = 2
  MaxEmptyReads = 2
  ChunkSizes = {0, 1, 2}
  MaxUpdate = 2
  MaxUpdateEmpty = 1
  UpdateChunks = {0, 1, 2}
  Connections = {k1, k2}
  Jobs = {j1}
  MaxSignals = 2
  Registry <- MCRegistry
  Urls = {1, 2, 3, 4, 5}
  MaxResults = 3
  MaxSelected = 2
  Paths = {1, 2, 3}
  LineSizes = {1, 2}
  MaxAudit = 1
  MaxFiles = 2
  Clocks = {0, 1}
  MaxCommands = 3
  Documents <- MCDocuments
  MaxDocument = 2
  MaxEntries = 4
  MaxEntryBytes = 2
  MaxExpanded = 4
  MaxPages = 3
  MaxLaidOut = 8
  DnsAnswers <- MCDnsAnswers
  PublicHosts = {"p", "q"}
  MaxFetch = 2
  PieceSizes = {0, 1, 2}
INVARIANTS
  CitationsResolve
  ShownIsGrounded
  BodyReleased
  CallAligned
  WebhookAcksTruly
  ClosedInOrder
  PromotedIsMatched
  StoreKeepsNewest
  ParsedIsWhole
  FetchedIsPublic
PROPERTIES
  EvidenceKept
  ComesToRest
