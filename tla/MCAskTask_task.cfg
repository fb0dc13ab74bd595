SPECIFICATION FairSpec
CONSTANTS
  MaxTurns = 2
  ScanMessages = 8
  RelevantTurns = 1
  Budget <- MCBudget
  MessageChars = 20
  SummaryChars = 20
  RelevantChars = 18
  QueryBudget <- MCQueryBudget
  Heading <- MCHeading
  RoleLabel <- MCRoleLabel
  QueryFrame = 4
  Conversations <- MCConversations
  Questions <- MCQuestions
  MaxEvidence = 3
  ContextChars = 5
  MaxRepairs = 1
  NetworkRetries = 1
  Outputs <- MCOutputs
  Rows <- MCRows
  PageSize <- MCPageSize
  Hits <- MCHits
  HostOf <- MCHostOf
  CanonicalOf <- MCCanonicalOf
  Refused = {"ftp"}
  BadPort = {"port"}
  Addresses = {"pub1", "pub2", "priv"}
  Public = {"pub1", "pub2"}
  Pages = {"p1", "p2", "thin"}
  Thin = {"thin"}
  MaxCandidates = 2
  MaxPerHost = 1
  MaxRedirects = 1
INVARIANTS TypeOK ContextFits NewestTurnKept AnswersAreGrounded ConnectionsArePinned UsablePagesAreKept ChildIsClosed DeadlineIsReported
PROPERTY EveryTaskEnds
