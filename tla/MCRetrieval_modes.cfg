CONSTANTS
  Chunks = {1, 2, 3, 4}
  DocOf <- MCDocOf
  SectionOf <- MCSectionOf
  Distance <- MCDistance
  Bm25 <- MCBm25
  DocBm25 <- MCDocBm25
  SectionBm25 <- MCSectionBm25
  RerankScore <- MCRerankScore
  Edges <- MCEdges
  Mentions <- MCMentions
  Indexes <- MCIndexes
  Profile = "p"
  Queries <- MCQueries
  CandidateFactor = 2
  MinCandidates = 1
  MaxCandidates = 3
  VectorCandidates = 3
  LexicalCandidates = 3
  RerankCandidates = 3
  DocCandidates = 2
  SectionCandidates = 1
  ChunkCandidates = 2
  MaxStarts = 2
  MaxHops = 2
  MaxNodes = 6
  MaxEdges = 9
  MaxDocs = 2
  RrfK = 1
  Unit = 60
  MaxApplies = 2
CHECK_DEADLOCK FALSE
SPECIFICATION Spec
INVARIANTS ResultsWereVisible VectorSearchIsExact FusionKeepsAgreement GraphWalkIsNear
