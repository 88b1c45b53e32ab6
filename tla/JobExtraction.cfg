SPECIFICATION FairSpec
CONSTANTS
  PostingIds = {"a", "b"}
  NoId = NoId
  ShellText = 5
  Routes <- SomeRoutes
  Boards <- SomeBoards
  Pages <- SomePages
  Urls = {u1, u2}
  Asked = u1
  MaxRedirects = 1
  TokenBudget = 36
  Headroom = 2
  SectionLimit = 7
  SystemTokens = 1
  Usages = {0, 16}
  MaxCalls = 5
  MaxStored = 1
  Answers <- SomeAnswers
INVARIANTS TypeOK Precedence PromptsScanned StoredSnapshots TextIsOfHash
PROPERTIES CallsWithinBudget ExtractionEnds
CHECK_DEADLOCK FALSE
