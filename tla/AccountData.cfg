SPECIFICATION FairSpec
CONSTANTS
  Calls = {c1, c2}
  Extractions = {c1}
  NoCall = NoCall
  Keys = {"k", "l"}
  Orders <- BothOrders
  Ids = {"p", "q"}
  NoId = NoId
  Elsewhere = {"other"}
  Chains <- BothChains
  MaxNames = 4
  MaxTurns = 2
INVARIANTS TypeOK OrphanOnlyByRace UniqueUnlessRaced ProfileCreatedOnce RecordedProviderStays 
PROPERTIES CallEnds
CHECK_DEADLOCK FALSE
