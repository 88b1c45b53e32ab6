SPECIFICATION Spec
CONSTANTS
  Workers = {w1, w2}
  NoWorker = NoWorker
  Users = {u1}
  JobIds = {j1, j2}
  NoId = NoId
  Engines = {"httpx", "browser"}
  Moving = {"httpx"}
  MaxVersion = 1
  Budget = 0
  MaxClock = 1
SYMMETRY Symmetry
INVARIANTS TypeOK BoundSnapshotStored UnblockedIsExtracted FetchedIsRead StaleMarkIsOwn
PROPERTIES JobKeepsItsRow ImplementsStore
CHECK_DEADLOCK FALSE
