SPECIFICATION Spec
CONSTANTS
  Workers = {w1}
  NoWorker = NoWorker
  Users = {u1, u2}
  JobIds = {j1, j2}
  NoId = NoId
  Engines = {"httpx"}
  Moving = {"httpx"}
  MaxVersion = 1
  Budget = 1
  MaxClock = 2
INVARIANT UnblockedWasFetched
CHECK_DEADLOCK FALSE
