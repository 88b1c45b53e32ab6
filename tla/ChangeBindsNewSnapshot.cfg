SPECIFICATION Spec
CONSTANTS
  Workers = {w1}
  NoWorker = NoWorker
  Users = {u1}
  JobIds = {j1}
  NoId = NoId
  Engines = {"httpx"}
  Moving = {"httpx"}
  MaxVersion = 1
  Budget = 1
  MaxClock = 2
INVARIANT ChangeBindsNewSnapshot
CHECK_DEADLOCK FALSE
