SPECIFICATION FairSpec
CONSTANTS
  a = a
  b = b
  u = u
  Requests = {r1, r2}
  NoRequest = NoRequest
  Names = {a, b}
  Registered = {a, b}
  Chains <- CrossedChains
  Lanes = {"route","nested"}
  MaxCalls = 2
  TripThreshold = 1
  CooldownFloor = 1
  TrialWindow = 2
  RetryAfters <- NoRetryAfter
  Jitter <- MCJitter
  MaxRepairs = 1
  MaxStarts = 2
  MaxClock = 0
PROPERTIES RequestTerminates
CHECK_DEADLOCK FALSE
