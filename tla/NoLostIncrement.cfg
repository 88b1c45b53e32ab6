SPECIFICATION Spec
CONSTANTS
  a = a
  b = b
  u = u
  Requests = {r1, r2, r3}
  NoRequest = NoRequest
  Names = {a, u}
  Registered = {a}
  Chains <- OneProvider
  Lanes = {"structured"}
  MaxCalls = 1
  TripThreshold = 2
  CooldownFloor = 1
  TrialWindow = 2
  RetryAfters <- MCRetryAfters
  Jitter <- MCJitter
  MaxRepairs = 1
  MaxStarts = 4
  MaxClock = 2

INVARIANT NoLostIncrement
CHECK_DEADLOCK FALSE
