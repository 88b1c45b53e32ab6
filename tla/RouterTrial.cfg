SPECIFICATION Spec
CONSTANTS
  a = a
  b = b
  u = u
  Requests = {r1, r2, r3}
  NoRequest = NoRequest
  Names = {a, u}
  Registered = {a}
  Chains <- OneProvider
  Lanes = {"structured", "nested"}
  MaxCalls = 2
  TripThreshold = 2
  CooldownFloor = 1
  TrialWindow = 1
  RetryAfters <- NoRetryAfter
  Jitter <- MCJitter
  MaxRepairs = 1
  MaxStarts = 3
  MaxClock = 2
SYMMETRY Symmetry
INVARIANTS TypeOK SingleTrial TrialOwnsRow CommittedRowsOK CountNeverAhead
PROPERTIES BreakerContract
CHECK_DEADLOCK FALSE
