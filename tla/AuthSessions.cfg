SPECIFICATION Spec
CONSTANTS
  Calls = {c1, c2, c3}
  NoCall = NoCall
  Emails = {e1}
  NoEmail = NoEmail
  Users = {u1, u2}
  NoUser = NoUser
  Tokens = {t1, t2, t3}
  NoToken = NoToken
  TTL = 1
  MaxClock = 1
SYMMETRY Symmetry
INVARIANTS TypeOK NoTokenBurned SignedOutIsFinal SessionsHaveAccounts
PROPERTY ImplementsSessionStore
CHECK_DEADLOCK FALSE
