--------------------------- MODULE MCAuthSessions ---------------------------
EXTENDS AuthSessions, TLC
Symmetry == Permutations(Calls) \cup Permutations(Tokens) \cup Permutations(Users)
=============================================================================
