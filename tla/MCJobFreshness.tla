--------------------------- MODULE MCJobFreshness ---------------------------
EXTENDS JobFreshness, TLC
Symmetry == Permutations(Workers) \cup Permutations(JobIds)
=============================================================================
