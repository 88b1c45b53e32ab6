---------------------------- MODULE MCLlmRouter ----------------------------
EXTENDS LlmRouter, TLC
CONSTANTS a, b, u
OneProvider == {<<u, a>>}
CrossedChains == {<<a, b>>, <<b, a>>}
MCJitter == [p \in Names |-> IF p = a THEN 80 ELSE 120]
MCRetryAfters == {Null, 3}
NoRetryAfter == {Null}
Symmetry == Permutations(Requests)
============================================================================
