----------------------------- MODULE MCSessions -----------------------------
EXTENDS Sessions, TLC

\* Tokens and handlers are interchangeable; the run has no liveness property.
Symmetry == Permutations(Session) \cup Permutations(Request)
=============================================================================
