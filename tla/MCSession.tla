----------------------------- MODULE MCSession -----------------------------
(* Two handlers of one session interleaved, as pydantic-ai's tool threads.  *)
EXTENDS OptimizationSession, TLC

CONSTANTS x1, x2, c1, c2

MCCandidates == {x1, x2}
MCCalls == {c1, c2}
Symmetry == Permutations(MCCandidates) \cup Permutations(MCCalls)
=============================================================================
