----------------------------- MODULE MCRunLoop -----------------------------
(* One handler at a time, as the archetype and Claude harnesses dispatch.   *)
EXTENDS RunLoop

CONSTANTS x1, x2, c1

MCCandidates == {x1, x2}
MCCalls == {c1}
=============================================================================
