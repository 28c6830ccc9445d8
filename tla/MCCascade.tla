----------------------------- MODULE MCCascade -----------------------------
(* Two spellings of one candidate, and another one. *)
EXTENDS Cascade, TLC

CONSTANTS a, b, f, g

Sources3 == {<<a, 1>>, <<a, 2>>, <<b, 1>>}
MCForm == [s \in Sources3 |-> IF s[1] = a THEN f ELSE g]
=============================================================================
