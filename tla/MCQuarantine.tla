---------------------------- MODULE MCQuarantine ----------------------------
EXTENDS Quarantine

CONSTANTS x1, x2, s1

MCCells == {x1, x2}
MCSlots == {s1}
MCEndings == {"finished", "raised"}
MCOldLedgers == {<<Line(x1, "faulted")>>}
=============================================================================
