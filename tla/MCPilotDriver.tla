--------------------------- MODULE MCPilotDriver ---------------------------
EXTENDS PilotDriver

CONSTANTS x1, x2, s1, s2

MCCells == {x1, x2}
MCSlots == {s1, s2}
MCEndings == {"finished", "raised"}
MCOldLedgers == {<<>>}
=============================================================================
