CONSTANTS
  x1 = x1
  x2 = x2
  s1 = s1
  s2 = s2
  None = None
  Cells <- MCCells
  Slots <- MCSlots
  Endings <- MCEndings
  OldLedgers <- MCOldLedgers
  MaxInvocations = 2
  MaxDriverKills = 1
  MaxFaults = 1
SPECIFICATION Spec
CHECK_DEADLOCK FALSE
INVARIANTS
  FinishedOnce
  CleanExitCoversGrid
PROPERTY
  InvocationReturns
