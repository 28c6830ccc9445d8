CONSTANTS
  x1 = x1
  x2 = x2
  s1 = s1
  None = None
  Cells <- MCCells
  Slots <- MCSlots
  Endings <- MCEndings
  OldLedgers <- MCOldLedgers
  MaxInvocations = 2
  MaxDriverKills = 0
  MaxFaults = 0
  MaxQuarantines = 1
SPECIFICATION QSpec
CHECK_DEADLOCK FALSE
PROPERTIES
  MovedNotDeleted
