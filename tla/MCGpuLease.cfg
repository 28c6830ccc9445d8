CONSTANTS
  w1 = w1
  w2 = w2
  d1 = d1
  d2 = d2
  None = None
  Workers <- MCWorkers
  Mortal <- MCMortal
  Devices <- MCDevices
  Pool <- MCPool
  Foreigners <- MCForeigners
  BusyCheck = TRUE
  QueryMayFail = FALSE
  MaxSweeps = 1
  MaxEvals = 2
SPECIFICATION Spec
CHECK_DEADLOCK FALSE
INVARIANTS
  NoLeakedLock
  LiveSandboxesApart
PROPERTIES
  NeverLeasedOccupied
  LeasesImplemented
