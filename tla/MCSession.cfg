CONSTANTS
  x1 = x1
  x2 = x2
  c1 = c1
  c2 = c2
  None = None
  Candidates <- MCCandidates
  Calls <- MCCalls
  MaxCandidates = 1
  FailureFloor = 8
  FailureFactor = 3
  Medians = {0}
  MultiObjective = TRUE
  MaxBatch = 2
  MaxRuns = 2
  DiskFaults = TRUE
SPECIFICATION SessionSpec
SYMMETRY Symmetry
INVARIANTS
  AccountsBalance
  SlotsNeverUnderstated
  WinnersWereCounted
