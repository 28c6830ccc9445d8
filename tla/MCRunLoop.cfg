CONSTANTS
  x1 = x1
  x2 = x2
  c1 = c1
  None = None
  Candidates <- MCCandidates
  Calls <- MCCalls
  MaxCandidates = 1
  FailureFloor = 2
  FailureFactor = 1
  Medians = {0, 1}
  MultiObjective = FALSE
  MaxBatch = 2
  MaxRuns = 2
  DiskFaults = TRUE
  MaxContinuations = 1
  MaxTurns = 2
SPECIFICATION LoopSpec
CHECK_DEADLOCK FALSE
INVARIANTS
  BestIsBanked
PROPERTIES
  EpisodeRefined
  SessionCloses
