CONSTANTS
  a = a
  b = b
  f = f
  g = g
  None = None
  Sources <- Sources3
  Form <- MCForm
  Speedups = {101, 102, 103}
  MaxCandidates = 2
  MaxFailedAttempts = 4
  MaxContinuations = 1
  SeedCount = 3
  JudgeTopM = 2
  DeadbandPct = 1
  PlateauReseed = 2
  PlateauStop = 3
  MaxTurns = 4
  C4 = TRUE
  C5 = TRUE
  C7 = TRUE
  C8 = TRUE
  C10 = TRUE
SPECIFICATION Spec
CHECK_DEADLOCK FALSE
INVARIANTS
  RejectedStayRejected
  IncumbentNearBest
  EarlyStopAfterReseed
  BudgetOverrunBounded
PROPERTIES
  CascadeEnds
