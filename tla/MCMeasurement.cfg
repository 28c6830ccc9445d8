SPECIFICATION Spec
CONSTANTS
    Parts <- AllParts
    Requests = {r1, r2}
    Sources = {s1, s2}
    Reference = Reference
    Banned = {s2}
    Trials = 2
    Nothing = Nothing
    Drivers = {t1, t2}
    Plans <- MCPlans
    Defaults <- MCDefaults
    DynamoKeys = {"dynamo.flag"}
    Places = {"knob", "safety", "locked", "flag", "op", "hook"}
    Spellings = {"inductor.knob", "knob", "typo", "safety", "inductor.safety", "locked", "dynamo.flag", "aten.op", "hook"}
    PlaceOf <- MCPlaceOf
    ReadOnly = {"locked"}
    MaxEach = 1
    Unknown = Unknown
    Original = Original
    Compiles = {c1, c2}
    PassPlans <- MCPassPlans
    Launches = {"own", "wide"}
    OwnLaunch = "own"
    Ttir <- TtirPasses
    Ttgir <- TtgirPasses
    MaxOverlap = 2
    NoPlan = NoPlan
    Cells = {e1, e2, e3}
    Workers = {w1, w2}
    Pool = {d1}
    CheckMayFail = TRUE
    MaxKilled = 2
    Nobody = Nobody
    Kinds <- AllKinds
    Speedups <- SlowFastFaster
    MaxCandidates = 2
    MaxFailedAttempts = 3
    MaxContinuations = 1
    MaxTurns = 4
    DefaultN = 3
    Arms = 2
    None = None
INVARIANTS
    ServedTimingsEarned
    AcceptedWasMeasured
    CompiledUnderItsPlan
    ConfigRestored
    NothingLeaksIntoTiming
    PoolExclusive
    BudgetKept
    IncumbentEarned
PROPERTIES
    EpisodesReported
    ArchetypesEnd
CHECK_DEADLOCK FALSE
