SPECIFICATION Spec
CONSTANTS
    Parts = {"llm", "observation"}
    Savers = {w1, w2}
    Lessons = {l1, l2}
    Seeds = 1
    MinFrequency = 2
    MaxRules = 2
    MaxFailures = 2
    MaxFaults = 1
    Absent = Absent
    Torn = Torn
    Calls = {c1, c2, c3}
    LoopIds = {1, 2}
    Limit = 2
    Retries = 1
    Attempts = 2
    MaxLate = 1
    MaxBackoff = 1
    MaxEpisodes = 1
    Nobody = Nobody
    Tasks = {1, 2, 3, 4, 5, 6, 7}
    Level = 1
    MarksOf <- MCMarksOf
    SourceOf <- MCSourceOf
    StatsOf <- MCStatsOf
    Convolutions = {7}
    Materializing = {}
    Quota = 3
    ChunkSize = 2
    MaxRuns = 2
    TornCache = TornCache
    Grid <- MCGrid
    Invocations = {p1, p2}
    MaxStarts = 2
    MaxTears = 1
    TornLine = TornLine
    Sources <- MCSources
    NotAFactory = NotAFactory
    MinBudget = 24
    Production = 8
    Alternative = 10
    Outcomes <- MCOutcomes
    Baseline = 10
    Metrics = {"speed", "size"}
    GoalOf <- MCGoalOf
    MaxRecorded = 3
    Unmeasured = Unmeasured
    RunIds = {r1, r2}
    MaxAttached = 2
    NoRun = NoRun
PROPERTIES
    CallsEnd
    PageLearns
CHECK_DEADLOCK FALSE
