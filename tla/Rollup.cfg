CONSTANTS
    t1 = t1
    t2 = t2
    Turns = {t1, t2}
    Seed = 4
    HistoryTurns = 3
    ForcedTurns = 2
    ExcerptTurns = 2
    MaxConcurrent = 2
    SummariserFails = TRUE
    MaxFaults = 1
SPECIFICATION Spec
INVARIANTS
    WatermarkStaysBehind
    CalmTurnsForgetNothing
    CalmSummaryCoversWatermark
