SPECIFICATION Spec
CONSTANTS
    LogId = {r1}
    FirstDay = 3
    LastDay = 5
    TicksPerDay = 2
    MaxRebuildDays = 1
    RetentionDays = {0, 1}
    Modes = {"daily", "interval"}
    RunTick = 1
    IntervalTicks = 2
    BatchSize = 1
    RebuildDays = {0, 1}
    RecomputeModes = {}
    MaxFaults = 1
INVARIANTS SealedExact PassIsComplete
PROPERTIES WatermarkMonotone SealedUntilAsked
