SPECIFICATION FairSpec
CONSTANTS
    LogId = {r1}
    FirstDay = 3
    LastDay = 5
    TicksPerDay = 2
    MaxRebuildDays = 1
    RetentionDays = {}
    Modes = {}
    RunTick = 1
    IntervalTicks = 2
    BatchSize = 1
    RebuildDays = {}
    RecomputeModes = {TRUE, FALSE}
    MaxFaults = 1
INVARIANT SealedCostExact
PROPERTY EventuallyCounted
