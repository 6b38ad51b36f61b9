CONSTANTS
    x = x
    y = y
    Agent = {a1, a2}
    Content = {x, y}
    Name = {"ops", "dev"}
    NoText = NoText
    Stored <- MCStored
    Adds <- MCAdds
    Edits <- MCEdits
    Similar <- MCSimilar
    MaxId = 3
    LinkLimit = 3
    MaxCalls = 2
    BatchSize = 1
    MaxBatches = 2
    MaxFaults = 1
    MaxCrashes = 1
SPECIFICATION FairSpec
INVARIANTS IndexAgrees SupersededHasSuccessor Traceable JobHonest
PROPERTIES UserEdgesSpared JobEnds
CHECK_DEADLOCK FALSE
