CONSTANTS
    x = x
    y = y
    Agent = {a1}
    Content = {x, y}
    Name = {"ops"}
    NoText = NoText
    Stored <- MCStored
    Adds = {}
    Edits <- MCEdits
    Similar = {}
    MaxId = 2
    LinkLimit = 3
    MaxCalls = 2
    BatchSize = 1
    MaxBatches = 2
    MaxFaults = 0
    MaxCrashes = 0
SPECIFICATION Spec
PROPERTY OnlyNamespaces
CHECK_DEADLOCK FALSE
