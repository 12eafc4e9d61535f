CONSTANTS
    j1 = j1
    j2 = j2
    j3 = j3
    JobIds = {j1, j2}
    Priority <- MCPriority
    ReplaySafe <- MCReplaySafe
    MaxRetries = 1
    RetainedTerminal = 1
    MaxConcurrent = 1
    MaxQueue = 1
    Faults = {"lost"}
    MaxFaults = 1
    MaxCrashes = 0
SPECIFICATION FairSpec
PROPERTIES
    ShutdownEnds
    JobsSettle
