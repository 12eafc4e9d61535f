CONSTANTS
    j1 = j1
    j2 = j2
    j3 = j3
    JobIds = {j1, j2}
    Priority <- MCPriority
    ReplaySafe <- MCReplaySafe
    MaxRetries = 1
    RetainedTerminal = 0
    MaxConcurrent = 1
    MaxQueue = 2
    Faults = {"lost", "partial", "unsynced", "detached", "tornCrash", "archiveCrash"}
    MaxFaults = 1
    MaxCrashes = 2
SPECIFICATION Spec
INVARIANTS
    RunsBounded
    
PROPERTY NoUncertainReplay
