CONSTANTS
    j1 = j1
    j2 = j2
    j3 = j3
    JobIds = {j1, j2}
    Priority <- MCPriority
    ReplaySafe = {j1, j2}
    MaxRetries = 0
    RetainedTerminal = 1
    MaxConcurrent = 2
    MaxQueue = 1
    Faults = {"lost", "detached", "compaction", "tornCrash"}
    MaxFaults = 1
    MaxCrashes = 2
SYMMETRY Interchangeable
SPECIFICATION DurableSpec
INVARIANTS
    
    AckedIsKept
    ReceiptsAgree
PROPERTY DurableReceiptIsFinal
