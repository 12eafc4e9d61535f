CONSTANTS
    j1 = j1
    j2 = j2
    JobIds = {j1, j2}
    Priority <- MCPriority
    ReplaySafe = {}
    MaxRetries = 0
    RetainedTerminal = 1
    Records <- MCRecords
    CompactThreshold = 2
    CompactRetained = 1
    MaxLines = 3
    MaxFailures = 3
SPECIFICATION Spec
INVARIANTS
    IndexIsDurable
PROPERTIES
    RecoveryIsStable
    ImplementsJobStore
