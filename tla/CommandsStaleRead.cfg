SPECIFICATION Spec
CONSTANTS
    c1 = c1
    c2 = c2
    Commands <- TwoCommands
    None = None
    Kinds <- ReaderAndWriter
    MaxAttempts = 1
    MaxFaults = 1
    MaxCrashes = 0
INVARIANT
    ReadSeesTheLivePage
CHECK_DEADLOCK FALSE
