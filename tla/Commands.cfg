SPECIFICATION FairSpec
CONSTANTS
    c1 = c1
    c2 = c2
    Commands <- TwoCommands
    None = None
    Kinds <- ReaderAndWriter
    MaxAttempts = 1
    MaxFaults = 2
    MaxCrashes = 1
INVARIANTS
    RecoveryNeverGuesses
    CompletedIsDurable
    CompletedDownloadIsSaved
    PreparedDownloadSurvives
    MutationIsNotReplayed
    ChangeIsForgotten

    
CHECK_DEADLOCK FALSE
