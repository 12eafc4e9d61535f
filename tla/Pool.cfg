SPECIFICATION FairPoolSpec
CONSTANTS
    Sessions = {s1}
    Calls = {c1, c2}
    Tasks = {t1, t2}
    Cleanups = {k1}
    Entries = {e1, e2}
    Workers = {w1, w2}
    MaxActive = 2
    MaxFaults = 2
    None = None
INVARIANT LeasedWorkerStaysOpen
PROPERTIES HealthyWorkerIsKept  
