SPECIFICATION FairSpec
CONSTANTS
    Sessions = {s1, s2}
    Calls = {c1, c2}
    Tasks = {t1}
    Cleanups = {k1}
    Entries = {e1, e2}
    Workers = {w1, w2}
    MaxActive = 1
    MaxFaults = 1
    None = None
    Capacity = 1
    Pages = {p1}
    Clients = {"mcp"}
INVARIANT OwnershipCoversSessions
 
CHECK_DEADLOCK FALSE
