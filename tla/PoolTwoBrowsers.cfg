SPECIFICATION PoolSpec
CONSTANTS
    Sessions = {s1}
    Calls = {c1, c2, c3}
    Tasks = {t1, t2, t3}
    Cleanups = {k1}
    Entries = {e1, e2, e3}
    Workers = {w1, w2}
    MaxActive = 3
    MaxFaults = 0
    None = None
SYMMETRY Interchangeable
INVARIANTS OneBrowserPerSession
