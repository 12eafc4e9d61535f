SPECIFICATION Spec
CONSTANTS
    r1 = r1  r2 = r2  r3 = r3  k1 = k1  k2 = k2
    Requests = {r1, r2, r3}
    Keys = {k1, k2}
    KeyOf <- TwoKeysOf
    Body <- TwoBodies
    PrincipalOf <- OnePrincipal
    Outcomes = {"completed", "uncertain", "released"}
    ByValue = FALSE
    Forgets = TRUE
    Durable = TRUE
    PerPrincipal = 1
    Global = 1
    Ttl = 1
    MaxClock = 1
    MaxFailures = 1
    MaxCrashes = 1
INVARIANTS WithinCapacity LedgerKeepsUp
PROPERTIES ReplayIsTrue LedgerStaysReadable
