SPECIFICATION FairSpec
CONSTANTS
    r1 = r1  r2 = r2  r3 = r3  k1 = k1  k2 = k2
    Requests = {r1, r2}
    Keys = {k1}
    KeyOf <- OneKeyOf
    Body <- OneBody
    PrincipalOf <- OnePrincipal
    Outcomes = {"completed", "final", "uncertain", "released"}
    ByValue = TRUE
    Forgets = TRUE
    Durable = TRUE
    PerPrincipal = 1
    Global = 1
    Ttl = 1
    MaxClock = 1
    MaxFailures = 2
    MaxCrashes = 2
INVARIANTS ReservationHasHolder
PROPERTIES NoDuplicateEffect WaitersAreWoken
