SPECIFICATION MCSpec
CONSTANTS
    k1 = k1
    k2 = k2
    a1 = a1
    a2 = a2
    p1 = p1
    p2 = p2
    p3 = p3
    t1 = t1
    t2 = t2
    c1 = c1
    c2 = c2
    None = None
    Connections = {k1, k2}
    Attachments = {a1, a2}
    Pages = {p1, p2, p3}
    Targets = {t1, t2}
    Calls = {c1, c2}
    Work <- MCWork
    MaxDisturbances = 2
    Reports <- MCReports
    MaxPending = 1
    MaxBindings = 2
    MaxPages = 2
INVARIANTS OneConnectionServes PageBoundOnce AnswerIsForThisAttempt  ReleasedPageStaysUnbound
PROPERTIES LateAnswerIsHarmless  
CHECK_DEADLOCK FALSE
