CONSTANTS
    t1 = t1
    t2 = t2
    Threads = {t1, t2}
    NoThread = NoThread
    Running = {t1}
    MaxSeq = 2
    MaxCloses = 1
    MaxRoutes = 3
SPECIFICATION LiveFairSpec
INVARIANTS
    Complete
    Ordered
    SettledIsBlank
PROPERTIES
    OpenedIsLoaded
CHECK_DEADLOCK FALSE
