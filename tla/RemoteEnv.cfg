SPECIFICATION FairSpec
CONSTANTS
    e1 = e1
    f1 = f1
    Execs <- MCExecs
    Files <- MCFiles
    Timed <- MCExecs
    MaxSockets = 2
    Faults <- MCFaults
INVARIANT Answerable
INVARIANT OkIsWhole
PROPERTY NoOrphans
CHECK_DEADLOCK FALSE
