CONSTANTS
    r1 = r1
    r2 = r2
    Calls = {r1, r2}
    MaxSockets = 3
    Faults = {"reject", "silence"}
SPECIFICATION FairSpec
INVARIANTS
    OneSocket
    ConsoleAgrees
PROPERTIES
    NoGhosts
    SilenceIsNoticed
CHECK_DEADLOCK FALSE
