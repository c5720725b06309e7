CONSTANTS
    c1 = c1
    c2 = c2
    m1 = m1
    m2 = m2
    Commands = {c1, c2}
    Machines = {m1, m2}
    NoMachine = NoMachine
    Faults = {"restart", "report", "boot", "suspend"}
    MaxRetries = 2
    MaxUrls = 2
    MaxRestarts = 1
    MaxRuns = 3
SPECIFICATION FairSpec
INVARIANT ReadyIsArmed
INVARIANT BilledIsReady
PROPERTY FiringIsDurable
CHECK_DEADLOCK FALSE
