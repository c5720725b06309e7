CONSTANTS
    c1 = c1
    c2 = c2
    m1 = m1
    m2 = m2
    Commands = {c1}
    Machines = {m1, m2}
    NoMachine = NoMachine
    Faults = {}
    MaxRetries = 2
    MaxUrls = 2
    MaxRestarts = 1
    MaxRuns = 2
SPECIFICATION Spec
PROPERTIES
    NeverMidRun
CHECK_DEADLOCK FALSE
