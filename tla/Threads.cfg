SPECIFICATION Spec
CONSTANTS
    c1 = c1
    c2 = c2
    c3 = c3
    Cmds = {c1, c2, c3}
    Scenes <- MCScenes
    MaxThreads = 3
    MaxHosts = 3
    MaxRestarts = 1
    MaxFaults = 1
CHECK_DEADLOCK FALSE
INVARIANT OneHost
INVARIANT AcknowledgedSurvives
INVARIANT AllOrNothing
INVARIANT AdoptedTree
