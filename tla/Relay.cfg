SPECIFICATION FairSpec
CONSTANTS
    MaxAttaches = 2
    MaxDials = 2
    MaxFaults = 1
    Faults <- MCFaults
INVARIANT OpenIsRegistered
INVARIANT OnePipe
PROPERTY Decided
CHECK_DEADLOCK FALSE
