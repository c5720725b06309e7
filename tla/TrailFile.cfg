CONSTANTS
    a = a
    b = b
    c1 = c1
    c2 = c2
    Ids = {a, b}
    Lanes = {"main", "side"}
    Main = "main"
    None = None
    Missing = Missing
    Calls = {c1, c2}
    Ops <- RecordOps
    MaxSeq = 2
    FileBackend = TRUE
SPECIFICATION FairSpec
INVARIANTS
    CommitNeverRejected
PROPERTIES
    AckedStays
    CallsAreAnswered
CHECK_DEADLOCK FALSE
