CONSTANTS
    a = a
    b = b
    c1 = c1
    c2 = c2
    Ids = {a, b}
    Lanes = {"main", "side"}
    Main = "main"
    None = None
    Missing = Missing
    Calls = {c1, c2}
    Ops <- AllOps
    MaxSeq = 3
    FileBackend = FALSE
SPECIFICATION Spec
SYMMETRY Symmetry
INVARIANTS
    TypeOK
    LogIsPrefix
    MemoryMatchesLog
    LoadNeverFails
PROPERTIES
    AppendOnly
CHECK_DEADLOCK FALSE
