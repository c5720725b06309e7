CONSTANTS
    c1 = c1
    c2 = c2
    c3 = c3
    h1 = h1
    h2 = h2
    s1 = s1
    Calls = {c1, c2, c3}
    Kinds <- MCKinds
    Scenes <- MCScenes
    Handles = {h1, h2}
    NoHandle = NoHandle
    Unset = Unset
    NoRecord = NoRecord
    Slots = {s1}
    Faults = {"rpc", "env", "crash", "evict"}
    MaxHosts = 2
    MaxEvicts = 1
SPECIFICATION Spec
SYMMETRY Symmetry
INVARIANT DeletedStaysGone
INVARIANT HostHasTheHandle
INVARIANT ConsolesKnow
CHECK_DEADLOCK FALSE
