CONSTANTS
    c1 = c1
    c2 = c2
    Callers = {c1, c2}
    Adopted = TRUE
SPECIFICATION FairSpec
INVARIANTS
    OneFiber
    PushedMatches
PROPERTIES
    ConsoleSpec
    CallsAreAnswered
