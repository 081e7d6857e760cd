SPECIFICATION Spec
CONSTANTS
    Servers = {s1, s2}
    s1 = s1
    s2 = s2
    XidMod = 3
    Builds = {TRUE, FALSE}
    MaxCalls = 4
    MaxDups = 1
    MaxInbox = 3
INVARIANTS
    TypeOK
    KeptAreAnswers
    OkKeptAllArrived
SYMMETRY Symmetry
CHECK_DEADLOCK FALSE
