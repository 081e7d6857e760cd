SPECIFICATION Spec
CONSTANTS
    Builds = {TRUE, FALSE}
    SymbolLen = 4
    Bytes = {0, 85, 170}
    Idles = {0, 6}
    Stops = {0, 1}
    Leads <- MCLeads
    Levels <- MCLevels
    Frames = 2
INVARIANTS
    TypeOK
    DecodesAllButLast
    OffsetIsDelay
CHECK_DEADLOCK FALSE
