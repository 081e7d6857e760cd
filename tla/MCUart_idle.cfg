SPECIFICATION Spec
CONSTANTS
    Builds = {FALSE}
    SymbolLen = 4
    Bytes = {129, 85}
    Idles = {0, 20}
    Stops = {1}
    Leads <- NoLead
    Levels <- Centred
    Frames = 2
INVARIANTS
    IdleAddsNoBytes
CHECK_DEADLOCK FALSE
