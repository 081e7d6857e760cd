SPECIFICATION Spec
CONSTANTS
    Builds = {FALSE}
    SymbolLen = 4
    Bytes = {0, 85}
    Idles = {0}
    Stops = {1}
    Leads <- NoLead
    Levels <- Centred
    Frames = 2
PROPERTY
    StartPulseIsTaken
CHECK_DEADLOCK FALSE
