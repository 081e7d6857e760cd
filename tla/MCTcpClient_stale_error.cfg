SPECIFICATION FairSpec
CONSTANTS
    XidMod = 3
    Builds = {FALSE}
    ReplyLen = 1
    Headers <- MCHeaders
    MaxCalls = 2
    MaxDups = 1
PROPERTY
    HeaderErrorIsOurs
CHECK_DEADLOCK FALSE
