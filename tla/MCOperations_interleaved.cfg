SPECIFICATION FairSpec
CONSTANTS
    Clients = {c1, c2}
    c1 = c1
    c2 = c2
    Models = {"SDS", "SDG", "SPD"}
    KeepsOutput = {FALSE, TRUE}
    Requests <- MCRequests
    MaxOps <- MCMaxOps
    MaxFails = 1
    MaxAcquisitions = 2
INVARIANTS
    TypeOK
    ValuesWereHeld
    
    PanicsOnlyWhenStale
    LagBounded
    CaptureIsFresh
PROPERTY
    WaitsOnlyForTrigger
CHECK_DEADLOCK FALSE
