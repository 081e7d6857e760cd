SPECIFICATION FairSpec
CONSTANTS
    XidMod = 3
    Builds = {TRUE, FALSE}
    Listings <- MCListings
    NoReply = NoReply
    Refused = Refused
    MaxCalls = 4
    MaxDups = 2
INVARIANTS
    TypeOK
    OkIsOwnList
    LagBounded
PROPERTY
    WaitsOnlyForLost
CHECK_DEADLOCK FALSE
