SPECIFICATION FairSpec
CONSTANTS
    XidMod = 3
    Builds = {FALSE, TRUE}
    ReplyLen = 2
    Headers <- MCHeaders
    MaxCalls = 4
    MaxDups = 2
INVARIANTS
    TypeOK
    OkIsOwnAnswer
    ExactInDebug
    InSyncAfterOk
    LagBounded
    ErrMeansNotExecuted
PROPERTY
    CallReturns
    ImplementsRpcCall
CHECK_DEADLOCK FALSE
