SPECIFICATION Spec
CONSTANTS
    Clients = {c1, c2}
    LinkIds = {l1, l2}
    ErrorLinks = {badId}
    c1 = c1
    c2 = c2
    l1 = l1
    l2 = l2
    badId = badId
    KeepsOutput = {FALSE, TRUE}
    RecyclesLinks = FALSE
    Gone = Gone
    NoLink = NoLink
    NoReply = NoReply
    NoData = NoData
    MaxOps <- MCMaxOps
INVARIANTS
    TypeOK
    AskReturnsItsAnswer
    WriteOkWasTaken
    TakenOnceInOrder
    OneLinkPerClient
SYMMETRY Symmetry
CHECK_DEADLOCK FALSE
