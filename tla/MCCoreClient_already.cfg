SPECIFICATION Spec
CONSTANTS
    Clients = {c1}
    LinkIds = {l1}
    ErrorLinks = {badId}
    c1 = c1
    l1 = l1
    badId = badId
    KeepsOutput = {FALSE}
    RecyclesLinks = TRUE
    Gone = Gone
    NoLink = NoLink
    NoReply = NoReply
    NoData = NoData
    MaxOps <- MCMaxOps
INVARIANTS
    AlreadyConnectedIsTrue
CHECK_DEADLOCK FALSE
