SPECIFICATION DeviceFairSpec
CONSTANTS
    Clients = {c1, c2}
    LinkIds = {l1, l2}
    ErrorLinks = {l1, l2}
    c1 = c1
    c2 = c2
    l1 = l1
    l2 = l2
    KeepsOutput = {FALSE, TRUE}
    RecyclesLinks = TRUE
    NoLink = NoLink
    Gone = Gone
    NoReply = NoReply
    NoData = NoData
    MaxOps <- MCMaxOps
    PortMapper <- MCPortMapper
    CorePort = 1024
    OtherPorts = {80}
INVARIANTS
    DeviceTypeOK
    OwnsItsLink
    AskReturnsItsAnswer
PROPERTY
    ImplementsSession
    DropIsNeverRefused
    LinksAreReleased
CHECK_DEADLOCK FALSE
