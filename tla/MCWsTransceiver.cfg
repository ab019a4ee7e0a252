SPECIFICATION FairSpec
CONSTANTS
    a = a
    b = b
    c1 = c1
    c2 = c2
    Ends = {a, b}
    Peer <- MCPeer
    Callers = {c1, c2}
    Home <- MCHome
    AckEnds = {a}
    BlockingEnds = {b}
    Capacity = 2
    MaxCounter = 2
    Unreliable = TRUE
    RepeatingEnds = {b}
    OtherEnds = {a}
INVARIANTS
    AckMeansHandled
    ChannelAccounting
    HandledIsPrefixOfWritten
PROPERTIES
    ImplementsAckDelivery
    SendReturns
    HandledIsAcked
    CloseEndsListen
CHECK_DEADLOCK FALSE
