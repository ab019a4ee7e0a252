SPECIFICATION Spec
CONSTANTS
    blocks = blocks m1 = m1 m2 = m2 m3 = m3 bad = bad x = x y = y p = p
    Topics = {blocks}
    Identifiers = {i, j}
    Messages = {m1}
    TopicOf <- MCTopicOf
    TimestampOf <- MCTimestampAhead
    From <- MCFrom
    Malformed = {}
    EquivalentOf <- MCEquivalentOf
    NoId = NoId
    NoPeer = NoPeer
    Peers = {p, q}
    Second = 2
    CacheSeconds = 1
    AdvanceSeconds = 1
    equivalentMessagesCacheSize = 1
    MaxTime = 7
    MaxMade = 2
    ArriveAt <- MCArriveAt
SYMMETRY Symmetry
INVARIANT ProcessedOnce
CHECK_DEADLOCK FALSE
