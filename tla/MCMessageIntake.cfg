SPECIFICATION Spec
CONSTANTS
    blocks = blocks m1 = m1 m2 = m2 m3 = m3 bad = bad x = x y = y p = p
    Topics = {blocks, txs}
    Identifiers = {i, j}
    Messages = {m1, m2, m3, bad}
    TopicOf <- MCTopicOf
    TimestampOf <- MCTimestampOf
    From <- MCFrom
    Malformed = {bad}
    EquivalentOf <- MCEquivalentOf
    NoId = NoId
    NoPeer = NoPeer
    Peers = {p}
    Second = 2
    CacheSeconds = 1
    AdvanceSeconds = 1
    equivalentMessagesCacheSize = 1
    MaxTime = 5
    MaxMade = 2
    ArriveAt <- MCArriveAt
SYMMETRY Symmetry
INVARIANTS
    RegistryAgrees
    LateIsProcessedOnce
    EquivalentsRelayedOnce
CHECK_DEADLOCK FALSE
