SPECIFICATION Spec
CONSTANTS
    a1 = a1 a2 = a2
    c1 = c1 c2 = c2 c12 = c12 c0 = c0
    Peers = {p1, p2, p3}
    Shards = {s1, s2}
    Addresses = {a1, a2}
    Connections = {c1, c2, c12, c0}
    Preferred <- MCOnePreferred
    Within <- MCWithin
    MaxListed = 2
SYMMETRY Symmetry
INVARIANTS
    RemovedIsUnlisted
CHECK_DEADLOCK FALSE
