SPECIFICATION Spec
CONSTANTS
    Peers = {p1, p2, p3}
    MinRating <- MCMinRating
    MaxRating = 3
    IncreaseFactor = 2
    DecreaseFactor <- MCDecreaseFactor
    TopCapacity = 2
    BadCapacity = 2
    Lists <- MCLists
INVARIANTS
    TypeOK
    TiersAgreeWithRatings
    SelectionIsRight
PROPERTY
    BadPeersEarnTheirWay
CHECK_DEADLOCK FALSE
