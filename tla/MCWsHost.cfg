SPECIFICATION FairSpec
CONSTANTS
    MaxConns = 2
    MaxBreaks = 1
    MaxClosings = 1
INVARIANTS
    NoConnectionLost
PROPERTIES
    Reconnects
    LoopsEnd
    DeadConnectionsLeave
    ServerCloseEnds
CHECK_DEADLOCK FALSE
