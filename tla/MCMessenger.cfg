SPECIFICATION FairNodeSpec
CONSTANTS
  Topics = {t1}
  TopicPeers = {p1}
  Callers = {c1, c2}
  Unknown = none
  NumPorts = 2
  maxRetriesIfBindError = 2
INVARIANT LeakBounded
PROPERTIES CloseEndsOthers ListHeals
CHECK_DEADLOCK FALSE
