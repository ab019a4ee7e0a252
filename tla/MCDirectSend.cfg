SPECIFICATION FairSpec
CONSTANTS
  a = a
  b = b
  a1 = a1
  Callers = {c1, c2}
  Peers = {a, b}
  Conns = {a1}
  PeerOf <- MCPeerOf
  Self = self
  Foreign = foreign
  None = none
  Torn = torn
  Capacity = 1
  Window = 2
  MaxStreams = 2
  MaxClock = 3
  ForeignMessages <- MCForeign
INVARIANTS OneWriterUnlessEvicted StreamInOrder FreshIsNotSeen
PROPERTY SendReturns
