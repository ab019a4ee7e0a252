SPECIFICATION Spec
CONSTANTS
  p1 = p1
  p2 = p2
  p3 = p3
  Peers = {p1, p2, p3}
  Distance <- MCDistance
  Resolvers <- MCResolvers
  Seeders = {}
  PreferredPeers = {p1}
  Deniable = {p1}
  Sharders = {"lists"}
  TargetPeerCount = 5
  OneListPeerCount = 3
  MaxIntraShardValidators = 1
  MaxCrossShardValidators = 1
  MaxIntraShardObservers = 1
  MaxCrossShardObservers = 1
  MaxSeeders = 0
  MaxCallbacks = 2
SYMMETRY MCSymmetry
INVARIANTS WithinLimits
PROPERTIES ComputesTheReference
