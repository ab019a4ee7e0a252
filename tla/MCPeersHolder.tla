--------------------------- MODULE MCPeersHolder ---------------------------
(* Two preferred addresses; a connection from c12 has both of them in its address. *)
EXTENDS PeersHolder

CONSTANTS a1, a2, c1, c2, c12, c0

MCPreferred == <<a1, a2>>
MCOnePreferred == <<a1>>
MCWithin == {<<c1, a1>>, <<c2, a2>>, <<c12, a1>>, <<c12, a2>>}

Symmetry == Permutations(Peers) \cup Permutations(Shards)
============================================================================
