--------------------------- MODULE MCPeersRating ---------------------------
(* Three peers; every list of up to three different ones. *)
EXTENDS PeersRating

MCLists ==
    {l \in UNION {[1..n -> Peers] : n \in 0..3} : \A i, j \in DOMAIN l : l[i] = l[j] => i = j}

MCMinRating == -2
MCDecreaseFactor == -1
============================================================================
