---------------------------- MODULE MCConnections ----------------------------
EXTENDS Connections, TLC

CONSTANTS p1, p2, p3
MCDistance == [p \in Peers |-> IF p = p1 THEN 3 ELSE 2]
(* Validators of the node's shard, of which one may stay besides the       *)
(* preferred one; or two of another shard, for which there is room for one *)
(* and for what the first kind leaves.                                     *)
MCResolvers ==
    LET all == [p \in Peers |-> "intraShardValidators"]
    IN {all, [p \in Peers |-> IF p = p1 THEN all[p] ELSE "crossShardValidators"]}
(* The two peers at one distance. *)
MCSymmetry == Permutations({p2, p3})
=============================================================================
