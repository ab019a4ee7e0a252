---------------------------- MODULE ListsSharder ----------------------------
(***************************************************************************)
(* Which of the connected peers the sharders give up:                      *)
(* p2p/libp2p/networksharding/listsSharder.go and oneListSharder.go.       *)
(*                                                                         *)
(* A peer's kind is what splitPeerIds makes of its shard and its type,     *)
(* and its distance is the number of bits in which its id differs from     *)
(* that of the node.  sort.Sort leaves peers at one distance in any order, *)
(* so an eviction list is one of a set of lists, and a list is a set: its  *)
(* order does not matter to who uses it.                                   *)
(***************************************************************************)
EXTENDS Integers, Sequences, FiniteSets, FiniteSetsExt, Functions

CONSTANTS
    Peers,
    Distance,            \* [Peers -> Nat], computeDistanceByCountingBits
    Seeders,             \* the peers SetSeeders was called with
    TargetPeerCount,     \* of the lists sharder
    OneListPeerCount,    \* TargetPeerCount of a node with the one list sharder
    MaxIntraShardValidators, MaxCrossShardValidators,
    MaxIntraShardObservers, MaxCrossShardObservers, MaxSeeders

(* The order in which a kind passes what it does not use to the next one. *)
Chain == <<"intraShardValidators", "crossShardValidators", "intraShardObservers",
           "crossShardObservers", "unknown">>
ChainKinds == {Chain[i] : i \in DOMAIN Chain}

Provided == MaxIntraShardValidators + MaxCrossShardValidators
            + MaxIntraShardObservers + MaxCrossShardObservers + MaxSeeders

(* The checks of NewListsSharder and processNumConnections. *)
ASSUME SharderAssumption ==
    /\ IsFiniteSet(Peers) /\ Distance \in [Peers -> Nat] /\ Seeders \subseteq Peers
    /\ TargetPeerCount \in Nat /\ TargetPeerCount >= 5 /\ MaxSeeders \in Nat
    /\ MaxIntraShardValidators \in Nat \ {0} /\ MaxCrossShardValidators \in Nat \ {0}
    /\ MaxIntraShardObservers \in Nat \ {0} /\ MaxCrossShardObservers \in Nat \ {0}
    /\ Provided + 1 =< TargetPeerCount
    /\ OneListPeerCount \in Nat /\ OneListPeerCount >= 3

(* What listsSharder keeps for each kind of the chain. *)
Maximum == [k \in ChainKinds |->
    CASE k = "intraShardValidators" -> MaxIntraShardValidators
      [] k = "crossShardValidators" -> MaxCrossShardValidators
      [] k = "intraShardObservers" -> MaxIntraShardObservers
      [] k = "crossShardObservers" -> MaxCrossShardObservers
      [] k = "unknown" -> TargetPeerCount - Provided]

(* splitPeerIds: a seeder is a seeder even when it is a preferred peer;    *)
(* the other preferred peers are in no list.                               *)
OfKind(peers, kind, preferred) == [k \in ChainKinds |->
    {p \in peers : p \notin Seeders /\ p \notin preferred /\ kind[p] = k}]

ComputeUsedAndSpare(existing, maximum) ==
    IF existing < maximum THEN <<existing, maximum - existing>> ELSE <<maximum, 0>>

(* Used and spare of the kinds of the chain, in its order. *)
UsedAndSpare(lists) ==
    LET Of(k, remaining) ==
            ComputeUsedAndSpare(Cardinality(lists[k]), Maximum[k] + remaining)
        us1 == Of(Chain[1], 0)
        us2 == Of(Chain[2], us1[2])
        us3 == Of(Chain[3], us2[2])
        us4 == Of(Chain[4], us3[2])
        us5 == Of(Chain[5], us4[2])
    IN <<us1, us2, us3, us4, us5>>

(* Mutant: one peer more than numKeep stays. *)
EvictsLess(e, list, numKeep) ==
    /\ Cardinality(e) = Max({0, Cardinality(list) - numKeep - 1})
    /\ \A p \in e, q \in list \ e : Distance[q] =< Distance[p]

(* evict: e is all of the list but the numKeep closest. *)
Evicts(e, list, numKeep) ==
    /\ Cardinality(e) = Max({0, Cardinality(list) - numKeep})
    /\ \A p \in e, q \in list \ e : Distance[q] =< Distance[p]

SeedersOf(peers) == peers \cap Seeders

ComputeEvictionList(peers, kind, preferred) ==
    LET lists == OfKind(peers, kind, preferred)
        us == UsedAndSpare(lists)
        seeders == ComputeUsedAndSpare(Cardinality(SeedersOf(peers)), MaxSeeders)
    IN {e \in SUBSET peers :
          /\ \A i \in DOMAIN Chain :
                Evicts(e \cap lists[Chain[i]], lists[Chain[i]], us[i][1])
          /\ Evicts(e \cap SeedersOf(peers), SeedersOf(peers), seeders[1])
          /\ e \subseteq SeedersOf(peers) \cup UNION Range(lists)}

(* oneListSharder keeps the closest ones of all. *)
OneListEvictionList(peers) == 
    {e \in SUBSET peers : Evicts(e, peers, OneListPeerCount)}

(* The sharder the factory made; nilListSharder evicts nobody and is left out. *)
EvictionLists(sharder, peers, kind, preferred) ==
    IF sharder = "lists" THEN ComputeEvictionList(peers, kind, preferred)
    ELSE OneListEvictionList(peers)
-----------------------------------------------------------------------------
(* A reference for the lists sharder, without the order of its steps.      *)
(* Cumulated over the first i kinds, it keeps as many peers as there are   *)
(* and as the maxima allow wherever the chain is cut.                      *)
SumOfFirst(f, i) ==
    LET Of(j) == IF j =< i THEN f[Chain[j]] ELSE 0
    IN Of(1) + Of(2) + Of(3) + Of(4) + Of(5)

MostOfFirst(lists, i) ==
    LET size == [k \in ChainKinds |-> Cardinality(lists[k])]
    IN Min({SumOfFirst(Maximum, j) + (SumOfFirst(size, i) - SumOfFirst(size, j))
            : j \in 0 .. i})

KeepsTheReference(e, peers, kind, preferred) ==
    LET lists == OfKind(peers, kind, preferred)
        kept == [k \in ChainKinds |-> Cardinality(lists[k] \ e)]
    IN /\ \A i \in DOMAIN Chain : SumOfFirst(kept, i) = MostOfFirst(lists, i)
       /\ Cardinality(SeedersOf(peers) \ e)
            = Min({MaxSeeders, Cardinality(SeedersOf(peers))})
       /\ \A k \in ChainKinds : \A p \in lists[k] \cap e, q \in lists[k] \ e :
            Distance[q] =< Distance[p]
       /\ e \cap preferred \subseteq Seeders

KeepsTheClosest(e, peers) ==
    /\ Cardinality(peers \ e) = Min({OneListPeerCount, Cardinality(peers)})
    /\ \A p \in e, q \in peers \ e : Distance[q] =< Distance[p]
=============================================================================
