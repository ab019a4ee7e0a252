---------------------------- MODULE PeersHolder ----------------------------
(***************************************************************************)
(* peersHolder (p2p/peersHolder/peersHolder.go): which of the connected    *)
(* peers are preferred ones.  A peer that connects from a preferred        *)
(* address waits for its shard; once the shard is known it is listed.      *)
(*                                                                         *)
(* Every operation runs under mut and is one step.  Three maps and a list  *)
(* per shard are kept in step by hand, and an entry of peerIDs holds the   *)
(* place of its peer in the list at the time it was added.                 *)
(***************************************************************************)
EXTENDS Integers, Sequences, FiniteSets, SequencesExt

CONSTANTS
    Peers, Shards,
    Connections,    \* the addresses peers connect from
    Addresses,      \* the preferred connection addresses
    Preferred,      \* preferredConnAddresses: the list of them
    Within,         \* <<c, a>>: the address a is a part of the connection address c
    MaxListed       \* bound: the length of the list of a shard

ASSUME PreferredAssumption == Preferred \in Seq(Addresses)
ASSUME WithinAssumption == Within \subseteq Connections \X Addresses
ASSUME MaxListedAssumption == MaxListed \in Nat

VARIABLES
    infos,          \* connAddrToPeersInfo: the peers of an address (their shard is never read)
    waiting,        \* tempPeerIDsWaitingForShard: from waiting peers to their addresses
    listed,         \* peerIDsPerShard: the list of a shard, empty when it has none
    entries,        \* peerIDs: from the peers with a shard to their data
    panicked        \* an index was out of the range of a list

vars == <<infos, waiting, listed, entries, panicked>>

EntryData == [addr : Addresses, shard : Shards, index : Nat]

TypeOK ==
    /\ infos \in [Addresses -> Seq(Peers)]
    /\ DOMAIN waiting \subseteq Peers /\ waiting \in [DOMAIN waiting -> Addresses]
    /\ listed \in [Shards -> Seq(Peers)]
    /\ DOMAIN entries \subseteq Peers /\ entries \in [DOMAIN entries -> EntryData]
    /\ panicked \in BOOLEAN

Nothing == [p \in {} |-> 0]

Init ==
    /\ infos = [a \in Addresses |-> <<>>]
    /\ waiting = Nothing
    /\ listed = [s \in Shards |-> <<>>]
    /\ entries = Nothing
    /\ panicked = FALSE

Without(f, p) == [q \in DOMAIN f \ {p} |-> f[q]]
With(f, p, v) == [q \in DOMAIN f \cup {p} |-> IF q = p THEN v ELSE f[q]]

(***************************************************************************)
(* PutConnectionAddress                                                    *)
(***************************************************************************)

\* getKnownConnection: a is the first preferred address that is a part of c.
IsKnownConnection(c, a) ==
    \E i \in DOMAIN Preferred :
        /\ Preferred[i] = a
        /\ <<c, a>> \in Within
        /\ \A j \in 1..(i - 1) : <<c, Preferred[j]>> \notin Within

\* Mutant: the peer waits for its shard but is not remembered at its address.
WaitOnly(p, a) ==
    /\ infos' = infos
    /\ waiting' = With(waiting, p, a)

\* addNewPeerInfoToMaps
AddNewPeerInfo(p, a) ==
    /\ infos' = [infos EXCEPT ![a] = Append(@, p)]
    /\ waiting' = With(waiting, p, a)

\* getPeerInfoForPeerID finds the peer among those of the address.
KnownAt(p, a) == Contains(infos[a], p)

\* The other early returns, of a connection that is not preferred and of a peer that is
\* known at the address, change nothing.
PutConnectionAddress(p, c) ==
    \E a \in Addresses :
        /\ ~panicked
        /\ IsKnownConnection(c, a)
        /\ ~KnownAt(p, a)
        /\ AddNewPeerInfo(p, a)
        /\ UNCHANGED <<listed, entries, panicked>>

(***************************************************************************)
(* PutShardID                                                              *)
(***************************************************************************)

\* The index of the peer that was appended last; the first index is 0.
Place(before, after) == Len(after) - 1

\* A peer that does not wait, or that its address does not know, is skipped.
PutShardID(p, s) ==
    /\ ~panicked
    /\ p \in DOMAIN waiting
    /\ KnownAt(p, waiting[p])
    /\ Len(listed[s]) < MaxListed
    /\ listed' = [listed EXCEPT ![s] = Append(@, p)]
    /\ entries' = With(entries, p, [addr  |-> waiting[p], shard |-> s,
                                    index |-> Place(listed[s], Append(listed[s], p))])
    /\ waiting' = Without(waiting, p)
    /\ UNCHANGED <<infos, panicked>>

(***************************************************************************)
(* Remove and Clear                                                        *)
(***************************************************************************)

\* Mutant: Remove does not delete the entry of the peer.
EntryKept(p) == entries

\* Remove deletes the entry of the peer.
EntryDeleted(p) == Without(entries, p)

\* A peer without an entry is skipped, also one that waits for its shard.  The index may be
\* out of date: another peer is taken off the list then, or the slices are out of range.
RemovePeer(p) ==
    /\ ~panicked
    /\ p \in DOMAIN entries
    /\ LET entry == entries[p]
       IN  \/ /\ entry.index < Len(listed[entry.shard])
              /\ listed' = [listed EXCEPT ![entry.shard] = RemoveAt(@, entry.index + 1)]
              /\ entries' = EntryDeleted(p)
              /\ infos' = [infos EXCEPT ![entry.addr] = RemoveFirst(@, p)]
              /\ waiting' = Without(waiting, p)
              /\ UNCHANGED panicked
           \/ /\ entry.index >= Len(listed[entry.shard])
              /\ panicked' = TRUE
              /\ UNCHANGED <<infos, waiting, listed, entries>>

Clear ==
    /\ ~panicked
    /\ infos' = [a \in Addresses |-> <<>>]
    /\ waiting' = Nothing
    /\ listed' = [s \in Shards |-> <<>>]
    /\ entries' = Nothing
    /\ UNCHANGED panicked

----------------------------------------------------------------------------

Next ==
    \/ \E p \in Peers, c \in Connections : PutConnectionAddress(p, c)
    \/ \E p \in Peers, s \in Shards : PutShardID(p, s)
    \/ \E p \in Peers : RemovePeer(p)
    \/ Clear

Spec == Init /\ [][Next]_vars

(***************************************************************************)
(* Properties                                                              *)
(***************************************************************************)

\* A peer that waits for its shard, and a peer that has an entry, is known at the address
\* the maps give for it: a shard that arrives after the peer was removed, cleared or has
\* connected from another address never lists a peer at an address that forgot it, and
\* Remove always finds the entry of the address.
KnownAtAddress ==
    /\ \A p \in DOMAIN waiting : Contains(infos[waiting[p]], p)
    /\ \A p \in DOMAIN entries : Contains(infos[entries[p].addr], p)

\* The list of a shard has a place for every peer whose entry names the shard, whichever
\* of them Remove takes off the list.
ListsLongEnough ==
    \A s \in Shards :
        Cardinality({p \in DOMAIN entries : entries[p].shard = s}) <= Len(listed[s])

\* A peer on the list of a shard is one that has an entry: "Remove will remove the provided
\* peer ID from the inner members", the lists that Get returns among them.  The index that
\* PutShardID saved is out of date once a peer before it was removed, so Remove takes off
\* another peer and leaves its own on the list.
RemovedIsUnlisted ==
    \A s \in Shards, p \in Peers : Contains(listed[s], p) => p \in DOMAIN entries
============================================================================
