----------------------------- MODULE Connections -----------------------------
(***************************************************************************)
(* The peers a node stays connected with:                                  *)
(* p2p/libp2p/connectionMonitor/libp2pConnectionMonitorSimple.go,          *)
(* discovery/hostWithConnectionManagement.go and what connectionsHandler.go *)
(* passes on to them, on top of the sharder of ListsSharder.               *)
(*                                                                         *)
(* libp2p calls Connected once for each new connection, from the goroutine *)
(* of that connection: callbacks run concurrently, each with the peers it  *)
(* saw when it asked.  A peer has one connection at a time.                *)
(***************************************************************************)
EXTENDS ListsSharder

CONSTANTS
    Sharders,       \* which sharders the factory may have made
    PreferredPeers, \* the peers that may connect from a preferred address
    Deniable,       \* the peers the denial evaluator may come to deny
    Resolvers,      \* what peer shard resolvers may come to know of the peers
    MaxCallbacks    \* bound: callbacks and dials under way

ASSUME ConnectionsAssumption ==
    /\ Sharders \subseteq {"lists", "one"} /\ PreferredPeers \subseteq Peers
    /\ Deniable \subseteq Peers
    /\ Resolvers \subseteq [Peers -> ChainKinds]
    /\ MaxCallbacks \in Nat \ {0}

VARIABLES
    sharder,
    connected,   \* network.Peers()
    callback,    \* the Connected callback of each peer's connection
    dial,        \* hostWithConnectionManagement.Connect of each peer
    kind,        \* what the peer shard resolver answers
    waiting,     \* preferredPeersHolder: peers that wait for their shard
    preferred,   \* preferredPeersHolder.Contains
    denied,      \* peerDenialEvaluator.IsDenied
    settled      \* history: a list of all peers was made with what is known now

holderVars == <<waiting, preferred>>
vars == <<sharder, connected, callback, dial, kind, holderVars,
          denied, settled>>

(* late is history: another connection came up since this callback asked. *)
Done == [pc |-> "done", peers |-> {}, late |-> FALSE, list |-> {}]

Init ==
    /\ sharder \in Sharders
    /\ connected = {} /\ callback = [p \in Peers |-> Done] /\ dial = {}
    /\ kind = [p \in Peers |-> "unknown"]
    /\ waiting = {} /\ preferred = {} /\ denied = {} /\ settled = TRUE
-----------------------------------------------------------------------------
UnderWay == {p \in Peers : callback[p].pc # "done"} \cup dial

(* A connection comes up, and its callback is called. *)
Opened(p) ==
    /\ p \notin connected /\ callback[p].pc = "done"
    /\ connected' = connected \cup {p}
    /\ callback' = [q \in Peers |->
         IF q = p THEN [Done EXCEPT !.pc = "denied?"]
         ELSE [callback[q] EXCEPT !.late = callback[q].pc \in {"put", "compute"}]]

Arrive(p) ==
    /\ p \notin dial /\ Cardinality(UnderWay) < MaxCallbacks
    /\ Opened(p)
    /\ UNCHANGED <<sharder, dial, kind, holderVars, denied, settled>>

(* Connect: canConnectToPeer asks the sharder as if the peer were connected. *)
Connect(p) ==
    /\ p \notin dial /\ Cardinality(UnderWay) < MaxCallbacks
    /\ \E e \in EvictionLists(sharder, connected \cup {p}, kind, preferred) :
         p \notin e
    /\ dial' = dial \cup {p}
    /\ UNCHANGED <<sharder, connected, callback, kind, holderVars, denied,
                   settled>>

(* ConnectToPeer of the host, of the application and of the continuous     *)
(* discoverer, asks nobody.                                                *)
ConnectToPeer(p) ==
    /\ p \notin dial /\ Cardinality(UnderWay) < MaxCallbacks
    /\ dial' = dial \cup {p}
    /\ UNCHANGED <<sharder, connected, callback, kind, holderVars, denied,
                   settled>>

DialSucceeds(p) ==
    /\ p \in dial /\ Opened(p)
    /\ dial' = dial \ {p}
    /\ UNCHANGED <<sharder, kind, holderVars, denied, settled>>

DialFails(p) ==
    /\ p \in dial /\ dial' = dial \ {p}
    /\ UNCHANGED <<sharder, connected, callback, kind, holderVars, denied,
                   settled>>
-----------------------------------------------------------------------------
(* Connected.                                                              *)
CloseDenied(p) ==
    /\ callback[p].pc = "denied?" /\ p \in denied
    /\ connected' = connected \ {p}
    /\ callback' = [callback EXCEPT ![p] = Done]
    /\ UNCHANGED <<sharder, dial, kind, holderVars, denied, settled>>

(* Mutant: the new peer is not among the peers yet. *)
PeersBefore(p) == connected \ {p}

PeersSeen(p) == connected

(* IsDenied and netw.Peers() *)
AskPeers(p) ==
    /\ callback[p].pc = "denied?" /\ p \notin denied
    /\ callback' = [callback EXCEPT ![p].pc = "put", ![p].peers = PeersSeen(p)]
    /\ UNCHANGED <<sharder, connected, dial, kind, holderVars, denied,
                   settled>>

(* NewKnownConnection and PutConnectionAddress: a peer that comes from a   *)
(* preferred address at which it is not known yet waits for its shard.     *)
PutConnectionAddress(p) ==
    /\ callback[p].pc = "put"
    /\ \E new \in SUBSET ({p} \cap PreferredPeers) : waiting' = waiting \cup new
    /\ callback' = [callback EXCEPT ![p].pc = "compute"]
    /\ UNCHANGED <<sharder, connected, dial, kind, preferred, denied,
                   settled>>

After(list) ==
    IF list = {} THEN Done
    ELSE [Done EXCEPT !.pc = "evict", !.list = list]

Compute(p) ==
    /\ callback[p].pc = "compute"
    /\ \E e \in EvictionLists(sharder, callback[p].peers, kind, preferred) :
         callback' = [callback EXCEPT ![p] = After(e)]
    /\ settled' = (settled \/ ~callback[p].late)
    /\ UNCHANGED <<sharder, connected, dial, kind, holderVars, denied>>

(* ClosePeer, one peer of the list after the other *)
ClosePeer(p, q) ==
    /\ callback[p].pc = "evict" /\ q \in callback[p].list
    /\ connected' = connected \ {q}
    /\ callback' = [callback EXCEPT ![p] = After(@.list \ {q})]
    /\ UNCHANGED <<sharder, dial, kind, holderVars, denied, settled>>

(* A connection is lost; Disconnected asks the holder to remove the id of  *)
(* the connection, which is no peer's, so that nothing is removed.         *)
Disconnected(p) ==
    /\ p \in connected /\ connected' = connected \ {p}
    /\ UNCHANGED <<sharder, callback, dial, kind, holderVars, denied,
                   settled>>
-----------------------------------------------------------------------------
(* The resolver a node starts with knows no peer.  It is replaced, or it   *)
(* comes to know other things of the peers.                                *)
SetPeerShardResolver(k) ==
    /\ kind # k /\ kind' = k /\ settled' = FALSE
    /\ UNCHANGED <<sharder, connected, callback, dial, holderVars, denied>>

(* The application uses the holder of preferred peers, which PeersHolder   *)
(* has in full, at any time: here is what becomes of Contains.             *)
PutShardID(p) ==
    /\ p \in waiting /\ waiting' = waiting \ {p} /\ preferred' = preferred \cup {p}
    /\ UNCHANGED <<sharder, connected, callback, dial, kind, denied,
                   settled>>

Remove(p) ==
    /\ p \in preferred /\ preferred' = preferred \ {p} /\ waiting' = waiting \ {p}
    /\ settled' = FALSE
    /\ UNCHANGED <<sharder, connected, callback, dial, kind, denied>>

Clear ==
    /\ preferred' = {} /\ waiting' = {} /\ settled' = FALSE
    /\ UNCHANGED <<sharder, connected, callback, dial, kind, denied>>

Deny(p) ==
    /\ p \notin denied /\ denied' = denied \cup {p}
    /\ UNCHANGED <<sharder, connected, callback, dial, kind, holderVars,
                   settled>>

Allow(p) ==
    /\ p \in denied /\ denied' = denied \ {p}
    /\ UNCHANGED <<sharder, connected, callback, dial, kind, holderVars,
                   settled>>

(* checkConnectionsBlocking comes to a denied peer; when the loop of the   *)
(* monitor does so is in Discovery.                                        *)
Sweep(p) ==
    /\ p \in denied /\ p \in connected /\ connected' = connected \ {p}
    /\ UNCHANGED <<sharder, callback, dial, kind, holderVars, denied, settled>>
-----------------------------------------------------------------------------
HolderStep ==
    \/ \E p \in PreferredPeers : PutShardID(p) \/ Remove(p)
    \/ Clear

CallbackStep(p) ==
    \/ CloseDenied(p) \/ AskPeers(p) \/ PutConnectionAddress(p) \/ Compute(p)
    \/ \E q \in Peers : ClosePeer(p, q)

Next ==
    \/ \E p \in Peers : Arrive(p) \/ Connect(p) \/ ConnectToPeer(p)
    \/ \E p \in Peers : DialSucceeds(p) \/ DialFails(p)
    \/ \E p \in Peers : CallbackStep(p)
    \/ \E p \in Peers : Disconnected(p)
    \/ \E p \in Deniable : Deny(p) \/ Allow(p) \/ Sweep(p)
    \/ \E k \in Resolvers : SetPeerShardResolver(k)
    \/ HolderStep

Spec == Init /\ [][Next]_vars
-----------------------------------------------------------------------------
TypeOK ==
    /\ connected \subseteq Peers
    /\ waiting \subseteq PreferredPeers /\ preferred \subseteq PreferredPeers
    /\ \A p \in Peers : callback[p].pc \in {"done", "denied?", "put", "compute", "evict"}
    /\ \A p \in Peers : callback[p].list # {} <=> callback[p].pc = "evict"

(* When every callback has ended and nothing new was learned of the peers  *)
(* since a list of all of them was made, no further peer is to be evicted: *)
(* however the callbacks and their stale lists are interleaved, the last   *)
(* one to ask for the peers leaves the node within its limits              *)
(* (libp2pConnectionMonitorSimple.go:134-144).                             *)
WithinLimits ==
    settled /\ (\A p \in Peers : callback[p].pc = "done") =>
        {} \in EvictionLists(sharder, connected, kind, preferred)

(* The list that a callback computes is the one of the reference: no kind  *)
(* gives up a peer for which the maxima leave room, the farthest go first, *)
(* and a preferred peer goes only as a seeder (listsSharder.go:185-219);   *)
(* one list keeps the closest peers of all (oneListSharder.go:40).         *)
ComputesTheReference ==
    [][\A p \in Peers :
        callback[p].pc = "compute" /\ callback'[p].pc # "compute" =>
            LET list == callback'[p].list
                peers == callback[p].peers
            IN IF sharder = "lists" THEN KeepsTheReference(list, peers, kind, preferred)
               ELSE KeepsTheClosest(list, peers)]_vars
=============================================================================
