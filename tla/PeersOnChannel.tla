--------------------------- MODULE PeersOnChannel ---------------------------
(***************************************************************************)
(* p2p/libp2p/peersOnChannel.go: the cached lists of the peers on each     *)
(* topic.  A list is fetched from the pubsub without a lock and stored     *)
(* later under one, so two fetches may store in either order.              *)
(***************************************************************************)
EXTENDS Naturals, Sequences

CONSTANTS
    Topics,
    TopicPeers,  \* the peers that may be on a topic
    Callers,     \* goroutines that call ConnectedPeersOnChannel
    Unknown      \* no list

VARIABLES
    members,     \* the peers on each topic, as the pubsub knows them
    peers,       \* the cached lists
    lastUpdated, \* never, fresh, or old: more than ttlInterval ago
    call,        \* ConnectedPeersOnChannel of each caller
    refresh,     \* the goroutine refreshPeersOnAllKnownTopics
    cancelled    \* the contexts that are done

cacheVars == <<peers, lastUpdated>>
pocVars == <<members, cacheVars, call, refresh>>

Idle == [pc |-> "idle", topic |-> Unknown, list |-> {}]
NotStarted == [pc |-> "none", todo |-> {}, topic |-> Unknown, list |-> {}]
Pausing == [NotStarted EXCEPT !.pc = "pause"]

PocInit ==
    /\ members = [t \in Topics |-> {}]
    /\ peers = [t \in Topics |-> Unknown]
    /\ lastUpdated = [t \in Topics |-> "never"]
    /\ call = [c \in Callers |-> Idle]
    /\ refresh = NotStarted
-----------------------------------------------------------------------------
(* A peer joins or leaves a topic. *)
Membership ==
    /\ refresh.pc # "none"
    /\ \E t \in Topics, p \in TopicPeers :
          members' = [members EXCEPT ![t] = IF p \in @ THEN @ \ {p} ELSE @ \cup {p}]
    /\ UNCHANGED <<cacheVars, call, refresh>>

(* ListPeers of the pubsub, which stops with the context of the node. *)
ListPeers(t) == IF "pubSub" \in cancelled THEN {} ELSE members[t]

(* ttlInterval passes. *)
TtlPasses(t) ==
    /\ lastUpdated[t] = "fresh" /\ lastUpdated' = [lastUpdated EXCEPT ![t] = "old"]
    /\ UNCHANGED <<members, peers, call, refresh>>

(* Mutant: the time of an update is not stored. *)
Unstamped(t, list) ==
    peers' = [peers EXCEPT ![t] = list] /\ UNCHANGED lastUpdated

updateConnectedPeersOnTopic(t, list) ==
    /\ peers' = [peers EXCEPT ![t] = list]
    /\ lastUpdated' = [lastUpdated EXCEPT ![t] = "fresh"]
-----------------------------------------------------------------------------
(* ConnectedPeersOnChannel answers with the list that is cached, an empty  *)
(* one too, which changes nothing; where there is none it is fetched       *)
CallFetches(c, t) ==
    /\ refresh.pc # "none" /\ call[c].pc = "idle" /\ peers[t] = Unknown
    /\ call' = [call EXCEPT ![c] = [pc |-> "update", topic |-> t, list |-> ListPeers(t)]]
    /\ UNCHANGED <<members, cacheVars, refresh>>

(* and stored. *)
CallUpdates(c) ==
    /\ call[c].pc = "update"
    /\ updateConnectedPeersOnTopic(call[c].topic, call[c].list)
    /\ call' = [call EXCEPT ![c] = Idle]
    /\ UNCHANGED <<members, refresh>>
-----------------------------------------------------------------------------
(* refreshPeersOnAllKnownTopics *)
BuildTopicList ==
    /\ refresh.pc = "pause" /\ "peersOnChannel" \notin cancelled
    /\ refresh' = [refresh EXCEPT !.pc = "fetch",
                     !.todo = {t \in Topics : lastUpdated[t] = "old"}]
    /\ UNCHANGED <<members, cacheVars, call>>

RefreshFetches ==
    /\ refresh.pc = "fetch"
    /\ \E t \in refresh.todo :
          refresh' = [pc |-> "update", todo |-> refresh.todo \ {t},
                      topic |-> t, list |-> ListPeers(t)]
    /\ UNCHANGED <<members, cacheVars, call>>

RefreshUpdates ==
    /\ refresh.pc = "update"
    /\ updateConnectedPeersOnTopic(refresh.topic, refresh.list)
    /\ refresh' = [NotStarted EXCEPT !.pc = "fetch", !.todo = refresh.todo]
    /\ UNCHANGED <<members, call>>

RefreshPauses ==
    /\ refresh.pc = "fetch" /\ refresh.todo = {} /\ refresh' = Pausing
    /\ UNCHANGED <<members, cacheVars, call>>

RefreshEnds ==
    /\ refresh.pc = "pause" /\ "peersOnChannel" \in cancelled
    /\ refresh' = [NotStarted EXCEPT !.pc = "ended"]
    /\ UNCHANGED <<members, cacheVars, call>>
-----------------------------------------------------------------------------
RefreshStep ==
    BuildTopicList \/ RefreshFetches \/ RefreshUpdates \/ RefreshPauses \/ RefreshEnds

PocNext ==
    \/ Membership \/ RefreshStep
    \/ \E t \in Topics : TtlPasses(t)
    \/ \E c \in Callers : CallUpdates(c) \/ \E t \in Topics : CallFetches(c, t)

(* Two goroutines may store the lists they fetched in the wrong order, so  *)
(* a list may be older than its time.  All the same, once the peers of a   *)
(* topic stay the same its list is theirs (peersOnChannel.go:84, 104).     *)
ListHeals ==
    \A t \in Topics, S \in SUBSET TopicPeers :
        <>[](members[t] = S /\ peers[t] # Unknown /\ cancelled = {}) => <>[](peers[t] = S)
=============================================================================
