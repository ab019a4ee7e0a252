------------------------------ MODULE Messenger ------------------------------
(***************************************************************************)
(* The life of a node: p2p/libp2p/netMessenger.go makes the host, with a   *)
(* port from ports.go, and the components, and closes them;                *)
(* peersOnChannel is one of them.  A component is the goroutines it runs,  *)
(* which end when its context is done; some contexts are cancelled by the  *)
(* Close of a component, one by that of the messenger.                     *)
(*                                                                         *)
(* Which ports other processes hold changes at any time, so a port is free *)
(* or not whenever the node looks.  The names of the specification are     *)
(* NodeInit, NodeNext and NodeSpec, for modules that extend another too.   *)
(***************************************************************************)
EXTENDS PeersOnChannel

CONSTANTS
    NumPorts,               \* in the range of ports
    maxRetriesIfBindError

ASSUME MessengerAssumption ==
    NumPorts \in Nat \ {0} /\ maxRetriesIfBindError \in Nat \ {0}

VARIABLES
    range,     \* a range of ports is configured, not a single one
    pc,        \* where the construction is
    attempt,   \* of constructNodeWithPortRetry
    tried,     \* ports of the range that were not free
    host,      \* none, open or closed
    watchers,  \* watcher goroutines, the ones of failed attempts included
    live,      \* the components, but for peersOnChannel, whose goroutines run
    made,      \* components made so far
    closing    \* how far Close is; zero before it is called

others == <<cancelled, range, pc, attempt, tried, host, watchers, live, made, closing>>
nodeVars == <<pocVars, others>>

NodeInit ==
    /\ PocInit /\ cancelled = {}
    /\ range \in BOOLEAN
    /\ pc = "getPort" /\ attempt = 1 /\ tried = 0
    /\ host = "none" /\ watchers = 0 /\ live = {} /\ made = 0 /\ closing = 0
-----------------------------------------------------------------------------
(* getPort: a single port is not checked. *)
SinglePort ==
    /\ pc = "getPort" /\ ~range /\ pc' = "watcher"
    /\ UNCHANGED <<pocVars, cancelled, range, attempt, tried, host, watchers, live, made, closing>>

(* choosePort: checkFreePort listens on the next port of the shuffled      *)
(* range and lets it go again.                                             *)
ChoosePort ==
    /\ pc = "getPort" /\ range
    /\ \/ pc' = "watcher" /\ tried' = 0
       \/ tried + 1 < NumPorts /\ tried' = tried + 1 /\ UNCHANGED pc
       \/ tried + 1 = NumPorts /\ tried' = 0 /\ pc' = "failed"
    /\ UNCHANGED <<pocVars, cancelled, range, attempt, host, watchers, live, made, closing>>

NewConnectionsWatcher ==
    /\ pc = "watcher" /\ watchers' = watchers + 1 /\ pc' = "new"
    /\ UNCHANGED <<pocVars, cancelled, range, attempt, tried, host, live, made, closing>>

(* The port, the type of the watcher, the private key, the transports or   *)
(* the resource limits are wrong, which the first attempt finds out; or    *)
(* libp2p.New fails otherwise than by the port.  The signer, made after    *)
(* it, fails only for nil arguments, which were checked before.            *)
BadConfig ==
    /\ \/ pc \in {"getPort", "watcher"} /\ attempt = 1 /\ tried = 0
       \/ pc = "new"
    /\ pc' = "failed"
    /\ UNCHANGED <<pocVars, cancelled, range, attempt, tried, host, watchers, live, made, closing>>

(* libp2p.New listens on the port. *)
NewHost ==
    /\ pc = "new" /\ host' = "open" /\ pc' = "seeders" /\ live' = live \cup {"watcher"}
    /\ UNCHANGED <<pocVars, cancelled, range, attempt, tried, watchers, made, closing>>

(* Mutant: one attempt more. *)
OneMore ==
    IF attempt =< maxRetriesIfBindError
    THEN attempt' = attempt + 1 /\ pc' = "getPort"
    ELSE attempt' = attempt /\ pc' = "failed"
NextAttempt ==
    IF attempt < maxRetriesIfBindError
    THEN attempt' = attempt + 1 /\ pc' = "getPort"
    ELSE attempt' = attempt /\ pc' = "failed"

(* The port is not free, or no more; the watcher is left behind. *)
BindError ==
    /\ pc = "new" /\ NextAttempt
    /\ UNCHANGED <<pocVars, cancelled, range, tried, host, watchers, live, made, closing>>

(* validateSeeders; the node may be in its own list of seeders. *)
ValidateSeeders ==
    /\ pc = "seeders" /\ pc' \in {"components", "seederIsSelf"}
    /\ UNCHANGED <<pocVars, cancelled, range, attempt, tried, host, watchers, live, made, closing>>
-----------------------------------------------------------------------------
(* addComponentsToNode: what runs goroutines, in order.  With the context  *)
(* of the node end pubSub, discoverers and loggers.                        *)
Components ==
    <<"pubSub", "peersOnChannel", "discoverers", "connMonitor", "outgoingCLB",
      "messagesHandler", "connectionsHandler", "loggers">>

AddComponent ==
    /\ pc = "components" /\ made' = made + 1
    /\ IF Components[made'] = "peersOnChannel"
       THEN refresh' = Pausing /\ UNCHANGED live
       ELSE live' = live \cup {Components[made']} /\ UNCHANGED refresh
    /\ pc' = IF made' = Len(Components) THEN "running" ELSE pc
    /\ UNCHANGED <<members, cacheVars, call, cancelled, range, attempt, tried, host, watchers, closing>>

(* A component but the last cannot be made: newNetworkMessenger closes the *)
(* host only.                                                              *)
ComponentFails ==
    /\ pc = "components" /\ made + 1 < Len(Components)
    /\ pc' = "failed" /\ host' = "closed"
    /\ UNCHANGED <<pocVars, cancelled, range, attempt, tried, watchers, live, made, closing>>
-----------------------------------------------------------------------------
(* What Close of the messenger closes, in order.  A step cancels the       *)
(* contexts of all its components before any error of theirs is seen.      *)
Closings ==
    <<{"messagesHandler", "outgoingCLB", "debugger"},
      {"connectionsHandler", "peersOnChannel", "connMonitor"},
      {"host"}, {"watcher"}, {"pubSub", "discoverers", "loggers"}, {"peerstore"}>>
MayFail == {"debugger", "host", "peerstore"}

Close ==
    /\ pc = "running" /\ closing = 0 /\ closing' = 1
    /\ UNCHANGED <<pocVars, cancelled, range, pc, attempt, tried, host, watchers, live, made>>

(* Mutant: Close returns the first error. *)
StopIfFailed(failed) == IF failed THEN Len(Closings) + 1 ELSE closing + 1
AfterClosing(failed) == closing + 1

(* One step.  The context of the node is one of those it cancels. *)
CloseNext ==
    /\ closing \in DOMAIN Closings
    /\ cancelled' = cancelled \cup Closings[closing]
    /\ \E failed \in IF Closings[closing] \cap MayFail = {} THEN {FALSE} ELSE BOOLEAN :
          /\ closing' = AfterClosing(failed)
          /\ host' = IF "host" \in Closings[closing] /\ ~failed THEN "closed" ELSE host
    /\ UNCHANGED <<pocVars, range, pc, attempt, tried, watchers, live, made>>

(* Goroutines of these may stay for ever: one that forwards a message to a *)
(* consumer that has ended waits outside of any select, and broadcasts     *)
(* wait for that one.  Which of them do is in Broadcast.                   *)
Broadcasting == {"outgoingCLB", "messagesHandler"}

(* The goroutines a step of Close cancelled see that it did. *)
GoroutinesEnd(i) ==
    \E stay \in SUBSET (Closings[i] \cap Broadcasting) :
    LET ended == (Closings[i] \cap live) \ stay IN
    /\ ended # {} /\ ended \subseteq cancelled
    /\ live' = live \ ended
    /\ watchers' = IF "watcher" \in ended THEN watchers - 1 ELSE watchers
    /\ UNCHANGED <<pocVars, cancelled, range, pc, attempt, tried, host, made, closing>>
-----------------------------------------------------------------------------
BuildStep ==
    \/ SinglePort \/ ChoosePort \/ NewConnectionsWatcher \/ BadConfig \/ NewHost
    \/ BindError \/ ValidateSeeders \/ AddComponent \/ ComponentFails

(* A step of peersOnChannel. *)
Poc(A) == A /\ UNCHANGED others

NodeNext ==
    \/ BuildStep \/ Close \/ CloseNext
    \/ \E i \in DOMAIN Closings : GoroutinesEnd(i)
    \/ Poc(PocNext)

NodeSpec == NodeInit /\ [][NodeNext]_nodeVars

(* The constructor and a call of Close go on, goroutines that can go on    *)
(* do, and time passes.  Nothing says that those that broadcast go on.     *)
FairNodeSpec ==
    /\ NodeSpec
    /\ WF_nodeVars(BuildStep) /\ WF_nodeVars(CloseNext)
    /\ \A i \in DOMAIN Closings :
          Closings[i] \cap Broadcasting = {} => WF_nodeVars(GoroutinesEnd(i))
    /\ WF_nodeVars(Poc(RefreshStep))
    /\ \A c \in Callers : WF_nodeVars(Poc(CallUpdates(c)))
    /\ \A t \in Topics : WF_nodeVars(Poc(TtlPasses(t)))
-----------------------------------------------------------------------------
(* However often other processes take the port between the check and the   *)
(* bind, the watchers the failed attempts leave behind are no more than    *)
(* the attempts (netMessenger.go:163, 296, ports.go:79).                   *)
LeakBounded == watchers =< maxRetriesIfBindError

(* Once Close has gone through, whatever failed on the way, no goroutine   *)
(* of the node is left but those that broadcast and the watchers of the    *)
(* attempts that failed to bind (netMessenger.go:505, 163,                 *)
(* outgoingChannelLoadBalancer.go:70).                                     *)
CloseEndsOthers ==
    closing > Len(Closings) ~>
        live \subseteq Broadcasting /\ refresh.pc = "ended" /\ watchers = attempt - 1
=============================================================================
