------------------------------ MODULE Discovery ------------------------------
(***************************************************************************)
(* How a node finds the network and finds it again: the loop of the        *)
(* connection monitor                                                      *)
(* (connectionMonitor/libp2pConnectionMonitorSimple.go) and the two kinds  *)
(* of discoverer it asks to reconnect, discovery/optimizedKadDht- and      *)
(* continuousKadDhtDiscoverer.go, under p2p/libp2p.                        *)
(*                                                                         *)
(* Requests to reconnect are sends on unbuffered channels with a default:  *)
(* they are dropped unless the loop at the other end is in its select.     *)
(* Timers fire at any time: how long the intervals are is not modelled.    *)
(***************************************************************************)
EXTENDS Naturals, Sequences, FiniteSets

CONSTANTS
    Types,       \* the discoverers the factory may make: optimized, continuous
    SeederList,  \* InitialPeersList, a sequence that may be empty
    Callers,     \* goroutines that call Bootstrap
    None

Seeders == {SeederList[i] : i \in DOMAIN SeederList}
(* Who waits for a goroutine tryConnectToSeeder. *)
Owners == {"start", "bootstrap", "monitor"}

ASSUME DiscoveryAssumption ==
    /\ Types \subseteq {"optimized", "continuous"}
    /\ None \notin Seeders

VARIABLES
    type,
    steady,       \* a seeder that always answers and that the sharder never
                  \* refuses, or None; others come and go
    linked,       \* a seeder is connected
    closed,       \* the context of the discoverer is done
    monitorClosed,\* the context of the monitor is done
    peer,         \* a peer: away, connected, or connected and denied
    seen,         \* it is among the peers that the sweep looks at
    monitor,      \* where processLoop of the monitor is
    canReconnect,
    call,         \* Bootstrap of every caller
    dhts,         \* kad dht instances made
    loop,         \* processLoop of the optimized discoverer
    boot,         \* the bootstrap goroutine of the continuous one
    try           \* its goroutines tryConnectToSeeder

netVars == <<steady, linked>>
peerVars == <<peer, seen>>
closeVars == <<closed, monitorClosed>>
monitorVars == <<monitor, canReconnect>>
vars == <<type, netVars, peerVars, closeVars, monitorVars, call, dhts, loop,
          boot, try>>

NoTry == [pc |-> "none", at |-> 1]
Waiting == [pc |-> "select", at |-> 1]

Init ==
    /\ type \in Types
    /\ steady \in Seeders \cup {None} /\ linked = FALSE
    /\ closed = FALSE /\ monitorClosed = FALSE
    /\ peer = "away" /\ seen = FALSE
    /\ monitor = "select" /\ canReconnect = TRUE
    /\ call = [c \in Callers |-> "none"] /\ dhts = 0
    /\ loop = Waiting /\ boot = "none" /\ try = [o \in Owners |-> NoTry]
-----------------------------------------------------------------------------
(* The network, and Disconnected.                                          *)
(* doReconnectionIfNeeded; whether the peers that are left make up         *)
(* thresholdMinConnectedPeers is left open.  A request that comes too      *)
(* early is received and forgotten.                                        *)
Request ==
    \/ UNCHANGED monitor
    \/ monitor = "select" /\ canReconnect /\ monitor' = "requested"

(* The last seeder is lost. *)
Disconnected ==
    /\ linked /\ linked' = FALSE /\ Request
    /\ UNCHANGED <<type, steady, peerVars, closeVars, canReconnect, call, dhts,
                   loop, boot, try>>

(* Another peer is lost, or SetThresholdMinConnectedPeers is called. *)
OtherDisconnected ==
    /\ Request
    /\ UNCHANGED <<type, netVars, peerVars, closeVars, canReconnect, call,
                   dhts, loop, boot, try>>

(* The peer connects or is lost, the evaluator denies or allows it.  A     *)
(* denied peer is connected when its callback was past the check.  It is   *)
(* not followed after Close.                                               *)
PeerChanges ==
    /\ ~monitorClosed /\ peer' \in {"away", "connected", "denied"} \ {peer}
    /\ UNCHANGED <<type, netVars, seen, closeVars, monitorVars, call, dhts, loop,
                   boot, try>>

(* netMessenger.Close closes the monitor before it cancels the context. *)
Close ==
    /\ \/ ~monitorClosed /\ monitorClosed' = TRUE /\ UNCHANGED closed
       \/ monitorClosed /\ ~closed /\ closed' = TRUE /\ UNCHANGED monitorClosed
    /\ UNCHANGED <<type, netVars, peerVars, monitorVars, call, dhts, loop,
                   boot, try>>
-----------------------------------------------------------------------------
(* The loop of the monitor.                                                *)
(* checkConnectionsBlocking asks for the peers, and for each of them       *)
(* whether it is denied now.                                               *)
StartSweep ==
    /\ monitor = "select" /\ monitor' = "sweep" /\ seen' = (peer # "away")
    /\ UNCHANGED <<type, netVars, peer, closeVars, canReconnect, call, dhts, loop,
                   boot, try>>

(* What becomes of it when the sweep comes to it. *)
Swept == IF seen /\ peer = "denied" THEN "away" ELSE peer

EndSweep ==
    /\ monitor = "sweep" /\ monitor' = "select"
    /\ peer' = Swept /\ seen' = FALSE
    /\ UNCHANGED <<type, netVars, closeVars, canReconnect, call, dhts, loop, boot,
                   try>>

(* ReconnectToNetwork of the optimized discoverer never waits: a send to   *)
(* its loop that is dropped when the loop is busy.                         *)
AskLoop ==
    /\ monitor = "requested" /\ type = "optimized"
    /\ loop' = IF loop.pc = "select" THEN [loop EXCEPT !.pc = "seeders"] ELSE loop
    /\ monitor' = "select" /\ canReconnect' = FALSE
    /\ UNCHANGED <<type, netVars, peerVars, closeVars, call, dhts, boot, try>>

(* connectToOnePeerFromInitialPeersList: without seeders it is done at once. *)
StartTry(o) ==
    try' = [try EXCEPT ![o] =
              [NoTry EXCEPT !.pc = IF SeederList = <<>> THEN "done" ELSE "connect"]]

(* That of the continuous one starts a goroutine and waits for it.  When    *)
(* the monitor was closed during the wait the goroutine goes on alone; if  *)
(* the loop starts another one before it ends, only that one is followed.  *)
StartReconnect ==
    /\ monitor = "requested" /\ type = "continuous"
    /\ StartTry("monitor")
    /\ monitor' = "reconnect"
    /\ UNCHANGED <<type, netVars, peerVars, closeVars, canReconnect, call,
                   dhts, loop, boot>>

(* Mutant: only the seeder ends the wait. *)
WaitOver(o, done) == try[o].pc = "done"
(* The seeder is connected, or the context is done. *)
ReconnectEnds(o, done) == try[o].pc = "done" \/ done

EndReconnect ==
    /\ monitor = "reconnect" /\ ReconnectEnds("monitor", monitorClosed)
    /\ monitor' = "select" /\ canReconnect' = FALSE
    /\ UNCHANGED <<type, netVars, peerVars, closeVars, call, dhts, loop, boot,
                   try>>

MayReconnect ==
    /\ monitor = "select" /\ ~canReconnect /\ canReconnect' = TRUE
    /\ UNCHANGED <<type, netVars, peerVars, closeVars, monitor, call, dhts,
                   loop, boot, try>>

MonitorEnds ==
    /\ monitor = "select" /\ monitorClosed /\ monitor' = "ended"
    /\ UNCHANGED <<type, netVars, peerVars, closeVars, canReconnect, call,
                   dhts, loop, boot, try>>
-----------------------------------------------------------------------------
(* Bootstrap.                                                              *)
Bootstrap(c) ==
    /\ call[c] = "none" /\ call' = [call EXCEPT ![c] = "send"]
    /\ UNCHANGED <<type, netVars, peerVars, closeVars, monitorVars, dhts, loop,
                   boot, try>>

(* The optimized discoverer: chanInit is received by the loop, *)
ReceiveInit(c) ==
    /\ type = "optimized" /\ call[c] = "send" /\ loop.pc = "select"
    /\ call' = [call EXCEPT ![c] = "wait"]
    /\ loop' = [loop EXCEPT !.pc = "init"]
    /\ UNCHANGED <<type, netVars, peerVars, closeVars, monitorVars, dhts, boot,
                   try>>

(* Mutant: an error is not sent on errChanInit. *)
AnsweredIfMade(made) == IF made THEN [c \in Callers |->
    IF call[c] = "wait" THEN "done" ELSE call[c]] ELSE call

Answered(made) == [c \in Callers |-> IF call[c] = "wait" THEN "done" ELSE call[c]]

NotStarted == dhts = 0

(* and processInit answers on errChanInit; making the dht may fail. *)
ProcessInit ==
    /\ loop.pc = "init"
    /\ \/ /\ NotStarted /\ dhts' = dhts + 1
          /\ call' = Answered(TRUE) /\ loop' = [loop EXCEPT !.pc = "seeders"]
       \/ /\ UNCHANGED dhts
          /\ call' = Answered(FALSE) /\ loop' = Waiting
    /\ UNCHANGED <<type, netVars, peerVars, closeVars, monitorVars, boot, try>>

(* The continuous one, under mutKadDht *)
StartDHT(c) ==
    /\ type = "continuous" /\ call[c] = "send"
    /\ call' = [call EXCEPT ![c] = "done"]
    /\ \/ /\ NotStarted /\ dhts' = dhts + 1
          /\ StartTry("start") /\ boot' = "start"
       \/ UNCHANGED <<dhts, boot, try>>
    /\ UNCHANGED <<type, netVars, peerVars, closeVars, monitorVars, loop>>
-----------------------------------------------------------------------------
(* The loop of the optimized discoverer.                                   *)
SeedersTimer ==
    /\ type = "optimized" /\ loop.pc = "select"
    /\ loop' = [loop EXCEPT !.pc = "seeders"]
    /\ UNCHANGED <<type, netVars, peerVars, closeVars, monitorVars, call, dhts,
                   boot, try>>

(* connectToSeeder; that the sharder refuses a seeder (ErrUnwantedPeer) is *)
(* one of its failures, which a steady one does not meet.                  *)
MayAnswer(s) == ~closed
MayFail(s) == closed \/ s # steady

(* Mutant: the list is left at the first seeder that fails. *)
NextIfConnected(i, ok) ==
    IF i < Len(SeederList) /\ ok THEN [loop EXCEPT !.at = i + 1] ELSE Waiting

(* All seeders are tried, until the context is done. *)
NextSeeder(i, ok) ==
    IF i < Len(SeederList) /\ ~closed THEN [loop EXCEPT !.at = i + 1] ELSE Waiting

(* One turn of tryToReconnectAtLeastToASeeder; findPeers, which comes      *)
(* after it and when its timer fires, changes no state here.               *)
TrySeeder ==
    /\ loop.pc = "seeders" /\ dhts > 0 /\ SeederList # <<>>
    /\ \/ /\ MayAnswer(SeederList[loop.at]) /\ linked' = TRUE
          /\ loop' = NextSeeder(loop.at, TRUE)
       \/ /\ MayFail(SeederList[loop.at]) /\ UNCHANGED linked
          /\ loop' = NextSeeder(loop.at, FALSE)
    /\ UNCHANGED <<type, steady, peerVars, closeVars, monitorVars, call, dhts,
                   boot, try>>

(* It returns at once when there is no dht, and when there are no seeders. *)
NothingToTry ==
    /\ loop.pc = "seeders" /\ (dhts = 0 \/ SeederList = <<>>)
    /\ loop' = Waiting
    /\ UNCHANGED <<type, netVars, peerVars, closeVars, monitorVars, call, dhts,
                   boot, try>>

(* finishMainLoopProcessing answers a caller that waits for errChanInit. *)
LoopEnds ==
    /\ type = "optimized" /\ loop.pc = "select" /\ closed
    /\ loop' = [loop EXCEPT !.pc = "ended"]
    /\ call' = Answered(FALSE)
    /\ UNCHANGED <<type, netVars, peerVars, closeVars, monitorVars, dhts, boot,
                   try>>
-----------------------------------------------------------------------------
(* The goroutines of the continuous discoverer.                            *)
(* Mutant: no other seeder is tried. *)
SameSeeder(i) == i
(* startIndex, counted from one *)
OtherSeeder(i) == (i % Len(SeederList)) + 1

TryConnect(o) ==
    /\ try[o].pc = "connect"
    /\ \/ /\ MayAnswer(SeederList[try[o].at]) /\ linked' = TRUE
          /\ try' = [try EXCEPT ![o] = [NoTry EXCEPT !.pc = "done"]]
       \/ /\ MayFail(SeederList[try[o].at]) /\ UNCHANGED linked
          /\ try' = [try EXCEPT ![o] = [pc |-> "pause", at |-> OtherSeeder(@.at)]]
    /\ UNCHANGED <<type, steady, peerVars, closeVars, monitorVars, call, dhts,
                   loop, boot>>

(* The pause starts anew each time: a context that is done ends it first. *)
TryAgain(o) ==
    /\ try[o].pc = "pause" /\ ~closed /\ try' = [try EXCEPT ![o].pc = "connect"]
    /\ UNCHANGED <<type, netVars, peerVars, closeVars, monitorVars, call, dhts,
                   loop, boot>>

TryEnds(o) ==
    /\ try[o].pc = "pause" /\ closed /\ try' = [try EXCEPT ![o] = [NoTry EXCEPT !.pc = "ended"]]
    /\ UNCHANGED <<type, netVars, peerVars, closeVars, monitorVars, call, dhts,
                   loop, boot>>

BootMoves(from, to) ==
    /\ boot = from /\ boot' = to
    /\ UNCHANGED <<type, netVars, peerVars, closeVars, monitorVars, call, dhts,
                   loop>>

(* connectToInitialAndBootstrap, then bootstrap *)
BootStarts ==
    /\ try["start"].pc = "done" /\ BootMoves("start", "bootstrap") /\ UNCHANGED try
FindsPeers == BootMoves("bootstrap", "pause") /\ UNCHANGED try
LookupFails == BootMoves("bootstrap", "reconnect") /\ StartTry("bootstrap")
BootReconnected ==
    /\ ReconnectEnds("bootstrap", closed)
    /\ BootMoves("reconnect", "pause") /\ UNCHANGED try
BootAgain == ~closed /\ BootMoves("pause", "bootstrap") /\ UNCHANGED try
BootEnds ==
    /\ closed /\ UNCHANGED try
    /\ BootMoves("start", "ended") \/ BootMoves("pause", "ended")
-----------------------------------------------------------------------------
TryStep(o) == TryConnect(o) \/ TryAgain(o) \/ TryEnds(o)
MonitorStep == EndSweep \/ AskLoop \/ StartReconnect \/ EndReconnect
LoopStep == SeedersTimer \/ ProcessInit \/ TrySeeder \/ NothingToTry
BootStep == BootStarts \/ FindsPeers \/ LookupFails \/ BootReconnected \/ BootAgain \/ BootEnds

Next ==
    \/ Disconnected \/ OtherDisconnected \/ PeerChanges \/ Close
    \/ StartSweep \/ MayReconnect \/ MonitorEnds \/ MonitorStep
    \/ \E c \in Callers : Bootstrap(c) \/ ReceiveInit(c) \/ StartDHT(c)
    \/ LoopEnds \/ LoopStep
    \/ \E o \in Owners : TryStep(o)
    \/ BootStep

Spec == Init /\ [][Next]_vars

(* A goroutine that can go on does, and a timer fires.  A select takes one *)
(* of its ready cases at random, so a case that is ready again and again   *)
(* is taken: strong fairness of the sweep, of chanInit and of the contexts *)
(* in the two loops.                                                       *)
Fairness ==
    /\ WF_vars(MonitorStep) /\ SF_vars(StartSweep) /\ SF_vars(MonitorEnds)
    /\ WF_vars(LoopStep) /\ SF_vars(LoopEnds)
    /\ SF_vars(\E c \in Callers : ReceiveInit(c))
    /\ WF_vars(\E c \in Callers : StartDHT(c))
    /\ WF_vars(BootStep) /\ \A o \in Owners : WF_vars(TryStep(o))

FairSpec == Spec /\ Fairness
-----------------------------------------------------------------------------
(* With the optimized discoverer a started node that lost all its seeders  *)
(* comes back to one that stays reachable, even when the request of the    *)
(* monitor is dropped (optimizedKadDhtDiscoverer.go:102, 193, 252).        *)
SeederFound ==
    type = "optimized" /\ steady # None /\ dhts > 0 /\ ~linked ~> linked \/ closed

(* A peer that is denied while it is connected does not stay so, also when *)
(* its callback was past the check: the sweep goes on.  The optimized      *)
(* discoverer never stops the monitor, the continuous one only as long as  *)
(* no seeder answers (libp2pConnectionMonitorSimple.go:175, 185, 249).     *)
DeniedLeaves ==
    type = "optimized" \/ steady # None =>
        (peer = "denied" ~> peer # "denied" \/ monitorClosed)

(* A call of Bootstrap returns while the node is not closed                *)
(* (optimizedKadDhtDiscoverer.go:88, 121).                                 *)
BootstrapReturns ==
    \A c \in Callers : call[c] = "send" ~> call[c] = "done" \/ closed

(* After Close no goroutine of the monitor or of the discoverer is left,   *)
(* wherever it was (libp2pConnectionMonitorSimple.go:190,                  *)
(* optimizedKadDhtDiscoverer.go:112, continuousKadDhtDiscoverer.go:256).   *)
GoroutinesEnd ==
    closed ~> /\ monitor = "ended"
              /\ type = "optimized" => loop.pc = "ended"
              /\ boot \in {"none", "ended"}
              /\ \A o \in Owners : try[o].pc \in {"none", "done", "ended"}
=============================================================================
