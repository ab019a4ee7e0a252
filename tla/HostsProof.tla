----------------------------- MODULE HostsProof -----------------------------
(***************************************************************************)
(* The hosts of the two halves of the library.                             *)
(*                                                                         *)
(* The WebSocket host (WsHost), for every number of connections, breaks    *)
(* and closings: the client never has a connection open that it lost, and  *)
(* the server's holder has the connections whose goroutines listen, no     *)
(* more and no fewer.                                                      *)
(*                                                                         *)
(* The node (Messenger), for every number of ports and attempts: what      *)
(* failed attempts leave behind is bounded by their number, and Close      *)
(* cancels the goroutines of all components, whatever fails on the way.    *)
(***************************************************************************)
EXTENDS WsHost, Messenger, TLAPS

\* The goroutine of the connection is between adding it to the holder and removing it.
Listens(n) == serving[n] \in {"listen", "stuck", "ended"}

\* transceiversAndConn has exactly the connections whose goroutines are in Listen.
HolderIsExact == holder = {n \in Conns : Listens(n)}

\* A connection is marked at the server only while its goroutine lives, and open there only
\* then or when nobody serves it, so that a connection that is dialled starts unmarked.
ServedWhileOpen ==
    /\ \A n \in sOpen : serving[n] # "none"
    /\ \A n \in sClosed : ~Unserved(n)
    /\ \A n \in toClose : ~Unserved(n)
    /\ \A n \in old : ~Unserved(n)

IInv == TypeOK /\ NoConnectionLost /\ HolderIsExact /\ ServedWhileOpen

\* The initial state satisfies the inductive invariant.
LEMMA InitIInv == Init => IInv
  BY ConnsAssumption, BoundsAssumption
  DEF Init, IInv, TypeOK, NoConnectionLost, HolderIsExact, Listens, ServedWhileOpen, Unserved

\* What a step does to the client's connection: nothing, it dials when it has none, or it
\* closes the one it has.
LEMMA ClientKinds ==
  ASSUME [Next]_vars
  PROVE  \/ UNCHANGED <<wsConn, cOpen>>
         \/ wsConn = NoConn /\ \E n \in Conns : Dial(n)
         \/ CloseWsConn
<1>1. OpenerStep => \/ UNCHANGED <<wsConn, cOpen>>
                    \/ wsConn = NoConn /\ \E n \in Conns : Dial(n)
  BY DEF OpenerStep, OpenConnection, DialFails, MayDial, OpenerWakes, OpenerStops, OpenerMoves,
         netVars
<1>2. ListenerStep => UNCHANGED <<wsConn, cOpen>> \/ CloseWsConn
  BY DEF ListenerStep, TakeConnection, PayloadArrives, ReadFails, WriteAck, WriteAckFails,
         RetryAck, GiveUpAck, ListenReturns, ListenerCloses, ListenerWakes, ListenerStops,
         ListenerMoves, netVars
<1>3. CloserStep => UNCHANGED <<wsConn, cOpen>> \/ CloseWsConn
  BY DEF CloserStep, CloseTransceiver, CloseClientConn, CloseSafeCloser, netVars
<1>4. ASSUME NEW n \in Conns, ServingStep(n) \/ AckStuck(n) \/ Break(n)
      PROVE  UNCHANGED <<wsConn, cOpen>>
  BY <1>4 DEF ServingStep, AddTransceiverAndConn, AckGivenUp, ListenEnds, RemoveTransceiver,
              AckStuck, Break, ServingMoves, clientVars, netVars
<1>5. Shutdown \/ ServerCloseStep \/ Restart \/ UNCHANGED vars => UNCHANGED <<wsConn, cOpen>>
  BY DEF Shutdown, ServerCloseStep, GetAll, CloseServerTransceiver, CloseServerConn, CloseReturns,
         Restart, clientVars, netVars, vars
<1> QED BY <1>1, <1>2, <1>3, <1>4, <1>5 DEF Next

\* What a step does to the server's connections.
LEMMA ServerKinds ==
  ASSUME [Next]_vars
  PROVE  \/ /\ UNCHANGED <<serving, holder, server, serves, sClosed, toClose, old, sOpen>>
            /\ broken' \subseteq broken
         \/ \E n \in Conns : Dial(n)
         \/ \E n \in Conns : ServingStep(n) \/ AckStuck(n) \/ Break(n)
         \/ Shutdown \/ ServerCloseStep \/ Restart
<1> DEFINE Same == /\ UNCHANGED <<serving, holder, server, serves, sClosed, toClose, old, sOpen>>
                   /\ broken' \subseteq broken
<1>1. OpenerStep => Same \/ \E n \in Conns : Dial(n)
  BY DEF OpenerStep, OpenConnection, DialFails, OpenerWakes, OpenerStops, OpenerMoves, netVars,
         serverVars
<1>2. ListenerStep => Same
  BY DEF ListenerStep, TakeConnection, PayloadArrives, ReadFails, WriteAck, WriteAckFails,
         RetryAck, GiveUpAck, ListenReturns, ListenerCloses, ListenerWakes, ListenerStops,
         ListenerMoves, CloseWsConn, netVars, serverVars
<1>3. CloserStep => Same
  BY DEF CloserStep, CloseTransceiver, CloseClientConn, CloseSafeCloser, CloseWsConn, netVars,
         serverVars
<1>4. UNCHANGED vars => Same
  BY DEF vars
<1> QED BY <1>1, <1>2, <1>3, <1>4 DEF Next

\* The places of the loops and of Close, and the bounds.
LEMMA PlacesTyped ==
  ASSUME TypeOK, [Next]_vars
  PROVE  /\ opener' \in {"open", "sleep", "done"}
         /\ listener' \in {"take", "read", "ack", "retry", "failed", "close", "sleep", "done"}
         /\ closer' \in {"idle", "conn", "safeCloser", "closed"}
         /\ reading' \in Conns \cup {NoConn}
         /\ breaks' \in 0..MaxBreaks /\ closings' \in 0..MaxClosings
<1> DEFINE Ps == <<opener, listener, closer, reading, breaks, closings>>
<1>t. /\ opener \in {"open", "sleep", "done"}
      /\ listener \in {"take", "read", "ack", "retry", "failed", "close", "sleep", "done"}
      /\ closer \in {"idle", "conn", "safeCloser", "closed"}
      /\ reading \in Conns \cup {NoConn} /\ wsConn \in Conns \cup {NoConn}
      /\ breaks \in 0..MaxBreaks /\ closings \in 0..MaxClosings
      /\ MaxBreaks \in Nat /\ MaxClosings \in Nat
  BY BoundsAssumption DEF TypeOK
<1>1. CASE OpenerStep
  BY <1>1, <1>t DEF OpenerStep, OpenConnection, DialFails, OpenerWakes, OpenerStops, OpenerMoves,
                    bounds
<1>2. CASE ListenerStep
  <2>1. UNCHANGED <<opener, closer, breaks, closings>>
    BY <1>2 DEF ListenerStep, TakeConnection, PayloadArrives, ReadFails, WriteAck, WriteAckFails,
         RetryAck, GiveUpAck, ListenReturns, ListenerCloses, ListenerWakes, ListenerStops,
         ListenerMoves, bounds
  <2>2. /\ listener' \in {"take", "read", "ack", "retry", "failed", "close", "sleep", "done"}
        /\ reading' \in {NoConn, reading, wsConn}
    BY <1>2 DEF ListenerStep, TakeConnection, PayloadArrives, ReadFails, WriteAck, WriteAckFails,
         RetryAck, GiveUpAck, ListenReturns, ListenerCloses, ListenerWakes, ListenerStops,
         ListenerMoves, AfterListen
  <2> QED BY <1>t, <2>1, <2>2
<1>3. CASE CloserStep
  BY <1>3, <1>t DEF CloserStep, CloseTransceiver, CloseClientConn, CloseSafeCloser, bounds
<1>4. ASSUME NEW n \in Conns, ServingStep(n) \/ AckStuck(n)
      PROVE  UNCHANGED Ps
  BY <1>4 DEF ServingStep, AddTransceiverAndConn, AckGivenUp, ListenEnds, RemoveTransceiver,
              AckStuck, ServingMoves, clientVars, bounds
<1>5. ASSUME NEW n \in Conns, Break(n)
      PROVE  UNCHANGED <<opener, listener, closer, reading, closings>> /\ breaks' \in 0..MaxBreaks
  BY <1>5, <1>t DEF Break, clientVars
<1>6. CASE Shutdown
  BY <1>6, <1>t DEF Shutdown, clientVars
<1>7. ServerCloseStep \/ Restart \/ UNCHANGED vars => UNCHANGED Ps
  BY DEF ServerCloseStep, GetAll, CloseServerTransceiver, CloseServerConn, CloseReturns, Restart,
         clientVars, bounds, vars
<1>8. UNCHANGED Ps => /\ opener' = opener /\ listener' = listener /\ closer' = closer
                      /\ reading' = reading /\ breaks' = breaks /\ closings' = closings
  OBVIOUS
<1> HIDE DEF Ps
<1> QED BY <1>t, <1>1, <1>2, <1>3, <1>4, <1>5, <1>6, <1>7, <1>8 DEF Next

\* Only a client without a connection dials, and closing closes the connection it has.
LEMMA ConnectionKept ==
  ASSUME TypeOK, NoConnectionLost, [Next]_vars
  PROVE  NoConnectionLost' /\ wsConn' \in Conns \cup {NoConn} /\ cOpen' \subseteq Conns
<1>t. /\ wsConn \in Conns \cup {NoConn} /\ cOpen \subseteq Conns /\ cOpen \subseteq {wsConn}
      /\ NoConn \notin Conns
  BY ConnsAssumption DEF TypeOK, NoConnectionLost, Conns, NoConn
<1>1. CASE UNCHANGED <<wsConn, cOpen>>
  BY <1>1, <1>t DEF NoConnectionLost
<1>2. ASSUME wsConn = NoConn, NEW n \in Conns, Dial(n)
      PROVE  NoConnectionLost' /\ wsConn' \in Conns \cup {NoConn} /\ cOpen' \subseteq Conns
  BY <1>2, <1>t DEF NoConnectionLost, Dial
<1>3. CASE CloseWsConn
  BY <1>3, <1>t DEF NoConnectionLost, CloseWsConn
<1> QED BY <1>1, <1>2, <1>3, ClientKinds

\* The holder follows the goroutines of the connections.
LEMMA HolderKept ==
  ASSUME TypeOK, HolderIsExact, ServedWhileOpen, [Next]_vars
  PROVE  /\ HolderIsExact' /\ ServedWhileOpen'
         /\ serving' \in [Conns -> {"none", "unserved", "accepted", "listen", "stuck", "ended"}]
         /\ server' \in {"running", "shutdown", "closing", "closed"} /\ serves' \in BOOLEAN
         /\ sClosed' \subseteq Conns /\ toClose' \subseteq Conns /\ old' \subseteq Conns
         /\ sOpen' \subseteq Conns /\ broken' \subseteq Conns
<1> DEFINE Goal ==
      /\ HolderIsExact' /\ ServedWhileOpen'
      /\ serving' \in [Conns -> {"none", "unserved", "accepted", "listen", "stuck", "ended"}]
      /\ server' \in {"running", "shutdown", "closing", "closed"} /\ serves' \in BOOLEAN
      /\ sClosed' \subseteq Conns /\ toClose' \subseteq Conns /\ old' \subseteq Conns
      /\ sOpen' \subseteq Conns /\ broken' \subseteq Conns
<1>t. /\ serving \in [Conns -> {"none", "unserved", "accepted", "listen", "stuck", "ended"}]
      /\ server \in {"running", "shutdown", "closing", "closed"} /\ serves \in BOOLEAN
      /\ sClosed \subseteq Conns /\ toClose \subseteq Conns /\ old \subseteq Conns
      /\ sOpen \subseteq Conns /\ broken \subseteq Conns
      /\ holder \subseteq Conns
  BY DEF TypeOK
<1>e. holder = {n \in Conns : serving[n] \in {"listen", "stuck", "ended"}}
  BY DEF HolderIsExact, Listens
<1>o. /\ \A n \in sOpen : serving[n] # "none"
      /\ \A n \in sClosed : serving[n] \notin {"none", "unserved"}
      /\ \A n \in toClose : serving[n] \notin {"none", "unserved"}
      /\ \A n \in old : serving[n] \notin {"none", "unserved"}
  BY DEF ServedWhileOpen, Unserved
<1>m. ASSUME NEW n \in Conns, NEW from, NEW to \in {"listen", "stuck", "ended"},
             from \in {"listen", "stuck", "ended"}, ServingMoves(n, from, to)
      PROVE  Goal
  <2>1. /\ serving[n] = from /\ serving' = [serving EXCEPT ![n] = to]
        /\ UNCHANGED <<holder, server, serves, sClosed, toClose, old, sOpen, broken>>
    BY <1>m DEF ServingMoves, netVars
  <2>2. HolderIsExact'
    BY <1>e, <1>m, <1>t, <2>1 DEF HolderIsExact, Listens
  <2>3. ServedWhileOpen'
    BY <1>m, <1>o, <1>t, <2>1 DEF ServedWhileOpen, Unserved
  <2> QED BY <1>t, <1>m, <2>1, <2>2, <2>3
<1>1. ASSUME UNCHANGED <<serving, holder, server, serves, sClosed, toClose, old, sOpen>>,
             broken' \subseteq broken
      PROVE  Goal
  BY <1>1, <1>e, <1>o, <1>t DEF HolderIsExact, Listens, ServedWhileOpen, Unserved
<1>2. ASSUME NEW n \in Conns, Dial(n) PROVE Goal
  <2>1. /\ serving[n] \in {"none", "unserved"}
        /\ sOpen' = sOpen \cup {n}
        /\ UNCHANGED <<holder, server, serves, sClosed, toClose, old, broken>>
    BY <1>2 DEF Dial, Free, Unserved
  <2>a. PICK s \in {"accepted", "unserved"} : serving' = [serving EXCEPT ![n] = s]
    BY <1>2 DEF Dial
  <2>2. HolderIsExact'
    BY <1>e, <1>t, <2>1, <2>a DEF HolderIsExact, Listens
  <2>3. ServedWhileOpen'
    <3>1. n \notin sClosed /\ n \notin toClose /\ n \notin old
      BY <1>o, <2>1
    <3>2. \A k \in Conns : serving'[k] = IF k = n THEN s ELSE serving[k]
      BY <1>t, <2>a
    <3> QED BY <1>o, <1>t, <2>1, <3>1, <3>2 DEF ServedWhileOpen, Unserved
  <2>4. serving' \in [Conns -> {"none", "unserved", "accepted", "listen", "stuck", "ended"}]
    BY <1>t, <2>a
  <2> QED BY <1>t, <2>1, <2>2, <2>3, <2>4
<1>3. ASSUME NEW n \in Conns, AddTransceiverAndConn(n) PROVE Goal
  <2>1. /\ serving[n] = "accepted" /\ serving' = [serving EXCEPT ![n] = "listen"]
        /\ holder' = holder \cup {n}
        /\ UNCHANGED <<server, serves, sClosed, toClose, old, sOpen, broken>>
    BY <1>3 DEF AddTransceiverAndConn, netVars
  <2>2. HolderIsExact'
    BY <1>e, <1>t, <2>1 DEF HolderIsExact, Listens
  <2>3. ServedWhileOpen'
    BY <1>o, <1>t, <2>1 DEF ServedWhileOpen, Unserved
  <2> QED BY <1>t, <2>1, <2>2, <2>3
<1>4. ASSUME NEW n \in Conns, AckStuck(n) \/ AckGivenUp(n) \/ ListenEnds(n) PROVE Goal
  BY <1>4, <1>m DEF AckStuck, AckGivenUp, ListenEnds
<1>5. ASSUME NEW n \in Conns, RemoveTransceiver(n) PROVE Goal
  <2>1. /\ serving[n] = "ended" /\ serving' = [serving EXCEPT ![n] = "none"]
        /\ holder' = holder \ {n} /\ sOpen' = sOpen \ {n} /\ broken' = broken \ {n}
        /\ sClosed' = sClosed \ {n} /\ toClose' = toClose \ {n} /\ old' = old \ {n}
        /\ UNCHANGED <<server, serves>>
    BY <1>5 DEF RemoveTransceiver, RemovedFromHolder
  <2>2. HolderIsExact'
    BY <1>e, <1>t, <2>1 DEF HolderIsExact, Listens
  <2>3. ServedWhileOpen'
    BY <1>o, <1>t, <2>1 DEF ServedWhileOpen, Unserved
  <2> QED BY <1>t, <2>1, <2>2, <2>3
<1>6. ASSUME NEW n \in Conns, Break(n) PROVE Goal
  <2>1. /\ broken' = broken \cup {n}
        /\ UNCHANGED <<serving, holder, server, serves, sClosed, toClose, old, sOpen>>
    BY <1>6 DEF Break, serverVars
  <2> QED BY <1>e, <1>o, <1>t, <2>1 DEF HolderIsExact, Listens, ServedWhileOpen, Unserved
<1>7. ASSUME Shutdown \/ CloseReturns PROVE Goal
  <2>1. /\ server' \in {"shutdown", "closed"}
        /\ UNCHANGED <<serving, holder, serves, sClosed, toClose, old, sOpen, broken>>
    BY <1>7 DEF Shutdown, CloseReturns, netVars
  <2> QED BY <1>e, <1>o, <1>t, <2>1 DEF HolderIsExact, Listens, ServedWhileOpen, Unserved
<1>8. ASSUME GetAll PROVE Goal
  <2>1. /\ server' = "closing" /\ toClose' = holder \ old
        /\ UNCHANGED <<serving, holder, serves, sClosed, old, sOpen, broken>>
    BY <1>8 DEF GetAll, netVars
  <2> QED BY <1>e, <1>o, <1>t, <2>1 DEF HolderIsExact, Listens, ServedWhileOpen, Unserved
<1>9. ASSUME NEW n \in Conns, CloseServerTransceiver(n) PROVE Goal
  <2>1. /\ n \in toClose /\ sClosed' = sClosed \cup {n}
        /\ UNCHANGED <<serving, holder, server, serves, toClose, old, sOpen, broken>>
    BY <1>9 DEF CloseServerTransceiver, netVars
  <2> QED BY <1>e, <1>o, <1>t, <2>1 DEF HolderIsExact, Listens, ServedWhileOpen, Unserved
<1>10. ASSUME NEW n \in Conns, CloseServerConn(n) PROVE Goal
  <2>1. /\ sOpen' = sOpen \ {n} /\ toClose' = toClose \ {n} /\ broken' = broken \ {n}
        /\ UNCHANGED <<serving, holder, server, serves, sClosed, old>>
    BY <1>10 DEF CloseServerConn
  <2> QED BY <1>e, <1>o, <1>t, <2>1 DEF HolderIsExact, Listens, ServedWhileOpen, Unserved
<1>11. ASSUME Restart PROVE Goal
  <2>1. /\ server' = "running" /\ old' = {n \in Conns : serving[n] \notin {"none", "unserved"}}
        /\ UNCHANGED <<serving, holder, serves, sClosed, toClose, sOpen, broken>>
    BY <1>11 DEF Restart, Unserved, netVars
  <2> QED BY <1>e, <1>o, <1>t, <2>1 DEF HolderIsExact, Listens, ServedWhileOpen, Unserved
<1> HIDE DEF Goal
<1>12. ASSUME NEW n \in Conns, ServingStep(n) \/ AckStuck(n) \/ Break(n) PROVE Goal
  BY <1>12, <1>3, <1>4, <1>5, <1>6 DEF ServingStep
<1>13. ASSUME ServerCloseStep PROVE Goal
  BY <1>13, <1>7, <1>8, <1>9, <1>10 DEF ServerCloseStep
<1>14. Goal
  BY <1>1, <1>2, <1>7, <1>11, <1>12, <1>13, ServerKinds
<1> QED BY <1>14 DEF Goal

\* Every step of the client, the server and the network keeps the inductive invariant.
THEOREM InvariantHolds == Spec => []IInv
<1>1. IInv /\ [Next]_vars => IInv'
  <2> SUFFICES ASSUME IInv, [Next]_vars PROVE IInv'
    OBVIOUS
  <2>1. TypeOK /\ NoConnectionLost /\ HolderIsExact /\ ServedWhileOpen
    BY DEF IInv
  <2>2. HolderIsExact' /\ ServedWhileOpen' /\ NoConnectionLost'
    BY <2>1, ConnectionKept, HolderKept
  <2>3. holder' \subseteq {n \in Conns : serving'[n] \in {"listen", "stuck", "ended"}}
    BY <2>2 DEF HolderIsExact, Listens
  <2>4. TypeOK'
    BY <2>1, <2>3, PlacesTyped, ConnectionKept, HolderKept DEF TypeOK
  <2> QED BY <2>2, <2>4 DEF IInv
<1> QED BY <1>1, InitIInv, PTL DEF Spec

\* The client never has a connection open that its wsConn lost.
THEOREM ConnectionNeverLost == Spec => []NoConnectionLost
<1>1. IInv => NoConnectionLost
  BY DEF IInv
<1> QED BY <1>1, InvariantHolds, PTL

\* The server's holder has exactly the connections whose goroutines are in Listen: Send
\* misses none of them, and a goroutine that ended leaves nothing in the holder.
THEOREM HolderExact == Spec => []HolderIsExact
<1>1. IInv => HolderIsExact
  BY DEF IInv
<1> QED BY <1>1, InvariantHolds, PTL

-----------------------------------------------------------------------------
(* The node. *)

\* Watchers that no Close will end: those of attempts that failed to bind.
LeftBehind == IF "watcher" \in live THEN watchers - 1 ELSE watchers

Unbuilt == {"getPort", "watcher", "new"}
Built == {"seeders", "seederIsSelf", "components", "running"}

\* Every attempt but the one under way left its watcher behind.
WatchersCounted ==
    /\ attempt \in 1..maxRetriesIfBindError /\ watchers \in Nat
    /\ pc \in Unbuilt \cup Built \cup {"failed"}
    /\ pc \in Unbuilt => "watcher" \notin live
    /\ pc \in {"getPort", "watcher"} \cup Built => LeftBehind = attempt - 1
    /\ pc = "new" => LeftBehind = attempt
    /\ pc = "failed" => watchers =< attempt

\* The goroutines that run are those of components; Close is called on a node that runs
\* and has cancelled what the steps it is past close.
ClosedInOrder ==
    /\ made \in 0..8
    /\ pc \in Unbuilt \cup {"seeders"} => made = 0
    /\ pc = "components" => made < 8
    /\ closing \in Nat
    /\ closing > 0 \/ cancelled # {} => pc = "running"
    /\ \A i \in 1..6 : i < closing => Closings[i] \subseteq cancelled
    /\ live \subseteq {"watcher"} \cup {Components[i] : i \in 1..8}

NodeIInv == WatchersCounted /\ ClosedInOrder

\* Once Close has gone through, the context of every goroutine that still runs is
\* cancelled, and when all but those that broadcast have ended, the watchers of failed
\* attempts are all that is left.
CloseCancelsAll ==
    closing > Len(Closings) =>
        /\ live \cup {"peersOnChannel"} \subseteq cancelled
        /\ live \subseteq Broadcasting => watchers = attempt - 1

\* Close has six steps, and there are eight components.
LEMMA Steps ==
  /\ DOMAIN Closings = 1..6 /\ Len(Closings) = 6
  /\ Len(Components) = 8
  /\ "peersOnChannel" \in Closings[2]
  /\ \A c \in {"watcher"} \cup {Components[i] : i \in 1..8} :
       \E i \in 1..6 : c \in Closings[i]
<1>1. /\ DOMAIN Closings = 1..6 /\ Len(Closings) = 6
      /\ Len(Components) = 8
      /\ "peersOnChannel" \in Closings[2] /\ "watcher" \in Closings[4]
  BY DEF Closings, Components
<1>2. ASSUME NEW i \in 1..8 PROVE \E j \in 1..6 : Components[i] \in Closings[j]
  <2>1. \/ i = 1 \/ i = 2 \/ i = 3 \/ i = 4 \/ i = 5 \/ i = 6 \/ i = 7 \/ i = 8
    OBVIOUS
  <2>2. \/ Components[i] \in Closings[1]
        \/ Components[i] \in Closings[2]
        \/ Components[i] \in Closings[5]
    BY <2>1 DEF Closings, Components
  <2> QED BY <2>2
<1>3. \E j \in 1..6 : "watcher" \in Closings[j]
  BY <1>1
<1> QED BY <1>1, <1>2, <1>3

\* The initial states of a node satisfy the inductive invariant.
LEMMA InitNodeIInv == NodeInit => NodeIInv
BY MessengerAssumption
DEF NodeInit, NodeIInv, WatchersCounted, ClosedInOrder, LeftBehind, Unbuilt, Built

\* The steps of the construction keep the invariant.
LEMMA BuildKeeps ==
  ASSUME NodeIInv, BuildStep
  PROVE  NodeIInv'
<1>1. CASE SinglePort \/ ChoosePort
  <2>1. /\ pc = "getPort" /\ pc' \in {"getPort", "watcher", "failed"}
        /\ UNCHANGED <<cancelled, attempt, watchers, live, made, closing>>
    BY <1>1 DEF SinglePort, ChoosePort
  <2>2. "watcher" \notin live /\ watchers = attempt - 1
    BY <2>1 DEF NodeIInv, WatchersCounted, LeftBehind, Unbuilt
  <2>3. WatchersCounted'
    BY <2>1, <2>2 DEF NodeIInv, WatchersCounted, LeftBehind, Unbuilt, Built
  <2>4. ClosedInOrder'
    BY <2>1 DEF NodeIInv, ClosedInOrder, Unbuilt
  <2> QED BY <2>3, <2>4 DEF NodeIInv
<1>2. CASE NewConnectionsWatcher
  BY <1>2 DEF NewConnectionsWatcher, NodeIInv, WatchersCounted, ClosedInOrder,
              LeftBehind, Unbuilt, Built
<1>3. CASE BadConfig
  BY <1>3 DEF BadConfig, NodeIInv, WatchersCounted, ClosedInOrder,
              LeftBehind, Unbuilt, Built
<1>4. CASE NewHost
  BY <1>4 DEF NewHost, NodeIInv, WatchersCounted, ClosedInOrder,
              LeftBehind, Unbuilt, Built
<1>5. CASE BindError
  BY <1>5, MessengerAssumption DEF BindError, NextAttempt, NodeIInv, WatchersCounted, ClosedInOrder,
              LeftBehind, Unbuilt, Built
<1>6. CASE ValidateSeeders
  <2>1. /\ pc = "seeders" /\ pc' \in {"components", "seederIsSelf"}
        /\ UNCHANGED <<cancelled, attempt, watchers, live, made, closing>>
    BY <1>6 DEF ValidateSeeders
  <2>2. WatchersCounted'
    BY <2>1 DEF NodeIInv, WatchersCounted, LeftBehind, Unbuilt, Built
  <2>3. ClosedInOrder'
    BY <2>1 DEF NodeIInv, ClosedInOrder, Unbuilt
  <2> QED BY <2>2, <2>3 DEF NodeIInv
<1>7. CASE AddComponent
  <2>1. /\ pc = "components" /\ made' = made + 1 /\ made \in 0..8 /\ made < 8
        /\ pc' = IF made' = 8 THEN "running" ELSE pc
        /\ UNCHANGED <<cancelled, attempt, watchers, closing>>
    <3>1. /\ pc = "components" /\ made' = made + 1
          /\ pc' = IF made' = Len(Components) THEN "running" ELSE pc
          /\ UNCHANGED <<cancelled, attempt, watchers, closing>>
      BY <1>7 DEF AddComponent
    <3>2. Len(Components) = 8
      BY Steps
    <3> QED BY <3>1, <3>2 DEF NodeIInv, ClosedInOrder
  <2>2. made' \in 1..8 /\ made' \in 0..8
    BY <2>1
  <2>3. live' = live \/ (live' = live \cup {Components[made']})
    BY <1>7 DEF AddComponent
  <2>4. "watcher" \in live' <=> "watcher" \in live
    <3>1. Components[made'] # "watcher"
      <4>1. \/ made' = 1 \/ made' = 2 \/ made' = 3 \/ made' = 4 \/ made' = 5 \/ made' = 6
            \/ made' = 7 \/ made' = 8
        BY <2>2
      <4> QED BY <4>1 DEF Components
    <3> QED BY <2>3, <3>1
  <2>5. live' \subseteq {"watcher"} \cup {Components[i] : i \in 1..8}
    BY <2>2, <2>3 DEF NodeIInv, ClosedInOrder
  <2>6. WatchersCounted'
    BY <2>1, <2>4 DEF NodeIInv, WatchersCounted, LeftBehind, Unbuilt, Built
  <2>7. ClosedInOrder'
    BY <2>1, <2>2, <2>5 DEF NodeIInv, ClosedInOrder, Unbuilt
  <2> QED BY <2>6, <2>7 DEF NodeIInv
<1>8. CASE ComponentFails
  BY <1>8 DEF ComponentFails, NodeIInv, WatchersCounted, ClosedInOrder,
              LeftBehind, Unbuilt, Built
<1> QED BY <1>1, <1>2, <1>3, <1>4, <1>5, <1>6, <1>7, <1>8 DEF BuildStep

\* A step of Close cancels what it closes, and goroutines that were cancelled end.
LEMMA CloseKeeps ==
  ASSUME NodeIInv,
         \/ Close \/ CloseNext
         \/ \E i \in DOMAIN Closings : GoroutinesEnd(i)
  PROVE  NodeIInv'
<1>1. CASE Close
  BY <1>1 DEF Close, NodeIInv, WatchersCounted, ClosedInOrder, LeftBehind, Unbuilt, Built
<1>2. CASE CloseNext
  <2>1. /\ closing \in 1..6 /\ cancelled' = cancelled \cup Closings[closing]
        /\ closing' = closing + 1
        /\ UNCHANGED <<pc, attempt, watchers, live, made>>
    BY <1>2, Steps DEF CloseNext, AfterClosing
  <2>2. pc = "running"
    BY <2>1 DEF NodeIInv, ClosedInOrder
  <2>3. WatchersCounted'
    BY <2>1 DEF NodeIInv, WatchersCounted, LeftBehind
  <2>4. \A i \in 1..6 : i < closing' => Closings[i] \subseteq cancelled'
    <3> SUFFICES ASSUME NEW i \in 1..6, i < closing + 1
                 PROVE  Closings[i] \subseteq cancelled'
      BY <2>1
    <3>1. CASE i < closing
      BY <2>1, <3>1 DEF NodeIInv, ClosedInOrder
    <3>2. CASE i = closing
      BY <2>1, <3>2
    <3> QED BY <2>1, <3>1, <3>2
  <2>5. ClosedInOrder'
    BY <2>1, <2>2, <2>4 DEF NodeIInv, ClosedInOrder, Unbuilt
  <2> QED BY <2>3, <2>5 DEF NodeIInv
<1>3. ASSUME NEW i \in DOMAIN Closings, GoroutinesEnd(i) PROVE NodeIInv'
  <2>0. PICK stay \in SUBSET (Closings[i] \cap Broadcasting) :
           LET ended == (Closings[i] \cap live) \ stay IN
           /\ ended # {} /\ ended \subseteq cancelled /\ live' = live \ ended
           /\ watchers' = IF "watcher" \in ended THEN watchers - 1 ELSE watchers
           /\ UNCHANGED <<cancelled, pc, attempt, made, closing>>
    BY <1>3 DEF GoroutinesEnd
  <2> DEFINE ended == (Closings[i] \cap live) \ stay
  <2>1. /\ ended # {} /\ ended \subseteq cancelled /\ live' = live \ ended
        /\ watchers' = IF "watcher" \in ended THEN watchers - 1 ELSE watchers
        /\ UNCHANGED <<cancelled, pc, attempt, made, closing>>
    BY <2>0
  <2>2. ended \subseteq live
    OBVIOUS
  <2> HIDE DEF ended
  <2>3. pc = "running"
    BY <2>1 DEF NodeIInv, ClosedInOrder
  <2>4. WatchersCounted'
    BY <2>1, <2>2, <2>3 DEF NodeIInv, WatchersCounted, LeftBehind, Unbuilt, Built
  <2>5. ClosedInOrder'
    BY <2>1, <2>3 DEF NodeIInv, ClosedInOrder, Unbuilt
  <2> QED BY <2>4, <2>5 DEF NodeIInv
<1> QED BY <1>1, <1>2, <1>3

\* Whatever ports other processes take, whatever fails, and whenever Close is called, the
\* watchers are counted and Close goes through its steps in order.
THEOREM NodeInvariantHolds == NodeSpec => []NodeIInv
<1>1. NodeInit => NodeIInv
  BY InitNodeIInv
<1>2. NodeIInv /\ [NodeNext]_nodeVars => NodeIInv'
  <2> SUFFICES ASSUME NodeIInv, [NodeNext]_nodeVars PROVE NodeIInv'
    OBVIOUS
  <2>1. CASE UNCHANGED others
    BY <2>1 DEF others, NodeIInv, WatchersCounted, ClosedInOrder, LeftBehind, Unbuilt, Built
  <2> QED BY <2>1, BuildKeeps, CloseKeeps DEF NodeNext, nodeVars, Poc
<1> QED BY <1>1, <1>2, PTL DEF NodeSpec

\* However often other processes take the port between the check and the bind, the
\* watchers are no more than the attempts, for every number of ports and attempts
\* (netMessenger.go:163, 296, ports.go:79).
THEOREM WatcherLeakBounded == NodeSpec => []LeakBounded
<1>1. NodeIInv => LeakBounded
  <2> SUFFICES ASSUME NodeIInv PROVE watchers =< maxRetriesIfBindError
    BY DEF LeakBounded
  <2>1. watchers =< attempt /\ attempt =< maxRetriesIfBindError
    BY MessengerAssumption DEF NodeIInv, WatchersCounted, LeftBehind, Unbuilt, Built
  <2> QED BY <2>1, MessengerAssumption DEF NodeIInv, WatchersCounted
<1> QED BY <1>1, NodeInvariantHolds, PTL

\* Once Close has gone through, whatever failed on the way, no goroutine of the node has a
\* context that is not cancelled, and only goroutines that broadcast and the watchers of
\* failed attempts can stay (netMessenger.go:505, 163): what CloseEndsOthers says but for
\* the time it takes.
THEOREM ClosedCancelsAll == NodeSpec => []CloseCancelsAll
<1>1. NodeIInv => CloseCancelsAll
  <2> SUFFICES ASSUME NodeIInv, closing > 6
               PROVE  /\ live \cup {"peersOnChannel"} \subseteq cancelled
                      /\ live \subseteq Broadcasting => watchers = attempt - 1
    BY Steps DEF CloseCancelsAll
  <2>1. \A i \in 1..6 : Closings[i] \subseteq cancelled
    BY DEF NodeIInv, ClosedInOrder
  <2>2. live \subseteq {"watcher"} \cup {Components[i] : i \in 1..8}
    BY DEF NodeIInv, ClosedInOrder
  <2>3. live \cup {"peersOnChannel"} \subseteq cancelled
    BY <2>1, <2>2, Steps
  <2>4. live \subseteq Broadcasting => watchers = attempt - 1
    BY DEF NodeIInv, ClosedInOrder, WatchersCounted, LeftBehind, Built, Broadcasting
  <2> QED BY <2>3, <2>4
<1> QED BY <1>1, NodeInvariantHolds, PTL
============================================================================
