------------------------------- MODULE WsHost ------------------------------
(***************************************************************************)
(* The lifetime of connections between a WebSocket client                  *)
(* (websocket/client/client.go) and a server (websocket/server/server.go): *)
(* the client's two loops, one that opens and one that listens, the        *)
(* server's goroutine per connection with the holder of connections, and   *)
(* closing on both sides.                                                  *)
(*                                                                         *)
(* What travels on a connection is the subject of WsTransceiver; here a    *)
(* payload may arrive at any time and its acknowledgement be written or    *)
(* not.  wsConnClient.mut makes opening, writing and closing one step      *)
(* each; a read only takes the connection under the lock.                  *)
(***************************************************************************)
EXTENDS Integers, FiniteSets

CONSTANTS
    MaxConns,   \* connections; one is used again when both sides are through with it
    MaxBreaks,  \* bound: breaks of the network
    MaxClosings \* bound: closings of the server

ASSUME ConnsAssumption == MaxConns \in Nat
ASSUME BoundsAssumption == MaxBreaks \in Nat /\ MaxClosings \in Nat

NoConn == 0   \* a nil *websocket.Conn
Conns == 1..MaxConns

VARIABLES
    wsConn,    \* client.wsConn.conn
    opener,    \* the first goroutine of client.start
    listener,  \* the second one, inside Listen too
    reading,   \* the connection that ReadMessage took
    closer,    \* where client.Close is
    serving,   \* the server's goroutine of a connection
    holder,    \* keys of transceiversAndConn
    server,    \* where the server is
    serves,    \* its configuration lets connectionHandler make transceivers
    sClosed,   \* connections whose transceiver the server closed
    toClose,   \* connections that server.Close has yet to close
    old,       \* connections of a server that was closed and started again
    cOpen, sOpen, \* connections open at the client, at the server
    broken,    \* connections open at both and cut in between
    breaks, closings \* how often the network broke, the server was closed

clientVars == <<wsConn, opener, listener, reading, closer>>
serverVars == <<serving, holder, server, serves, sClosed, toClose, old>>
netVars == <<cOpen, sOpen, broken>>
bounds == <<breaks, closings>>
vars == <<wsConn, opener, listener, reading, closer,
          serving, holder, server, serves, sClosed, toClose, old, cOpen, sOpen, broken,
          breaks, closings>>

TypeOK ==
    /\ wsConn \in Conns \cup {NoConn} /\ reading \in Conns \cup {NoConn}
    /\ opener \in {"open", "sleep", "done"}
    /\ listener \in {"take", "read", "ack", "retry", "failed", "close", "sleep", "done"}
    /\ closer \in {"idle", "conn", "safeCloser", "closed"}
    /\ serving \in [Conns -> {"none", "unserved", "accepted", "listen", "stuck", "ended"}]
    /\ holder \subseteq {n \in Conns : serving[n] \in {"listen", "stuck", "ended"}}
    /\ server \in {"running", "shutdown", "closing", "closed"} /\ serves \in BOOLEAN
    /\ sClosed \subseteq Conns /\ toClose \subseteq Conns /\ old \subseteq Conns
    /\ cOpen \subseteq Conns /\ sOpen \subseteq Conns /\ broken \subseteq Conns
    /\ breaks \in 0..MaxBreaks /\ closings \in 0..MaxClosings

Init ==
    /\ wsConn = NoConn /\ opener = "open"
    /\ listener = "take" /\ reading = NoConn
    /\ closer = "idle"
    /\ serving = [n \in Conns |-> "none"]
    /\ holder = {} /\ server = "running" /\ serves \in BOOLEAN
    /\ sClosed = {} /\ toClose = {} /\ old = {}
    /\ cOpen = {} /\ sOpen = {} /\ broken = {}
    /\ breaks = 0 /\ closings = 0

\* The safe closers of the client's transceiver and of the client are closed.
tClosed == closer # "idle"
cClosed == closer = "closed"

Works(n) == n \in cOpen /\ n \in sOpen /\ n \notin broken

\* The server has no goroutine for the connection.
Unserved(n) == serving[n] \in {"none", "unserved"}

Free(n) == n \notin cOpen /\ n # wsConn /\ n # reading /\ Unserved(n)

(***************************************************************************)
(* The client's connection                                                 *)
(***************************************************************************)

\* Mutant: OpenConnection does not look at the connection it has.
DialAlways == TRUE

\* OpenConnection dials when there is no connection.
MayDial == wsConn = NoConn

\* The server's connectionHandler makes a transceiver for the new connection and starts
\* its goroutine.  If its configuration lets it make none (acknowledgements with no time to
\* wait for them), the connection stays open, and nobody serves or closes it; its number is
\* used again once the client dropped it.
Dial(n) ==
    /\ Free(n) /\ \A k \in 1..(n - 1) : ~Free(k)
    /\ wsConn' = n
    /\ cOpen' = cOpen \cup {n} /\ sOpen' = sOpen \cup {n}
    /\ serving' = [serving EXCEPT ![n] = IF serves THEN "accepted" ELSE "unserved"]
    /\ UNCHANGED <<broken, holder, server, serves, sClosed, toClose, old>>

\* wsConnClient.Close.  Closing a socket that failed may report an error (a TLS alert
\* that cannot be sent), and the connection is kept then; the next Close finds it closed.
CloseWsConn ==
    \/ wsConn = NoConn /\ UNCHANGED <<wsConn, cOpen, broken>>
    \/ /\ \/ wsConn # NoConn /\ wsConn' = NoConn
          \/ wsConn \in cOpen /\ ~Works(wsConn) /\ UNCHANGED wsConn
       /\ cOpen' = cOpen \ {wsConn} /\ broken' = broken \ {wsConn}

(***************************************************************************)
(* The opening loop of client.start                                        *)
(***************************************************************************)
OpenConnection ==
    /\ opener = "open"
    /\ opener' = "sleep"
    /\ \/ MayDial /\ server = "running" /\ \E n \in Conns : Dial(n)
       \/ /\ MayDial => server # "running" \/ \A n \in Conns : ~Free(n)
          /\ UNCHANGED <<wsConn, serverVars, netVars>>
    /\ UNCHANGED <<listener, reading, closer, bounds>>

\* The request is lost, or the server cannot upgrade it.
DialFails ==
    /\ opener = "open" /\ MayDial /\ server = "running"
    /\ opener' = "sleep"
    /\ breaks < MaxBreaks /\ breaks' = breaks + 1
    /\ UNCHANGED <<wsConn, listener, reading, closer, serverVars, netVars, closings>>

OpenerMoves(to) ==
    /\ opener = "sleep"
    /\ opener' = to
    /\ UNCHANGED <<wsConn, listener, reading, closer, serverVars, netVars,
                   bounds>>

OpenerWakes == OpenerMoves("open")

\* Mutant: the loop waits for its timer only.
OpenerNeverStops == FALSE /\ OpenerMoves("done")

OpenerStops == cClosed /\ OpenerMoves("done")

(***************************************************************************)
(* The listening loop of client.start                                      *)
(***************************************************************************)
ListenerMoves(from, to) ==
    /\ listener = from
    /\ listener' = to
    /\ reading' = NoConn
    /\ UNCHANGED <<wsConn, opener, closer, serverVars, netVars,
                   bounds>>

\* ReadMessage takes the connection; without one it fails at once.
TakeConnection ==
    /\ listener = "take"
    /\ listener' = IF wsConn = NoConn THEN "failed" ELSE "read"
    /\ reading' = wsConn
    /\ UNCHANGED <<wsConn, opener, closer, serverVars, netVars, bounds>>

\* A payload that wants an acknowledgement was read and handled; other messages need
\* no more than the next read.
PayloadArrives == Works(reading) /\ serves /\ ListenerMoves("read", "ack")

ReadFails == ~Works(reading) /\ ListenerMoves("read", "failed")

\* sendAckIfNeeded writes on the connection the client has by then.
WriteAck == wsConn \in cOpen /\ ListenerMoves("ack", "take")

WriteAckFails == (wsConn = NoConn \/ ~Works(wsConn)) /\ ListenerMoves("ack", "retry")

RetryAck == ListenerMoves("retry", "ack")

GiveUpAck == tClosed /\ ListenerMoves("retry", "take")

\* Mutant: Listen reports a closed connection only when the transceiver is closed.
ClosedOnly == IF tClosed THEN "close" ELSE "sleep"

\* What the loop does with the result of Listen.
AfterListen == IF tClosed THEN "sleep" ELSE "close"

ListenReturns == ListenerMoves("failed", AfterListen)

\* The loop closes the connection that the client has by then.
ListenerCloses ==
    /\ listener = "close"
    /\ listener' = "sleep"
    /\ CloseWsConn
    /\ UNCHANGED <<opener, reading, closer, serverVars, sOpen, bounds>>

ListenerWakes == ListenerMoves("sleep", "take")

ListenerStops == cClosed /\ ListenerMoves("sleep", "done")

(***************************************************************************)
(* client.Close: the transceiver, the connection and last the safe closer. *)
(***************************************************************************)
CloseTransceiver ==
    /\ closer = "idle"
    /\ closer' = "conn"
    /\ UNCHANGED <<wsConn, opener, listener, reading, serverVars, netVars, bounds>>

CloseClientConn ==
    /\ closer = "conn"
    /\ CloseWsConn
    /\ closer' = "safeCloser"
    /\ UNCHANGED <<opener, listener, reading, serverVars, sOpen, bounds>>

CloseSafeCloser ==
    /\ closer = "safeCloser"
    /\ closer' = "closed"
    /\ UNCHANGED <<wsConn, opener, listener, reading, serverVars, netVars, bounds>>

(***************************************************************************)
(* The server                                                              *)
(***************************************************************************)
AddTransceiverAndConn(n) ==
    /\ serving[n] = "accepted"
    /\ serving' = [serving EXCEPT ![n] = "listen"]
    /\ holder' = holder \cup {n}
    /\ UNCHANGED <<clientVars, server, serves, sClosed, toClose, old, netVars, bounds>>

ServingMoves(n, from, to) ==
    /\ serving[n] = from
    /\ serving' = [serving EXCEPT ![n] = to]
    /\ UNCHANGED <<clientVars, holder, server, serves, sClosed, toClose, old, netVars, bounds>>

\* A payload was read before the connection failed: its acknowledgement is tried again
\* until the transceiver is closed.  Bound: one connection at a time.
AckStuck(n) ==
    /\ ~Works(n) /\ n \notin sClosed
    /\ \A k \in Conns : serving[k] # "stuck"
    /\ ServingMoves(n, "listen", "stuck")

\* Mutant: the retries do not look at the safe closer.
AckNeverGivenUp(n) == FALSE /\ ServingMoves(n, "stuck", "listen")

AckGivenUp(n) == n \in sClosed /\ ServingMoves(n, "stuck", "listen")

ListenEnds(n) == ~Works(n) /\ ServingMoves(n, "listen", "ended")

\* Mutant: the connection is not removed when its Listen ended.
KeepInHolder(n) == holder

RemovedFromHolder(n) == holder \ {n}

\* The last use the server has for the connection.
RemoveTransceiver(n) ==
    /\ serving[n] = "ended"
    /\ serving' = [serving EXCEPT ![n] = "none"]
    /\ holder' = RemovedFromHolder(n)
    /\ sOpen' = sOpen \ {n} /\ broken' = broken \ {n}
    /\ sClosed' = sClosed \ {n} /\ toClose' = toClose \ {n} /\ old' = old \ {n}
    /\ UNCHANGED <<clientVars, server, serves, cOpen, bounds>>

\* server.Close: no new connections, then every connection that the holder has by then is
\* closed, one after the other, its transceiver first.
Shutdown ==
    /\ server = "running"
    /\ closings < MaxClosings
    /\ closings' = closings + 1
    /\ server' = "shutdown"
    /\ UNCHANGED <<clientVars, serving, holder, serves, sClosed, toClose, old, netVars, breaks>>

GetAll ==
    /\ server = "shutdown"
    /\ server' = "closing"
    /\ toClose' = holder \ old
    /\ UNCHANGED <<clientVars, serving, holder, serves, sClosed, old, netVars, bounds>>

CloseServerTransceiver(n) ==
    /\ n \in toClose /\ toClose \cap sClosed = {}
    /\ sClosed' = sClosed \cup {n}
    /\ UNCHANGED <<clientVars, serving, holder, server, serves, toClose, old, netVars, bounds>>

CloseServerConn(n) ==
    /\ n \in toClose \cap sClosed
    /\ sOpen' = sOpen \ {n} /\ broken' = broken \ {n}
    /\ toClose' = toClose \ {n}
    /\ UNCHANGED <<clientVars, serving, holder, server, serves, sClosed, old, cOpen, bounds>>

CloseReturns ==
    /\ server = "closing" /\ toClose = {}
    /\ server' = "closed"
    /\ UNCHANGED <<clientVars, serving, holder, serves, sClosed, toClose, old, netVars, bounds>>

\* Another server is started at the same address; its holder has no part in what is left
\* of the old one.
Restart ==
    /\ server = "closed"
    /\ server' = "running"
    /\ old' = {n \in Conns : ~Unserved(n)}
    /\ UNCHANGED <<clientVars, serving, holder, serves, sClosed, toClose, netVars, bounds>>

\* The network breaks.
Break(n) ==
    /\ Works(n)
    /\ breaks < MaxBreaks
    /\ breaks' = breaks + 1
    /\ broken' = broken \cup {n}
    /\ UNCHANGED <<clientVars, serverVars, cOpen, sOpen, closings>>

----------------------------------------------------------------------------

OpenerStep == OpenConnection \/ DialFails \/ OpenerWakes \/ OpenerStops

ListenerStep ==
    \/ TakeConnection \/ PayloadArrives \/ ReadFails \/ WriteAck \/ WriteAckFails \/ RetryAck
    \/ GiveUpAck \/ ListenReturns \/ ListenerCloses \/ ListenerWakes \/ ListenerStops

CloserStep == CloseTransceiver \/ CloseClientConn \/ CloseSafeCloser

ServingStep(n) ==
    AddTransceiverAndConn(n) \/ AckGivenUp(n) \/ ListenEnds(n) \/ RemoveTransceiver(n)

ServerCloseStep ==
    \/ GetAll \/ CloseReturns
    \/ \E n \in Conns : CloseServerTransceiver(n) \/ CloseServerConn(n)

Next ==
    \/ OpenerStep \/ ListenerStep \/ CloserStep
    \/ \E n \in Conns : ServingStep(n) \/ AckStuck(n) \/ Break(n)
    \/ Shutdown \/ ServerCloseStep \/ Restart

Spec == Init /\ [][Next]_vars

(***************************************************************************)
(* Fairness.  Goroutines are scheduled and timers fire; a read of a failed *)
(* connection fails; a select with two ready cases picks at random, so the *)
(* loops leave when they keep meeting a closed safe closer; a Close that   *)
(* was started goes on.  No Close has to start and nothing has to break.   *)
(***************************************************************************)
Fairness ==
    /\ WF_vars(OpenerStep) /\ SF_vars(OpenerStops)
    /\ WF_vars(ListenerStep) /\ SF_vars(ListenerStops) /\ SF_vars(GiveUpAck)
    /\ WF_vars(CloseClientConn \/ CloseSafeCloser)
    /\ WF_vars(ServerCloseStep)
    /\ \A n \in Conns : WF_vars(ServingStep(n))

FairSpec == Spec /\ Fairness

(***************************************************************************)
(* Properties                                                              *)
(***************************************************************************)

\* The client never has a connection open that its wsConn lost: whichever loop or Close
\* replaced or dropped the connection closed it before.  Otherwise the server would hold,
\* and wait for, a connection that nobody reads.
NoConnectionLost == cOpen \subseteq {wsConn}

\* While the server runs and the client is not closed, the client gets a working
\* connection again and again, after every break and restart and although the listening
\* loop may close a connection just opened; unless an acknowledgement is retried for ever.
Reconnects ==
    \/ []<>Works(wsConn)
    \/ <>[](listener \in {"ack", "retry"})
    \/ []<>(server # "running")
    \/ <>(closer # "idle")

\* Close ends both loops; the listening one may stay on a connection that the opening loop
\* opened after Close closed the last one.
LoopsEnd == cClosed ~> (opener = "done" /\ (listener = "done" \/ wsConn # NoConn))

\* A connection that failed leaves the holder, so that Send does not try it any more,
\* unless its goroutine is stuck with an acknowledgement.
DeadConnectionsLeave ==
    \A n \in Conns : (n \in holder /\ ~Works(n)) ~> (n \notin holder \/ serving[n] = "stuck")

\* Closing the server ends the goroutine of every connection it closed, stuck or not.
ServerCloseEnds == (sClosed \cap holder # {}) ~> (sClosed \cap holder = {})
============================================================================
