--------------------------- MODULE WsTransceiver ---------------------------
(***************************************************************************)
(* Two wsTransceiver instances (websocket/transceiver/transceiver.go), one *)
(* at each end of a WebSocket connection (websocket/connection).  Any      *)
(* number of goroutines call Send at either end; one goroutine per end     *)
(* runs Listen, which hands payloads to the payload handler, writes the    *)
(* acknowledgements and resolves the acknowledgements it reads.            *)
(*                                                                         *)
(* A message is identified by the end that sent it and its counter.  The   *)
(* acknowledgement channel made by a Send is identified by that counter.   *)
(***************************************************************************)
EXTENDS Integers, Sequences

CONSTANTS
    Ends,          \* the two ends of the connection
    Peer,          \* Peer[e] is the other end
    Callers,       \* goroutines that call Send
    Home,          \* Home[c] is the end on which c calls Send
    AckEnds,       \* ends whose transceiver has withAcknowledge
    BlockingEnds,  \* ends whose transceiver has blockingAckOnError
    Capacity,      \* messages that fit between a write and its read (socket buffers)
    MaxCounter,    \* bound: Send calls per end
    Unreliable,    \* bound: whether the connection may break
    RepeatingEnds, \* ends whose program may repeat an acknowledgement it wrote
    OtherEnds      \* ends whose program may write messages of another kind

ASSUME EndsAssumption ==
    /\ Peer \in [Ends -> Ends]
    /\ \A e \in Ends : Peer[e] # e /\ Peer[Peer[e]] = e

ASSUME CallersAssumption == Home \in [Callers -> Ends]

ASSUME SetsAssumption ==
    /\ AckEnds \subseteq Ends /\ BlockingEnds \subseteq Ends
    /\ RepeatingEnds \subseteq Ends /\ OtherEnds \subseteq Ends
    /\ Unreliable \in BOOLEAN

ASSUME BoundsAssumption == Capacity \in Nat /\ MaxCounter \in Nat

VARIABLES
    counter,   \* wt.counter
    mapAck,    \* keys of wt.mapAck
    chClosed,  \* acknowledgement channels that were closed
    closed,    \* wt.safeCloser
    sendPc,    \* where each caller is in Send
    local,     \* localCounter of the caller's last Send
    result,    \* what the Send with that counter returned (history)
    listenPc,  \* where the Listen goroutine is
    listenMsg, \* the last payload message it read
    handled,   \* what the payload handler was given and returned (history)
    written,   \* counters of the payloads written, in order (history)
    acked,     \* counters of the acknowledgements written (history)
    pipe,      \* pipe[e]: messages written by e and not yet read by Peer[e]
    conn,      \* conn[e]: wsConnClient.conn is not nil at e
    link       \* the network between the two ends works

transceiverVars == <<counter, mapAck, chClosed, closed>>
connVars == <<pipe, conn, link>>
sendVars == <<sendPc, local, result>>
listenVars == <<listenPc, listenMsg>>
vars == <<counter, mapAck, chClosed, closed, sendPc, local, result, listenPc, listenMsg,
          handled, written, acked, pipe, conn, link>>

Counters == 1..MaxCounter

Payload(n, withAck) == [type |-> "payload", counter |-> n, withAck |-> withAck]
Ack(n) == [type |-> "ack", counter |-> n, withAck |-> FALSE]
Other == [type |-> "other", counter |-> 0, withAck |-> FALSE]

Messages == [type : {"payload", "ack", "other"}, counter : 0..MaxCounter,
             withAck : BOOLEAN]

TypeOK ==
    /\ counter \in [Ends -> 0..MaxCounter]
    /\ mapAck \in [Ends -> SUBSET Counters]
    /\ chClosed \in [Ends -> SUBSET Counters]
    /\ closed \in [Ends -> BOOLEAN]
    /\ sendPc \in [Callers -> {"idle", "write", "wait"}]
    /\ local \in [Callers -> 0..MaxCounter]
    /\ result \in [Ends -> [Counters -> {"none", "ok", "error", "timeout", "closed"}]]
    /\ listenPc \in [Ends -> {"read", "process", "ack", "retry", "done"}]
    /\ listenMsg \in [Ends -> Messages]
    /\ handled \in [Ends -> Seq([counter : 0..MaxCounter, ok : BOOLEAN])]
    /\ written \in [Ends -> Seq(Counters)]
    /\ acked \in [Ends -> SUBSET (0..MaxCounter)]
    /\ pipe \in [Ends -> Seq(Messages)]
    /\ conn \in [Ends -> BOOLEAN]
    /\ link \in BOOLEAN

Init ==
    /\ counter = [e \in Ends |-> 0]
    /\ mapAck = [e \in Ends |-> {}]
    /\ chClosed = [e \in Ends |-> {}]
    /\ closed = [e \in Ends |-> FALSE]
    /\ sendPc = [c \in Callers |-> "idle"]
    /\ local = [c \in Callers |-> 0]
    /\ result = [e \in Ends |-> [n \in Counters |-> "none"]]
    /\ listenPc = [e \in Ends |-> "read"]
    /\ listenMsg = [e \in Ends |-> Other]
    /\ handled = [e \in Ends |-> <<>>]
    /\ written = [e \in Ends |-> <<>>]
    /\ acked = [e \in Ends |-> {}]
    /\ pipe = [e \in Ends |-> <<>>]
    /\ conn = [e \in Ends |-> TRUE]
    /\ link = TRUE

(***************************************************************************)
(* The connection: external, seen through wsConnClient.  A write on a      *)
(* working connection waits for room in the socket buffers; on a broken    *)
(* one it fails or, when the local socket has not noticed yet, vanishes.   *)
(***************************************************************************)
Up(e) == conn[e] /\ conn[Peer[e]] /\ link

HasRoom(e) == Len(pipe[e]) < Capacity

WriteDelivers(e, m) == Up(e) /\ HasRoom(e) /\ pipe' = [pipe EXCEPT ![e] = Append(@, m)]

WriteVanishes(e) == conn[e] /\ ~Up(e) /\ UNCHANGED pipe

WriteFails(e) == ~Up(e) /\ UNCHANGED pipe

(***************************************************************************)
(* Send                                                                    *)
(***************************************************************************)

\* What Send leaves in mapAck for the counter n it was given.
RegisterAck(e, n) == IF e \in AckEnds THEN mapAck[e] \cup {n} ELSE mapAck[e]

\* prepareChanAndCounter and ConstructPayload: counter and mapAck change together,
\* under mutMapAck.
PrepareSend(c) ==
    LET e == Home[c]
        n == counter[e] + 1
    IN  /\ sendPc[c] = "idle"
        /\ counter[e] < MaxCounter
        /\ counter' = [counter EXCEPT ![e] = n]
        /\ mapAck' = [mapAck EXCEPT ![e] = RegisterAck(e, n)]
        /\ sendPc' = [sendPc EXCEPT ![c] = "write"]
        /\ local' = [local EXCEPT ![c] = n]
        /\ UNCHANGED <<chClosed, closed, result, listenVars, handled, written, acked, connVars>>

Return(c, r) ==
    /\ sendPc' = [sendPc EXCEPT ![c] = "idle"]
    /\ result' = [result EXCEPT ![Home[c]][local[c]] = r]
    /\ UNCHANGED local

\* sendPayload, the write succeeded: without acknowledgement Send returns nil.
WritePayload(c) ==
    LET e == Home[c]
        n == local[c]
    IN  /\ sendPc[c] = "write"
        /\ \/ WriteDelivers(e, Payload(n, e \in AckEnds))
           \/ WriteVanishes(e)
        /\ written' = [written EXCEPT ![e] = Append(@, n)]
        /\ IF e \in AckEnds
             THEN sendPc' = [sendPc EXCEPT ![c] = "wait"] /\ UNCHANGED <<local, result>>
             ELSE Return(c, "ok")
        /\ UNCHANGED <<transceiverVars, listenVars, handled, acked, conn, link>>

\* sendPayload, the write failed: the error is returned and mapAck keeps the entry.
WritePayloadFails(c) ==
    /\ sendPc[c] = "write"
    /\ WriteFails(Home[c])
    /\ Return(c, "error")
    /\ UNCHANGED <<transceiverVars, listenVars, handled, written, acked, conn, link>>

\* waitForAck, a case of the select that is ready.
AckArrived(c) == local[c] \in chClosed[Home[c]]

WaitEnds(c, r) ==
    /\ sendPc[c] = "wait"
    /\ Return(c, r)
    /\ UNCHANGED <<transceiverVars, listenVars, handled, written, acked, connVars>>

\* Mutant: waitForAck has no timer.
NoAckTimeout(c) == FALSE /\ WaitEnds(c, "timeout")

AckReceived(c) == AckArrived(c) /\ WaitEnds(c, "ok")

AckTimeout(c) == WaitEnds(c, "timeout")

AckAbandoned(c) == closed[Home[c]] /\ WaitEnds(c, "closed")

(***************************************************************************)
(* Listen                                                                  *)
(***************************************************************************)

\* Mutant: the entry is not deleted.
EntryKept(e, n) == mapAck[e]

\* handleAckMessage: an unknown counter is ignored, a known one has its channel
\* closed and its entry deleted, under mutMapAck.
ResolvedEntries(e, n) == mapAck[e] \ {n}

HandleAckMessage(e, n) ==
    IF n \in mapAck[e]
      THEN /\ chClosed' = [chClosed EXCEPT ![e] = @ \cup {n}]
           /\ mapAck' = [mapAck EXCEPT ![e] = ResolvedEntries(e, n)]
      ELSE UNCHANGED <<chClosed, mapAck>>

\* Listen reads one message and verifyPayloadAndSendAckIfNeeded looks at its type.
ReadMessage(e) ==
    LET m == Head(pipe[Peer[e]])
    IN  /\ listenPc[e] = "read"
        /\ conn[e]
        /\ pipe[Peer[e]] # <<>>
        /\ pipe' = [pipe EXCEPT ![Peer[e]] = Tail(@)]
        /\ IF m.type = "ack" THEN HandleAckMessage(e, m.counter)
                             ELSE UNCHANGED <<chClosed, mapAck>>
        /\ IF m.type = "payload"
             THEN /\ listenPc' = [listenPc EXCEPT ![e] = "process"]
                  /\ listenMsg' = [listenMsg EXCEPT ![e] = m]
             ELSE UNCHANGED listenVars
        /\ UNCHANGED <<counter, closed, sendVars, handled, written, acked, conn, link>>

\* Mutants: blockingAckOnError is ignored, or taken to mean no acknowledgement at all.
AckWhateverTheError(e, m, ok) == m.withAck
NoAckWhenBlocking(e, m, ok) == m.withAck /\ e \notin BlockingEnds

\* Whether a payload the handler treated with outcome ok is acknowledged.
AckNeeded(e, m, ok) == m.withAck /\ (ok \/ e \notin BlockingEnds)

\* payloadHandler.ProcessPayload, and what follows from its result.
ProcessPayload(e) ==
    LET m == listenMsg[e]
    IN  /\ listenPc[e] = "process"
        /\ \E ok \in BOOLEAN :
             /\ handled' = [handled EXCEPT ![e] = Append(@, [counter |-> m.counter, ok |-> ok])]
             /\ listenPc' = [listenPc EXCEPT ![e] = IF AckNeeded(e, m, ok) THEN "ack" ELSE "read"]
        /\ UNCHANGED <<transceiverVars, sendVars, listenMsg, written, acked, connVars>>

\* sendAckIfNeeded: one turn of its loop, whose write succeeded.
WriteAck(e) ==
    LET n == listenMsg[e].counter
    IN  /\ listenPc[e] = "ack"
        /\ WriteDelivers(e, Ack(n)) \/ WriteVanishes(e)
        /\ acked' = [acked EXCEPT ![e] = @ \cup {n}]
        /\ listenPc' = [listenPc EXCEPT ![e] = "read"]
        /\ UNCHANGED <<transceiverVars, sendVars, listenMsg, handled, written, conn, link>>

\* One turn of the loop, whose write failed.
WriteAckFails(e) ==
    /\ listenPc[e] = "ack"
    /\ WriteFails(e)
    /\ listenPc' = [listenPc EXCEPT ![e] = "retry"]
    /\ UNCHANGED <<transceiverVars, sendVars, listenMsg, handled, written, acked, conn, link>>

\* Mutant: the retry treats the payload again.
RetryFromTheStart == "process"

\* The retry timer fired: the next turn writes the acknowledgement again.
AckRetryPoint == "ack"

RetryAck(e) ==
    /\ listenPc[e] = "retry"
    /\ listenPc' = [listenPc EXCEPT ![e] = AckRetryPoint]
    /\ UNCHANGED <<transceiverVars, sendVars, listenMsg, handled, written, acked, connVars>>

\* Mutant: the retry loop does not look at the safe closer.
NeverGiveUpAck(e) == FALSE /\ UNCHANGED vars

\* The safe closer was closed while the loop waited for the timer.
GiveUpAck(e) ==
    /\ listenPc[e] = "retry"
    /\ closed[e]
    /\ listenPc' = [listenPc EXCEPT ![e] = "read"]
    /\ UNCHANGED <<transceiverVars, sendVars, listenMsg, handled, written, acked, connVars>>

\* A read failed, once what was in flight is read: Listen returns.
ListenReturns(e) ==
    /\ listenPc[e] = "read"
    /\ ~conn[e] \/ (pipe[Peer[e]] = <<>> /\ ~Up(e))
    /\ listenPc' = [listenPc EXCEPT ![e] = "done"]
    /\ UNCHANGED <<transceiverVars, sendVars, listenMsg, handled, written, acked, connVars>>

(***************************************************************************)
(* Closing                                                                 *)
(***************************************************************************)

\* wsTransceiver.Close: the payload handler is closed, then the safe closer.
Close(e) ==
    /\ ~closed[e]
    /\ closed' = [closed EXCEPT ![e] = TRUE]
    /\ UNCHANGED <<counter, mapAck, chClosed, sendVars, listenVars, handled, written,
                   acked, connVars>>

\* A write that waits for room holds wsConnClient.mut.
WriteBlocked(e) ==
    /\ Up(e) /\ ~HasRoom(e)
    /\ listenPc[e] = "ack" \/ \E c \in Callers : Home[c] = e /\ sendPc[c] = "write"

\* wsConnClient.Close, called by the owner after wsTransceiver.Close, or by the
\* client's second goroutine after Listen returned.  What was not read is lost.
CloseConnection(e) ==
    /\ conn[e]
    /\ closed[e] \/ listenPc[e] = "done"
    /\ ~WriteBlocked(e)
    /\ conn' = [conn EXCEPT ![e] = FALSE]
    /\ pipe' = [pipe EXCEPT ![Peer[e]] = <<>>]
    /\ UNCHANGED <<transceiverVars, sendVars, listenVars, handled, written, acked, link>>

(***************************************************************************)
(* The environment                                                         *)
(***************************************************************************)

\* The network breaks: of what is in flight, some prefix still arrives.
Break ==
    /\ Unreliable /\ link
    /\ link' = FALSE
    /\ \E len \in [Ends -> 0..Capacity] :
         /\ \A e \in Ends : len[e] <= Len(pipe[e])
         /\ pipe' = [e \in Ends |-> SubSeq(pipe[e], 1, len[e])]
    /\ UNCHANGED <<transceiverVars, sendVars, listenVars, handled, written, acked, conn>>

\* The program at e repeats an acknowledgement, or writes another kind of message.  Bound:
\* these messages leave room for one of the transceiver, or they could starve it.
StrayMessage(e) ==
    /\ Len(pipe[e]) + 1 < Capacity
    /\ \E m \in {Ack(n) : n \in IF e \in RepeatingEnds THEN acked[e] ELSE {}}
                \cup (IF e \in OtherEnds THEN {Other} ELSE {}) : WriteDelivers(e, m)
    /\ UNCHANGED <<transceiverVars, sendVars, listenVars, handled, written, acked, conn, link>>

----------------------------------------------------------------------------

SendStep(c) ==
    \/ PrepareSend(c) \/ WritePayload(c) \/ WritePayloadFails(c)
    \/ AckReceived(c) \/ AckTimeout(c) \/ AckAbandoned(c)

ListenStep(e) ==
    \/ ReadMessage(e) \/ ProcessPayload(e) \/ WriteAck(e) \/ WriteAckFails(e)
    \/ RetryAck(e) \/ GiveUpAck(e) \/ ListenReturns(e)

Next ==
    \/ \E c \in Callers : SendStep(c)
    \/ \E e \in Ends : ListenStep(e) \/ Close(e) \/ CloseConnection(e) \/ StrayMessage(e)
    \/ Break

Spec == Init /\ [][Next]_vars

(***************************************************************************)
(* Fairness.  Goroutines are scheduled, timers fire and the payload        *)
(* handler returns.  A select with two ready cases picks either of them at *)
(* random, so a loop that keeps meeting a closed safe closer leaves.  The  *)
(* owner's Close goes on to close the connection.                          *)
(***************************************************************************)
Fairness ==
    /\ \A c \in Callers :
         /\ WF_vars(WritePayload(c) \/ WritePayloadFails(c))
         /\ WF_vars(AckReceived(c) \/ AckTimeout(c) \/ AckAbandoned(c))
    /\ \A e \in Ends :
         /\ WF_vars(ListenStep(e))
         /\ SF_vars(GiveUpAck(e))
         /\ WF_vars(closed[e] /\ CloseConnection(e))

FairSpec == Spec /\ Fairness

(***************************************************************************)
(* Properties                                                              *)
(***************************************************************************)

\* Counters of the payloads that e's handler was given and that e may acknowledge:
\* with blockingAckOnError only those it treated without error.
Acceptable(e) ==
    {handled[e][i].counter :
        i \in {j \in DOMAIN handled[e] : handled[e][j].ok \/ e \notin BlockingEnds}}

\* A Send of a transceiver with acknowledgements that returned nil had its payload
\* given to the handler of the other end and, when that end has blockingAckOnError,
\* treated without error (data/operations.go: the acknowledgement is sent "only if the
\* processing part of a message succeeds").  Late, lost and repeated acknowledgements,
\* timeouts, a broken connection and Close never make Send report a false success.
AckMeansHandled ==
    \A e \in AckEnds : \A n \in Counters :
        result[e][n] = "ok" => n \in Acceptable(Peer[e])

\* mapAck holds exactly the channels that were made and never closed: handleAckMessage
\* cannot close a channel twice (a panic), and no acknowledgement is lost because its
\* entry vanished, whatever happened to the Send that made it.
ChannelAccounting ==
    \A e \in AckEnds : mapAck[e] = (1..counter[e]) \ chClosed[e]

\* What an end's handler was given is, in order and without gap or repetition, a prefix
\* of what the other end wrote: the retries of sendAckIfNeeded never treat a payload
\* again and Listen never reorders payloads of concurrent Sends.
HandledIsPrefixOfWritten ==
    \A e \in Ends :
        /\ Len(handled[e]) <= Len(written[Peer[e]])
        /\ \A i \in DOMAIN handled[e] : handled[e][i].counter = written[Peer[e]][i]

\* Every Send returns, whether its acknowledgement arrives, is lost or is never sent.
SendReturns == \A c \in Callers : sendPc[c] # "idle" ~> sendPc[c] = "idle"

\* While the connection works, a payload that may be acknowledged has its
\* acknowledgement resolved in the sender's mapAck, after a timeout too.
HandledIsAcked ==
    \A e \in AckEnds : \A n \in Counters :
        n \in Acceptable(Peer[e]) ~> (n \notin mapAck[e] \/ ~Up(e))

\* Close makes Listen return, also out of the retries of an acknowledgement.
CloseEndsListen == \A e \in Ends : closed[e] ~> listenPc[e] = "done"

\* The abstract specification, for the ends with acknowledgements: mapAck, its channels,
\* the connection and its losses are gone, what the two programs see is left.
Abstract == INSTANCE AckDelivery WITH
    Senders <- AckEnds,
    Numbers <- Counters,
    Strict <- {e \in AckEnds : Peer[e] \in BlockingEnds},
    offered <- [e \in AckEnds |-> counter[e]],
    delivered <- [e \in AckEnds |-> handled[Peer[e]]],
    result <- [e \in AckEnds |-> result[e]]

\* Two transceivers implement acknowledged delivery: over repeated acknowledgements,
\* retried writes, a broken connection and Close no payload is treated twice, no Send
\* returns twice, and no success is reported for what was not treated
\* (transceiver.go:90-230).
ImplementsAckDelivery == Abstract!Spec
============================================================================
