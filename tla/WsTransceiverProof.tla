------------------------ MODULE WsTransceiverProof ------------------------
(***************************************************************************)
(* For every set of callers, every capacity and every number of Sends: the *)
(* types of the two transceivers' state, the accounting of acknowledgement *)
(* channels, and that a Send returning nil had its payload handled.        *)
(***************************************************************************)
EXTENDS WsTransceiver, SequenceTheorems, TLAPS

\* A call in progress holds a counter its transceiver has given out.
CallsHoldCounters ==
    \A c \in Callers : sendPc[c] # "idle" => local[c] \in 1..counter[Home[c]]

\* Every channel was made for a counter that was given out.
ChannelsMade == \A e \in Ends : mapAck[e] \cup chClosed[e] \subseteq 1..counter[e]

\* Every acknowledgement written, in flight or about to be written is for a payload
\* its end may acknowledge.
PipeJustified(e) ==
    \A i \in DOMAIN pipe[e] : pipe[e][i].type = "ack" => pipe[e][i].counter \in Acceptable(e)

ListenJustified(e) == listenPc[e] \in {"ack", "retry"} => listenMsg[e].counter \in Acceptable(e)

AcksJustified ==
    \A e \in Ends : acked[e] \subseteq Acceptable(e) /\ ListenJustified(e) /\ PipeJustified(e)

\* A channel is closed only for such a payload, and a nil result needs a closed channel.
SuccessJustified ==
    \A e \in Ends :
        /\ chClosed[e] \subseteq Acceptable(Peer[e])
        /\ e \in AckEnds => \A n \in Counters : result[e][n] = "ok" => n \in chClosed[e]

IInv ==
    /\ TypeOK /\ ChannelAccounting /\ CallsHoldCounters /\ ChannelsMade
    /\ AcksJustified /\ SuccessJustified

ListenPcs == {"read", "process", "ack", "retry", "done"}

\* The initial state satisfies the inductive invariant.
LEMMA InitIInv == Init => IInv
  BY EndsAssumption, CallersAssumption, SetsAssumption, BoundsAssumption
  DEF Init, IInv, TypeOK, ChannelAccounting, CallsHoldCounters, ChannelsMade, AcksJustified,
      ListenJustified, PipeJustified, SuccessJustified, Counters, Other, Messages, Acceptable

\* The three kinds of message are messages.
LEMMA MessageType ==
    /\ \A n \in 0..MaxCounter : Ack(n) \in Messages
    /\ \A n \in 0..MaxCounter : \A w \in BOOLEAN : Payload(n, w) \in Messages
    /\ Other \in Messages
  BY BoundsAssumption DEF Ack, Payload, Other, Messages

\* A delivered write keeps the type of the pipes.
LEMMA WriteType ==
  ASSUME TypeOK, NEW e \in Ends, NEW m \in Messages, WriteDelivers(e, m)
  PROVE  pipe' \in [Ends -> Seq(Messages)]
  BY DEF TypeOK, WriteDelivers

\* A Send that returns keeps the types, provided it holds a counter that was given out.
LEMMA ReturnType ==
  ASSUME TypeOK, NEW c \in Callers, local[c] \in Counters, Return(c, "ok") \/ Return(c, "error")
                 \/ Return(c, "timeout") \/ Return(c, "closed")
  PROVE  /\ sendPc' \in [Callers -> {"idle", "write", "wait"}]
         /\ local' \in [Callers -> 0..MaxCounter]
         /\ result' \in [Ends -> [Counters -> {"none", "ok", "error", "timeout", "closed"}]]
<1> DEFINE R == {"none", "ok", "error", "timeout", "closed"}
<1>1. PICK r \in R : Return(c, r)
  OBVIOUS
<1>2. result \in [Ends -> [Counters -> R]] /\ Home[c] \in Ends
  BY CallersAssumption DEF TypeOK
<1>3. [result[Home[c]] EXCEPT ![local[c]] = r] \in [Counters -> R]
  BY <1>2
<1>4. result' \in [Ends -> [Counters -> R]]
  BY <1>1, <1>2, <1>3 DEF Return
<1>5. sendPc' \in [Callers -> {"idle", "write", "wait"}] /\ local' \in [Callers -> 0..MaxCounter]
  BY <1>1 DEF Return, TypeOK
<1> QED BY <1>4, <1>5

\* Every step keeps the types (a payload written carries a counter that was given out).
LEMMA TypeStep == TypeOK /\ CallsHoldCounters /\ [Next]_vars => TypeOK'
<1> SUFFICES ASSUME TypeOK, CallsHoldCounters, [Next]_vars
             PROVE  TypeOK'
  OBVIOUS
<1>home. \A c \in Callers : Home[c] \in Ends
  BY CallersAssumption
<1>peer. \A e \in Ends : Peer[e] \in Ends
  BY EndsAssumption
<1>loc. \A c \in Callers : sendPc[c] # "idle" => local[c] \in Counters
  BY <1>home, BoundsAssumption DEF CallsHoldCounters, TypeOK, Counters
<1>msg. \A e \in Ends : listenMsg[e].counter \in 0..MaxCounter
  BY DEF TypeOK, Messages
<1>1. ASSUME NEW c \in Callers, PrepareSend(c) PROVE TypeOK'
  <2>1. counter[Home[c]] + 1 \in Counters /\ Home[c] \in Ends
    BY <1>1, <1>home, BoundsAssumption DEF PrepareSend, TypeOK, Counters
  <2>2. counter' \in [Ends -> 0..MaxCounter] /\ local' \in [Callers -> 0..MaxCounter]
    BY <1>1, <2>1 DEF PrepareSend, TypeOK, Counters
  <2>3. RegisterAck(Home[c], counter[Home[c]] + 1) \in SUBSET Counters
    BY <2>1 DEF RegisterAck, TypeOK
  <2>4. mapAck' \in [Ends -> SUBSET Counters]
    BY <1>1, <2>3 DEF PrepareSend, TypeOK
  <2>5. sendPc' \in [Callers -> {"idle", "write", "wait"}]
    BY <1>1 DEF PrepareSend, TypeOK
  <2>6. UNCHANGED <<chClosed, closed, result, listenPc, listenMsg, handled, written, acked,
                    pipe, conn, link>>
    BY <1>1 DEF PrepareSend, connVars, listenVars
  <2> QED BY <2>2, <2>4, <2>5, <2>6 DEF TypeOK
<1>2. ASSUME NEW c \in Callers, WritePayload(c) PROVE TypeOK'
  <2>1. local[c] \in Counters /\ Home[c] \in Ends
    BY <1>2, <1>loc, <1>home DEF WritePayload
  <2>2. written' \in [Ends -> Seq(Counters)]
    BY <1>2, <2>1 DEF WritePayload, TypeOK
  <2>3. Payload(local[c], Home[c] \in AckEnds) \in Messages
    <3>1. local[c] \in 0..MaxCounter
      BY <2>1, BoundsAssumption DEF Counters
    <3>2. (Home[c] \in AckEnds) \in BOOLEAN
      OBVIOUS
    <3> QED BY <3>1, <3>2, MessageType, Zenon
  <2>4. WriteDelivers(Home[c], Payload(local[c], Home[c] \in AckEnds)) \/ UNCHANGED pipe
    BY <1>2 DEF WritePayload, WriteVanishes
  <2>5. pipe' \in [Ends -> Seq(Messages)]
    BY <2>1, <2>3, <2>4, WriteType DEF TypeOK
  <2>6. CASE Return(c, "ok")
    <3>1. UNCHANGED <<counter, mapAck, chClosed, closed, listenPc, listenMsg, handled, acked,
                      conn, link>>
      BY <1>2 DEF WritePayload, transceiverVars, listenVars
    <3> QED BY <2>1, <2>2, <2>5, <2>6, <3>1, ReturnType DEF TypeOK
  <2>7. CASE sendPc' = [sendPc EXCEPT ![c] = "wait"] /\ UNCHANGED <<local, result>>
    <3>1. UNCHANGED <<counter, mapAck, chClosed, closed, listenPc, listenMsg, handled, acked,
                      conn, link>>
      BY <1>2 DEF WritePayload, transceiverVars, listenVars
    <3> QED BY <2>2, <2>5, <2>7, <3>1 DEF TypeOK
  <2> QED BY <1>2, <2>6, <2>7 DEF WritePayload
<1>3. ASSUME NEW c \in Callers, WritePayloadFails(c) PROVE TypeOK'
  <2>1. local[c] \in Counters /\ Return(c, "error")
    BY <1>3, <1>loc DEF WritePayloadFails
  <2>2. UNCHANGED <<counter, mapAck, chClosed, closed, listenPc, listenMsg, handled, written,
                    acked, pipe, conn, link>>
    BY <1>3 DEF WritePayloadFails, WriteFails, transceiverVars, listenVars
  <2> QED BY <2>1, <2>2, ReturnType DEF TypeOK
<1>4. ASSUME NEW c \in Callers, AckReceived(c) \/ AckTimeout(c) \/ AckAbandoned(c)
      PROVE  TypeOK'
  <2>1. PICK r \in {"ok", "timeout", "closed"} : WaitEnds(c, r)
    BY <1>4 DEF AckReceived, AckTimeout, AckAbandoned
  <2>2. local[c] \in Counters /\ Return(c, r)
    BY <2>1, <1>loc DEF WaitEnds
  <2>3. UNCHANGED <<counter, mapAck, chClosed, closed, listenPc, listenMsg, handled, written,
                    acked, pipe, conn, link>>
    BY <2>1 DEF WaitEnds, transceiverVars, listenVars, connVars
  <2> QED BY <2>2, <2>3, ReturnType DEF TypeOK
<1>5. ASSUME NEW e \in Ends, ReadMessage(e) PROVE TypeOK'
  <2>1. Peer[e] \in Ends /\ pipe[Peer[e]] \in Seq(Messages) /\ pipe[Peer[e]] # <<>>
    BY <1>5, <1>peer DEF ReadMessage, TypeOK
  <2>2. Head(pipe[Peer[e]]) \in Messages /\ Tail(pipe[Peer[e]]) \in Seq(Messages)
    BY <2>1
  <2>3. pipe' \in [Ends -> Seq(Messages)]
    BY <1>5, <2>1, <2>2 DEF ReadMessage, TypeOK
  <2>4. \/ UNCHANGED <<chClosed, mapAck>>
        \/ HandleAckMessage(e, Head(pipe[Peer[e]]).counter)
    BY <1>5 DEF ReadMessage
  <2>5. /\ mapAck' \in [Ends -> SUBSET Counters]
        /\ chClosed' \in [Ends -> SUBSET Counters]
    <3>1. CASE UNCHANGED <<chClosed, mapAck>>
      BY <3>1 DEF TypeOK
    <3>2. CASE HandleAckMessage(e, Head(pipe[Peer[e]]).counter)
      <4> DEFINE n == Head(pipe[Peer[e]]).counter
      <4>1. mapAck \in [Ends -> SUBSET Counters] /\ chClosed \in [Ends -> SUBSET Counters]
        BY DEF TypeOK
      <4>2. CASE n \in mapAck[e]
        <5>1. mapAck[e] \ {n} \in SUBSET Counters /\ chClosed[e] \cup {n} \in SUBSET Counters
          BY <4>1, <4>2
        <5> QED BY <3>2, <4>1, <4>2, <5>1 DEF HandleAckMessage, ResolvedEntries
      <4> QED BY <3>2, <4>1, <4>2 DEF HandleAckMessage
    <3> QED BY <2>4, <3>1, <3>2
  <2>6. \/ UNCHANGED listenVars
        \/ /\ listenPc' = [listenPc EXCEPT ![e] = "process"]
           /\ listenMsg' = [listenMsg EXCEPT ![e] = Head(pipe[Peer[e]])]
    BY <1>5 DEF ReadMessage
  <2>7. listenPc' \in [Ends -> ListenPcs] /\ listenMsg' \in [Ends -> Messages]
    <3>1. listenPc \in [Ends -> ListenPcs] /\ listenMsg \in [Ends -> Messages]
      BY DEF TypeOK, ListenPcs
    <3> QED BY <2>2, <2>6, <3>1 DEF listenVars, ListenPcs
  <2>8. UNCHANGED <<counter, closed, sendPc, local, result, handled, written, acked, conn, link>>
    BY <1>5 DEF ReadMessage, sendVars
  <2> QED BY <2>3, <2>5, <2>7, <2>8 DEF TypeOK, ListenPcs
<1>6. ASSUME NEW e \in Ends, ProcessPayload(e) PROVE TypeOK'
  <2>1. PICK ok \in BOOLEAN :
          /\ handled' = [handled EXCEPT ![e] =
                           Append(@, [counter |-> listenMsg[e].counter, ok |-> ok])]
          /\ listenPc' = [listenPc EXCEPT ![e] =
                           IF AckNeeded(e, listenMsg[e], ok) THEN "ack" ELSE "read"]
    BY <1>6 DEF ProcessPayload
  <2>2. [counter |-> listenMsg[e].counter, ok |-> ok] \in [counter : 0..MaxCounter, ok : BOOLEAN]
    BY <1>msg
  <2>3. handled' \in [Ends -> Seq([counter : 0..MaxCounter, ok : BOOLEAN])]
    <3> DEFINE R == [counter : 0..MaxCounter, ok : BOOLEAN]
    <3>1. handled \in [Ends -> Seq(R)]
      BY DEF TypeOK
    <3>2. Append(handled[e], [counter |-> listenMsg[e].counter, ok |-> ok]) \in Seq(R)
      <4> DEFINE r == [counter |-> listenMsg[e].counter, ok |-> ok]
      <4>1. r \in R
        BY <2>2
      <4>2. handled[e] \in Seq(R)
        BY <3>1
      <4> HIDE DEF r, R
      <4>3. Append(handled[e], r) \in Seq(R)
        BY <4>1, <4>2
      <4> QED BY <4>3 DEF r
    <3> QED BY <2>1, <3>1, <3>2
  <2>4. listenPc' \in [Ends -> ListenPcs]
    BY <2>1 DEF TypeOK, ListenPcs
  <2>5. UNCHANGED <<counter, mapAck, chClosed, closed, sendPc, local, result, listenMsg, written,
                    acked, pipe, conn, link>>
    BY <1>6 DEF ProcessPayload, transceiverVars, sendVars, connVars
  <2> QED BY <2>3, <2>4, <2>5 DEF TypeOK, ListenPcs
<1>7. ASSUME NEW e \in Ends, WriteAck(e) PROVE TypeOK'
  <2>1. Ack(listenMsg[e].counter) \in Messages
    BY <1>msg, MessageType
  <2>2. pipe' \in [Ends -> Seq(Messages)]
    BY <1>7, <2>1, WriteType DEF WriteAck, WriteVanishes, TypeOK
  <2>3. listenPc' \in [Ends -> ListenPcs] /\ acked' \in [Ends -> SUBSET (0..MaxCounter)]
    BY <1>7, <1>msg DEF WriteAck, TypeOK, ListenPcs
  <2>4. UNCHANGED <<counter, mapAck, chClosed, closed, sendPc, local, result, listenMsg, handled,
                    written, conn, link>>
    BY <1>7 DEF WriteAck, transceiverVars, sendVars
  <2> QED BY <2>2, <2>3, <2>4 DEF TypeOK, ListenPcs
<1>8. ASSUME NEW e \in Ends,
             WriteAckFails(e) \/ RetryAck(e) \/ GiveUpAck(e) \/ ListenReturns(e)
      PROVE  TypeOK'
  <2>1. listenPc' \in [Ends -> ListenPcs]
    <3>1. \E pc \in ListenPcs : listenPc' = [listenPc EXCEPT ![e] = pc]
      BY <1>8 DEF WriteAckFails, RetryAck, AckRetryPoint, GiveUpAck, ListenReturns, ListenPcs
    <3> QED
      BY <3>1 DEF TypeOK, ListenPcs
  <2>2. UNCHANGED <<counter, mapAck, chClosed, closed, sendPc, local, result, listenMsg, handled,
                    written, acked, pipe, conn, link>>
    BY <1>8 DEF WriteAckFails, WriteFails, RetryAck, GiveUpAck, ListenReturns, transceiverVars,
                sendVars, connVars
  <2> QED BY <2>1, <2>2 DEF TypeOK, ListenPcs
<1>9. ASSUME NEW e \in Ends, Close(e) PROVE TypeOK'
  BY <1>9 DEF Close, connVars, sendVars, listenVars, TypeOK
<1>10. ASSUME NEW e \in Ends, CloseConnection(e) PROVE TypeOK'
  <2>1. pipe' \in [Ends -> Seq(Messages)] /\ conn' \in [Ends -> BOOLEAN]
    BY <1>10, <1>peer DEF CloseConnection, TypeOK
  <2>2. UNCHANGED <<counter, mapAck, chClosed, closed, sendPc, local, result, listenPc, listenMsg,
                    handled, written, acked, link>>
    BY <1>10 DEF CloseConnection, transceiverVars, sendVars, listenVars
  <2> QED BY <2>1, <2>2 DEF TypeOK
<1>11. ASSUME NEW e \in Ends, StrayMessage(e) PROVE TypeOK'
  <2>1. acked[e] \subseteq 0..MaxCounter
    BY DEF TypeOK
  <2>2. PICK m \in Messages : WriteDelivers(e, m)
    BY <1>11, <2>1, MessageType DEF StrayMessage
  <2>3. pipe' \in [Ends -> Seq(Messages)]
    BY <2>2, WriteType
  <2>4. UNCHANGED <<counter, mapAck, chClosed, closed, sendPc, local, result, listenPc, listenMsg,
                    handled, written, acked, conn, link>>
    BY <1>11 DEF StrayMessage, transceiverVars, sendVars, listenVars
  <2> QED BY <2>3, <2>4 DEF TypeOK
<1>12. CASE Break
  <2>1. PICK len \in [Ends -> 0..Capacity] :
          /\ \A e \in Ends : len[e] <= Len(pipe[e])
          /\ pipe' = [e \in Ends |-> SubSeq(pipe[e], 1, len[e])]
    BY <1>12 DEF Break
  <2>2. \A e \in Ends : SubSeq(pipe[e], 1, len[e]) \in Seq(Messages)
    BY <2>1, SubSeqProperties, BoundsAssumption DEF TypeOK
  <2>3. UNCHANGED <<counter, mapAck, chClosed, closed, sendPc, local, result, listenPc, listenMsg,
                    handled, written, acked, conn>> /\ link' = FALSE
    BY <1>12 DEF Break, transceiverVars, sendVars, listenVars
  <2> QED BY <2>1, <2>2, <2>3 DEF TypeOK
<1>13. CASE UNCHANGED vars
  BY <1>13 DEF vars, TypeOK
<1> QED
  BY <1>1, <1>2, <1>3, <1>4, <1>5, <1>6, <1>7, <1>8, <1>9, <1>10, <1>11, <1>12, <1>13
     DEF Next, SendStep, ListenStep

\* Only ProcessPayload changes the handler's history, and it only adds to it.
LEMMA HandledStep ==
  ASSUME TypeOK, [Next]_vars
  PROVE  \/ UNCHANGED handled
         \/ \E e \in Ends, ok \in BOOLEAN :
              /\ ProcessPayload(e)
              /\ handled' = [handled EXCEPT ![e] =
                               Append(@, [counter |-> listenMsg[e].counter, ok |-> ok])]
  BY DEF Next, SendStep, ListenStep, PrepareSend, WritePayload, WritePayloadFails, AckReceived,
         AckTimeout, AckAbandoned, WaitEnds, ReadMessage, ProcessPayload, WriteAck, WriteAckFails,
         RetryAck, GiveUpAck, ListenReturns, Close, CloseConnection, Break, StrayMessage, vars

\* What an end may acknowledge only grows.
LEMMA AcceptableGrows ==
  ASSUME TypeOK, [Next]_vars
  PROVE  \A e \in Ends : Acceptable(e) \subseteq Acceptable(e)'
<1>1. CASE UNCHANGED handled
  BY <1>1 DEF Acceptable
<1>2. ASSUME NEW e \in Ends, NEW ok \in BOOLEAN,
             handled' = [handled EXCEPT ![e] =
                           Append(@, [counter |-> listenMsg[e].counter, ok |-> ok])]
      PROVE  \A f \in Ends : Acceptable(f) \subseteq Acceptable(f)'
  <2> SUFFICES ASSUME NEW f \in Ends, NEW i \in DOMAIN handled[f],
                      handled[f][i].ok \/ f \notin BlockingEnds
               PROVE  /\ i \in DOMAIN handled'[f]
                      /\ handled'[f][i] = handled[f][i]
    BY DEF Acceptable
  <2> DEFINE R == [counter : 0..MaxCounter, ok : BOOLEAN]
             r == [counter |-> listenMsg[e].counter, ok |-> ok]
  <2>1. handled \in [Ends -> Seq(R)] /\ r \in R
    BY DEF TypeOK, Messages
  <2>2. handled' = [handled EXCEPT ![e] = Append(@, r)]
    BY <1>2
  <2> HIDE DEF R, r
  <2>3. CASE f = e
    BY <2>1, <2>2, <2>3
  <2>4. CASE f # e
    BY <2>1, <2>2, <2>4
  <2> QED BY <2>3, <2>4
<1> QED BY <1>1, <1>2, HandledStep

\* A payload whose treatment leads to an acknowledgement may be acknowledged.
LEMMA ProcessJustifies ==
  ASSUME TypeOK, NEW e \in Ends, ProcessPayload(e), listenPc'[e] \in {"ack", "retry"}
  PROVE  listenMsg[e].counter \in Acceptable(e)'
<1>1. PICK ok \in BOOLEAN :
        /\ handled' = [handled EXCEPT ![e] =
                         Append(@, [counter |-> listenMsg[e].counter, ok |-> ok])]
        /\ listenPc' = [listenPc EXCEPT ![e] =
                         IF AckNeeded(e, listenMsg[e], ok) THEN "ack" ELSE "read"]
  BY DEF ProcessPayload
<1>2. ok \/ e \notin BlockingEnds
  BY <1>1 DEF AckNeeded, TypeOK
<1> DEFINE R == [counter : 0..MaxCounter, ok : BOOLEAN]
           r == [counter |-> listenMsg[e].counter, ok |-> ok]
           k == Len(handled[e]) + 1
<1>3. handled \in [Ends -> Seq(R)] /\ r \in R /\ handled' = [handled EXCEPT ![e] = Append(@, r)]
  BY <1>1 DEF TypeOK, Messages
<1> HIDE DEF R
<1>4. k \in DOMAIN handled'[e] /\ handled'[e][k] = r
  <2> HIDE DEF r
  <2> QED BY <1>3
<1> QED BY <1>2, <1>4 DEF Acceptable

\* mapAck, chClosed and counter change only when Send registers a channel and when
\* Listen resolves an acknowledgement.
LEMMA ChannelStep ==
  ASSUME [Next]_vars
  PROVE  \/ UNCHANGED <<counter, mapAck, chClosed>>
         \/ \E c \in Callers : PrepareSend(c)
         \/ \E e \in Ends : ReadMessage(e) /\ HandleAckMessage(e, Head(pipe[Peer[e]]).counter)
                            /\ Head(pipe[Peer[e]]).type = "ack"
  BY DEF Next, SendStep, ListenStep, WritePayload, WritePayloadFails, AckReceived,
         AckTimeout, AckAbandoned, WaitEnds, ReadMessage, ProcessPayload, WriteAck, WriteAckFails,
         RetryAck, GiveUpAck, ListenReturns, Close, CloseConnection, Break, StrayMessage, vars,
         transceiverVars

\* Channels are made once, closed once and never lost.
LEMMA ChannelsPreserved ==
  ASSUME TypeOK, ChannelAccounting, ChannelsMade, [Next]_vars
  PROVE  ChannelAccounting' /\ ChannelsMade'
<1>t. /\ counter \in [Ends -> Nat]
      /\ mapAck \in [Ends -> SUBSET Nat] /\ chClosed \in [Ends -> SUBSET Nat]
  BY BoundsAssumption DEF TypeOK, Counters
<1>1. CASE UNCHANGED <<counter, mapAck, chClosed>>
  BY <1>1 DEF ChannelAccounting, ChannelsMade
<1>2. ASSUME NEW c \in Callers, PrepareSend(c)
      PROVE  ChannelAccounting' /\ ChannelsMade'
  <2> DEFINE h == Home[c]
             n == counter[h] + 1
  <2>1. h \in Ends /\ n \in Nat \ {0}
    BY <1>t, CallersAssumption
  <2>2. /\ counter' = [counter EXCEPT ![h] = n]
        /\ mapAck' = [mapAck EXCEPT ![h] = RegisterAck(h, n)]
        /\ chClosed' = chClosed
    BY <1>2 DEF PrepareSend
  <2>3. ASSUME NEW f \in Ends, f # h
        PROVE  counter'[f] = counter[f] /\ mapAck'[f] = mapAck[f] /\ chClosed'[f] = chClosed[f]
    BY <1>t, <2>2, <2>3
  <2>4. counter'[h] = n /\ mapAck'[h] = RegisterAck(h, n) /\ chClosed'[h] = chClosed[h]
    BY <1>t, <2>1, <2>2
  <2>5. 1..n = (1..counter[h]) \cup {n} /\ n \notin 1..counter[h]
    BY <1>t, <2>1
  <2>6. n \notin chClosed[h]
    BY <2>1, <2>5 DEF ChannelsMade
  <2>7. mapAck'[h] \cup chClosed'[h] \subseteq 1..counter'[h]
    BY <2>1, <2>4, <2>5 DEF ChannelsMade, RegisterAck
  <2>8. h \in AckEnds => mapAck'[h] = (1..counter'[h]) \ chClosed'[h]
    BY <2>1, <2>4, <2>5, <2>6 DEF ChannelAccounting, RegisterAck
  <2> QED BY <2>3, <2>7, <2>8, SetsAssumption DEF ChannelAccounting, ChannelsMade
<1>3. ASSUME NEW e \in Ends, ReadMessage(e), HandleAckMessage(e, Head(pipe[Peer[e]]).counter)
      PROVE  ChannelAccounting' /\ ChannelsMade'
  <2> DEFINE n == Head(pipe[Peer[e]]).counter
  <2>1. counter' = counter
    BY <1>3 DEF ReadMessage
  <2>2. CASE n \notin mapAck[e]
    BY <1>3, <2>1, <2>2 DEF HandleAckMessage, ChannelAccounting, ChannelsMade
  <2>3. CASE n \in mapAck[e]
    <3> HIDE DEF n
    <3>1. /\ chClosed' = [chClosed EXCEPT ![e] = @ \cup {n}]
          /\ mapAck' = [mapAck EXCEPT ![e] = mapAck[e] \ {n}]
      BY <1>3, <2>3 DEF HandleAckMessage, ResolvedEntries, n
    <3>2. \A f \in Ends : f # e => mapAck'[f] = mapAck[f] /\ chClosed'[f] = chClosed[f]
      BY <1>t, <3>1
    <3>3. mapAck'[e] = mapAck[e] \ {n} /\ chClosed'[e] = chClosed[e] \cup {n}
      BY <1>t, <3>1
    <3> QED BY <2>1, <2>3, <3>2, <3>3, SetsAssumption DEF ChannelAccounting, ChannelsMade
  <2> QED BY <2>2, <2>3
<1> QED BY <1>1, <1>2, <1>3, ChannelStep

\* A Send keeps its counter until it returns, and counters only grow.
LEMMA CallsPreserved ==
  ASSUME TypeOK, CallsHoldCounters, [Next]_vars
  PROVE  CallsHoldCounters'
<1>t. counter \in [Ends -> Nat] /\ \A c \in Callers : Home[c] \in Ends
  BY BoundsAssumption, CallersAssumption DEF TypeOK
<1>1. ASSUME NEW c \in Callers, PrepareSend(c) PROVE CallsHoldCounters'
  <2>1. \A f \in Ends : counter'[f] \in Nat /\ counter[f] <= counter'[f]
    BY <1>1, <1>t DEF PrepareSend
  <2>2. local'[c] \in 1..counter'[Home[c]]
    BY <1>1, <1>t DEF PrepareSend, TypeOK
  <2>3. \A d \in Callers : d # c => sendPc'[d] = sendPc[d] /\ local'[d] = local[d]
    BY <1>1 DEF PrepareSend, TypeOK
  <2> QED BY <1>t, <2>1, <2>2, <2>3 DEF CallsHoldCounters
<1>2. ASSUME NEW c \in Callers, \/ WritePayload(c) \/ WritePayloadFails(c)
                                \/ AckReceived(c) \/ AckTimeout(c) \/ AckAbandoned(c)
      PROVE  CallsHoldCounters'
  <2>1. UNCHANGED <<counter, local>> /\ sendPc[c] # "idle"
    BY <1>2 DEF WritePayload, WritePayloadFails, AckReceived, AckTimeout, AckAbandoned, WaitEnds,
                Return, transceiverVars
  <2>2. \A d \in Callers : d # c => sendPc'[d] = sendPc[d]
    BY <1>2 DEF WritePayload, WritePayloadFails, AckReceived, AckTimeout, AckAbandoned, WaitEnds,
                Return, TypeOK
  <2> QED BY <2>1, <2>2 DEF CallsHoldCounters
<1>3. CASE UNCHANGED <<counter, local, sendPc>>
  BY <1>3 DEF CallsHoldCounters
<1> QED
  BY <1>1, <1>2, <1>3
  DEF Next, SendStep, ListenStep, ReadMessage, ProcessPayload, WriteAck, WriteAckFails,
      RetryAck, GiveUpAck, ListenReturns, Close, CloseConnection, Break, StrayMessage, vars,
      transceiverVars, sendVars

\* Writing a justified message keeps what is in flight justified.
LEMMA WriteJustified ==
  ASSUME TypeOK, [Next]_vars, AcksJustified,
         NEW e \in Ends, NEW m \in Messages, WriteDelivers(e, m),
         m.type = "ack" => m.counter \in Acceptable(e)
  PROVE  \A f \in Ends : PipeJustified(f)'
<1>1. pipe \in [Ends -> Seq(Messages)] /\ pipe' = [pipe EXCEPT ![e] = Append(@, m)]
  BY DEF TypeOK, WriteDelivers
<1>2. \A f \in Ends : Acceptable(f) \subseteq Acceptable(f)'
  BY AcceptableGrows
<1>3. \A f \in Ends : PipeJustified(f)
  BY DEF AcksJustified
<1>4. ASSUME NEW f \in Ends, NEW i \in DOMAIN pipe'[f]
      PROVE  \/ pipe'[f][i] = m /\ f = e
             \/ i \in DOMAIN pipe[f] /\ pipe'[f][i] = pipe[f][i]
  <2>1. CASE f = e
    <3>1. pipe[f] \in Seq(Messages) /\ pipe'[f] = Append(pipe[f], m)
      BY <1>1, <2>1
    <3>2. i \in 1..(Len(pipe[f]) + 1)
      BY <1>4, <3>1
    <3>3. CASE i = Len(pipe[f]) + 1
      BY <2>1, <3>1, <3>3
    <3>4. CASE i \in 1..Len(pipe[f])
      BY <3>1, <3>4
    <3> QED BY <3>1, <3>2, <3>3, <3>4
  <2>2. CASE f # e
    BY <1>1, <1>4, <2>2
  <2> QED BY <2>1, <2>2
<1> QED BY <1>2, <1>3, <1>4 DEF PipeJustified

\* Reading, dropping or losing messages keeps what is in flight justified.
LEMMA RemovalJustified ==
  ASSUME TypeOK, [Next]_vars, AcksJustified,
         \A f \in Ends : \A i \in DOMAIN pipe'[f] : \E j \in DOMAIN pipe[f] :
            pipe'[f][i] = pipe[f][j]
  PROVE  \A f \in Ends : PipeJustified(f)'
<1>1. \A f \in Ends : Acceptable(f) \subseteq Acceptable(f)' /\ PipeJustified(f)
  BY AcceptableGrows DEF AcksJustified
<1> QED BY <1>1 DEF PipeJustified

\* Every acknowledgement written, in flight or about to be written stays justified.
LEMMA AcksPreserved ==
  ASSUME TypeOK, CallsHoldCounters, AcksJustified, [Next]_vars
  PROVE  AcksJustified'
<1>g. \A f \in Ends : Acceptable(f) \subseteq Acceptable(f)'
  BY AcceptableGrows
<1>p. UNCHANGED pipe => \A f \in Ends : PipeJustified(f)'
  BY RemovalJustified
<1>l. UNCHANGED listenVars => \A f \in Ends : ListenJustified(f)'
  BY <1>g DEF ListenJustified, AcksJustified, listenVars
<1>a. UNCHANGED acked => \A f \in Ends : acked'[f] \subseteq Acceptable(f)'
  BY <1>g DEF AcksJustified
<1>t. /\ listenPc \in [Ends -> ListenPcs] /\ listenMsg \in [Ends -> Messages]
      /\ pipe \in [Ends -> Seq(Messages)] /\ acked \in [Ends -> SUBSET (0..MaxCounter)]
      /\ Peer \in [Ends -> Ends]
  BY EndsAssumption DEF TypeOK, ListenPcs
<1>1. ASSUME NEW c \in Callers, WritePayload(c) PROVE AcksJustified'
  <2> DEFINE m == Payload(local[c], Home[c] \in AckEnds)
  <2>1. Home[c] \in Ends /\ local[c] \in 0..MaxCounter
    BY CallersAssumption DEF TypeOK
  <2>2. m \in Messages /\ m.type # "ack"
    <3>1. (Home[c] \in AckEnds) \in BOOLEAN
      OBVIOUS
    <3>2. m \in Messages
      BY <2>1, <3>1, MessageType, Zenon
    <3> QED BY <3>2 DEF Payload
  <2>3. WriteDelivers(Home[c], m) \/ UNCHANGED pipe
    BY <1>1 DEF WritePayload, WriteVanishes
  <2> HIDE DEF m
  <2>4. \A f \in Ends : PipeJustified(f)'
    BY <1>p, <2>1, <2>2, <2>3, WriteJustified
  <2>5. UNCHANGED <<listenPc, listenMsg, acked>>
    BY <1>1 DEF WritePayload, listenVars
  <2> QED BY <1>l, <1>a, <2>4, <2>5 DEF AcksJustified, listenVars
<1>2. ASSUME NEW e \in Ends, ReadMessage(e) PROVE AcksJustified'
  <2>1. Peer[e] \in Ends /\ pipe[Peer[e]] \in Seq(Messages) /\ pipe[Peer[e]] # <<>>
    BY <1>2, <1>t DEF ReadMessage
  <2>2. pipe' = [pipe EXCEPT ![Peer[e]] = Tail(@)]
    BY <1>2 DEF ReadMessage
  <2>3. \A f \in Ends : \A i \in DOMAIN pipe'[f] : \E j \in DOMAIN pipe[f] : pipe'[f][i] = pipe[f][j]
    <3> SUFFICES ASSUME NEW f \in Ends, NEW i \in DOMAIN pipe'[f]
                 PROVE  \E j \in DOMAIN pipe[f] : pipe'[f][i] = pipe[f][j]
      OBVIOUS
    <3>1. CASE f = Peer[e]
      <4>1. pipe'[f] = Tail(pipe[f]) /\ i + 1 \in DOMAIN pipe[f] /\ pipe'[f][i] = pipe[f][i + 1]
        BY <1>t, <2>1, <2>2, <3>1
      <4> QED BY <4>1
    <3>2. CASE f # Peer[e]
      BY <1>t, <2>2, <3>2
    <3> QED BY <3>1, <3>2
  <2>4. \A f \in Ends : PipeJustified(f)'
    BY <2>3, RemovalJustified
  <2>5. \A f \in Ends : ListenJustified(f)'
    <3>1. CASE UNCHANGED listenVars
      BY <3>1, <1>l
    <3>2. CASE /\ listenPc' = [listenPc EXCEPT ![e] = "process"]
               /\ listenMsg' = [listenMsg EXCEPT ![e] = Head(pipe[Peer[e]])]
      BY <1>t, <1>g, <3>2 DEF ListenJustified, AcksJustified
    <3> QED BY <1>2, <3>1, <3>2 DEF ReadMessage
  <2> QED BY <1>2, <1>a, <2>4, <2>5 DEF ReadMessage, AcksJustified
<1>3. ASSUME NEW e \in Ends, ProcessPayload(e) PROVE AcksJustified'
  <2>1. UNCHANGED <<pipe, acked, listenMsg>>
    BY <1>3 DEF ProcessPayload, connVars
  <2>2. \A f \in Ends : f # e => listenPc'[f] = listenPc[f]
    BY <1>3, <1>t DEF ProcessPayload
  <2>3. \A f \in Ends : ListenJustified(f)'
    BY <1>3, <1>g, <2>1, <2>2, ProcessJustifies DEF ListenJustified, AcksJustified
  <2> QED BY <1>p, <1>a, <2>1, <2>3 DEF AcksJustified
<1>4. ASSUME NEW e \in Ends, WriteAck(e) PROVE AcksJustified'
  <2> DEFINE n == listenMsg[e].counter
  <2>1. n \in 0..MaxCounter /\ n \in Acceptable(e)
    BY <1>4, <1>t DEF WriteAck, AcksJustified, ListenJustified, Messages
  <2>2. Ack(n) \in Messages /\ Ack(n).counter = n
    BY <2>1, MessageType DEF Ack
  <2>3. WriteDelivers(e, Ack(n)) \/ UNCHANGED pipe
    BY <1>4 DEF WriteAck, WriteVanishes
  <2>4. \A f \in Ends : PipeJustified(f)'
    BY <1>p, <2>1, <2>2, <2>3, WriteJustified
  <2>5. acked' = [acked EXCEPT ![e] = @ \cup {n}]
    BY <1>4 DEF WriteAck
  <2>6. \A f \in Ends : acked'[f] \subseteq Acceptable(f)'
    BY <1>g, <1>t, <2>1, <2>5 DEF AcksJustified
  <2>7. listenPc' = [listenPc EXCEPT ![e] = "read"] /\ listenMsg' = listenMsg
    BY <1>4 DEF WriteAck
  <2>8. \A f \in Ends : ListenJustified(f)'
    BY <1>g, <1>t, <2>7 DEF ListenJustified, AcksJustified
  <2> QED BY <2>4, <2>6, <2>8 DEF AcksJustified
<1>5. ASSUME NEW e \in Ends,
             WriteAckFails(e) \/ RetryAck(e) \/ GiveUpAck(e) \/ ListenReturns(e)
      PROVE  AcksJustified'
  <2>1. UNCHANGED <<pipe, acked, listenMsg>>
    BY <1>5 DEF WriteAckFails, WriteFails, RetryAck, GiveUpAck, ListenReturns, connVars
  <2>2. \A f \in Ends : listenPc'[f] \in {"ack", "retry"} => listenPc[f] \in {"ack", "retry"}
    BY <1>5, <1>t DEF WriteAckFails, RetryAck, AckRetryPoint, GiveUpAck, ListenReturns
  <2>3. \A f \in Ends : ListenJustified(f)'
    BY <1>g, <2>1, <2>2 DEF ListenJustified, AcksJustified
  <2> QED BY <1>p, <1>a, <2>1, <2>3 DEF AcksJustified
<1>6. ASSUME NEW e \in Ends, CloseConnection(e) PROVE AcksJustified'
  <2>1. pipe' = [pipe EXCEPT ![Peer[e]] = <<>>] /\ UNCHANGED <<acked, listenVars>>
    BY <1>6 DEF CloseConnection
  <2>2. \A f \in Ends : pipe'[f] = <<>> \/ pipe'[f] = pipe[f]
    BY <1>t, <2>1
  <2>3. \A f \in Ends : PipeJustified(f)'
    BY <2>2, RemovalJustified
  <2> QED BY <1>l, <1>a, <2>1, <2>3 DEF AcksJustified
<1>7. ASSUME NEW e \in Ends, StrayMessage(e) PROVE AcksJustified'
  <2>1. PICK m \in Messages :
          WriteDelivers(e, m) /\ (m.type = "ack" => m.counter \in Acceptable(e))
    <3>1. \A n \in acked[e] : Ack(n) \in Messages /\ Ack(n).counter \in Acceptable(e)
      BY <1>t, MessageType DEF AcksJustified, Ack
    <3>2. Other \in Messages /\ Other.type # "ack"
      BY MessageType DEF Other
    <3> QED BY <1>7, <3>1, <3>2 DEF StrayMessage
  <2>2. \A f \in Ends : PipeJustified(f)'
    BY <2>1, WriteJustified
  <2> QED BY <1>7, <1>l, <1>a, <2>2 DEF StrayMessage, AcksJustified
<1>8. CASE Break
  <2>1. PICK len \in [Ends -> 0..Capacity] :
          /\ \A e \in Ends : len[e] <= Len(pipe[e])
          /\ pipe' = [e \in Ends |-> SubSeq(pipe[e], 1, len[e])]
    BY <1>8 DEF Break
  <2>2. ASSUME NEW f \in Ends, NEW i \in DOMAIN pipe'[f]
        PROVE  \E j \in DOMAIN pipe[f] : pipe'[f][i] = pipe[f][j]
    <3>1. pipe'[f] = SubSeq(pipe[f], 1, len[f]) /\ len[f] \in Nat /\ len[f] <= Len(pipe[f])
          /\ pipe[f] \in Seq(Messages)
      BY <1>t, <2>1, BoundsAssumption
    <3>2. i \in DOMAIN pipe[f] /\ pipe'[f][i] = pipe[f][i]
      BY <2>2, <3>1
    <3> QED BY <3>2
  <2>3. \A f \in Ends : PipeJustified(f)'
    BY <2>2, RemovalJustified
  <2> QED BY <1>8, <1>l, <1>a, <2>3 DEF Break, AcksJustified
<1>9. CASE UNCHANGED <<pipe, acked, listenVars>>
  BY <1>9, <1>p, <1>l, <1>a DEF AcksJustified
<1> QED
  BY <1>1, <1>2, <1>3, <1>4, <1>5, <1>6, <1>7, <1>8, <1>9
  DEF Next, SendStep, ListenStep, PrepareSend, WritePayloadFails, WriteFails, AckReceived,
      AckTimeout, AckAbandoned, WaitEnds, Close, vars, connVars, listenVars

\* A channel is closed only by a justified acknowledgement, and only a closed channel
\* makes Send return nil.
LEMMA SuccessPreserved ==
  ASSUME TypeOK, CallsHoldCounters, AcksJustified, SuccessJustified, [Next]_vars
  PROVE  SuccessJustified'
<1>t. /\ chClosed \in [Ends -> SUBSET Counters]
      /\ result \in [Ends -> [Counters -> {"none", "ok", "error", "timeout", "closed"}]]
      /\ \A e \in Ends : Peer[e] \in Ends /\ Peer[Peer[e]] = e
      /\ \A c \in Callers : Home[c] \in Ends
  BY EndsAssumption, CallersAssumption DEF TypeOK
<1>g. \A f \in Ends : Acceptable(f) \subseteq Acceptable(f)'
  BY AcceptableGrows
<1>c. /\ \A e \in Ends : chClosed[e] \subseteq chClosed'[e]
      /\ \A e \in Ends : chClosed'[e] \subseteq Acceptable(Peer[e])'
  <2>1. CASE UNCHANGED chClosed
    BY <1>g, <1>t, <2>1 DEF SuccessJustified
  <2>2. ASSUME NEW e \in Ends, ReadMessage(e), Head(pipe[Peer[e]]).type = "ack",
               HandleAckMessage(e, Head(pipe[Peer[e]]).counter)
        PROVE  /\ \A f \in Ends : chClosed[f] \subseteq chClosed'[f]
               /\ \A f \in Ends : chClosed'[f] \subseteq Acceptable(Peer[f])'
    <3> DEFINE n == Head(pipe[Peer[e]]).counter
    <3>1. pipe[Peer[e]] \in Seq(Messages) /\ pipe[Peer[e]] # <<>> /\ Peer[e] \in Ends
      BY <1>t, <2>2 DEF ReadMessage, TypeOK
    <3>2. 1 \in DOMAIN pipe[Peer[e]] /\ Head(pipe[Peer[e]]) = pipe[Peer[e]][1]
      BY <3>1
    <3>3. n \in Acceptable(Peer[e])
      BY <2>2, <3>1, <3>2 DEF AcksJustified, PipeJustified
    <3>4. UNCHANGED chClosed \/ chClosed' = [chClosed EXCEPT ![e] = @ \cup {n}]
      BY <2>2 DEF HandleAckMessage
    <3> HIDE DEF n
    <3> QED BY <1>g, <1>t, <3>3, <3>4 DEF SuccessJustified
  <2> QED BY <2>1, <2>2, ChannelStep DEF PrepareSend
<1>1. ASSUME NEW c \in Callers, NEW r \in {"error", "timeout", "closed", "ok"}, Return(c, r),
             r = "ok" => Home[c] \notin AckEnds \/ local[c] \in chClosed[Home[c]],
             local[c] \in Counters
      PROVE  SuccessJustified'
  <2>1. result' = [result EXCEPT ![Home[c]][local[c]] = r]
    BY <1>1 DEF Return
  <2>2. ASSUME NEW e \in AckEnds, NEW n \in Counters, result'[e][n] = "ok"
        PROVE  n \in chClosed'[e]
    <3>1. e \in Ends
      BY SetsAssumption
    <3>2. CASE e = Home[c] /\ n = local[c]
      BY <1>c, <1>t, <1>1, <2>1, <2>2, <3>1, <3>2
    <3>3. CASE ~(e = Home[c] /\ n = local[c])
      <4>1. result'[e][n] = result[e][n]
        BY <1>t, <1>1, <2>1, <3>1, <3>3
      <4> QED BY <1>c, <2>2, <3>1, <4>1 DEF SuccessJustified
    <3> QED BY <3>2, <3>3
  <2> QED BY <1>c, <2>2 DEF SuccessJustified
<1>2. CASE UNCHANGED result
  BY <1>c, <1>2, SetsAssumption DEF SuccessJustified
<1>loc. \A c \in Callers : sendPc[c] # "idle" => local[c] \in Counters
  BY <1>t, BoundsAssumption DEF CallsHoldCounters, TypeOK, Counters
<1>3. ASSUME NEW c \in Callers, WritePayload(c) PROVE SuccessJustified'
  BY <1>1, <1>2, <1>3, <1>loc DEF WritePayload
<1>4. ASSUME NEW c \in Callers, WritePayloadFails(c) PROVE SuccessJustified'
  BY <1>1, <1>4, <1>loc DEF WritePayloadFails
<1>5. ASSUME NEW c \in Callers, AckReceived(c) \/ AckTimeout(c) \/ AckAbandoned(c)
      PROVE  SuccessJustified'
  BY <1>1, <1>5, <1>loc DEF AckReceived, AckArrived, AckTimeout, AckAbandoned, WaitEnds
<1> QED
  BY <1>2, <1>3, <1>4, <1>5
  DEF Next, SendStep, ListenStep, PrepareSend, ReadMessage, ProcessPayload, WriteAck, WriteAckFails,
      RetryAck, GiveUpAck, ListenReturns, Close, CloseConnection, Break, StrayMessage, vars, sendVars

\* The inductive invariant holds of every reachable state.
THEOREM InvariantHolds == Spec => []IInv
<1>1. IInv /\ [Next]_vars => IInv'
  BY TypeStep, ChannelsPreserved, CallsPreserved, AcksPreserved, SuccessPreserved DEF IInv
<1> QED BY <1>1, InitIInv, PTL DEF Spec

\* The two transceivers' state keeps its types, for every number of callers, Sends and
\* messages in flight.
THEOREM TypeCorrect == Spec => []TypeOK
<1>1. IInv => TypeOK
  BY DEF IInv
<1> QED BY <1>1, InvariantHolds, PTL

\* No acknowledgement channel is closed twice and none is lost, whatever late or repeated
\* acknowledgements Listen reads (handleAckMessage, prepareChanAndCounter).
THEOREM ChannelsAccounted == Spec => []ChannelAccounting
<1>1. IInv => ChannelAccounting
  BY DEF IInv
<1> QED BY <1>1, InvariantHolds, PTL

\* A Send with acknowledgement that returns nil had its payload given to the other end's
\* handler, and treated without error when that end has blockingAckOnError.
THEOREM AcknowledgedIsHandled == Spec => []AckMeansHandled
<1>1. IInv => AckMeansHandled
  BY SetsAssumption DEF IInv, SuccessJustified, AckMeansHandled
<1> QED BY <1>1, InvariantHolds, PTL
----------------------------------------------------------------------------
(***************************************************************************)
(* Delivery in order, and the refinement of AckDelivery                    *)
(***************************************************************************)

\* Two calls in progress at one end have different counters, and no call in progress has
\* a result yet.
CallsDistinct ==
    \A c, d \in Callers :
        c # d /\ Home[c] = Home[d] /\ sendPc[c] # "idle" /\ sendPc[d] # "idle"
            => local[c] # local[d]

ResultsOpen ==
    /\ \A c \in Callers : sendPc[c] # "idle" => result[Home[c]][local[c]] = "none"
    /\ \A e \in Ends : \A n \in Counters : n > counter[e] => result[e][n] = "none"

\* A counter is written once, by the call that holds it.
WrittenOnce ==
    /\ \A e \in Ends :
        /\ \A i \in DOMAIN written[e] : written[e][i] \in 1..counter[e]
        /\ \A i, j \in DOMAIN written[e] : written[e][i] = written[e][j] => i = j
    /\ \A c \in Callers : sendPc[c] = "write" =>
        \A i \in DOMAIN written[Home[c]] : written[Home[c]][i] # local[c]

\* The messages msgs are in flight, taken payloads of w were read before them: each payload
\* in flight is the next one of w, and while nothing was lost the last one is the last of w.
\* at[i] counts the payloads of w up to the i-th message.
Flow(msgs, taken, w, up) ==
    \E at \in [0..Len(msgs) -> 0..Len(w)] :
        /\ at[0] = taken
        /\ \A i \in 1..Len(msgs) :
            IF msgs[i].type = "payload"
              THEN at[i] = at[i - 1] + 1 /\ msgs[i].counter = w[at[i]]
              ELSE at[i] = at[i - 1]
        /\ up => at[Len(msgs)] = Len(w)

\* The payloads that Listen at e has read.
Taken(e) == Len(handled[e]) + (IF listenPc[e] = "process" THEN 1 ELSE 0)

\* Payloads are read and treated in the order they were written.
EndInOrder(e) ==
    /\ Flow(pipe[Peer[e]], Taken(e), written[Peer[e]], Up(e))
    /\ \A i \in DOMAIN handled[e] : handled[e][i].counter = written[Peer[e]][i]
    /\ listenPc[e] = "process" =>
          listenMsg[e].counter = written[Peer[e]][Len(handled[e]) + 1]

InOrder == \A e \in Ends : EndInOrder(e)

OrderInv == CallsDistinct /\ ResultsOpen /\ WrittenOnce /\ InOrder


\* The payloads read before are payloads written.
LEMMA FlowBound ==
  ASSUME NEW msgs \in Seq(Messages), NEW t, NEW w \in Seq(Counters), NEW up, Flow(msgs, t, w, up)
  PROVE  t \in 0..Len(w)
  BY DEF Flow

\* A connection that may have lost something promises less.
LEMMA FlowWeaken ==
  ASSUME NEW msgs \in Seq(Messages), NEW t, NEW w \in Seq(Counters), NEW up, NEW less,
         Flow(msgs, t, w, up), less => up
  PROVE  Flow(msgs, t, w, less)
  BY Zenon DEF Flow

\* A payload written on a working connection is the next one in flight.
LEMMA FlowPayload ==
  ASSUME NEW msgs \in Seq(Messages), NEW t, NEW w \in Seq(Counters), NEW up, NEW n \in Counters,
         Flow(msgs, t, w, TRUE), NEW m \in Messages, m.type = "payload", m.counter = n
  PROVE  Flow(Append(msgs, m), t, Append(w, n), up)
<1>1. PICK at \in [0..Len(msgs) -> 0..Len(w)] :
        /\ at[0] = t
        /\ \A i \in 1..Len(msgs) :
            IF msgs[i].type = "payload"
              THEN at[i] = at[i - 1] + 1 /\ msgs[i].counter = w[at[i]]
              ELSE at[i] = at[i - 1]
        /\ at[Len(msgs)] = Len(w)
  BY DEF Flow
<1> DEFINE L == Len(msgs)
           W == Append(w, n)
           N == Append(msgs, m)
           bt == [i \in 0..(L + 1) |-> IF i = L + 1 THEN Len(w) + 1 ELSE at[i]]
<1>2. L \in Nat /\ Len(w) \in Nat /\ Len(N) = L + 1 /\ Len(W) = Len(w) + 1
  OBVIOUS
<1>3. /\ \A i \in 1..L : N[i] = msgs[i]
      /\ N[L + 1] = m
      /\ \A i \in 1..Len(w) : W[i] = w[i]
      /\ W[Len(w) + 1] = n
  OBVIOUS
<1> HIDE DEF L, W, N
<1>4. bt \in [0..Len(N) -> 0..Len(W)]
  BY <1>1, <1>2 DEF L
<1>5. bt[0] = t /\ bt[Len(N)] = Len(W)
  BY <1>1, <1>2 DEF L
<1>6. ASSUME NEW i \in 1..Len(N)
      PROVE  IF N[i].type = "payload"
               THEN bt[i] = bt[i - 1] + 1 /\ N[i].counter = W[bt[i]]
               ELSE bt[i] = bt[i - 1]
  <2>1. CASE i = L + 1
    <3>1. bt[i] = Len(w) + 1 /\ bt[i - 1] = Len(w)
      BY <1>1, <1>2, <2>1 DEF L
    <3> QED BY <1>2, <1>3, <2>1, <3>1
  <2>2. CASE i \in 1..L
    <3>1. bt[i] = at[i] /\ bt[i - 1] = at[i - 1] /\ N[i] = msgs[i]
      BY <1>2, <1>3, <2>2
    <3>2. at[i] \in 0..Len(w) /\ at[i - 1] \in 0..Len(w)
      <4>1. i \in 0..Len(msgs) /\ i - 1 \in 0..Len(msgs)
        BY <1>2, <2>2 DEF L
      <4> QED BY <1>1, <4>1
    <3>3. CASE msgs[i].type = "payload"
      <4>1. at[i] = at[i - 1] + 1 /\ msgs[i].counter = w[at[i]]
        BY <1>1, <2>2, <3>3 DEF L
      <4>2. W[at[i]] = w[at[i]]
        BY <1>2, <1>3, <3>2, <4>1
      <4> QED BY <3>1, <3>3, <4>1, <4>2
    <3>4. CASE msgs[i].type # "payload"
      BY <1>1, <2>2, <3>1, <3>4 DEF L
    <3> QED BY <3>3, <3>4
  <2> QED BY <1>2, <2>1, <2>2
<1> QED BY <1>4, <1>5, <1>6, Zenon DEF Flow, W, N

\* Another message written leaves the payloads in flight as they were.
LEMMA FlowOther ==
  ASSUME NEW msgs \in Seq(Messages), NEW t, NEW w \in Seq(Counters), NEW up,
         Flow(msgs, t, w, up), NEW m \in Messages, m.type # "payload"
  PROVE  Flow(Append(msgs, m), t, w, up)
<1>1. PICK at \in [0..Len(msgs) -> 0..Len(w)] :
        /\ at[0] = t
        /\ \A i \in 1..Len(msgs) :
            IF msgs[i].type = "payload"
              THEN at[i] = at[i - 1] + 1 /\ msgs[i].counter = w[at[i]]
              ELSE at[i] = at[i - 1]
        /\ up => at[Len(msgs)] = Len(w)
  BY Zenon DEF Flow
<1> DEFINE L == Len(msgs)
           N == Append(msgs, m)
           bt == [i \in 0..(L + 1) |-> IF i = L + 1 THEN at[L] ELSE at[i]]
<1>2. L \in Nat /\ Len(w) \in Nat /\ Len(N) = L + 1
  OBVIOUS
<1>3. N[L + 1] = m /\ \A i \in 1..L : N[i] = msgs[i]
  OBVIOUS
<1> HIDE DEF L, N
<1>4. bt \in [0..Len(N) -> 0..Len(w)]
  BY <1>1, <1>2 DEF L
<1>5. bt[0] = t /\ bt[Len(N)] = at[Len(msgs)]
  BY <1>1, <1>2 DEF L
<1>6. ASSUME NEW i \in 1..Len(N)
      PROVE  IF N[i].type = "payload"
               THEN bt[i] = bt[i - 1] + 1 /\ N[i].counter = w[bt[i]]
               ELSE bt[i] = bt[i - 1]
  <2>1. CASE i = L + 1
    BY <1>1, <1>2, <1>3, <2>1
  <2>2. CASE i \in 1..L
    <3>1. bt[i] = at[i] /\ bt[i - 1] = at[i - 1] /\ N[i] = msgs[i]
      BY <1>2, <1>3, <2>2
    <3> QED BY <1>1, <2>2, <3>1 DEF L
  <2> QED BY <1>2, <2>1, <2>2
<1> QED BY <1>1, <1>4, <1>5, <1>6, Zenon DEF Flow, N

\* A payload that vanishes on a broken connection is written and not in flight.
LEMMA FlowVanished ==
  ASSUME NEW msgs \in Seq(Messages), NEW t, NEW w \in Seq(Counters), NEW up, NEW n \in Counters,
         Flow(msgs, t, w, up)
  PROVE  Flow(msgs, t, Append(w, n), FALSE)
<1>1. PICK at \in [0..Len(msgs) -> 0..Len(w)] :
        /\ at[0] = t
        /\ \A i \in 1..Len(msgs) :
            IF msgs[i].type = "payload"
              THEN at[i] = at[i - 1] + 1 /\ msgs[i].counter = w[at[i]]
              ELSE at[i] = at[i - 1]
  BY Zenon DEF Flow
<1>2. Len(msgs) \in Nat /\ Len(w) \in Nat /\ Len(Append(w, n)) = Len(w) + 1
      /\ \A i \in 1..Len(w) : Append(w, n)[i] = w[i]
  OBVIOUS
<1>3. at \in [0..Len(msgs) -> 0..Len(Append(w, n))]
  BY <1>1, <1>2
<1>4. ASSUME NEW i \in 1..Len(msgs), msgs[i].type = "payload"
      PROVE  at[i] = at[i - 1] + 1 /\ msgs[i].counter = Append(w, n)[at[i]]
  <2>1. at[i] = at[i - 1] + 1 /\ msgs[i].counter = w[at[i]]
    BY <1>1, <1>4
  <2>2. at[i] \in 0..Len(w) /\ at[i - 1] \in 0..Len(w)
    BY <1>1, <1>2
  <2> QED BY <1>2, <2>1, <2>2
<1> QED BY <1>1, <1>3, <1>4, Zenon DEF Flow

\* Reading takes the first message in flight: a payload is the next one written.
LEMMA FlowRead ==
  ASSUME NEW msgs \in Seq(Messages), NEW t, NEW w \in Seq(Counters), NEW up,
         Flow(msgs, t, w, up), msgs # <<>>
  PROVE  /\ Head(msgs).type # "payload" => Flow(Tail(msgs), t, w, up)
         /\ Head(msgs).type = "payload" =>
              Flow(Tail(msgs), t + 1, w, up) /\ Head(msgs).counter = w[t + 1]
<1>1. PICK at \in [0..Len(msgs) -> 0..Len(w)] :
        /\ at[0] = t
        /\ \A i \in 1..Len(msgs) :
            IF msgs[i].type = "payload"
              THEN at[i] = at[i - 1] + 1 /\ msgs[i].counter = w[at[i]]
              ELSE at[i] = at[i - 1]
        /\ up => at[Len(msgs)] = Len(w)
  BY Zenon DEF Flow
<1> DEFINE L == Len(msgs)
           N == Tail(msgs)
           bt == [i \in 0..(L - 1) |-> at[i + 1]]
<1>2. L \in Nat \ {0} /\ Len(N) = L - 1 /\ Head(msgs) = msgs[1]
      /\ \A i \in 1..(L - 1) : N[i] = msgs[i + 1]
  OBVIOUS
<1> HIDE DEF L, N
<1>3. bt \in [0..Len(N) -> 0..Len(w)]
  BY <1>1, <1>2 DEF L
<1>4. bt[Len(N)] = at[Len(msgs)] /\ bt[0] = at[1]
  BY <1>2 DEF L
<1>5. ASSUME NEW i \in 1..Len(N)
      PROVE  IF N[i].type = "payload"
               THEN bt[i] = bt[i - 1] + 1 /\ N[i].counter = w[bt[i]]
               ELSE bt[i] = bt[i - 1]
  <2>1. bt[i] = at[i + 1] /\ bt[i - 1] = at[(i + 1) - 1] /\ N[i] = msgs[i + 1]
    BY <1>2
  <2>2. i + 1 \in 1..Len(msgs)
    BY <1>2 DEF L
  <2> QED BY <1>1, <2>1, <2>2
<1>6. Flow(N, at[1], w, up)
  BY <1>1, <1>3, <1>4, <1>5, Zenon DEF Flow
<1>7. IF msgs[1].type = "payload" THEN at[1] = t + 1 /\ msgs[1].counter = w[at[1]] ELSE at[1] = t
  <2>1. 1 \in 1..Len(msgs) /\ at[1 - 1] = t
    BY <1>1, <1>2 DEF L
  <2> QED BY <1>1, <2>1
<1> QED BY <1>2, <1>6, <1>7 DEF N

\* Of what is in flight, a prefix survives a break.
LEMMA FlowPrefix ==
  ASSUME NEW msgs \in Seq(Messages), NEW t, NEW w \in Seq(Counters), NEW up,
         Flow(msgs, t, w, up), NEW k \in 0..Len(msgs)
  PROVE  Flow(SubSeq(msgs, 1, k), t, w, FALSE)
<1>1. PICK at \in [0..Len(msgs) -> 0..Len(w)] :
        /\ at[0] = t
        /\ \A i \in 1..Len(msgs) :
            IF msgs[i].type = "payload"
              THEN at[i] = at[i - 1] + 1 /\ msgs[i].counter = w[at[i]]
              ELSE at[i] = at[i - 1]
  BY Zenon DEF Flow
<1> DEFINE N == SubSeq(msgs, 1, k)
           bt == [i \in 0..k |-> at[i]]
<1>2. k \in Nat /\ Len(msgs) \in Nat /\ Len(N) = k /\ \A i \in 1..k : N[i] = msgs[i]
  OBVIOUS
<1> HIDE DEF N
<1>3. bt \in [0..Len(N) -> 0..Len(w)] /\ bt[0] = t
  BY <1>1, <1>2
<1>4. ASSUME NEW i \in 1..Len(N)
      PROVE  IF N[i].type = "payload"
               THEN bt[i] = bt[i - 1] + 1 /\ N[i].counter = w[bt[i]]
               ELSE bt[i] = bt[i - 1]
  <2>1. bt[i] = at[i] /\ bt[i - 1] = at[i - 1] /\ N[i] = msgs[i] /\ i \in 1..Len(msgs)
    BY <1>2
  <2> QED BY <1>1, <2>1
<1> QED BY <1>3, <1>4, Zenon DEF Flow, N

\* What a step does to the calls of Send: a call starts; a call in progress writes its
\* payload, returns, or both; or nothing happens to them.
LEMMA SendKinds ==
  ASSUME [Next]_vars
  PROVE  \/ \E c \in Callers : PrepareSend(c)
         \/ \E c \in Callers :
              /\ sendPc[c] # "idle"
              /\ UNCHANGED <<counter, local>>
              /\ \/ UNCHANGED written
                 \/ /\ sendPc[c] = "write"
                    /\ written' = [written EXCEPT ![Home[c]] = Append(@, local[c])]
              /\ \/ UNCHANGED result /\ sendPc' = [sendPc EXCEPT ![c] = "wait"]
                 \/ \E r \in {"ok", "error", "timeout", "closed"} : Return(c, r)
         \/ UNCHANGED <<counter, local, sendPc, result, written>>
<1>1. ASSUME NEW c \in Callers, WritePayload(c)
      PROVE  /\ sendPc[c] = "write" /\ UNCHANGED <<counter, local>>
             /\ written' = [written EXCEPT ![Home[c]] = Append(@, local[c])]
             /\ \/ UNCHANGED result /\ sendPc' = [sendPc EXCEPT ![c] = "wait"]
                \/ Return(c, "ok")
  BY <1>1 DEF WritePayload, Return, transceiverVars
<1>2. ASSUME NEW c \in Callers, WritePayloadFails(c) \/ AckReceived(c) \/ AckTimeout(c)
                                \/ AckAbandoned(c)
      PROVE  /\ sendPc[c] # "idle" /\ UNCHANGED <<counter, local, written>>
             /\ \E r \in {"ok", "error", "timeout", "closed"} : Return(c, r)
  BY <1>2 DEF WritePayloadFails, AckReceived, AckTimeout, AckAbandoned, WaitEnds, Return,
              transceiverVars
<1>3. ASSUME NEW e \in Ends,
             ListenStep(e) \/ Close(e) \/ CloseConnection(e) \/ StrayMessage(e)
      PROVE  UNCHANGED <<counter, local, sendPc, result, written>>
  BY <1>3 DEF ListenStep, ReadMessage, ProcessPayload, WriteAck, WriteAckFails, RetryAck, GiveUpAck,
              ListenReturns, Close, CloseConnection, StrayMessage, transceiverVars, sendVars
<1>4. Break \/ UNCHANGED vars => UNCHANGED <<counter, local, sendPc, result, written>>
  BY DEF Break, transceiverVars, sendVars, vars
<1>5. CASE UNCHANGED vars
  BY <1>4, <1>5
<1>6. CASE Break
  BY <1>4, <1>6
<1>7. CASE \E e \in Ends : ListenStep(e) \/ Close(e) \/ CloseConnection(e) \/ StrayMessage(e)
  BY <1>3, <1>7
<1>8. ASSUME NEW c \in Callers, SendStep(c)
      PROVE  \/ PrepareSend(c)
             \/ /\ sendPc[c] # "idle"
                /\ UNCHANGED <<counter, local>>
                /\ \/ UNCHANGED written
                   \/ /\ sendPc[c] = "write"
                      /\ written' = [written EXCEPT ![Home[c]] = Append(@, local[c])]
                /\ \/ UNCHANGED result /\ sendPc' = [sendPc EXCEPT ![c] = "wait"]
                   \/ \E r \in {"ok", "error", "timeout", "closed"} : Return(c, r)
  <2>1. CASE WritePayload(c)
    BY <1>1, <2>1
  <2>2. CASE WritePayloadFails(c) \/ AckReceived(c) \/ AckTimeout(c) \/ AckAbandoned(c)
    BY <1>2, <2>2
  <2> QED BY <1>8, <2>1, <2>2 DEF SendStep
<1> QED BY <1>5, <1>6, <1>7, <1>8 DEF Next

\* A written sequence stays without repetition, and below the counter, when the call that
\* holds a new counter appends it.
LEMMA WriteOnce ==
  ASSUME NEW w \in Seq(Counters), NEW n \in Counters, NEW max \in Nat, n <= max,
         \A i \in DOMAIN w : w[i] \in 1..max /\ w[i] # n,
         \A i, j \in DOMAIN w : w[i] = w[j] => i = j
  PROVE  /\ \A i \in DOMAIN Append(w, n) : Append(w, n)[i] \in 1..max
         /\ \A i, j \in DOMAIN Append(w, n) : Append(w, n)[i] = Append(w, n)[j] => i = j
         /\ \A i \in DOMAIN Append(w, n) : Append(w, n)[i] = n \/ i \in DOMAIN w
<1> DEFINE W == Append(w, n)
<1>1. /\ DOMAIN w = 1..Len(w) /\ DOMAIN W = 1..(Len(w) + 1) /\ Len(w) \in Nat
      /\ W[Len(w) + 1] = n /\ \A i \in 1..Len(w) : W[i] = w[i]
  OBVIOUS
<1>2. n \in 1..max
  BY BoundsAssumption DEF Counters
<1> HIDE DEF W
<1>3. \A i \in DOMAIN W : i = Len(w) + 1 \/ i \in DOMAIN w
  BY <1>1
<1> QED BY <1>1, <1>2, <1>3 DEF W

\* Counters stay distinct: no two calls share one, no payload is written twice, and no
\* call that has returned returns again.
LEMMA CallsOrdered ==
  ASSUME TypeOK, CallsHoldCounters, CallsDistinct, ResultsOpen, WrittenOnce, [Next]_vars
  PROVE  CallsDistinct' /\ ResultsOpen' /\ WrittenOnce'
<1>t. /\ counter \in [Ends -> Nat] /\ \A c \in Callers : Home[c] \in Ends
      /\ sendPc \in [Callers -> {"idle", "write", "wait"}] /\ local \in [Callers -> Nat]
      /\ result \in [Ends -> [Counters -> {"none", "ok", "error", "timeout", "closed"}]]
      /\ written \in [Ends -> Seq(Counters)]
  BY BoundsAssumption, CallersAssumption DEF TypeOK
<1>l. \A c \in Callers : sendPc[c] # "idle" => local[c] \in Counters /\ local[c] <= counter[Home[c]]
                                              /\ local[c] >= 1
  BY <1>t, BoundsAssumption DEF CallsHoldCounters, TypeOK, Counters
<1>1. ASSUME NEW c \in Callers, PrepareSend(c)
      PROVE  CallsDistinct' /\ ResultsOpen' /\ WrittenOnce'
  <2> DEFINE h == Home[c]
             n == counter[h] + 1
  <2>1. h \in Ends /\ n \in Nat /\ n \in Counters
    BY <1>1, <1>t, BoundsAssumption DEF PrepareSend, Counters
  <2>2. /\ counter' = [counter EXCEPT ![h] = n]
        /\ sendPc' = [sendPc EXCEPT ![c] = "write"]
        /\ local' = [local EXCEPT ![c] = n]
        /\ UNCHANGED <<result, written>>
    BY <1>1 DEF PrepareSend
  <2>3. \A d \in Callers : d # c => sendPc'[d] = sendPc[d] /\ local'[d] = local[d]
    BY <1>t, <2>2
  <2>4. local'[c] = n /\ \A f \in Ends : counter'[f] \in Nat /\ counter[f] <= counter'[f]
    BY <1>t, <2>1, <2>2
  <2>5. CallsDistinct'
    <3>1. \A d \in Callers : d # c /\ Home[d] = h /\ sendPc'[d] # "idle" => local'[d] # n
      BY <1>t, <1>l, <2>3
    <3> QED BY <2>3, <2>4, <3>1 DEF CallsDistinct
  <2>6. ResultsOpen'
    <3>1. result[h][n] = "none"
      BY <1>t, <2>1 DEF ResultsOpen
    <3>2. \A d \in Callers : sendPc'[d] # "idle" => result'[Home[d]][local'[d]] = "none"
      BY <2>2, <2>3, <2>4, <3>1 DEF ResultsOpen
    <3>3. \A e \in Ends : \A k \in Counters : k > counter'[e] => k > counter[e]
      BY <1>t, <2>4, BoundsAssumption DEF Counters
    <3> QED BY <2>2, <3>2, <3>3 DEF ResultsOpen
  <2>7. WrittenOnce'
    <3>1. \A e \in Ends : \A i \in DOMAIN written[e] : written[e][i] \in 1..counter'[e]
      <4> SUFFICES ASSUME NEW e \in Ends, NEW i \in DOMAIN written[e]
                   PROVE  written[e][i] \in 1..counter'[e]
        OBVIOUS
      <4>1. written[e][i] \in 1..counter[e]
        BY DEF WrittenOnce
      <4>2. counter[e] \in Nat /\ counter'[e] \in Nat /\ counter[e] <= counter'[e]
        BY <1>t, <2>4
      <4> QED BY <4>1, <4>2
    <3>2. \A i \in DOMAIN written[h] : written[h][i] # n
      <4> SUFFICES ASSUME NEW i \in DOMAIN written[h], written[h][i] = n
                   PROVE  FALSE
        OBVIOUS
      <4>1. n \in 1..counter[h]
        BY <2>1 DEF WrittenOnce
      <4> QED BY <1>t, <2>1, <4>1
    <3>3. \A d \in Callers : sendPc'[d] = "write" =>
            \A i \in DOMAIN written[Home[d]] : written[Home[d]][i] # local'[d]
      BY <2>3, <2>4, <3>2 DEF WrittenOnce
    <3> QED BY <2>2, <3>1, <3>3 DEF WrittenOnce
  <2> QED BY <2>5, <2>6, <2>7
<1>2. ASSUME NEW c \in Callers, sendPc[c] # "idle", UNCHANGED <<counter, local>>,
             \/ UNCHANGED written
             \/ /\ sendPc[c] = "write"
                /\ written' = [written EXCEPT ![Home[c]] = Append(@, local[c])],
             \/ UNCHANGED result /\ sendPc' = [sendPc EXCEPT ![c] = "wait"]
             \/ \E r \in {"ok", "error", "timeout", "closed"} : Return(c, r)
      PROVE  CallsDistinct' /\ ResultsOpen' /\ WrittenOnce'
  <2> DEFINE h == Home[c]
             n == local[c]
  <2>1. h \in Ends /\ n \in Counters /\ n <= counter[h] /\ n \in 1..counter[h]
    BY <1>2, <1>t, <1>l DEF CallsHoldCounters
  <2>2. \A d \in Callers : d # c => sendPc'[d] = sendPc[d]
    BY <1>2, <1>t DEF Return
  <2>3. sendPc'[c] \in {"wait", "idle"}
    BY <1>2, <1>t DEF Return
  <2>4. CallsDistinct'
    BY <1>2, <2>2 DEF CallsDistinct
  <2>5. ResultsOpen'
    <3>1. CASE UNCHANGED result /\ sendPc' = [sendPc EXCEPT ![c] = "wait"]
      BY <1>2, <2>2, <3>1 DEF ResultsOpen
    <3>2. ASSUME NEW r \in {"ok", "error", "timeout", "closed"}, Return(c, r) PROVE ResultsOpen'
      <4>1. sendPc'[c] = "idle" /\ result' = [result EXCEPT ![h][n] = r]
        BY <3>2, <1>t DEF Return
      <4>2. \A e \in Ends : \A k \in Counters :
              ~(e = h /\ k = n) => result'[e][k] = result[e][k]
        BY <1>t, <2>1, <4>1
      <4>3. ASSUME NEW d \in Callers, sendPc'[d] # "idle"
            PROVE  result'[Home[d]][local'[d]] = "none"
        <5>1. d # c /\ sendPc[d] # "idle" /\ local'[d] = local[d]
          BY <1>2, <2>2, <4>1, <4>3
        <5>2. ~(Home[d] = h /\ local[d] = n)
          BY <1>2, <5>1 DEF CallsDistinct
        <5>3. Home[d] \in Ends /\ local[d] \in Counters /\ result[Home[d]][local[d]] = "none"
          BY <1>t, <1>l, <5>1 DEF ResultsOpen
        <5> QED BY <4>2, <5>1, <5>2, <5>3
      <4>4. ASSUME NEW e \in Ends, NEW k \in Counters, k > counter'[e]
            PROVE  result'[e][k] = "none"
        <5>1. k > counter[e] /\ ~(e = h /\ k = n)
          BY <1>2, <1>t, <2>1, <4>4, BoundsAssumption DEF Counters
        <5> QED BY <4>2, <5>1 DEF ResultsOpen
      <4> QED BY <4>3, <4>4 DEF ResultsOpen
    <3> QED BY <1>2, <3>1, <3>2
  <2>6. WrittenOnce'
    <3>0. \A d \in Callers : sendPc'[d] = "write" => d # c /\ sendPc[d] = "write"
      BY <2>2, <2>3
    <3>1. CASE UNCHANGED written
      BY <1>2, <3>0, <3>1 DEF WrittenOnce
    <3>2. CASE /\ sendPc[c] = "write"
               /\ written' = [written EXCEPT ![h] = Append(@, n)]
      <4>1. \A f \in Ends : f # h => written'[f] = written[f]
        BY <1>t, <3>2
      <4>2. written'[h] = Append(written[h], n) /\ written[h] \in Seq(Counters)
        BY <1>t, <2>1, <3>2
      <4>3. /\ \A i \in DOMAIN written[h] : written[h][i] \in 1..counter[h] /\ written[h][i] # n
            /\ \A i, j \in DOMAIN written[h] : written[h][i] = written[h][j] => i = j
        BY <2>1, <3>2 DEF WrittenOnce
      <4>4. counter[h] \in Nat /\ counter' = counter
        BY <1>2, <1>t, <2>1
      <4>5. /\ \A i \in DOMAIN written'[h] : written'[h][i] \in 1..counter'[h]
            /\ \A i, j \in DOMAIN written'[h] : written'[h][i] = written'[h][j] => i = j
            /\ \A i \in DOMAIN written'[h] : written'[h][i] = n \/ i \in DOMAIN written[h]
        <5> HIDE DEF h, n
        <5> QED BY <2>1, <4>2, <4>3, <4>4, WriteOnce
      <4>6. \A i \in DOMAIN written[h] : written'[h][i] = written[h][i]
        BY <4>2, <2>1
      <4>7. ASSUME NEW d \in Callers, sendPc'[d] = "write",
                   NEW i \in DOMAIN written'[Home[d]], written'[Home[d]][i] = local'[d]
            PROVE  FALSE
        <5>1. d # c /\ sendPc[d] = "write" /\ local'[d] = local[d] /\ Home[d] \in Ends
          BY <1>2, <1>t, <3>0, <4>7
        <5>2. CASE Home[d] # h
          BY <4>1, <4>7, <5>1, <5>2 DEF WrittenOnce
        <5>3. CASE Home[d] = h
          <6>1. local[d] # n
            BY <3>2, <5>1, <5>3 DEF CallsDistinct
          <6>2. i \in DOMAIN written[h] /\ written[h][i] = local[d]
            BY <4>5, <4>6, <4>7, <5>1, <5>3, <6>1
          <6> QED BY <5>1, <5>3, <6>2 DEF WrittenOnce
        <5> QED BY <5>2, <5>3
      <4>8. \A e \in Ends :
              /\ \A i \in DOMAIN written'[e] : written'[e][i] \in 1..counter'[e]
              /\ \A i, j \in DOMAIN written'[e] : written'[e][i] = written'[e][j] => i = j
        BY <4>1, <4>4, <4>5 DEF WrittenOnce
      <4> QED BY <4>7, <4>8 DEF WrittenOnce
    <3> QED BY <1>2, <3>1, <3>2
  <2> QED BY <2>4, <2>5, <2>6
<1>3. CASE UNCHANGED <<counter, local, sendPc, result, written>>
  BY <1>3 DEF CallsDistinct, ResultsOpen, WrittenOnce
<1> QED BY <1>1, <1>2, <1>3, SendKinds

\* A connection that does not work never works again.
LEMMA UpOnlyFalls ==
  ASSUME TypeOK, [Next]_vars
  PROVE  \A e \in Ends : Up(e)' => Up(e)
<1>t. conn \in [Ends -> BOOLEAN] /\ link \in BOOLEAN /\ \A e \in Ends : Peer[e] \in Ends
  BY EndsAssumption DEF TypeOK
<1>1. ASSUME NEW e \in Ends, CloseConnection(e) PROVE \A f \in Ends : conn'[f] => conn[f]
  BY <1>1, <1>t DEF CloseConnection
<1>2. UNCHANGED conn \/ \E e \in Ends : CloseConnection(e)
  BY DEF Next, SendStep, ListenStep, PrepareSend, WritePayload, WritePayloadFails, AckReceived,
         AckTimeout, AckAbandoned, WaitEnds, ReadMessage, ProcessPayload, WriteAck, WriteAckFails,
         RetryAck, GiveUpAck, ListenReturns, Close, Break, StrayMessage, vars, connVars
<1>3. UNCHANGED link \/ ~link'
  BY DEF Next, SendStep, ListenStep, PrepareSend, WritePayload, WritePayloadFails, AckReceived,
         AckTimeout, AckAbandoned, WaitEnds, ReadMessage, ProcessPayload, WriteAck, WriteAckFails,
         RetryAck, GiveUpAck, ListenReturns, Close, CloseConnection, Break, StrayMessage, vars,
         connVars
<1>4. \A f \in Ends : conn'[f] => conn[f]
  BY <1>1, <1>2
<1> QED BY <1>t, <1>3, <1>4 DEF Up

\* A step that leaves what was written, read and handled alone keeps the order.
LEMMA OrderKept ==
  ASSUME TypeOK, InOrder, [Next]_vars, UNCHANGED <<written, handled>>,
         \A f \in Ends : UNCHANGED <<listenPc[f], listenMsg[f]>>
                         \/ (listenPc[f] # "process" /\ listenPc'[f] # "process"),
         NEW e \in Ends,
         Flow(pipe'[Peer[e]], Taken(e), written[Peer[e]], Up(e)')
  PROVE  EndInOrder(e)'
<1>1. Taken(e)' = Taken(e)
  BY DEF Taken
<1>2. Flow(pipe'[Peer[e]], Taken(e)', written'[Peer[e]], Up(e)')
  BY <1>1
<1> QED BY <1>2 DEF InOrder, EndInOrder

\* A step that writes a message other than a payload, or nothing, keeps the order.
LEMMA OrderKeptByOthers ==
  ASSUME TypeOK, InOrder, [Next]_vars, UNCHANGED <<written, handled>>,
         \A f \in Ends : UNCHANGED <<listenPc[f], listenMsg[f]>>
                         \/ (listenPc[f] # "process" /\ listenPc'[f] # "process"),
         \/ UNCHANGED pipe
         \/ \E h \in Ends, m \in Messages : WriteDelivers(h, m) /\ m.type # "payload"
  PROVE  InOrder'
<1>t. /\ pipe \in [Ends -> Seq(Messages)] /\ written \in [Ends -> Seq(Counters)]
      /\ \A e \in Ends : Peer[e] \in Ends
  BY EndsAssumption DEF TypeOK
<1> SUFFICES ASSUME NEW e \in Ends PROVE EndInOrder(e)'
  BY DEF InOrder
<1>1. Flow(pipe[Peer[e]], Taken(e), written[Peer[e]], Up(e)')
  <2>1. Flow(pipe[Peer[e]], Taken(e), written[Peer[e]], Up(e))
    BY DEF InOrder, EndInOrder
  <2>2. pipe[Peer[e]] \in Seq(Messages) /\ written[Peer[e]] \in Seq(Counters)
    BY <1>t
  <2>3. Up(e)' => Up(e)
    BY UpOnlyFalls
  <2> QED BY <2>1, <2>2, <2>3, FlowWeaken, Zenon
<1>2. \/ pipe'[Peer[e]] = pipe[Peer[e]]
      \/ \E m \in Messages : pipe'[Peer[e]] = Append(pipe[Peer[e]], m) /\ m.type # "payload"
  BY <1>t DEF WriteDelivers
<1>3. Flow(pipe'[Peer[e]], Taken(e), written[Peer[e]], Up(e)')
  <2>1. pipe[Peer[e]] \in Seq(Messages) /\ written[Peer[e]] \in Seq(Counters)
    BY <1>t
  <2>2. ASSUME NEW m \in Messages, pipe'[Peer[e]] = Append(pipe[Peer[e]], m), m.type # "payload"
        PROVE  Flow(pipe'[Peer[e]], Taken(e), written[Peer[e]], Up(e)')
    <3>1. Flow(Append(pipe[Peer[e]], m), Taken(e), written[Peer[e]], Up(e)')
      BY <1>1, <2>1, <2>2, FlowOther, Zenon
    <3> QED BY <2>2, <3>1, Zenon
  <2>3. CASE pipe'[Peer[e]] = pipe[Peer[e]]
    BY <1>1, <2>3, Zenon
  <2> QED BY <1>2, <2>2, <2>3, Zenon
<1> QED BY <1>3, OrderKept, Zenon

\* A payload written is the next in flight, or it is lost on a connection that does not
\* work.
LEMMA WriteInOrder ==
  ASSUME TypeOK, CallsHoldCounters, InOrder, NEW c \in Callers, WritePayload(c)
  PROVE  InOrder'
<1> DEFINE h == Home[c]
           n == local[c]
           m == Payload(n, h \in AckEnds)
<1>t. /\ pipe \in [Ends -> Seq(Messages)] /\ written \in [Ends -> Seq(Counters)]
      /\ \A e \in Ends : Peer[e] \in Ends /\ Peer[Peer[e]] = e
      /\ h \in Ends /\ n \in Counters /\ n \in 0..MaxCounter
  <2>1. h \in Ends /\ sendPc[c] = "write" /\ n \in 1..counter[h] /\ n \in 0..MaxCounter
    BY CallersAssumption DEF CallsHoldCounters, WritePayload, TypeOK
  <2>2. n \in Counters
    BY <2>1, BoundsAssumption DEF TypeOK, Counters
  <2> QED BY <2>1, <2>2, EndsAssumption DEF TypeOK
<1>m. m \in Messages /\ m.type = "payload" /\ m.counter = n
  <2>1. (h \in AckEnds) \in BOOLEAN
    OBVIOUS
  <2>2. m \in Messages
    BY <1>t, <2>1, MessageType, Zenon
  <2> QED BY <2>2 DEF Payload
<1>1. /\ written' = [written EXCEPT ![h] = Append(@, n)]
      /\ UNCHANGED <<handled, listenPc, listenMsg, conn, link>>
      /\ \/ Up(h) /\ pipe' = [pipe EXCEPT ![h] = Append(@, m)]
         \/ ~Up(h) /\ UNCHANGED pipe
  BY DEF WritePayload, WriteDelivers, WriteVanishes, listenVars
<1> HIDE DEF h, n, m
<1> SUFFICES ASSUME NEW e \in Ends PROVE EndInOrder(e)'
  BY DEF InOrder
<1>u. Taken(e)' = Taken(e) /\ (Up(e)' <=> Up(e))
  BY <1>1 DEF Taken, Up
<1>e. EndInOrder(e) /\ Peer[e] \in Ends
  BY <1>t DEF InOrder
<1>2. CASE Peer[e] # h
  <2>1. pipe'[Peer[e]] = pipe[Peer[e]] /\ written'[Peer[e]] = written[Peer[e]]
    BY <1>t, <1>1, <1>2
  <2>2. Flow(pipe'[Peer[e]], Taken(e)', written'[Peer[e]], Up(e)')
    <3>1. Flow(pipe[Peer[e]], Taken(e), written[Peer[e]], Up(e)')
      BY <1>e, <1>t, <1>u, FlowWeaken, Zenon DEF EndInOrder
    <3> QED BY <1>u, <2>1, <3>1, Zenon
  <2> QED BY <1>1, <1>e, <2>1, <2>2 DEF EndInOrder
<1>3. CASE Peer[e] = h
  <2> DEFINE w == written[h]
  <2>1. pipe[h] \in Seq(Messages) /\ w \in Seq(Counters) /\ written'[h] = Append(w, n)
    BY <1>t, <1>1
  <2>2. Flow(pipe[h], Taken(e), w, Up(e))
    BY <1>e, <1>3 DEF EndInOrder
  <2>3. Up(h) <=> Up(e)
    BY <1>t, <1>3 DEF Up
  <2>4. Flow(pipe'[h], Taken(e), Append(w, n), Up(e)')
    <3>1. CASE Up(h) /\ pipe' = [pipe EXCEPT ![h] = Append(@, m)]
      <4>1. pipe'[h] = Append(pipe[h], m)
        BY <1>t, <3>1
      <4>2. Flow(pipe[h], Taken(e), w, TRUE)
        BY <2>1, <2>2, <2>3, <3>1, FlowWeaken, Zenon
      <4>3. Flow(Append(pipe[h], m), Taken(e), Append(w, n), Up(e)')
        BY <1>t, <1>m, <2>1, <4>2, FlowPayload, Zenon
      <4> QED BY <4>1, <4>3, Zenon
    <3>2. CASE ~Up(h) /\ UNCHANGED pipe
      <4>1. Flow(pipe[h], Taken(e), Append(w, n), FALSE)
        BY <1>t, <2>1, <2>2, FlowVanished, Zenon
      <4>2. Append(w, n) \in Seq(Counters)
        BY <1>t, <2>1
      <4>3. Flow(pipe[h], Taken(e), Append(w, n), Up(e)')
        BY <1>u, <2>1, <2>3, <3>2, <4>1, <4>2, FlowWeaken, Zenon
      <4> QED BY <3>2, <4>3, Zenon
    <3> QED BY <1>1, <3>1, <3>2
  <2>5. Taken(e) \in 0..Len(w)
    BY <2>1, <2>2, FlowBound
  <2>6. \A i \in 1..Len(w) : Append(w, n)[i] = w[i]
    BY <1>t, <2>1
  <2>7. Len(handled[e]) \in Nat /\ DOMAIN handled[e] = 1..Len(handled[e])
    BY DEF TypeOK
  <2>8. \A i \in DOMAIN handled'[e] : handled'[e][i].counter = written'[h][i]
    <3>1. \A i \in DOMAIN handled[e] : handled[e][i].counter = w[i]
      BY <1>e, <1>3 DEF EndInOrder
    <3>2. Len(w) \in Nat
      BY <2>1
    <3>3. Len(handled[e]) <= Len(w)
      <4>1. Taken(e) = Len(handled[e]) \/ Taken(e) = Len(handled[e]) + 1
        <5>1. CASE listenPc[e] = "process"
          BY <5>1 DEF Taken
        <5>2. CASE listenPc[e] # "process"
          BY <2>7, <5>2 DEF Taken
        <5> QED BY <5>1, <5>2
      <4> HIDE DEF w
      <4> QED BY <2>5, <2>7, <3>2, <4>1
    <3>4. \A i \in DOMAIN handled[e] : i \in 1..Len(w)
      BY <2>7, <3>2, <3>3
    <3> QED BY <1>1, <2>1, <2>6, <3>1, <3>4
  <2>9. listenPc'[e] = "process" => listenMsg'[e].counter = written'[h][Len(handled'[e]) + 1]
    <3> SUFFICES ASSUME listenPc[e] = "process"
                 PROVE  listenMsg[e].counter = Append(w, n)[Len(handled[e]) + 1]
      BY <1>1, <2>1
    <3>1. listenMsg[e].counter = w[Len(handled[e]) + 1]
      BY <1>e, <1>3 DEF EndInOrder
    <3>2. Len(w) \in Nat
      BY <2>1
    <3>3. Len(handled[e]) + 1 \in 1..Len(w)
      BY <2>5, <2>7, <3>2 DEF Taken
    <3> QED BY <2>6, <3>1, <3>3
  <2>10. Flow(pipe'[Peer[e]], Taken(e)', written'[Peer[e]], Up(e)')
    BY <1>3, <1>u, <2>1, <2>4, Zenon
  <2> QED BY <1>3, <2>8, <2>9, <2>10 DEF EndInOrder
<1> QED BY <1>2, <1>3

\* Listen reads the next payload written.
LEMMA ReadInOrder ==
  ASSUME TypeOK, InOrder, NEW e \in Ends, ReadMessage(e)
  PROVE  InOrder'
<1> DEFINE p == Peer[e]
           m == Head(pipe[p])
<1>t. /\ pipe \in [Ends -> Seq(Messages)] /\ written \in [Ends -> Seq(Counters)]
      /\ listenPc \in [Ends -> ListenPcs] /\ listenMsg \in [Ends -> Messages]
      /\ \A f \in Ends : Peer[f] \in Ends /\ Peer[Peer[f]] = f
      /\ p \in Ends
  BY EndsAssumption DEF TypeOK, ListenPcs
<1>1. /\ listenPc[e] = "read" /\ pipe[p] # <<>>
      /\ pipe' = [pipe EXCEPT ![p] = Tail(@)]
      /\ UNCHANGED <<handled, written, conn, link>>
      /\ IF m.type = "payload"
           THEN /\ listenPc' = [listenPc EXCEPT ![e] = "process"]
                /\ listenMsg' = [listenMsg EXCEPT ![e] = m]
           ELSE UNCHANGED <<listenPc, listenMsg>>
  BY DEF ReadMessage, listenVars
<1> HIDE DEF p, m
<1> SUFFICES ASSUME NEW f \in Ends PROVE EndInOrder(f)'
  BY DEF InOrder
<1>u. Up(f)' <=> Up(f)
  BY <1>1 DEF Up
<1>e. EndInOrder(f)
  BY DEF InOrder
<1>2. CASE f # e
  <2>1. /\ listenPc'[f] = listenPc[f] /\ listenMsg'[f] = listenMsg[f]
        /\ pipe'[Peer[f]] = pipe[Peer[f]]
    <3>1. Peer[f] # p
      BY <1>t, <1>2 DEF p
    <3> QED BY <1>t, <1>1, <1>2, <3>1
  <2>2. Taken(f)' = Taken(f)
    BY <1>1, <2>1 DEF Taken
  <2>3. Flow(pipe'[Peer[f]], Taken(f)', written'[Peer[f]], Up(f)')
    <3>1. Flow(pipe[Peer[f]], Taken(f), written[Peer[f]], Up(f)')
      BY <1>e, <1>t, <1>u, FlowWeaken, Zenon DEF EndInOrder
    <3> QED BY <1>1, <2>1, <2>2, <3>1
  <2> QED BY <1>1, <1>e, <2>1, <2>3 DEF EndInOrder
<1>3. CASE f = e
  <2>1. pipe[p] \in Seq(Messages) /\ written[p] \in Seq(Counters) /\ pipe'[p] = Tail(pipe[p])
    BY <1>t, <1>1
  <2>2. Taken(f) = Len(handled[f]) /\ Len(handled[f]) \in Nat
    BY <1>1, <1>3 DEF Taken, TypeOK
  <2>3. Flow(pipe[p], Len(handled[f]), written[p], Up(f)')
    <3>1. Flow(pipe[p], Len(handled[f]), written[p], Up(f))
      BY <1>e, <1>3, <2>2 DEF EndInOrder, p
    <3> QED BY <1>u, <2>1, <3>1, FlowWeaken, Zenon
  <2>4. /\ m.type # "payload" => Flow(Tail(pipe[p]), Len(handled[f]), written[p], Up(f)')
        /\ m.type = "payload" => /\ Flow(Tail(pipe[p]), Len(handled[f]) + 1, written[p], Up(f)')
                                 /\ m.counter = written[p][Len(handled[f]) + 1]
    BY <1>1, <2>1, <2>3, FlowRead, Zenon DEF m
  <2>5. CASE m.type = "payload"
    <3>1. listenPc'[f] = "process" /\ listenMsg'[f] = m
      BY <1>t, <1>1, <1>3, <2>5
    <3>2. Taken(f)' = Len(handled[f]) + 1
      BY <1>1, <3>1 DEF Taken
    <3>3. Flow(pipe'[Peer[f]], Taken(f)', written'[Peer[f]], Up(f)')
      BY <1>1, <1>3, <2>1, <2>4, <2>5, <3>2 DEF p
    <3> QED BY <1>1, <1>3, <1>e, <2>4, <2>5, <3>1, <3>3 DEF EndInOrder, p
  <2>6. CASE m.type # "payload"
    <3>1. Taken(f)' = Len(handled[f]) /\ listenPc'[f] = "read"
      BY <1>1, <1>3, <2>2, <2>6 DEF Taken
    <3>2. Flow(pipe'[Peer[f]], Taken(f)', written'[Peer[f]], Up(f)')
      BY <1>1, <1>3, <2>1, <2>4, <2>6, <3>1 DEF p
    <3> QED BY <1>1, <1>3, <1>e, <3>1, <3>2 DEF EndInOrder
  <2> QED BY <2>5, <2>6
<1> QED BY <1>2, <1>3

\* The payload read is treated once.
LEMMA ProcessInOrder ==
  ASSUME TypeOK, InOrder, NEW e \in Ends, ProcessPayload(e)
  PROVE  InOrder'
<1> DEFINE R == [counter : 0..MaxCounter, ok : BOOLEAN]
<1>1. PICK ok \in BOOLEAN :
        /\ handled' = [handled EXCEPT ![e] =
                         Append(@, [counter |-> listenMsg[e].counter, ok |-> ok])]
        /\ listenPc' = [listenPc EXCEPT ![e] =
                         IF AckNeeded(e, listenMsg[e], ok) THEN "ack" ELSE "read"]
  BY DEF ProcessPayload
<1> DEFINE r == [counter |-> listenMsg[e].counter, ok |-> ok]
<1>2. r \in R /\ handled \in [Ends -> Seq(R)] /\ r.counter = listenMsg[e].counter
  BY DEF TypeOK, Messages
<1>3. handled' = [handled EXCEPT ![e] = Append(@, r)]
  BY <1>1
<1> HIDE DEF R, r
<1>4. /\ listenPc[e] = "process" /\ listenPc'[e] # "process"
      /\ UNCHANGED <<written, pipe, listenMsg, conn, link>>
      /\ \A f \in Ends : f # e => listenPc'[f] = listenPc[f] /\ handled'[f] = handled[f]
  BY <1>1, <1>2 DEF ProcessPayload, TypeOK, connVars
<1> SUFFICES ASSUME NEW f \in Ends PROVE EndInOrder(f)'
  BY DEF InOrder
<1>e. EndInOrder(f)
  BY DEF InOrder
<1>5. CASE f # e
  BY <1>e, <1>4, <1>5 DEF EndInOrder, Taken, Up
<1>6. CASE f = e
  <2>1. /\ handled'[f] = Append(handled[f], r) /\ handled[f] \in Seq(R)
        /\ Len(handled'[f]) = Len(handled[f]) + 1 /\ Len(handled[f]) \in Nat
        /\ \A i \in DOMAIN handled'[f] :
              \/ i \in DOMAIN handled[f] /\ handled'[f][i] = handled[f][i]
              \/ i = Len(handled[f]) + 1 /\ handled'[f][i] = r
    BY <1>2, <1>3, <1>6
  <2>2. Taken(f)' = Taken(f)
    BY <1>4, <1>6, <2>1 DEF Taken
  <2>3. listenMsg[f].counter = written[Peer[f]][Len(handled[f]) + 1]
    BY <1>4, <1>6, <1>e DEF EndInOrder
  <2>4. \A i \in DOMAIN handled'[f] : handled'[f][i].counter = written'[Peer[f]][i]
    BY <1>2, <1>4, <1>6, <1>e, <2>1, <2>3 DEF EndInOrder
  <2>5. Flow(pipe'[Peer[f]], Taken(f)', written'[Peer[f]], Up(f)')
    BY <1>4, <1>e, <2>2 DEF EndInOrder, Up
  <2> QED BY <1>4, <1>6, <2>4, <2>5 DEF EndInOrder
<1> QED BY <1>5, <1>6

\* What a closed or broken connection loses is the end of what is in flight.
LEMMA LossInOrder ==
  ASSUME TypeOK, InOrder, [Next]_vars, UNCHANGED <<written, handled, listenPc, listenMsg>>,
         \A f \in Ends :
            \/ UNCHANGED pipe[Peer[f]]
            \/ /\ ~Up(f)'
               /\ \E k \in 0..Len(pipe[Peer[f]]) : pipe'[Peer[f]] = SubSeq(pipe[Peer[f]], 1, k)
  PROVE  InOrder'
<1>t. /\ pipe \in [Ends -> Seq(Messages)] /\ written \in [Ends -> Seq(Counters)]
      /\ \A f \in Ends : Peer[f] \in Ends
  BY EndsAssumption DEF TypeOK
<1> SUFFICES ASSUME NEW e \in Ends PROVE EndInOrder(e)'
  BY DEF InOrder
<1>1. pipe[Peer[e]] \in Seq(Messages) /\ written[Peer[e]] \in Seq(Counters)
  BY <1>t
<1>2. Flow(pipe[Peer[e]], Taken(e), written[Peer[e]], Up(e))
  BY DEF InOrder, EndInOrder
<1>3. Flow(pipe'[Peer[e]], Taken(e), written[Peer[e]], Up(e)')
  <2>1. CASE UNCHANGED pipe[Peer[e]]
    <3>1. Flow(pipe[Peer[e]], Taken(e), written[Peer[e]], Up(e)')
      BY <1>1, <1>2, UpOnlyFalls, FlowWeaken, Zenon
    <3> QED BY <2>1, <3>1, Zenon
  <2>2. ASSUME ~Up(e)', NEW k \in 0..Len(pipe[Peer[e]]),
               pipe'[Peer[e]] = SubSeq(pipe[Peer[e]], 1, k)
        PROVE  Flow(pipe'[Peer[e]], Taken(e), written[Peer[e]], Up(e)')
    <3>1. Flow(SubSeq(pipe[Peer[e]], 1, k), Taken(e), written[Peer[e]], FALSE)
      BY <1>1, <1>2, FlowPrefix, Zenon
    <3>2. SubSeq(pipe[Peer[e]], 1, k) \in Seq(Messages)
      BY <1>1
    <3>3. Flow(SubSeq(pipe[Peer[e]], 1, k), Taken(e), written[Peer[e]], Up(e)')
      BY <1>1, <2>2, <3>1, <3>2, FlowWeaken, Zenon
    <3> QED BY <2>2, <3>3, Zenon
  <2> QED BY <2>1, <2>2, Zenon
<1> QED BY <1>3, OrderKept, Zenon

\* Every step keeps the order of the payloads.
LEMMA InOrderStep ==
  ASSUME TypeOK, CallsHoldCounters, InOrder, [Next]_vars
  PROVE  InOrder'
<1>t. /\ pipe \in [Ends -> Seq(Messages)] /\ conn \in [Ends -> BOOLEAN]
      /\ listenPc \in [Ends -> ListenPcs] /\ listenMsg \in [Ends -> Messages]
      /\ acked \in [Ends -> SUBSET (0..MaxCounter)]
      /\ \A f \in Ends : Peer[f] \in Ends /\ Peer[Peer[f]] = f
  BY EndsAssumption DEF TypeOK, ListenPcs
<1>1. ASSUME NEW c \in Callers, SendStep(c) PROVE InOrder'
  <2>1. CASE WritePayload(c)
    BY <2>1, WriteInOrder
  <2>2. CASE ~WritePayload(c)
    <3>1. UNCHANGED <<written, handled, pipe, listenPc, listenMsg>>
      BY <1>1, <2>2 DEF SendStep, PrepareSend, WritePayloadFails, WriteFails, AckReceived, AckTimeout,
                        AckAbandoned, WaitEnds, connVars, listenVars
    <3> QED BY <3>1, OrderKeptByOthers
  <2> QED BY <2>1, <2>2
<1>2. ASSUME NEW e \in Ends, WriteAck(e) PROVE InOrder'
  <2> DEFINE n == listenMsg[e].counter
  <2>1. Ack(n) \in Messages /\ Ack(n).type # "payload"
    BY <1>t, MessageType DEF Ack, Messages
  <2>2. WriteDelivers(e, Ack(n)) \/ UNCHANGED pipe
    BY <1>2 DEF WriteAck, WriteVanishes
  <2>3. /\ UNCHANGED <<written, handled, listenMsg>>
        /\ listenPc[e] = "ack" /\ listenPc' = [listenPc EXCEPT ![e] = "read"]
    BY <1>2 DEF WriteAck
  <2>4. \A f \in Ends : UNCHANGED <<listenPc[f], listenMsg[f]>>
                        \/ (listenPc[f] # "process" /\ listenPc'[f] # "process")
    BY <1>t, <2>3
  <2> HIDE DEF n
  <2>5. \/ UNCHANGED pipe
        \/ \E h \in Ends, m \in Messages : WriteDelivers(h, m) /\ m.type # "payload"
    BY <2>1, <2>2
  <2> QED BY <2>3, <2>4, <2>5, OrderKeptByOthers
<1>3. ASSUME NEW e \in Ends,
             WriteAckFails(e) \/ RetryAck(e) \/ GiveUpAck(e) \/ ListenReturns(e) \/ Close(e)
      PROVE  InOrder'
  <2>1. UNCHANGED <<written, handled, pipe, listenMsg>>
    BY <1>3 DEF WriteAckFails, WriteFails, RetryAck, GiveUpAck, ListenReturns, Close, connVars,
                listenVars
  <2>2. \A f \in Ends : UNCHANGED <<listenPc[f], listenMsg[f]>>
                        \/ (listenPc[f] # "process" /\ listenPc'[f] # "process")
    BY <1>3, <1>t, <2>1 DEF WriteAckFails, RetryAck, AckRetryPoint, GiveUpAck, ListenReturns, Close,
                            listenVars
  <2> QED BY <2>1, <2>2, OrderKeptByOthers
<1>4. ASSUME NEW e \in Ends, StrayMessage(e) PROVE InOrder'
  <2>1. UNCHANGED <<written, handled, listenPc, listenMsg>>
    BY <1>4 DEF StrayMessage, listenVars
  <2>2. \A n \in acked[e] : Ack(n) \in Messages /\ Ack(n).type # "payload"
    BY <1>t, MessageType DEF Ack
  <2>3. Other \in Messages /\ Other.type # "payload"
    BY MessageType DEF Other
  <2>4. \E h \in Ends, m \in Messages : WriteDelivers(h, m) /\ m.type # "payload"
    BY <1>4, <2>2, <2>3 DEF StrayMessage
  <2> QED BY <2>1, <2>4, OrderKeptByOthers
<1>5. ASSUME NEW e \in Ends, CloseConnection(e) PROVE InOrder'
  <2>1. /\ UNCHANGED <<written, handled, listenPc, listenMsg>>
        /\ pipe' = [pipe EXCEPT ![Peer[e]] = <<>>] /\ conn' = [conn EXCEPT ![e] = FALSE]
    BY <1>5 DEF CloseConnection, listenVars
  <2>2. ASSUME NEW f \in Ends
        PROVE  \/ UNCHANGED pipe[Peer[f]]
               \/ /\ ~Up(f)'
                  /\ \E k \in 0..Len(pipe[Peer[f]]) : pipe'[Peer[f]] = SubSeq(pipe[Peer[f]], 1, k)
    <3>1. CASE f # e
      <4>1. Peer[f] # Peer[e]
        BY <1>t, <3>1
      <4> QED BY <1>t, <2>1, <4>1
    <3>2. CASE f = e
      <4>1. ~Up(f)'
        BY <1>t, <2>1, <3>2 DEF Up
      <4>2. pipe[Peer[f]] \in Seq(Messages) /\ pipe'[Peer[f]] = <<>>
        BY <1>t, <2>1, <3>2
      <4>3. SubSeq(pipe[Peer[f]], 1, 0) = <<>> /\ 0 \in 0..Len(pipe[Peer[f]])
        BY <4>2
      <4> QED BY <4>1, <4>2, <4>3
    <3> QED BY <3>1, <3>2
  <2> QED BY <2>1, <2>2, LossInOrder
<1>6. CASE Break
  <2>1. PICK len \in [Ends -> 0..Capacity] :
          /\ \A e \in Ends : len[e] <= Len(pipe[e])
          /\ pipe' = [e \in Ends |-> SubSeq(pipe[e], 1, len[e])]
    BY <1>6 DEF Break
  <2>2. UNCHANGED <<written, handled, listenPc, listenMsg>> /\ link' = FALSE
    BY <1>6 DEF Break, listenVars
  <2>3. ASSUME NEW f \in Ends
        PROVE  /\ ~Up(f)'
               /\ \E k \in 0..Len(pipe[Peer[f]]) : pipe'[Peer[f]] = SubSeq(pipe[Peer[f]], 1, k)
    <3>1. Peer[f] \in Ends /\ Len(pipe[Peer[f]]) \in Nat
      BY <1>t
    <3>2. len[Peer[f]] \in 0..Len(pipe[Peer[f]])
      BY <2>1, <3>1, BoundsAssumption
    <3> QED BY <2>1, <2>2, <3>1, <3>2 DEF Up
  <2> QED BY <2>2, <2>3, LossInOrder
<1>7. CASE UNCHANGED vars
  BY <1>7, OrderKeptByOthers DEF vars
<1> QED
  BY <1>1, <1>2, <1>3, <1>4, <1>5, <1>6, <1>7, ReadInOrder, ProcessInOrder DEF Next, ListenStep

\* Nothing was sent yet.
LEMMA InitOrderInv == Init => OrderInv
<1> SUFFICES ASSUME Init PROVE OrderInv
  OBVIOUS
<1>1. CallsDistinct /\ ResultsOpen /\ WrittenOnce
  BY CallersAssumption DEF Init, CallsDistinct, ResultsOpen, WrittenOnce
<1>2. ASSUME NEW e \in Ends PROVE EndInOrder(e)
  <2>1. Peer[e] \in Ends
    BY EndsAssumption
  <2>2. pipe[Peer[e]] = <<>> /\ written[Peer[e]] = <<>> /\ handled[e] = <<>> /\ listenPc[e] = "read"
    BY <2>1 DEF Init
  <2>3. Flow(<<>>, 0, <<>>, Up(e))
    <3> DEFINE at == [i \in 0..0 |-> 0]
    <3>1. Len(<<>>) = 0 /\ at \in [0..0 -> 0..0] /\ at[0] = 0
      OBVIOUS
    <3>2. \A i \in 1..0 : FALSE
      OBVIOUS
    <3> QED BY <3>1, <3>2 DEF Flow
  <2>4. Taken(e) = 0
    BY <2>2 DEF Taken
  <2> QED BY <2>2, <2>3, <2>4 DEF EndInOrder
<1> QED BY <1>1, <1>2 DEF OrderInv, InOrder

\* Both invariants hold of every reachable state.
THEOREM OrderHolds == Spec => [](IInv /\ OrderInv)
<1>1. IInv /\ OrderInv /\ [Next]_vars => OrderInv'
  BY CallsOrdered, InOrderStep DEF IInv, OrderInv
<1> QED BY <1>1, InvariantHolds, InitOrderInv, PTL DEF Spec

\* What the handler of an end was given is a prefix of what the other end wrote, in its
\* order, whatever the retries of acknowledgements and the losses of the connection
\* (Listen, sendAckIfNeeded).
THEOREM HandledInOrder == Spec => []HandledIsPrefixOfWritten
<1>1. IInv /\ OrderInv => HandledIsPrefixOfWritten
  <2> SUFFICES ASSUME IInv, OrderInv, NEW e \in Ends
               PROVE  /\ Len(handled[e]) <= Len(written[Peer[e]])
                      /\ \A i \in DOMAIN handled[e] : handled[e][i].counter = written[Peer[e]][i]
    BY DEF HandledIsPrefixOfWritten
  <2>1. EndInOrder(e)
    BY DEF OrderInv, InOrder
  <2>2. /\ pipe[Peer[e]] \in Seq(Messages) /\ written[Peer[e]] \in Seq(Counters)
        /\ Len(handled[e]) \in Nat
    BY EndsAssumption DEF IInv, TypeOK
  <2>3. Taken(e) \in 0..Len(written[Peer[e]])
    BY <2>1, <2>2, FlowBound DEF EndInOrder
  <2>4. Taken(e) = Len(handled[e]) \/ Taken(e) = Len(handled[e]) + 1
    <3>1. CASE listenPc[e] = "process"
      BY <3>1 DEF Taken
    <3>2. CASE listenPc[e] # "process"
      BY <2>2, <3>2 DEF Taken
    <3> QED BY <3>1, <3>2
  <2>5. Len(written[Peer[e]]) \in Nat
    BY <2>2
  <2>6. Len(handled[e]) <= Len(written[Peer[e]])
    BY <2>2, <2>3, <2>4, <2>5
  <2> QED BY <2>1, <2>6 DEF EndInOrder
<1> QED BY <1>1, OrderHolds, PTL

\* A step that leaves counters, results and the handlers' histories alone is a stuttering
\* step of the abstract specification.
LEMMA AbstractStutter ==
  ASSUME UNCHANGED <<counter, result, handled>>
  PROVE  UNCHANGED Abstract!vars
  BY DEF Abstract!vars

\* A step of the abstract specification that a Send's return maps to.
LEMMA AbstractReturn ==
  ASSUME TypeOK, CallsHoldCounters, ResultsOpen, NEW c \in Callers, sendPc[c] # "idle",
         UNCHANGED <<counter, handled>>,
         NEW r \in {"ok", "error", "timeout", "closed"}, Return(c, r), Home[c] \in AckEnds
  PROVE  Abstract!Return(Home[c], local[c], r) /\ local[c] \in Counters
<1> DEFINE h == Home[c]
           n == local[c]
           res == [e \in AckEnds |-> result[e]]
<1>t. /\ counter \in [Ends -> 0..MaxCounter] /\ h \in Ends /\ AckEnds \subseteq Ends
      /\ result \in [Ends -> [Counters -> {"none", "ok", "error", "timeout", "closed"}]]
      /\ MaxCounter \in Nat
  BY CallersAssumption, SetsAssumption, BoundsAssumption DEF TypeOK
<1>1. n \in 1..counter[h] /\ result[h][n] = "none"
  BY DEF CallsHoldCounters, ResultsOpen
<1>2. n \in Counters /\ n =< counter[h]
  BY <1>t, <1>1 DEF Counters
<1>3. result' = [result EXCEPT ![h][n] = r]
  BY DEF Return
<1>4. res' = [res EXCEPT ![h][n] = r]
  BY <1>t, <1>2, <1>3
<1> QED BY <1>1, <1>2, <1>4 DEF Abstract!Return

\* Every step of the two transceivers is a step of the abstract specification.
LEMMA AbstractStep ==
  ASSUME IInv, OrderInv, [Next]_vars
  PROVE  [Abstract!Next]_(Abstract!vars)
<1>t. /\ counter \in [Ends -> Nat] /\ AckEnds \subseteq Ends
      /\ result \in [Ends -> [Counters -> {"none", "ok", "error", "timeout", "closed"}]]
      /\ \A e \in Ends : Peer[e] \in Ends /\ Peer[Peer[e]] = e
      /\ \A c \in Callers : Home[c] \in Ends
  BY EndsAssumption, CallersAssumption, SetsAssumption, BoundsAssumption DEF IInv, TypeOK
<1>i. TypeOK /\ CallsHoldCounters /\ ResultsOpen /\ WrittenOnce /\ InOrder /\ SuccessJustified
  BY DEF IInv, OrderInv
<1>1. ASSUME NEW c \in Callers, PrepareSend(c) PROVE [Abstract!Next]_(Abstract!vars)
  <2> DEFINE h == Home[c]
             off == [e \in AckEnds |-> counter[e]]
  <2>1. counter' = [counter EXCEPT ![h] = counter[h] + 1] /\ UNCHANGED <<result, handled>>
    BY <1>1 DEF PrepareSend
  <2>2. CASE h \in AckEnds
    <3>1. off' = [off EXCEPT ![h] = off[h] + 1]
      BY <1>t, <2>1, <2>2
    <3>2. Abstract!Offer(h)
      BY <2>1, <2>2, <3>1 DEF Abstract!Offer
    <3> QED BY <2>2, <3>2 DEF Abstract!Next
  <2>3. CASE h \notin AckEnds
    <3>1. off' = off
      BY <1>t, <2>1, <2>3
    <3> QED BY <2>1, <3>1 DEF Abstract!vars
  <2> QED BY <2>2, <2>3
<1>2. ASSUME NEW c \in Callers, NEW r \in {"ok", "error", "timeout", "closed"},
             sendPc[c] # "idle", Return(c, r), UNCHANGED <<counter, handled>>,
             r = "ok" /\ Home[c] \in AckEnds => local[c] \in chClosed[Home[c]]
      PROVE  [Abstract!Next]_(Abstract!vars)
  <2> DEFINE h == Home[c]
             n == local[c]
  <2>1. CASE h \notin AckEnds
    <3>1. \A e \in AckEnds : result'[e] = result[e]
      BY <1>2, <1>t, <2>1 DEF Return
    <3> QED BY <1>2, <3>1 DEF Abstract!vars
  <2>2. CASE h \in AckEnds
    <3>1. Abstract!Return(h, n, r) /\ n \in Counters
      BY <1>2, <1>i, <2>2, AbstractReturn
    <3>2. CASE r # "ok"
      <4>1. Abstract!GiveUp(h, n)
        BY <3>1, <3>2 DEF Abstract!GiveUp
      <4> QED BY <2>2, <3>1, <4>1 DEF Abstract!Next
    <3>3. CASE r = "ok"
      <4>1. n \in Acceptable(Peer[h])
        BY <1>2, <1>i, <1>t, <2>2, <3>3 DEF SuccessJustified
      <4>2. PICK i \in DOMAIN handled[Peer[h]] :
              /\ handled[Peer[h]][i].counter = n
              /\ handled[Peer[h]][i].ok \/ Peer[h] \notin BlockingEnds
        BY <4>1 DEF Acceptable
      <4>3. Abstract!Confirm(h, n)
        BY <2>2, <3>1, <3>3, <4>2 DEF Abstract!Confirm
      <4> QED BY <2>2, <3>1, <4>3 DEF Abstract!Next
    <3> QED BY <3>2, <3>3
  <2> QED BY <2>1, <2>2
<1>3. ASSUME NEW c \in Callers, WritePayload(c) PROVE [Abstract!Next]_(Abstract!vars)
  <2>1. sendPc[c] # "idle" /\ UNCHANGED <<counter, handled>>
    BY <1>3 DEF WritePayload, transceiverVars
  <2>2. CASE Home[c] \in AckEnds
    BY <1>3, <2>1, <2>2, AbstractStutter DEF WritePayload
  <2>3. CASE Home[c] \notin AckEnds
    <3>1. Return(c, "ok")
      BY <1>3, <2>3 DEF WritePayload
    <3> QED BY <1>2, <2>1, <2>3, <3>1
  <2> QED BY <2>2, <2>3
<1>4. ASSUME NEW c \in Callers, WritePayloadFails(c) PROVE [Abstract!Next]_(Abstract!vars)
  <2>1. sendPc[c] # "idle" /\ UNCHANGED <<counter, handled>> /\ Return(c, "error")
    BY <1>4 DEF WritePayloadFails, transceiverVars
  <2> QED BY <1>2, <2>1
<1>5. ASSUME NEW c \in Callers, AckReceived(c) \/ AckTimeout(c) \/ AckAbandoned(c)
      PROVE  [Abstract!Next]_(Abstract!vars)
  <2>1. PICK r \in {"ok", "timeout", "closed"} :
          WaitEnds(c, r) /\ (r = "ok" => local[c] \in chClosed[Home[c]])
    BY <1>5 DEF AckReceived, AckArrived, AckTimeout, AckAbandoned
  <2>2. sendPc[c] # "idle" /\ UNCHANGED <<counter, handled>> /\ Return(c, r)
    BY <2>1 DEF WaitEnds, transceiverVars
  <2> QED BY <1>2, <2>1, <2>2
<1>6. ASSUME NEW e \in Ends, ProcessPayload(e) PROVE [Abstract!Next]_(Abstract!vars)
  <2> DEFINE p == Peer[e]
             n == listenMsg[e].counter
             del == [f \in AckEnds |-> handled[Peer[f]]]
  <2>1. PICK ok \in BOOLEAN :
          handled' = [handled EXCEPT ![e] = Append(@, [counter |-> n, ok |-> ok])]
    BY <1>6 DEF ProcessPayload
  <2>2. UNCHANGED <<counter, result>> /\ listenPc[e] = "process"
    BY <1>6 DEF ProcessPayload, transceiverVars, sendVars
  <2>3. p \in Ends /\ Peer[p] = e
    BY <1>t
  <2>h. DOMAIN handled = Ends
    BY <1>i DEF TypeOK
  <2>4. CASE p \notin AckEnds
    <3>1. \A f \in AckEnds : Peer[f] # e /\ Peer[f] \in Ends
      BY <1>t, <2>3, <2>4
    <3>2. del' = del
      BY <2>1, <2>h, <3>1
    <3> QED BY <2>2, <3>2 DEF Abstract!vars
  <2>5. CASE p \in AckEnds
    <3>1. del' = [del EXCEPT ![p] = Append(del[p], [counter |-> n, ok |-> ok])]
      <4>1. \A f \in AckEnds : f # p => Peer[f] # e /\ Peer[f] \in Ends
        BY <1>t, <2>3
      <4> QED BY <2>1, <2>3, <2>5, <2>h, <4>1
    <3> DEFINE w == written[p]
               k == Len(handled[e]) + 1
    <3>2. EndInOrder(e)
      BY <1>i DEF InOrder
    <3>3. /\ pipe[p] \in Seq(Messages) /\ w \in Seq(Counters) /\ Len(handled[e]) \in Nat
          /\ DOMAIN handled[e] = 1..Len(handled[e]) /\ Len(w) \in Nat /\ DOMAIN w = 1..Len(w)
      BY <1>i, <2>3 DEF TypeOK
    <3>4. k \in DOMAIN w
      <4>1. Taken(e) = k
        BY <2>2 DEF Taken
      <4>2. Taken(e) \in 0..Len(w)
        BY <3>2, <3>3, FlowBound DEF EndInOrder
      <4> QED BY <3>3, <4>1, <4>2
    <3>5. n = w[k] /\ \A i \in DOMAIN handled[e] : handled[e][i].counter = w[i]
      BY <2>2, <3>2 DEF EndInOrder
    <3>6. n \in 1..counter[p] /\ \A i \in DOMAIN w : w[i] = n => i = k
      BY <1>i, <2>3, <3>4, <3>5 DEF WrittenOnce
    <3>7. \A i \in DOMAIN handled[e] : handled[e][i].counter # n
      <4> SUFFICES ASSUME NEW i \in DOMAIN handled[e], w[i] = n PROVE FALSE
        BY <3>5
      <4> HIDE DEF w
      <4>1. i \in DOMAIN w /\ i # k
        BY <3>3, <3>4
      <4> QED BY <3>6, <4>1
    <3>8. n =< counter[p] /\ n \in Counters
      <4>1. counter[p] \in 0..MaxCounter
        BY <1>i, <2>3 DEF TypeOK
      <4> HIDE DEF n, p
      <4> QED BY <3>6, <4>1, BoundsAssumption DEF Counters
    <3>9. Abstract!Deliver(p, n, ok)
      <4> HIDE DEF n
      <4> QED BY <2>2, <2>3, <2>5, <3>1, <3>7, <3>8 DEF Abstract!Deliver
    <3> QED BY <2>5, <3>8, <3>9 DEF Abstract!Next
  <2> QED BY <2>4, <2>5
<1>7. CASE UNCHANGED <<counter, result, handled>>
  BY <1>7, AbstractStutter
<1>8. ASSUME NEW e \in Ends, ListenStep(e) \/ Close(e) \/ CloseConnection(e) \/ StrayMessage(e)
      PROVE  ProcessPayload(e) \/ UNCHANGED <<counter, result, handled>>
  BY <1>8 DEF ListenStep, ReadMessage, WriteAck, WriteAckFails, RetryAck, GiveUpAck, ListenReturns,
              Close, CloseConnection, StrayMessage, transceiverVars, sendVars
<1>9. Break \/ UNCHANGED vars => UNCHANGED <<counter, result, handled>>
  BY DEF Break, vars, transceiverVars, sendVars
<1>10. CASE \E c \in Callers : SendStep(c)
  BY <1>1, <1>3, <1>4, <1>5, <1>10 DEF SendStep
<1>11. CASE \E e \in Ends : ListenStep(e) \/ Close(e) \/ CloseConnection(e) \/ StrayMessage(e)
  BY <1>6, <1>7, <1>8, <1>11
<1> QED BY <1>7, <1>9, <1>10, <1>11 DEF Next

\* Two transceivers implement acknowledged delivery at most once: what AckDelivery allows
\* is all that the callers of Send and the payload handlers ever see.
THEOREM AckDeliveryImplemented == Spec => ImplementsAckDelivery
<1>1. Init => Abstract!Init
  <2> SUFFICES ASSUME Init PROVE Abstract!Init
    OBVIOUS
  <2>1. \A e \in AckEnds : e \in Ends /\ Peer[e] \in Ends
    BY EndsAssumption, SetsAssumption
  <2> QED BY <2>1 DEF Init, Abstract!Init
<1>2. IInv /\ OrderInv /\ [Next]_vars => [Abstract!Next]_(Abstract!vars)
  BY AbstractStep
<1> QED BY <1>1, <1>2, OrderHolds, PTL DEF Spec, Abstract!Spec, ImplementsAckDelivery

============================================================================
