----------------------------- MODULE Broadcast -----------------------------
(***************************************************************************)
(* Broadcasting a message: messagesHandler's Broadcast goroutines and      *)
(* their throttler, outgoingChannelLoadBalancer with one forwarding        *)
(* goroutine per channel, and the goroutine that publishes                 *)
(* (p2p/libp2p/messagesHandler.go, outgoingChannelLoadBalancer.go).        *)
(*                                                                         *)
(* Go channels here are unbuffered: a send and its receive are one step.   *)
(* A channel object is the number of the appendChannel call that made it.  *)
(* Each sender broadcasts one message, named by the sender.                *)
(***************************************************************************)
EXTENDS Integers, Sequences, FiniteSets, SequencesExt

CONSTANTS
    Topics,         \* topics that may be created; a topic's channel has its name
    DefaultChannel, \* defaultSendChannel
    Senders,        \* goroutines started by BroadcastOnChannel
    TopicOf,        \* TopicOf[g]: the topic of g's message
    ChannelOf,      \* ChannelOf[g]: the channel g asks for
    Unsendable,     \* senders whose buffer is empty or too large
    ThrottlerMax,   \* broadcastGoRoutines
    Removable,      \* channels the application may remove
    MaxChannels,    \* bound: channels ever made
    NoMessage       \* a nil *SendableData

ASSUME NamesAssumption == DefaultChannel \notin Topics /\ Removable \subseteq Topics

ASSUME SendersAssumption ==
    /\ IsFiniteSet(Senders)
    /\ NoMessage \notin Senders /\ Unsendable \subseteq Senders
    /\ TopicOf \in [Senders -> Topics]
    /\ ChannelOf \in [Senders -> Topics \cup {DefaultChannel}]

ASSUME BoundsAssumption == ThrottlerMax \in Nat /\ MaxChannels \in Nat \ {0}

VARIABLES
    names, chans, namesChans, \* the load balancer's fields of those names
    made,        \* how many channels were made
    closedChans, \* channels that were closed
    clbDone,     \* the load balancer's context is cancelled
    fwd, obj,    \* each forwarding goroutine: where it is and what it holds
    throttled,   \* the throttler's counter
    sender, target, \* each Broadcast goroutine: where it is and its channel
    topics,      \* keys of messagesHandler.topics
    handlerDone, \* the messages handler's context is cancelled
    consumer, collected, \* processChannelLoadBalancer: where it is and what it holds
    outcome      \* what became of each message (history)

clbVars == <<names, chans, namesChans, made, closedChans>>
fwdVars == <<fwd, obj>>
senderVars == <<sender, target, throttled>>
consumerVars == <<consumer, collected, outcome>>
vars == <<names, chans, namesChans, made, closedChans, clbDone, fwd, obj, throttled, sender,
          target, topics, handlerDone, consumer, collected, outcome>>

Names == Topics \cup {DefaultChannel}
Chans == 1..MaxChannels

TypeOK ==
    /\ names \in Seq(Names) /\ chans \in Seq(Chans)
    /\ namesChans \in [Names -> 0..MaxChannels]
    /\ made \in Chans /\ closedChans \subseteq Chans
    /\ clbDone \in BOOLEAN /\ handlerDone \in BOOLEAN
    /\ fwd \in [Chans -> {"none", "select", "push", "done"}]
    /\ obj \in [Chans -> Senders \cup {NoMessage}]
    /\ throttled \in 0..Cardinality(Senders)
    /\ sender \in [Senders -> {"idle", "start", "get", "send", "end", "sent", "refused", "panic"}]
    /\ target \in [Senders -> 0..MaxChannels]
    /\ topics \subseteq Topics
    /\ consumer \in {"timer", "collect", "publish", "done"}
    /\ collected \in Senders \cup {NoMessage}
    /\ outcome \in [Senders -> {"none", "published", "dropped"}]

\* NewOutgoingChannelLoadBalancer appends the default channel.
Init ==
    /\ names = <<DefaultChannel>> /\ chans = <<1>>
    /\ namesChans = [n \in Names |-> IF n = DefaultChannel THEN 1 ELSE 0]
    /\ made = 1 /\ closedChans = {}
    /\ clbDone = FALSE /\ handlerDone = FALSE
    /\ fwd = [i \in Chans |-> IF i = 1 THEN "select" ELSE "none"]
    /\ obj = [i \in Chans |-> NoMessage]
    /\ throttled = 0
    /\ sender = [g \in Senders |-> "idle"]
    /\ target = [g \in Senders |-> 0]
    /\ topics = {}
    /\ consumer = "timer" /\ collected = NoMessage
    /\ outcome = [g \in Senders |-> "none"]

(***************************************************************************)
(* The load balancer's channels                                            *)
(***************************************************************************)

\* AddChannel and appendChannel: an existing channel is left as it is.
AddChannel(n) ==
    IF namesChans[n] # 0
      THEN UNCHANGED <<clbVars, fwdVars>>
      ELSE LET i == made + 1
           IN  /\ made < MaxChannels
               /\ made' = i
               /\ names' = Append(names, n)
               /\ chans' = Append(chans, i)
               /\ namesChans' = [namesChans EXCEPT ![n] = i]
               /\ fwd' = [fwd EXCEPT ![i] = "select"]
               /\ UNCHANGED <<closedChans, obj>>

\* CreateTopic: Join may fail, then Subscribe may fail with the topic already recorded.
CreateTopic(t) ==
    /\ t \notin topics
    /\ topics' = topics \cup {t}
    /\ \/ UNCHANGED <<clbVars, fwdVars>>  \* Subscribe failed, or createChannelForTopic is not set
       \/ AddChannel(t)
    /\ UNCHANGED <<clbDone, senderVars, handlerDone, consumerVars>>

\* UnJoinAllTopics: subscriptions are cancelled and topics closed, whatever errors that
\* gives; the channels of the topics stay.
UnJoinAllTopics ==
    /\ topics # {}
    /\ topics' = {}
    /\ UNCHANGED <<clbVars, clbDone, fwdVars, senderVars, handlerDone, consumerVars>>

\* AddChannel called on the load balancer itself, for a channel that was removed.
AddChannelAgain(n) ==
    /\ n \in topics
    /\ AddChannel(n)
    /\ UNCHANGED <<clbDone, senderVars, topics, handlerDone, consumerVars>>

\* Mutant: the channel is closed but stays reachable by its name.
ForgetNothing(n) == namesChans

ForgetName(n) == [namesChans EXCEPT ![n] = 0]

\* Mutant: the channel after the one found is closed, the first one after the last.
NextClosed(k) == chans[(k % Len(chans)) + 1]

\* RemoveChannel closes the channel at the index of the name.
ClosedChannel(k) == chans[k]

\* RemoveChannel: the name is found in names, both slices lose that index.
RemoveChannel(n) ==
    /\ \E k \in DOMAIN names :
         /\ names[k] = n
         /\ names' = RemoveAt(names, k)
         /\ chans' = RemoveAt(chans, k)
         /\ closedChans' = closedChans \cup {ClosedChannel(k)}
    /\ namesChans' = ForgetName(n)
    /\ UNCHANGED <<made, clbDone, fwdVars, senderVars, topics, handlerDone, consumerVars>>

GetChannelOrDefault(n) == IF namesChans[n] # 0 THEN namesChans[n] ELSE chans[1]

(***************************************************************************)
(* broadcastOnChannelBlocking                                              *)
(***************************************************************************)

checkSendableData(g) == g \notin Unsendable

\* checkSendableData and throttler.CanProcess.
StartBroadcast(g) ==
    /\ sender[g] = "idle"
    /\ sender' = [sender EXCEPT ![g] =
                    IF checkSendableData(g) /\ throttled < ThrottlerMax THEN "start" ELSE "refused"]
    /\ UNCHANGED <<clbVars, clbDone, fwdVars, target, throttled, topics, handlerDone, consumerVars>>

\* With the key of another identity, which may be malformed; then all goes the same way.
StartBroadcastUsingPrivateKey(g) ==
    \/ StartBroadcast(g)
    \/ /\ sender[g] = "idle"
       /\ sender' = [sender EXCEPT ![g] = "refused"]
       /\ UNCHANGED <<clbVars, clbDone, fwdVars, target, throttled, topics, handlerDone, consumerVars>>

\* throttler.StartProcessing, a step after CanProcess.
StartProcessing(g) ==
    /\ sender[g] = "start"
    /\ throttled' = throttled + 1
    /\ sender' = [sender EXCEPT ![g] = "get"]
    /\ UNCHANGED <<clbVars, clbDone, fwdVars, target, topics, handlerDone, consumerVars>>

\* The channel is looked up under the lock and used after it.
GetChannel(g) ==
    /\ sender[g] = "get"
    /\ target' = [target EXCEPT ![g] = GetChannelOrDefault(ChannelOf[g])]
    /\ sender' = [sender EXCEPT ![g] = "send"]
    /\ UNCHANGED <<clbVars, clbDone, fwdVars, throttled, topics, handlerDone, consumerVars>>

\* The send on the channel meets its forwarding goroutine.
Handoff(g) ==
    LET i == target[g]
    IN  /\ sender[g] = "send"
        /\ i \notin closedChans
        /\ fwd[i] = "select"
        /\ fwd' = [fwd EXCEPT ![i] = "push"]
        /\ obj' = [obj EXCEPT ![i] = g]
        /\ sender' = [sender EXCEPT ![g] = "end"]
        /\ target' = [target EXCEPT ![g] = 0]
        /\ UNCHANGED <<clbVars, clbDone, throttled, topics, handlerDone, consumerVars>>

\* A send on a channel that was closed panics, also when it was already waiting.
SendPanics(g) ==
    /\ sender[g] = "send"
    /\ target[g] \in closedChans
    /\ sender' = [sender EXCEPT ![g] = "panic"]
    /\ UNCHANGED <<clbVars, clbDone, fwdVars, target, throttled, topics, handlerDone, consumerVars>>

\* Mutant: the slot is given back twice.
SlotsReturnedTwice == throttled - 2

SlotReturned == throttled - 1

EndProcessing(g) ==
    /\ sender[g] = "end"
    /\ throttled' = SlotReturned
    /\ sender' = [sender EXCEPT ![g] = "sent"]
    /\ UNCHANGED <<clbVars, clbDone, fwdVars, target, topics, handlerDone, consumerVars>>

(***************************************************************************)
(* The forwarding goroutines                                               *)
(***************************************************************************)

\* A receive from a closed channel yields nil at once.
ForwardNil(i) ==
    /\ fwd[i] = "select"
    /\ i \in closedChans
    /\ fwd' = [fwd EXCEPT ![i] = "push"]
    /\ obj' = [obj EXCEPT ![i] = NoMessage]
    /\ UNCHANGED <<clbVars, clbDone, senderVars, topics, handlerDone, consumerVars>>

ForwarderStops(i) ==
    /\ fwd[i] = "select"
    /\ clbDone
    /\ fwd' = [fwd EXCEPT ![i] = "done"]
    /\ UNCHANGED <<clbVars, clbDone, obj, senderVars, topics, handlerDone, consumerVars>>

(***************************************************************************)
(* processChannelLoadBalancer                                              *)
(***************************************************************************)

DurationBetweenSends ==
    /\ consumer = "timer"
    /\ consumer' = "collect"
    /\ UNCHANGED <<clbVars, clbDone, fwdVars, senderVars, topics, handlerDone, collected, outcome>>

\* Mutants: the forwarding goroutine pushes again what it pushed, or ends.
PushedAgain(i) == [at |-> "push", holds |-> obj[i]]
OneMessageOnly(i) == [at |-> "done", holds |-> NoMessage]

AfterPush(i) == [at |-> "select", holds |-> NoMessage]

\* CollectOneElementFromChannels receives from mainChan what goroutine i pushes; a nil
\* element is skipped.
Collect(i) ==
    /\ consumer = "collect"
    /\ fwd[i] = "push"
    /\ fwd' = [fwd EXCEPT ![i] = AfterPush(i).at]
    /\ obj' = [obj EXCEPT ![i] = AfterPush(i).holds]
    /\ collected' = obj[i]
    /\ consumer' = IF obj[i] = NoMessage THEN "timer" ELSE "publish"
    /\ UNCHANGED <<clbVars, clbDone, senderVars, topics, handlerDone, outcome>>

\* CollectOneElementFromChannels returns nil once its context is cancelled.
CollectNothing ==
    /\ consumer = "collect"
    /\ clbDone
    /\ consumer' = "timer"
    /\ UNCHANGED <<clbVars, clbDone, fwdVars, senderVars, topics, handlerDone, collected, outcome>>

\* The topic is looked up and the message published; on a topic that was never created,
\* or when packing or publishing fails, it is dropped.
Publish ==
    /\ consumer = "publish"
    /\ \E r \in IF TopicOf[collected] \in topics THEN {"published", "dropped"} ELSE {"dropped"} :
         outcome' = [outcome EXCEPT ![collected] = r]
    /\ consumer' = "timer"
    /\ collected' = NoMessage
    /\ UNCHANGED <<clbVars, clbDone, fwdVars, senderVars, topics, handlerDone>>

\* Mutant: the loop waits for the timer only.
LoopForEver == FALSE /\ UNCHANGED vars

ConsumerStops ==
    /\ consumer = "timer"
    /\ handlerDone
    /\ consumer' = "done"
    /\ UNCHANGED <<clbVars, clbDone, fwdVars, senderVars, topics, handlerDone, collected, outcome>>

(***************************************************************************)
(* messagesHandler.Close: its own context first, then the load balancer's. *)
(***************************************************************************)
CancelHandler ==
    /\ ~handlerDone
    /\ handlerDone' = TRUE
    /\ UNCHANGED <<clbVars, clbDone, fwdVars, senderVars, topics, consumerVars>>

CloseLoadBalancer ==
    /\ handlerDone /\ ~clbDone
    /\ clbDone' = TRUE
    /\ UNCHANGED <<clbVars, fwdVars, senderVars, topics, handlerDone, consumerVars>>

----------------------------------------------------------------------------

\* An unrecovered panic ends the program; until it does other goroutines may still run.
Crashed == \E g \in Senders : sender[g] = "panic"

SenderStep(g) ==
    \/ StartBroadcast(g) \/ StartBroadcastUsingPrivateKey(g) \/ StartProcessing(g) \/ GetChannel(g) \/ Handoff(g)
    \/ SendPanics(g) \/ EndProcessing(g)

ConsumerStep ==
    \/ DurationBetweenSends \/ CollectNothing \/ Publish \/ ConsumerStops
    \/ \E i \in Chans : Collect(i)

Next ==
    \/ \E t \in Topics : CreateTopic(t)
    \/ UnJoinAllTopics
    \/ \E n \in Removable : RemoveChannel(n) \/ AddChannelAgain(n)
    \/ \E g \in Senders : SenderStep(g)
    \/ \E i \in Chans : ForwardNil(i) \/ ForwarderStops(i)
    \/ ConsumerStep
    \/ CancelHandler \/ CloseLoadBalancer

Spec == Init /\ [][Next]_vars

(***************************************************************************)
(* Fairness.  Goroutines that can run do; goroutines waiting to send on    *)
(* the same channel are served in the order they came (Go keeps them in a  *)
(* queue), and a select picks at random among its ready cases.  Close goes *)
(* on from one context to the other.                                       *)
(***************************************************************************)
Fairness ==
    /\ \A g \in Senders :
         /\ WF_vars(StartProcessing(g) \/ GetChannel(g) \/ SendPanics(g) \/ EndProcessing(g))
         /\ SF_vars(Handoff(g))
    /\ \A i \in Chans :
         /\ WF_vars(ForwardNil(i) \/ ForwarderStops(i))
         /\ SF_vars(Collect(i))
    /\ WF_vars(ConsumerStep)
    /\ SF_vars(ConsumerStops)
    /\ WF_vars(CloseLoadBalancer)

FairSpec == Spec /\ Fairness

(***************************************************************************)
(* Properties                                                              *)
(***************************************************************************)

\* names, chans and namesChans describe the same channels, each once, the default one
\* first, and none of them is closed: GetChannelOrDefault always finds a live channel,
\* through any interleaving of CreateTopic and RemoveChannel (checkIntegrity in
\* outgoingChannelLoadBalancer_test.go looks at single calls).
ChannelsConsistent ==
    /\ Len(names) = Len(chans)
    /\ names[1] = DefaultChannel
    /\ \A k \in DOMAIN names : namesChans[names[k]] = chans[k] /\ chans[k] \notin closedChans
    /\ \A n \in Names : namesChans[n] # 0 => \E k \in DOMAIN names : names[k] = n
    /\ IsInjective(names)

\* The places where the message of g is, once its sender handed it over.
Places(g) ==
    {<<"forwarder", i>> : i \in {j \in Chans : fwd[j] = "push" /\ obj[j] = g}}
    \cup (IF consumer = "publish" /\ collected = g THEN {<<"consumer", 0>>} ELSE {})
    \cup (IF outcome[g] # "none" THEN {<<"settled", 0>>} ELSE {})

\* A message that was handed over is in exactly one place until it is published or
\* dropped, one that was not is nowhere: no channel, forwarding goroutine or collection
\* loses or doubles a broadcast, while channels come and go and during Close.
MessageConservation ==
    \A g \in Senders :
        Cardinality(Places(g)) = IF sender[g] \in {"end", "sent"} THEN 1 ELSE 0

\* The throttler counts the goroutines between StartProcessing and EndProcessing.  It
\* returns to zero when they are all through.
ThrottlerAccounting ==
    throttled = Cardinality({g \in Senders : sender[g] \in {"get", "send", "end", "panic"}})

\* Only a broadcast on a channel that the application removes can panic.  GetChannelOrDefault
\* hands the channel out from under its lock, so a RemoveChannel between that and the send
\* (broadcastOnChannelBlocking) closes it under the sender; it never closes the channel of
\* another name or the default channel, which stands in for the names that have none.
PanicsOnlyIfRemoved ==
    \A g \in Senders : ChannelOf[g] \notin Removable => sender[g] # "panic"

\* Until Close, a broadcast that has its slot is published or dropped, whatever other
\* channels do: the forwarding goroutine of a removed channel, which pushes nil for ever,
\* does not starve it.
BroadcastIsSettled ==
    \A g \in Senders :
        sender[g] = "get" ~> (outcome[g] # "none" \/ handlerDone \/ Crashed)

\* Close ends processChannelLoadBalancer.
CloseEndsConsumer == handlerDone ~> (consumer = "done" \/ Crashed)
============================================================================
