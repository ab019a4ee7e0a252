# A TLA+ model of mx-chain-communication-go

The repository holds the communication layer of a MultiversX node: a WebSocket host
(`src/websocket`), with which a node exports and receives data, and a peer-to-peer messenger
(`src/p2p`) on top of libp2p. Both are written as goroutines around mutexes, channels, timers
and bounded caches. This project models the parts that keep state of their own, checks them
with TLC and proves the central results with TLAPS.

## 1. Inventory

| Component | State | Operations | Interacts with |
|---|---|---|---|
| Transceiver (`websocket/transceiver`) | `counter`, `mapAck`, the acknowledgement channels, `safeCloser` | `Send`, `Listen`, `Close` | the connection, the payload handler, its twin at the other end |
| Connection (`websocket/connection`) | `conn`, behind `mut` | `OpenConnection`, `ReadMessage`, `WriteMessage`, `Close` | gorilla/websocket |
| Client (`websocket/client`) | its transceiver and connection, `safeCloser` | two loops (open, listen), `Send`, `Close` | the server |
| Server and holder (`websocket/server`) | map of transceivers and connections | accept, `Send` to all, `Close` | one goroutine per connection |
| Messages handler, sending (`p2p/libp2p/messagesHandler.go`) | `topics`, throttler, context | `Broadcast*`, `CreateTopic`, publishing loop, `Close` | load balancer, pubsub |
| Outgoing channel load balancer | `names`, `chans`, `namesChans`, a goroutine per channel | `AddChannel`, `RemoveChannel`, `GetChannelOrDefault`, `Collect...`, `Close` | messages handler |
| Messages handler, receiving | `processors`, `equivalentMessages` | register, unregister, `pubsubCallback`, `ProcessReceivedMessage` | pubsub, rating, blacklist, debugger |
| Direct sender, mutex holder | `seenMessages`, `counter`, mutexes in a bounded cache | `Send`, `directStreamHandler` | libp2p streams, messages handler |
| Peers rating handler and monitor (`p2p/rating`) | two bounded caches | `IncreaseRating`, `DecreaseRating`, `GetTopRatedPeersFromList` | messages handler, requesters |
| Preferred peers holder (`p2p/peersHolder`) | three maps and a list per shard | `PutConnectionAddress`, `PutShardID`, `Get`, `Contains`, `Remove`, `Clear` | connection monitor, sharder |
| Connection monitor, discoverers | reconnection channel, timers, kad-dht state | `Connected`, `Disconnected`, loops | libp2p, sharder, preferred peers |
| Network sharding | limits, peers' distances | `ComputeEvictionList` | connection monitor |
| Connections handler, peers on channel, metrics | per topic cache of peers | queries, refresh loop | libp2p |
| Network messenger | the components above | construction, `Close` | all |
| Message verification, cryptography | none | sign, verify | libp2p, crypto |

What is hard in this code:

- acknowledgements that are late, lost or repeated, against timeouts and `Close`;
- writes that hold a mutex without a deadline, from the goroutine that reads;
- two loops of the client that open, use and close one connection without telling each other;
- a channel looked up under a lock and used after it, while it may be removed and closed;
- `Close` in the middle of everything: contexts cancelled one after the other, goroutines that
  hold a message, connections that are being added;
- caches that evict what an algorithm is working on;
- maps and lists kept in step by hand, indexes that go out of date.

`PROJECT.json` lists each of these under `hazards` at its line, with the properties aimed at it.

What makes the components correct:

- *transceiver*: success of `Send` means the payload was handled; each payload is handled once
  and in order; no channel is closed twice; everything ends (sections 3 and 4, `WsTransceiver`);
- *client and server*: connections are not lost, the client reconnects, dead connections leave
  the holder, `Close` ends the goroutines (`WsHost`);
- *broadcast*: messages are not lost or doubled, tables agree, the throttler is exact, nothing
  starves (`Broadcast`);
- *rating*: tiers agree with ratings, selections are right (`PeersRating`);
- *preferred peers*: the maps agree with each other, a removed peer is on no list (`PeersHolder`);
- *intake*: handler and pubsub agree on which topics have a validator, a message is not processed
  again, one of several equivalent messages is relayed (`MessageIntake`);
- *direct sender*: a peer has one writer at a time unless its mutex was evicted, a stream carries
  its messages in order, a new message is not taken for a seen one, `Send` returns (`DirectSend`);
- *connections and sharding*: whatever the callbacks saw, the node ends within its limits, the
  eviction list is the one of a reference (`Connections`, `ListsSharder`);
- *discovery*: a lost seeder is found again although requests are dropped, a denied peer leaves,
  `Bootstrap` returns, goroutines end (`Discovery`);
- *messenger and peers on channel*: what failed attempts leave behind is bounded, `Close` ends the
  goroutines whatever fails on the way, but for some that broadcast, a cached list comes to be right
  (`Messenger`).

## 2. Plan

Done, in this order: `WsTransceiver` with its proof, `Broadcast`, `PeersRating` with its proof,
`PeersHolder`, `WsHost`, `MessageIntake`, `DirectSend`, `ListsSharder` and `Connections`,
`Discovery`, `PeersOnChannel` and `Messenger`, and `AckDelivery`, the abstract specification that
`WsTransceiver` implements. Then the proofs: the order of payloads and the refinement of
`AckDelivery` in `WsTransceiverProof`, `BroadcastProof`, `MessageIntakeProof`, `HostsProof` (the
WebSocket host and the node), `DirectSendProof`, `PeersHolderProof` and `ConnectionsProof` (with the
reference of the sharders and the discoverers).

Left for later: what becomes of a direct message behind the direct sender: its processors, which run in a
goroutine of their own, and the rating of its sender, composed with `PeersRating`.

## 3. Modules

Every definition that stands for code is under `map` in `PROJECT.json` with its lines. Definitions
whose comment starts with "Mutant" are not used by a specification: each is a plausible bug in
the definition after it, with which a property fails.

**WsTransceiver** models two transceivers and the connection between them. `Send` is
`PrepareSend` (the counter and the entry of `mapAck`, under the mutex), `WritePayload` or
`WritePayloadFails`, and then, with acknowledgements, one of the three cases of the `select` in
`waitForAck`: `AckReceived`, `AckTimeout`, `AckAbandoned`. `Listen` is `ReadMessage` (with
`handleAckMessage`), `ProcessPayload` (the handler succeeds or fails), `WriteAck`, and the retry
loop `WriteAckFails`, `RetryAck`, `GiveUpAck`. `Close` closes the safe closer and
`CloseConnection` the connection. The network loses a suffix of what is in flight (`Break`),
accepts a write that never arrives, and is full when `Capacity` messages wait, in which case a
write waits too. The program at the other end may repeat an acknowledgement or write messages of
another type (`StrayMessage`). The error of the payload converter on a message it built itself is
left out. `Abstract` instantiates `AckDelivery`.

**AckDelivery** says what a transceiver with acknowledgements promises, without counters, channels,
timers, sockets or retries: a call is offered, a payload is delivered once at most, a call returns
once, and returns success only after a delivery (a successful one, where the receiver has
`blockingAckOnError`). The mapping takes the counter for the calls offered, the history of handled
payloads for the deliveries and the results as they are.

**WsHost** models the lifetime of connections: the client's opening loop (`Opener...`), its
listening loop with the retries of acknowledgements inside it (`Listener...`), the three parts of
`client.Close`, the server's goroutine of each connection (`AddTransceiverAndConn`, `AckStuck`,
`ListenEnds`, `RemoveTransceiver`), the parts of `server.Close` (`Shutdown`, `GetAll`, then for one
connection after the other `CloseServerTransceiver` and `CloseServerConn`), and a server started again
at the same address. `connectionHandler` makes a transceiver or returns with the connection open and
unserved; `NewTransceiver` fails only for values of the server's configuration (acknowledgements with
a timeout of zero), so `serves` is chosen once. A dial may fail, on the way or at the upgrade
(`DialFails`), within the bound on breaks. What a connection carries is left to `WsTransceiver`. A
read takes the
connection under the lock and then reads without it, as `getConn` does; the close of a failed
socket may report an error, in which case `wsConn` keeps it.

**Broadcast** composes the sending side of the messages handler and the load balancer. A sender
goes through `StartBroadcast` (size check and `CanProcess`) or its variant with the key of another
identity, which packs that key with the message, then `StartProcessing`, `GetChannel`,
`Handoff` and `EndProcessing`. Channels are unbuffered, so a send and its receive are one step.
`RemoveChannel` closes the channel: a sender that looked it up before panics (`SendPanics`), and
its forwarding goroutine receives nil for ever (`ForwardNil`). The consumer waits for its timer,
collects and publishes, or drops a message whose topic is not there. `UnJoinAllTopics` empties the
map of topics and leaves their channels.

**PeersRating** models the rating handler with two caches that evict. `UpdateRating` is
`IncreaseRating` or `DecreaseRating` as a whole. `GetTopRatedPeersFromList` is one step per peer
(`SplitNext`) because its loop stores the peers it does not know and so may evict others. The
caches are external: a `Put` into a full cache makes any other entry disappear.

**PeersHolder** models the preferred peers. Each operation is one step, under the lock. The index
kept for a peer is the one the code keeps, out of date or not; `panicked` says that it was beyond
its list. A list is a value: that `Get` hands out slices that share their array with the holder's
is not modelled. `Get` and `Contains` change nothing.

**MessageIntake** models the receiving side of the messages handler for messages of topics.
`RegisterMessageProcessor` is `AddProcessor` for a topic that has processors, and otherwise
`RegisterTopic`, `MakeCache` and `AddFirstProcessor`, one step per effect that a validator running
at the same time can see. `UnregisterMessageProcessor` is `RemoveTopicProcessor` and `DropTopic`;
`UnregisterAllMessageProcessors` takes the topics one by one and stops at the first error.
A message goes through `Check` (`transformAndCheckMessage` with the window of timestamps and
`blacklistPid`), `Process` (the processors), and the two halves of
`isEquivalentMessageFirstBroadcast`, `LookUp` and `PutId`. `Arrive` and `Forget` are pubsub with
its time cache. The clock goes in ticks, and `time.Unix` cuts it to seconds. pubsub refuses a
second validator for a topic and the removal of one that is not there; that it refuses because it
was stopped is left out. The cache of identifiers of a topic is a least-recently-used one of
`equivalentMessagesCacheSize` (1000 in the code), as a sequence with the most recent last: a hit of
`Get` and a `Put` move the identifier to the end, and a `Put` into a full cache drops the first. Two
validations of the same message do not run together.

**DirectSend** models the direct sender from `SendToConnectedPeer` to the cache of seen messages at
the receiver. `MutexHolder.Get` is `Refreshed`, a least-recently-used cache as a sequence; a mutex
that was evicted lives on with those who hold or wait for it. A call then goes through `Lock`,
`GetConnection`, `FindStream` or `NewStream`, `CreateMessage` and `Write`, and every way out is a
`Return` with its deferred unlock. A write that overlaps with another on the same stream may leave a
frame that cannot be read. Connections come and go, `Self` may `Restart` with its counter taken from
the clock, and `Foreign` is a peer that sends messages under any name. `sendDirectToSelf` takes a
sequence number without any lock. A mutex or a stream that is made is one that nobody uses; which
one makes no difference, so it is a fixed choice among them.

**ListsSharder** has the two eviction lists as operators. A list is a set of peers; since the code
sorts by distance and peers may be equally far, an operator gives the set of the lists it may
answer with. `UsedAndSpare` is the chain of calls of `computeUsedAndSpare`, one after the other as in
the code. `KeepsTheReference` is a definition of what to keep that does not pass spare places
from kind to kind: over each prefix of the chain of kinds it compares the number kept
(`SumOfFirst`) with the minimum over all places where the chain may be cut (`MostOfFirst`).

**Connections** extends it with the callbacks of the connection monitor. `Connected` is
`CloseDenied` or `AskPeers`, `PutConnectionAddress`, `Compute` and one `ClosePeer` per peer of the
list: callbacks of several connections run at once, each with the peers it saw. Peers arrive, are
dialled through the sharder (`Connect`) or past it (`ConnectToPeer`), are lost, denied and allowed
again, and a sweep of the monitor may close a denied one (`Sweep`); the resolver may learn other things
of the peers at any time. Of the preferred peers holder it has what `Contains` answers: a callback only
makes a peer wait for its shard (`PutConnectionAddress`); the application, at any time, lists a waiting
one (`PutShardID`), removes one or clears the holder. `PeersHolder` has the holder in full.

**Discovery** models the monitor's loop and both kad-dht discoverers. A request to reconnect is a
send with a default (`Request`, `AskLoop`): it is dropped when the receiver is not in its `select`.
The optimized discoverer is one loop (`LoopStep`), which also serves `Bootstrap` through `chanInit`;
the continuous one has a goroutine that bootstraps (`BootStep`) and goroutines that try seeders in
turn (`TryStep`), for one of which the monitor waits. One seeder may be steady, the others answer or
not; that the node's own sharder refuses a seeder (`ErrUnwantedPeer` in
`hostWithConnectionManagement`) is one of the ways not to answer, and the steady one is never refused.
The list of seeders may be empty, and there is nothing to try then. One peer, which comes, goes, is
denied and allowed, is followed through the sweeps: `StartSweep` asks for the peers, `EndSweep` closes
it if it is denied by then.

**PeersOnChannel** models the cached lists of peers: a fetch without a lock and a store under one,
by callers and by the refreshing goroutine. **Messenger** extends it with the life of a node: the
choice of a port, attempts to bind, the components in the order they are made, every failure of the
construction, and `Close` step by step with its partial failures. The signer's constructor, after
`libp2p.New`, checks only for nil arguments that `newNetworkMessenger` has checked, so it has no failure
here. A cancelled component ends its goroutines; those of the load balancer and of the messages
handler (`Broadcasting`) may or may not, which `Broadcast` has in detail.

## 4. Runs

| Run | Instance | Shows |
|---|---|---|
| `transceiver` | two `Send` calls on one end with acknowledgements, the other end with `blockingAckOnError`; buffer of two; the connection may break | `AckMeansHandled`, `ChannelAccounting`, `HandledIsPrefixOfWritten`; the refinement `ImplementsAckDelivery`; `SendReturns`, `HandledIsAcked`, `CloseEndsListen` |
| `host` | two connections at a time, one break or failed dial, one closing of the server, which can serve or not | `NoConnectionLost`; `Reconnects`, `LoopsEnd`, `DeadConnectionsLeave`, `ServerCloseEnds` |
| `broadcast` | one topic, two senders, one of them on the default channel, three channels ever made, one slot | `ChannelsConsistent`, `MessageConservation`, `ThrottlerAccounting`, `PanicsOnlyIfRemoved`; `BroadcastIsSettled`, `CloseEndsConsumer` |
| `rating` | three peers, caches of two, ratings -2..3, factors 2 and -1 | `TypeOK` (ratings within their limits), `TiersAgreeWithRatings`, `SelectionIsRight`, `BadPeersEarnTheirWay` |
| `preferred_peers` | three peers, two shards, two addresses and a connection that matches both; at most two peers on a list | `KnownAtAddress`, `ListsLongEnough` |
| `preferred_remove` | the same with one preferred address | the finding: `RemovedIsUnlisted` fails |
| `intake` | two topics, two identifiers of processors, two equivalent messages, one of another identifier and one that cannot be read; room for one identifier; two ticks to a second, a cache of one second, one second in advance | `RegistryAgrees`, `LateIsProcessedOnce`, `EquivalentsRelayedOnce` |
| `intake_window` | one message, one second ahead when time begins | the finding: `ProcessedOnce` fails |
| `direct` | two callers, two peers, one connection, a cache of one mutex, two streams with a window of two, three sequence numbers, forged messages | `OneWriterUnlessEvicted`, `StreamInOrder`, `FreshIsNotSeen`; `SendReturns` |
| `connections` | three peers, the lists sharder, two callbacks or dials at once, one peer that may be preferred and denied; nothing known of the peers, or validators of the node's shard, or of two shards | `WithinLimits`, `ComputesTheReference` |
| `discovery` | two seeders, both discoverers, a peer that may be denied, two callers of `Bootstrap` | `SeederFound`, `DeniedLeaves`, `BootstrapReturns`, `GoroutinesEnd` |
| `messenger` | one topic with one peer, two callers, two ports, two attempts to bind | `LeakBounded`; `CloseEndsOthers`, `ListHeals` |

Most modules state a `TypeOK` for the reader and the proofs; only that of `PeersRating`,
which says that no arithmetic leaves the limits, is a property of a run.

Why the bounds are enough. Two concurrent `Send` calls are the least that can take their counters
in one order and write in another; a buffer of two lets an acknowledgement and a message of another
kind be in flight together; a third call would meet the same states at a later counter. Two
connections are what the client's loops can confuse, the one that failed and the one just opened;
a connection that neither side uses is used again, so the length of a run is not bounded by them.
Two senders with one slot make the throttler refuse and let it overshoot, and with the topic and
the default channel put two messages in the load balancer behind each other; three channels allow
one to be removed and made again. Caches of two for three peers evict, and factors 2 and -1 jump
over the limits and over zero. Lists of two preferred peers, of three, let one be removed from before
another and a third be listed after it, which is how an index goes out of date.
Two ticks are the least that tell the clock from its whole seconds; the messages of `intake` come
at the ticks of `ArriveAt`, which include the ones at both ends of the window and the first at
which a forgotten message can come again, and time goes on until the one that comes again is too old. Two
topics let `UnregisterAllMessageProcessors` stop between them. A cache of one identifier and messages
with two evict one, between the two equivalent messages or not.

Two peers and one mutex in the cache evict a mutex that is held, and two callers then meet at one
peer; two streams let one be reset while another is used; three sequence numbers leave one for a
message before a restart and one after it. Two callbacks are the least of which one has a stale
list, and with maxima of one three peers exceed them. The run has two of the five kinds of the chain
in excess, so that spare places are passed on once, and the lists sharder only; that they are passed all
the way down, and the one list of the other sharder, is left to the theorem `ListIsTheReference`, and so
is `WithinLimits` for them to `LimitsKept`. An empty list of seeders, which makes the loops simpler, is
left to the theorems about `Discovery`. Two seeders tell a discoverer that goes on to
the next from one that does not, and two callers let one `Bootstrap` come while another is answered.
Two callers and the refreshing goroutine can store lists in the wrong order; two attempts are a
failed one and one that succeeds.

Fairness. Goroutines that can run do, timers fire, and the payload handler returns (weak fairness
of the steps of each goroutine). A Go `select` with several ready cases picks at random and the
goroutines that wait on one channel or mutex are served in order: strong fairness of the case on a
closed safe closer or context, of `Handoff` and `Collect`, of the monitor's sweep and of `chanInit`
in the discoverer's loop, and of `Lock` in `DirectSend`. A `Close` that began goes on to its next
statement. Nothing says that a `Close` is called, that the network breaks or recovers, that a write
succeeds, that a seeder answers (but the steady one), that a closed server is started again, or that
a goroutine of the load balancer or a broadcast ends after `Close`.
`DurationBetweenSends` needs no real time. In `DirectSend` the readers of streams read, without
which a full window holds its writer for ever: `WriteMsg` has no deadline.

Deadlock is checked in `connections` and `direct`, where something can always happen. In
the other runs a closed component has nothing left to do, or a bound on calls ends the run.

## 5. Findings

*The window of timestamps.* The comment of `validateMessageByTimestamp` gives the lower end as
`now-pubsubTimeCacheDuration+acceptMessagesInAdvanceDuration`; the code leaves out the last
term. A message that came ahead of its timestamp is forgotten by pubsub while it is still in the
window, and is processed again (run `intake_window`). With the comment's window `ProcessedOnce`
holds on the same instance.

*Remove from the preferred peers holder.* Its comment says that it "will remove the provided peer ID
from the inner members" (`peersHolder.go:157`). The list of a shard loses the peer at the index that
`PutShardID` saved, which is out of date once an earlier peer of the list was removed: `Remove` then
takes another peer off and leaves its own, which `Get` goes on to return (run `preferred_remove`), or
panics when the index is beyond the list.

Behaviours of the code that the models have and that a maintainer should know. We met no document
that says otherwise, so they are not findings; the properties are stated so as to allow them.

- *Close behind a blocked write.* `WriteMessage` holds `wsConnClient.mut` while it writes, with no
  deadline, and acknowledgements are written by the goroutine that reads. With acknowledgements at
  both ends and full socket buffers both `Listen` goroutines wait for the other one to read, and
  `Close` waits for the mutex.
- *No reconnection during an acknowledgement.* `sendAckIfNeeded` retries on the connection until
  the write succeeds or the transceiver is closed. If the connection fails between the read and
  the write, `Listen` never returns, the connection stays set, and the opening loop takes it for
  open (`Reconnects` excludes this case). The server's goroutine can be stuck in the same way, but
  it does not hold up others.
- *A forwarding goroutine survives Close* of the load balancer: the push on `mainChan` is outside
  of the `select`. Broadcasts that wait to hand it a message then wait for ever too
  (`CloseEndsOthers` leaves them out).
- *A connection after Close.* `client.Close` closes the connection before the safe closer; the opening
  loop may open another one in between, on which the listening loop stays (`LoopsEnd` allows it).
- *A connection added late.* A connection that enters the holder after `server.Close` took its
  connections is not closed.
- *A connection that nobody serves.* A server with acknowledgements and a timeout of zero accepts
  connections, makes no transceiver for them and does not close them; the client takes them for open.
- *A channel removed under a broadcast.* A `RemoveChannel` between the lookup of a channel and the
  send on it makes the broadcast panic (`PanicsOnlyIfRemoved` says that it reaches no other one).
- *Messages while a topic is registered.* A message that comes after the validator is registered and
  before the first processor is added, or after the last one is removed, is relayed unprocessed
  (`RegistryAgrees` speaks of the times between calls).
- *An evicted identifier.* After `equivalentMessagesCacheSize` other identifiers an equivalent message is
  relayed again, as one is that is looked up before the first is stored; `EquivalentsRelayedOnce` says
  that these are the only ways.
- *A peer stays known at an old address.* A peer that connected from two preferred addresses is
  removed from the second only; from the first it is never taken up again until `Clear`.
- *Preferred peers are not forgotten.* `Disconnected` removes the ID of the connection from the
  preferred peers holder, which is no peer's; a preferred peer that left stays known.
- *An evicted mutex.* With more peers in use than `maxMutexes` a peer can have two writers, and
  their frames can mix; `OneWriterUnlessEvicted` says that this is the only way.
- *The monitor waits for the continuous discoverer.* While no seeder answers, the sweep for denied
  peers stands still, and a denied peer stays connected (`DeniedLeaves` asks for a seeder that answers).
- *Bootstrap after Close* of a node with the optimized discoverer waits for ever: nobody receives
  from `chanInit` any more. `BootstrapReturns` speaks of nodes that are not closed.
- *What a failed construction leaves behind.* Each attempt that cannot bind leaves its connections
  watcher running, at most one per attempt (`LeakBounded`); after an error of `validateSeeders` the
  host stays open, and after that of a component only the host is closed.

## 6. Proofs

A proof module extends the module it is about. Each has an inductive invariant `IInv`, which TLC
checked on the instance of the module's run before it was proved, a lemma per action (or per kind
of action) that says the step keeps it, and the theorems that follow. The assumptions are the named
`ASSUME`s of the modules, which TLC evaluates in the runs; besides the types and ranges of the
constants they say that callers, senders or peers are finitely many, that the model's `None`, `Nil`
and `Torn` are not confused with real values, and what the constructors of the code check.

**WsTransceiverProof**, for every set of ends paired by `Peer`, every set of callers, every buffer
size, number of calls and choice of options: `TypeOK`, `ChannelAccounting`, `AckMeansHandled`,
`HandledIsPrefixOfWritten` and `ImplementsAckDelivery`. `AckMeansHandled` is about what a caller
returned and says nothing of how the acknowledgement came about, so it is not inductive. `IInv` adds:

- `CallsHoldCounters`: a caller inside `Send` has the counter that a `PrepareSend` gave out;
- `ChannelsMade`: entries of `mapAck` and closed channels belong to counters given out;
- `AcksJustified`: an acknowledgement that `Listen` is about to write, one in flight, one written
  before and a closed channel all belong to a payload that was handled acceptably;
- `SuccessJustified`: a successful result of an end with acknowledgements belongs to one too.

Justification can only be gained, since the history of handled payloads only grows
(`AcceptableGrows`); each action moves a justified acknowledgement one place on.

The order of payloads needs a second invariant, `OrderInv`: the payloads in the pipe of an end,
after those it took, are the next ones that the other end wrote, with other messages between them,
and all of them as long as the connection is up (`Flow` gives, for each place of the pipe, how many
of the payloads come before it); counters inside `Send`, returned ones and written ones are
distinct. With it each step of `WsTransceiver` is shown to be a step of `AckDelivery` or to leave
its variables alone: `PrepareSend` offers, `ProcessPayload` delivers (once, by `WrittenOnce`), and
the three ways out of `waitForAck` return.

**PeersRatingProof**, for every set of peers, limits, factors and cache sizes: `TypeOK`,
`TiersAgreeWithRatings`, `SelectionIsRight` and the action property `BadPeersEarnTheirWay`. `IInv`
adds `SplitInv`: while a selection runs, the two lists it found hold exactly the peers of the list
before the place of the loop, each once. It needs that the list itself has no peer twice
(`ListsAssumption`): the code copies duplicates into its answer. That eviction may take any other
entry enters as one lemma, `PutFact`.

**BroadcastProof**, for every finite set of senders and every number of topics and channels:
`ChannelsConsistent`, `MessageConservation`, `ThrottlerAccounting` and `PanicsOnlyIfRemoved`.
`MessageConservation` counts;
what is inductive is `EachInOnePlace`: a message that was handed over is with one forwarding
goroutine, with the consumer or settled, and in no two of these. A removed channel keeps its
goroutine, so `ChannelsLive` is needed too: channels in use were made, are not closed and are
distinct. `OnlyRemovedChannelsPanic` says how far the stale lookup of `GetChannelOrDefault` reaches:
a sender that asked for a channel nobody removes never panics. It needs `Unharmed`: while such a
sender waits, its target is the channel of some name that nobody removes, its own or the default one
when its own did not exist yet, and the map keeps what it has for such names (`UnremovableStay`).

**MessageIntakeProof**, for every set of topics, processors and messages and every duration of the
cache and the window: `RegistryAgrees`, `LateIsProcessedOnce` and `EquivalentsRelayedOnce`. The
registry agrees only between calls, so `TopicsAgree` says what holds of the topic a call is busy
with, and `NoSharing` that no two topics share their `topicProcessors`, or a removal of one would
empty the other. `LateInv` is the argument about time: what pubsub has forgotten is too old, since
whole seconds only round down. `RelayInv`: an identifier about to be stored overlapped with every
other validation of it that is about to store or was relayed, unless the cache outlived it. For the
cache of identifiers, of any size, the argument is that of a least-recently-used cache (`Remembered`): while
fewer than its size other identifiers were used since that of a relayed message, its identifier is in the
cache, and all that come after it are among those used since; when it falls out, at the front of a full
cache, there are as many of these as the cache holds (`FullCache`).

**HostsProof** has the hosts of both halves of the library. For any number of connections, breaks and
closings of the WebSocket host: `NoConnectionLost`, and `HolderIsExact`, which no run checks: the
server's map has exactly the connections whose goroutine is between adding and removing it, also
during `Close` and after a restart. For the node, `Messenger`, with any number of ports and
attempts: `LeakBounded`, and `CloseCancelsAll`, the part of `CloseEndsOthers` that is no
liveness: when `Close` is through, whatever failed on the way, the context of every goroutine that
still runs is cancelled. What is inductive is `WatchersCounted`, the number of watchers at every place
of the construction, exactly `attempt - 1` left behind while an attempt is under way, and
`ClosedInOrder`, the steps of `Close` that are past have cancelled what they close. The module extends
`WsHost` and `Messenger`, whose specification is therefore called `NodeSpec`.

**DirectSendProof**, for any number of callers, peers, connections, streams and mutexes:
`OneWriterUnlessEvicted`, `StreamInOrder` and `FreshIsNotSeen`. The first rests on `CachedOrEvicted`:
while a call works, its mutex is in the cache and every entry after it belongs to a peer that was
asked for since, unless that many peers were. An entry falls out at the front, when the entries
after it are as many as the cache holds, and by then the distinct peers of those entries are all in
`asked` (an injection from places to peers, hence the cardinality). The second rests on
`WriterIsNext`: unless two writers of a peer ever were inside together, who is about to write has a
greater number than everything on its stream. The third on numbers being given once: no message that
is being written, on its way or seen has the number of another (`FreshInv`), which a restart keeps
because the clock is never behind the counter. `MutexesGivenBack` (`HeldInside`): a mutex that is
locked is locked by a caller inside `Send` that works with this mutex, so no way out of `Send`, its
early returns included, leaves one locked, not even one that the cache evicted meanwhile.

**PeersHolderProof**, for every set of peers, shards and addresses: `KnownAtAddress` and
`ListsLongEnough`. They are inductive with the types and with the entries being finitely many. That
`Remove` may take another peer off the list than its own is no obstacle: it takes one element for one
entry deleted.

**ConnectionsProof**, for every finite set of peers, all distances and limits that the constructors
accept, both sharders and any number of callbacks: `WithinLimits` and `ComputesTheReference`. For
`WithinLimits`, `IInv` adds `SeesAll` (a callback
that is not late saw all who are connected) and `Limited`: leaving aside the peers whose callbacks
have not asked yet, the connected ones are within the limits, or a callback that saw all of them
is about to make its list, or a list is being closed after which they are. It needs two facts about
eviction lists: nobody is evicted of fewer peers, or when more of them are preferred, than of peers of
whom nobody is (`FewerFit`), and nobody of those that a list leaves (`RestFits`, for each setting of
the limits). Both come from one lemma about the chain of spare places, `KeptIsKept`: when each kind
has at most what was kept of it before, every kind is kept whole, and leaves at least as much to the
next. `ComputesTheReference` is an action property and holds of each single `Compute`: the sums that
the chain keeps are the minima of the reference (`UsedIsMost`), since a kind that uses less than it
has used all that was spare, and one that uses all it has adds its size to the sum before it. The
chain has five kinds, so the sums are unfolded and no induction is needed.

The same module has `Discovery` as the instance `Disc`, for any number of seeders and callers.
`OneWaits`: while the loop of the optimized discoverer is about to answer a `Bootstrap`, exactly one
caller waits on `errChanInit`, at other times none, so the send that nothing can interrupt has its
receiver; and the dht is made once at most. With it the send in `finishMainLoopProcessing` never
finds a caller. `NoVainWait`: the monitor in `ReconnectToNetwork`, and the bootstrap goroutine, wait
for a goroutine that still tries or has signalled, or the context that ends their wait is done. A
goroutine that ends without a signal found the discoverer's context done, and `Close` cancels the
monitor's before it (`WaitsInv`). These are the safety halves of `BootstrapReturns` and
`GoroutinesEnd`.

Every invariant and every action property that a run expects to hold is also a theorem, and so is the
refinement of `AckDelivery`. Only model-checked: all liveness properties, since the prover does not
reason about fairness or `ENABLED`; of `CloseEndsOthers`, `BootstrapReturns` and `GoroutinesEnd` the
theorems above prove what is safety. `RemovedIsUnlisted` and `ProcessedOnce` are findings, which the
runs `preferred_remove` and `intake_window` refute; `LateIsProcessedOnce` says for which messages the
second is true, and `ListsLongEnough` what is left of the first. Of `PeersOnChannel` the property
worth stating is liveness.

## 7. Not modelled

- Payload conversion, signing, key handling and message verification: third-party encodings, with
  no state that a property tells apart. The generated protobuf code.
- Values of configurations, argument checks, resource limits, logs and metrics.
- The libp2p host, kad-dht, pubsub and its caches themselves: external, modelled by how the code
  uses them.
- Direct messages behind the direct sender: `ProcessReceivedMessage` of the messages handler in its
  goroutine, and the rating of the sender (see the plan).
- The queries of the connections handler, which only ask libp2p and report.
- `server.SetPayloadHandler`, which is written without a lock and does not reach earlier
  connections.
- `stopDHT`, which only tests call, and the components that do nothing: the nil sharder, the nil
  discoverer, the disabled ones.
- Real time, except the clocks of `MessageIntake` and `DirectSend`: a timeout may happen at any
  moment.
