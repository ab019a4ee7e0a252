------------------------------ MODULE DirectSend ------------------------------
(***************************************************************************)
(* The direct sender: p2p/libp2p/directSender.go, mutexHolder.go and what  *)
(* messagesHandler.go does with a direct message.                          *)
(*                                                                         *)
(* Callers of Send at one node, Self, share one mutex for each peer, kept  *)
(* in a bounded least-recently-used cache, and write to the streams of the *)
(* peer's connections.  At the other end a reader for each stream checks   *)
(* the messages and hands them to a goroutine.  Foreign is a peer of the   *)
(* receivers that runs any program.                                        *)
(***************************************************************************)
EXTENDS Naturals, FiniteSets, Sequences, SequencesExt, Functions

CONSTANTS
    Callers,     \* goroutines of Self that call SendToConnectedPeer
    Peers,       \* the peers they send to
    Conns,       \* the connections there can be
    PeerOf,      \* [Conns -> Peers]
    Self, Foreign,
    Capacity,    \* maxMutexes
    Window,      \* messages a stream takes before its reader reads
    MaxStreams,  \* bound: direct streams at a time
    MaxClock,    \* bound: the clock, and with it the messages made
    ForeignMessages, \* what Foreign may send
    None, Torn

ASSUME DirectSendAssumption ==
    /\ PeerOf \in [Conns -> Peers]
    /\ Capacity \in Nat \ {0} /\ Window \in Nat \ {0}
    /\ MaxStreams \in Nat /\ MaxClock \in Nat
    /\ Self \notin Peers /\ Foreign \notin Peers \cup {Self}
    /\ IsFiniteSet(Callers) /\ None \notin Callers \cup Conns
    /\ Torn \notin [from : {Self}, seq : Nat]

VARIABLES
    call,       \* what each caller is doing
    mutexes,    \* the LRU cache of (peer, mutex), the most recent last
    holder,     \* who has locked each mutex
    up,         \* the open connections
    streams,    \* outbound direct streams: where each one is, or None
    wire,       \* what was written to each stream and not yet read
    counter,    \* ds.counter
    clock,      \* time.Now().UnixNano()
    seen,       \* seenMessages of every receiver
    ready,      \* receivers whose messageHandler is set
    overlapped  \* history: peers that had two writers at once

lockVars == <<mutexes, holder>>
netVars == <<up, streams, wire>>
readVars == <<seen, ready>>
vars == <<call, lockVars, netVars, counter, clock, readVars, overlapped>>

(* More mutexes than the cache and the callers can hold. *)
Mutexes == 1 .. Capacity + Cardinality(Callers) + 1
Receivers == Range(PeerOf)
StreamIds == 1 .. MaxStreams
(* A message is what is remembered of it. *)
Messages == [from : {Self, Foreign}, seq : 1 .. MaxClock]
Idle == [pc |-> "idle", peer |-> None, mutex |-> 0, conn |-> None,
         stream |-> None, seq |-> 0, asked |-> {}]

Init ==
    /\ call = [c \in Callers |-> Idle]
    /\ mutexes = <<>>
    /\ holder = [m \in Mutexes |-> None]
    /\ up \in SUBSET Conns
    /\ streams = [s \in StreamIds |-> None]
    /\ wire = [s \in StreamIds |-> <<>>]
    /\ counter = 0 /\ clock = 0
    /\ seen = [p \in Receivers |-> {}] /\ ready = {}
    /\ overlapped = {}
-----------------------------------------------------------------------------
(* The mutex of a peer.                                                    *)
Places(p) == {i \in DOMAIN mutexes : mutexes[i].peer = p}
Place(p) == CHOOSE i \in Places(p) : TRUE

(* A mutex nobody has a reference to stands for a new one. *)
NewMutex == CHOOSE m \in Mutexes : /\ \A i \in DOMAIN mutexes : mutexes[i].mutex # m
                                   /\ \A c \in Callers : call[c].mutex # m

(* A miss makes a mutex, which evicts the least recent one of a full cache. *)
MutexFor(p) == IF Places(p) = {} THEN NewMutex ELSE mutexes[Place(p)].mutex

Others(p) == IF Places(p) = {} THEN mutexes ELSE RemoveAt(mutexes, Place(p))
Entry(p) == [peer |-> p, mutex |-> MutexFor(p)]

(* Mutant: the new mutex is not saved. *)
Unsaved(p) == IF Places(p) = {} THEN mutexes ELSE Append(Others(p), Entry(p))

(* MutexHolder.Get *)
Refreshed(p) ==
    Append(IF Len(Others(p)) = Capacity THEN Tail(Others(p)) ELSE Others(p), Entry(p))

Asking(p) == [c \in Callers |->
    IF call[c].pc = "idle" \/ call[c].peer = p THEN call[c]
    ELSE [call[c] EXCEPT !.asked = @ \cup {p}]]

(* Bound: the calls under way can still take their sequence numbers. *)
Room == clock + Cardinality({c \in Callers :
                   call[c].pc \notin {"idle", "write"}}) < MaxClock

(* Send: a payload that is too large returns before this and changes nothing. *)
GetMutex(c, p) ==
    /\ call' = [Asking(p) EXCEPT ![c] = [Idle EXCEPT
                  !.pc = "lock", !.peer = p, !.mutex = MutexFor(p)]]
    /\ mutexes' = Refreshed(p)
    /\ UNCHANGED <<holder, netVars, counter, clock, readVars, overlapped>>

(* Data that cannot be sent returns before this. *)
SendToConnectedPeer(c, p) == call[c].pc = "idle" /\ Room /\ GetMutex(c, p)

Inside(c) == call[c].pc \notin {"idle", "lock"}

Lock(c) ==
    /\ call[c].pc = "lock" /\ holder[call[c].mutex] = None
    /\ holder' = [holder EXCEPT ![call[c].mutex] = c]
    /\ call' = [call EXCEPT ![c].pc = "connect"]
    /\ overlapped' = overlapped \cup {p \in {call[c].peer} :
                        \E d \in Callers \ {c} : Inside(d) /\ call[d].peer = p}
    /\ UNCHANGED <<mutexes, netVars, counter, clock, readVars>>

(* Mutant: no deferred Unlock; the way without a connection forgets it. *)
UnlockedIfConnected(c) ==
    IF call[c].pc = "connect" THEN holder ELSE [holder EXCEPT ![call[c].mutex] = None]

(* The deferred Unlock. *)
Unlocked(c) == [holder EXCEPT ![call[c].mutex] = None]

Return(c) ==
    /\ call' = [call EXCEPT ![c] = Idle]
    /\ holder' = Unlocked(c)
    /\ UNCHANGED mutexes
-----------------------------------------------------------------------------
(* Connections and streams.                                                *)
ConnsToPeer(p) == {c \in up : PeerOf[c] = p}
Direct(c) == {s \in StreamIds : streams[s] = c}

(* The connection with the most streams; how many streams other protocols  *)
(* have on each is not modelled, so it may be any of them.                 *)
GetConnection(c) ==
    /\ call[c].pc = "connect"
    /\ \/ \E n \in ConnsToPeer(call[c].peer) :
            /\ call' = [call EXCEPT ![c].pc = "stream", ![c].conn = n]
            /\ UNCHANGED lockVars
       \/ ConnsToPeer(call[c].peer) = {} /\ Return(c)
    /\ UNCHANGED <<netVars, counter, clock, readVars, overlapped>>

UseStream(c, s) == call' = [call EXCEPT ![c].pc = "create", ![c].conn = None, ![c].stream = s]

FindStream(c) ==
    /\ call[c].pc = "stream"
    /\ \E s \in Direct(call[c].conn) : UseStream(c, s)
    /\ UNCHANGED <<lockVars, netVars, counter, clock, readVars, overlapped>>

UnusedStreams == {s \in StreamIds :
    streams[s] = None /\ \A c \in Callers : call[c].stream # s}
UnusedStream == CHOOSE s \in UnusedStreams : TRUE

(* NewStream is given the peer, not the connection: the host takes any     *)
(* open connection of the peer, or dials a new one.                        *)
NewStream(c) ==
    /\ call[c].pc = "stream" /\ Direct(call[c].conn) = {}
    /\ UnusedStreams # {}
    /\ \E n \in Conns :
        /\ PeerOf[n] = call[c].peer
        /\ n \in up \/ ConnsToPeer(call[c].peer) = {}
        /\ up' = up \cup {n}
        /\ streams' = [streams EXCEPT ![UnusedStream] = n]
    /\ UseStream(c, UnusedStream)
    /\ UNCHANGED <<lockVars, wire, counter, clock, readVars, overlapped>>

NewStreamFails(c) ==
    /\ call[c].pc = "stream" /\ Direct(call[c].conn) = {}
    /\ Return(c)
    /\ UNCHANGED <<netVars, counter, clock, readVars, overlapped>>

(* Mutant: two messages get one number. *)
LastSequenceNumber == counter' = (clock + 1) \div 2 /\ clock' = clock + 1

(* createMessage; no two sequence numbers are taken in one nanosecond. *)
NextSequenceNumber == counter' = counter + 1 /\ clock' = clock + 1

CreateMessage(c) ==
    /\ call[c].pc = "create"
    /\ NextSequenceNumber
    /\ call' = [call EXCEPT ![c].pc = "write", ![c].seq = counter']
    /\ UNCHANGED <<lockVars, netVars, readVars, overlapped>>

CreateMessageFails(c) ==
    /\ call[c].pc = "create"
    /\ Return(c)
    /\ UNCHANGED <<netVars, counter, clock, readVars, overlapped>>

MessageOf(c) == [from |-> Self, seq |-> call[c].seq]

WritingTo(s) == {c \in Callers : call[c].pc = "write" /\ call[c].stream = s}

(* WriteMsg and Flush: writes that overlap on a stream may mix their bytes. *)
Write(c) ==
    /\ call[c].pc = "write"
    /\ LET s == call[c].stream IN
        /\ streams[s] # None /\ Len(wire[s]) < Window
        /\ \E f \in {MessageOf(c)} \cup
                    IF WritingTo(s) = {c} THEN {} ELSE {Torn} :
             wire' = [wire EXCEPT ![s] = Append(@, f)]
    /\ Return(c)
    /\ UNCHANGED <<up, streams, counter, clock, readVars, overlapped>>

ResetStreams(S) ==
    /\ streams' = [s \in StreamIds |-> IF s \in S THEN None ELSE streams[s]]
    /\ wire' = [s \in StreamIds |-> IF s \in S THEN <<>> ELSE wire[s]]

(* A write fails on a stream that is gone; resetting it then does nothing. *)
WriteFails(c) ==
    /\ call[c].pc = "write" /\ streams[call[c].stream] = None
    /\ Return(c)
    /\ UNCHANGED <<netVars, counter, clock, readVars, overlapped>>
-----------------------------------------------------------------------------
(* What happens to connections, and the clock.                             *)
Connect(n) ==
    /\ n \notin up /\ up' = up \cup {n}
    /\ UNCHANGED <<call, lockVars, streams, wire, counter, clock,
                   readVars, overlapped>>

Disconnect(n) ==
    /\ n \in up /\ up' = up \ {n}
    /\ ResetStreams(Direct(n))
    /\ UNCHANGED <<call, lockVars, counter, clock, readVars, overlapped>>

Tick ==
    /\ Room /\ clock' = clock + 1
    /\ UNCHANGED <<call, lockVars, netVars, counter, readVars, overlapped>>

(* NewDirectSender takes the first sequence number from the clock. *)
FirstCounter(now) == now

(* Self ends and starts again. *)
Restart ==
    /\ counter' = FirstCounter(clock)
    /\ call' = [c \in Callers |-> Idle]
    /\ mutexes' = <<>> /\ holder' = [m \in Mutexes |-> None]
    /\ up' = {}
    /\ ResetStreams(StreamIds)
    /\ overlapped' = {}
    /\ UNCHANGED <<clock, readVars>>
-----------------------------------------------------------------------------
(* Receiving.                                                              *)
(* NewMessagesHandler sets the handler some time after NewDirectSender     *)
(* began to accept streams.                                                *)
RegisterDirectMessageProcessor(p) ==
    /\ p \notin ready /\ ready' = ready \cup {p}
    /\ UNCHANGED <<call, lockVars, netVars, counter, clock, seen, overlapped>>

(* Mutant: From is not compared with the connected peer. *)
NameUnchecked(m, sender) == TRUE

NameFits(m, sender) == m.from = sender

(* processReceivedDirectMessage up to checkAndSetSeenMessage, *)
GetsToSeen(p, m, sender) == p \in ready /\ NameFits(m, sender)
(* what comes after it (the signature, NewMessage, the processors) changes *)
(* no state here.                                                          *)
ProcessDirect(p, m, sender) ==
    seen' = [seen EXCEPT ![p] = IF GetsToSeen(p, m, sender) THEN @ \cup {m} ELSE @]

Read(s) ==
    /\ wire[s] # <<>> /\ Head(wire[s]) # Torn
    /\ ProcessDirect(PeerOf[streams[s]], Head(wire[s]), Self)
    /\ wire' = [wire EXCEPT ![s] = Tail(@)]
    /\ UNCHANGED <<call, lockVars, up, streams, counter, clock,
                   ready, overlapped>>

(* A frame that cannot be read ends the reader and resets the stream. *)
ReadFails(s) ==
    /\ wire[s] # <<>> /\ Head(wire[s]) = Torn
    /\ ResetStreams({s})
    /\ UNCHANGED <<call, lockVars, up, counter, clock, readVars, overlapped>>

ReadForeign(p, m) ==
    /\ p \in ready /\ ProcessDirect(p, m, Foreign)
    /\ UNCHANGED <<call, lockVars, netVars, counter, clock, ready, overlapped>>

(* The time cache of seen messages lets an entry go. *)
Expire(p) ==
    /\ \E i \in seen[p] : seen' = [seen EXCEPT ![p] = @ \ {i}]
    /\ UNCHANGED <<call, lockVars, netVars, counter, clock, ready, overlapped>>

(* sendDirectToSelf takes a sequence number without any lock. *)
SendDirectToSelf ==
    /\ Room /\ NextSequenceNumber
    /\ UNCHANGED <<call, lockVars, netVars, readVars, overlapped>>
-----------------------------------------------------------------------------
CallerStep(c) ==
    \/ Lock(c) \/ GetConnection(c) \/ FindStream(c) \/ NewStream(c)
    \/ NewStreamFails(c) \/ CreateMessage(c) \/ CreateMessageFails(c)
    \/ Write(c) \/ WriteFails(c)

StreamRead(s) == Read(s) \/ ReadFails(s)

Environment ==
    \/ \E n \in Conns : Connect(n) \/ Disconnect(n)
    \/ Tick \/ Restart

Receiving ==
    \/ \E p \in Receivers : RegisterDirectMessageProcessor(p) \/ Expire(p)
    \/ \E s \in StreamIds : StreamRead(s)
    \/ \E p \in Receivers, m \in ForeignMessages : ReadForeign(p, m)
    \/ SendDirectToSelf

Next ==
    \/ \E c \in Callers, p \in Peers : SendToConnectedPeer(c, p)
    \/ \E c \in Callers : CallerStep(c)
    \/ Environment
    \/ Receiving

Spec == Init /\ [][Next]_vars

(* Every goroutine that can run runs; a mutex is handed over in the order  *)
(* of the requests after a millisecond of waiting.                         *)
Fairness ==
    /\ \A c \in Callers : WF_vars(CallerStep(c)) /\ SF_vars(Lock(c))
    /\ \A s \in StreamIds : WF_vars(StreamRead(s))

FairSpec == Spec /\ Fairness
-----------------------------------------------------------------------------
TypeOK ==
    /\ \A c \in Callers : call[c].pc \in
         {"idle", "lock", "connect", "stream", "create", "write"}
    /\ Len(mutexes) =< Capacity
    /\ \A s \in StreamIds : streams[s] \in up \cup {None}
    /\ counter =< clock

(* Two callers are between Lock and Unlock of one peer together only when, *)
(* since one of them asked for its mutex, Capacity other peers were asked  *)
(* for: fewer cannot evict a mutex that is in use (mutexHolder.go:31).     *)
OneWriterUnlessEvicted ==
    \A c, d \in Callers :
        c # d /\ Inside(c) /\ Inside(d) /\ call[c].peer = call[d].peer =>
            \E e \in {c, d} : Cardinality(call[e].asked) >= Capacity

(* On a stream whose peer never had two writers at once the sequence       *)
(* numbers rise and no frame is torn (directSender.go:212-241).            *)
StreamInOrder ==
    \A s \in StreamIds :
        streams[s] # None /\ PeerOf[streams[s]] \notin overlapped =>
            \A i, j \in DOMAIN wire[s] :
                /\ wire[s][i] # Torn
                /\ i < j => wire[s][i].seq < wire[s][j].seq

(* No receiver takes a message on its way for one it has seen: not after a *)
(* restart of the sender, whose counter starts from the clock, and not     *)
(* after anything another peer sent (directSender.go:78, 154, 163).        *)
FreshIsNotSeen ==
    \A s \in StreamIds : \A i \in DOMAIN wire[s] :
        wire[s][i] # Torn => wire[s][i] \notin seen[PeerOf[streams[s]]]

(* Every Send returns: no way out keeps the mutex of the peer, and a       *)
(* reader makes room on the stream (directSender.go:212-248).              *)
SendReturns ==
    \A c \in Callers : call[c].pc # "idle" ~> call[c].pc = "idle"
=============================================================================
