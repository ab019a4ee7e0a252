-------------------------- MODULE DirectSendProof --------------------------
(***************************************************************************)
(* For every number of callers, peers, connections and streams and every   *)
(* capacity of the cache of mutexes: two callers write to one peer only    *)
(* after an eviction, streams keep their order, no message on its way was  *)
(* seen before, and nobody leaves Send with a mutex locked.                *)
(***************************************************************************)
EXTENDS DirectSend, FiniteSetTheorems, SequenceTheorems, TLAPS

PCs == {"idle", "lock", "connect", "stream", "create", "write"}
Calls == [pc : PCs, peer : Peers \cup {None}, mutex : Mutexes \cup {0},
          conn : Conns \cup {None}, stream : StreamIds \cup {None}, seq : Nat,
          asked : SUBSET Peers]
SelfMessages == [from : {Self}, seq : Nat]
Frames == SelfMessages \cup {Torn}
CacheEntries == [peer : Peers, mutex : Mutexes]

Working(c) == call[c].pc # "idle"
Streaming(c) == call[c].pc \in {"create", "write"}
Writing(c) == call[c].pc = "write"

\* A call has its peer and mutex, from its connection on a connection of the peer, and then
\* a stream that belongs to the peer as long as it is open.
CallOK(c) ==
    /\ IsFiniteSet(call[c].asked)
    /\ Working(c) => call[c].peer \in Peers /\ call[c].mutex \in Mutexes
    /\ call[c].pc = "stream" => call[c].conn \in Conns /\ PeerOf[call[c].conn] = call[c].peer
    /\ Streaming(c) =>
         /\ call[c].stream \in StreamIds
         /\ streams[call[c].stream] # None => PeerOf[streams[call[c].stream]] = call[c].peer

CallsOK == call \in [Callers -> Calls] /\ \A c \in Callers : CallOK(c)

LocksOK ==
    /\ mutexes \in Seq(CacheEntries) /\ Len(mutexes) <= Capacity
    /\ holder \in [Mutexes -> Callers \cup {None}]

NetOK ==
    /\ up \subseteq Conns
    /\ streams \in [StreamIds -> Conns \cup {None}] /\ wire \in [StreamIds -> Seq(Frames)]
    /\ \A s \in StreamIds : streams[s] = None => wire[s] = <<>>
    /\ DOMAIN seen = Receivers
    /\ counter \in Nat /\ clock \in Nat /\ counter <= clock

\* The cache has a peer once; it has the mutex of every call, with only peers behind it
\* that were asked for since, unless Capacity peers were; and who is inside holds its mutex.
CachedOnce ==
    \A i, j \in DOMAIN mutexes : mutexes[i].peer = mutexes[j].peer => i = j

Cached(c) ==
    \E i \in DOMAIN mutexes :
        /\ mutexes[i].peer = call[c].peer /\ mutexes[i].mutex = call[c].mutex
        /\ \A j \in DOMAIN mutexes : j > i => mutexes[j].peer \in call[c].asked

CachedOrEvicted ==
    \A c \in Callers : Working(c) => Cached(c) \/ Cardinality(call[c].asked) >= Capacity

HoldsInside == \A c \in Callers : Inside(c) => holder[call[c].mutex] = c

LockInv == CachedOnce /\ CachedOrEvicted /\ HoldsInside

\* Two callers inside are remembered, and unless there were two, who writes has a greater
\* sequence number than all that is on its stream.
TogetherRemembered ==
    \A c, d \in Callers :
        c # d /\ Inside(c) /\ Inside(d) /\ call[c].peer = call[d].peer =>
            call[c].peer \in overlapped

WriterIsNext ==
    \A c \in Callers :
        LET s == call[c].stream IN
        Writing(c) /\ streams[s] # None /\ call[c].peer \notin overlapped =>
            \A i \in DOMAIN wire[s] : wire[s][i].seq < call[c].seq

OrderInv == TogetherRemembered /\ WriterIsNext /\ StreamInOrder

\* A sequence number is given once: no two messages that are being written, on their way or
\* seen have the same, and none is greater than the counter.
NumbersCounted ==
    /\ \A c \in Callers : Writing(c) => call[c].seq <= counter
    /\ \A s \in StreamIds : \A i \in DOMAIN wire[s] : wire[s][i] # Torn => wire[s][i].seq <= counter
    /\ \A p \in Receivers : \A m \in seen[p] \cap SelfMessages : m.seq <= counter

OnWireOnce ==
    \A s, t \in StreamIds : \A i \in DOMAIN wire[s], j \in DOMAIN wire[t] :
        wire[s][i] # Torn /\ wire[s][i] = wire[t][j] => s = t /\ i = j

OnWireUnseen ==
    \A s \in StreamIds : \A i \in DOMAIN wire[s] : \A p \in Receivers :
        wire[s][i] # Torn => wire[s][i] \notin seen[p]

WriterIsNew ==
    \A c \in Callers : Writing(c) =>
        /\ \A s \in StreamIds : \A i \in DOMAIN wire[s] : wire[s][i] # MessageOf(c)
        /\ \A p \in Receivers : MessageOf(c) \notin seen[p]
        /\ \A d \in Callers : Writing(d) /\ call[d].seq = call[c].seq => c = d

FreshInv == NumbersCounted /\ OnWireOnce /\ OnWireUnseen /\ WriterIsNew

IInv == CallsOK /\ LocksOK /\ NetOK /\ LockInv /\ OrderInv /\ FreshInv

\* How many numbers there are from 1 to n.
LEMMA CountTo ==
  ASSUME NEW n \in Nat
  PROVE  Cardinality(1..n) = n
<1>1. 1 \in Int /\ n \in Int
  OBVIOUS
<1>2. Cardinality(1..n) = IF 1 > n THEN 0 ELSE n - 1 + 1
  BY <1>1, FS_Interval, Zenon
<1> QED BY <1>2

\* What the constants are.
LEMMA Constants ==
  /\ Capacity \in Nat /\ Capacity > 0 /\ Cardinality(Callers) \in Nat /\ IsFiniteSet(Callers)
  /\ None \notin Callers /\ None \notin Conns /\ PeerOf \in [Conns -> Peers]
  /\ Self # Foreign /\ Torn \notin SelfMessages
  /\ Mutexes = 1 .. Capacity + Cardinality(Callers) + 1 /\ 0 \notin Mutexes
  /\ \A n \in Conns : PeerOf[n] \in Receivers
<1>1. /\ Capacity \in Nat /\ Capacity > 0 /\ IsFiniteSet(Callers) /\ None \notin Callers /\ None \notin Conns
      /\ PeerOf \in [Conns -> Peers] /\ Self # Foreign
  BY DirectSendAssumption
<1>2. Cardinality(Callers) \in Nat
  BY <1>1, FS_CardinalityType
<1>3. Torn \notin SelfMessages
  BY DirectSendAssumption DEF SelfMessages
<1>4. Mutexes = 1 .. Capacity + Cardinality(Callers) + 1 /\ 0 \notin Mutexes
  BY <1>1, <1>2 DEF Mutexes
<1>5. \A n \in Conns : PeerOf[n] \in Receivers
  BY <1>1 DEF Receivers, Range
<1> QED BY <1>1, <1>2, <1>3, <1>4, <1>5

\* The parts of a call that decide about its mutex are as they were.
SameLock(c) ==
    /\ call'[c].peer = call[c].peer /\ call'[c].mutex = call[c].mutex
    /\ call'[c].asked = call[c].asked

\* A caller that is inside goes on: to a connection, a stream, a message.
Advance(c) ==
    /\ UNCHANGED <<mutexes, holder, overlapped>>
    /\ call' \in [Callers -> Calls] /\ SameLock(c)
    /\ Inside(c) /\ call'[c].pc \in {"stream", "create", "write"}
    /\ \A d \in Callers : d # c => call'[d] = call[d]

\* A caller that is inside unlocks and returns.
Leave(c) ==
    /\ UNCHANGED <<mutexes, overlapped>>
    /\ holder' = [holder EXCEPT ![call[c].mutex] = None]
    /\ call' \in [Callers -> Calls] /\ call'[c] = Idle /\ Inside(c)
    /\ \A d \in Callers : d # c => call'[d] = call[d]

\* A caller that sends nothing.
LEMMA IdleIsCall == Idle \in Calls /\ Idle.pc = "idle" /\ Idle.asked = {}
  BY DEF Idle, Calls, PCs

\* A caller locks, goes on, or unlocks and returns.
LEMMA CallerKinds ==
  ASSUME CallsOK, NetOK, NEW c \in Callers, CallerStep(c)
  PROVE  Lock(c) \/ Advance(c) \/ Leave(c)
<1>t. call \in [Callers -> Calls] /\ counter \in Nat /\ up \subseteq Conns /\ call[c] \in Calls
  BY DEF CallsOK, NetOK
<1>r. ASSUME Return(c), Inside(c), UNCHANGED overlapped PROVE Leave(c)
  BY <1>r, <1>t, IdleIsCall DEF Return, Unlocked, Leave
<1>a. ASSUME NEW e \in Calls, call' = [call EXCEPT ![c] = e], Inside(c),
             UNCHANGED <<mutexes, holder, overlapped>>,
             e.pc \in {"stream", "create", "write"}, e.peer = call[c].peer,
             e.mutex = call[c].mutex, e.asked = call[c].asked
      PROVE  Advance(c)
  BY <1>a, <1>t DEF Advance, SameLock
<1>1. CASE GetConnection(c)
  <2>1. Inside(c) /\ UNCHANGED overlapped
    BY <1>1 DEF GetConnection, Inside
  <2>2. CASE Return(c)
    BY <1>r, <2>1, <2>2
  <2>3. ASSUME NEW n \in ConnsToPeer(call[c].peer), UNCHANGED lockVars,
               call' = [call EXCEPT ![c].pc = "stream", ![c].conn = n]
        PROVE  Advance(c)
    <3> DEFINE e == [call[c] EXCEPT !.pc = "stream", !.conn = n]
    <3>1. n \in Conns
      BY <1>t, <2>3 DEF ConnsToPeer
    <3>2. e \in Calls /\ call' = [call EXCEPT ![c] = e]
      BY <1>t, <2>3, <3>1 DEF Calls, PCs
    <3>3. /\ e.pc = "stream" /\ e.peer = call[c].peer /\ e.mutex = call[c].mutex
          /\ e.asked = call[c].asked
      BY <1>t DEF Calls
    <3> HIDE DEF e
    <3> QED BY <1>a, <2>1, <2>3, <3>2, <3>3 DEF lockVars
  <2> QED BY <1>1, <2>2, <2>3 DEF GetConnection
<1>u. ASSUME NEW s \in StreamIds, UseStream(c, s), Inside(c), UNCHANGED <<lockVars, overlapped>>
      PROVE  Advance(c)
  <2> DEFINE e == [call[c] EXCEPT !.pc = "create", !.conn = None, !.stream = s]
  <2>1. e \in Calls /\ call' = [call EXCEPT ![c] = e]
    BY <1>t, <1>u DEF Calls, PCs, UseStream
  <2>2. /\ e.pc = "create" /\ e.peer = call[c].peer /\ e.mutex = call[c].mutex
        /\ e.asked = call[c].asked
    BY <1>t DEF Calls
  <2> HIDE DEF e
  <2> QED BY <1>a, <1>u, <2>1, <2>2 DEF lockVars
<1>2. CASE FindStream(c)
  BY <1>2, <1>u DEF FindStream, Direct, Inside
<1>3. CASE NewStream(c)
  <2>1. UnusedStream \in StreamIds
    BY <1>3 DEF NewStream, UnusedStream, UnusedStreams
  <2> QED BY <1>3, <1>u, <2>1 DEF NewStream, Inside
<1>4. CASE CreateMessage(c)
  <2> DEFINE e == [call[c] EXCEPT !.pc = "write", !.seq = counter']
  <2>1. counter' \in Nat
    BY <1>4, <1>t DEF CreateMessage, NextSequenceNumber
  <2>2. e \in Calls /\ call' = [call EXCEPT ![c] = e]
    BY <1>4, <1>t, <2>1 DEF Calls, PCs, CreateMessage
  <2>3. /\ e.pc = "write" /\ e.peer = call[c].peer /\ e.mutex = call[c].mutex
        /\ e.asked = call[c].asked
    BY <1>t DEF Calls
  <2> HIDE DEF e
  <2> QED BY <1>4, <1>a, <2>2, <2>3 DEF CreateMessage, lockVars, Inside
<1>5. CASE NewStreamFails(c) \/ CreateMessageFails(c) \/ Write(c) \/ WriteFails(c)
  BY <1>5, <1>r DEF NewStreamFails, CreateMessageFails, Write, WriteFails, Inside
<1> QED BY <1>1, <1>2, <1>3, <1>4, <1>5 DEF CallerStep

\* What a step does to calls and mutexes.
LEMMA StepKinds ==
  ASSUME CallsOK, NetOK, [Next]_vars
  PROVE  \/ \E c \in Callers, p \in Peers : call[c].pc = "idle" /\ GetMutex(c, p)
         \/ \E c \in Callers : Lock(c) \/ Advance(c) \/ Leave(c)
         \/ Restart
         \/ UNCHANGED <<call, mutexes, holder, overlapped>>
<1>1. Receiving => UNCHANGED <<call, mutexes, holder, overlapped>>
  BY DEF Receiving, RegisterDirectMessageProcessor, Expire, StreamRead, Read, ReadFails,
         ReadForeign, SendDirectToSelf, lockVars
<1>2. Environment => Restart \/ UNCHANGED <<call, mutexes, holder, overlapped>>
  BY DEF Environment, Connect, Disconnect, Tick, lockVars
<1>3. UNCHANGED vars => UNCHANGED <<call, mutexes, holder, overlapped>>
  BY DEF vars, lockVars
<1> QED BY <1>1, <1>2, <1>3, CallerKinds DEF Next, SendToConnectedPeer

\* There is always a mutex that nobody refers to.
LEMMA NewMutexExists ==
  ASSUME CallsOK, LocksOK
  PROVE  NewMutex \in Mutexes
<1>1. SUFFICES ASSUME ~ \E m \in Mutexes : /\ \A i \in DOMAIN mutexes : mutexes[i].mutex # m
                                           /\ \A c \in Callers : call[c].mutex # m
               PROVE  FALSE
  BY DEF NewMutex
<1> DEFINE I == 1..Len(mutexes)
           A == {mutexes[i].mutex : i \in I}
           B == {call[c].mutex : c \in Callers}
           f == [i \in I |-> mutexes[i].mutex]
           g == [c \in Callers |-> call[c].mutex]
<1>2. Len(mutexes) \in Nat /\ Len(mutexes) <= Capacity /\ DOMAIN mutexes = I
  BY DEF LocksOK
<1>3. IsFiniteSet(A) /\ Cardinality(A) <= Capacity /\ Cardinality(A) \in Nat
  <2>1. IsFiniteSet(I) /\ Cardinality(I) = Len(mutexes)
    <3> DEFINE n == Len(mutexes)
    <3> HIDE DEF n
    <3>1. n \in Nat
      BY <1>2 DEF n
    <3>2. IsFiniteSet(1..n) /\ Cardinality(1..n) = IF 1 > n THEN 0 ELSE n - 1 + 1
      BY <3>1, FS_Interval
    <3>3. IsFiniteSet(1..n) /\ Cardinality(1..n) = n
      BY <3>1, <3>2
    <3> QED BY <3>3 DEF n
  <2>2. f \in Surjection(I, A)
    BY DEF Surjection
  <2>3. IsFiniteSet(A) /\ Cardinality(A) <= Cardinality(I)
    BY <2>1, <2>2, FS_Surjection
  <2>4. Cardinality(A) \in Nat
    BY <2>3, FS_CardinalityType
  <2> HIDE DEF A, I
  <2> QED BY <1>2, <2>1, <2>3, <2>4, Constants
<1>4. IsFiniteSet(B) /\ Cardinality(B) <= Cardinality(Callers) /\ Cardinality(B) \in Nat
  <2>1. g \in Surjection(Callers, B)
    BY DEF Surjection
  <2>2. IsFiniteSet(B) /\ Cardinality(B) <= Cardinality(Callers)
    BY <2>1, Constants, FS_Surjection
  <2> QED BY <2>2, FS_CardinalityType
<1>5. Mutexes \subseteq A \cup B
  BY <1>1, <1>2
<1> HIDE DEF A, B, I, f, g
<1>6. /\ IsFiniteSet(A \cup B)
      /\ Cardinality(A \cup B) = Cardinality(A) + Cardinality(B) - Cardinality(A \cap B)
  BY <1>3, <1>4, FS_Union
<1>7. Cardinality(A \cap B) \in Nat
  <2>1. IsFiniteSet(A \cap B)
    BY <1>3, FS_Subset
  <2> QED BY <2>1, FS_CardinalityType
<1>8. Cardinality(Mutexes) <= Cardinality(A \cup B)
  BY <1>5, <1>6, FS_Subset
<1>9. Cardinality(Mutexes) = Capacity + Cardinality(Callers) + 1
  <2> DEFINE n == Capacity + Cardinality(Callers) + 1
  <2>1. n \in Nat /\ n >= 1 /\ Mutexes = 1..n
    BY Constants
  <2> HIDE DEF n
  <2>2. Cardinality(1..n) = n
    BY <2>1, FS_Interval
  <2> QED BY <2>1, <2>2 DEF n
<1> QED BY <1>3, <1>4, <1>6, <1>7, <1>8, <1>9, Constants

\* Without the entry of p the cache has its other entries, in their order.
LEMMA OthersKeepOrder ==
  ASSUME LocksOK, CachedOnce, NEW p \in Peers
  PROVE  LET O == Others(p) IN
         /\ O \in Seq(CacheEntries) /\ Len(O) <= Capacity
         /\ \A j \in 1..Len(O) : O[j].peer # p
         /\ \E f \in [1..Len(O) -> 1..Len(mutexes)] :
              /\ \A j \in 1..Len(O) : O[j] = mutexes[f[j]]
              /\ \A j, k \in 1..Len(O) : j < k => f[j] < f[k]
              /\ \A i \in 1..Len(mutexes) : mutexes[i].peer # p => \E j \in 1..Len(O) : f[j] = i
<1> DEFINE n == Len(mutexes)
<1>1. n \in Nat /\ n <= Capacity /\ mutexes \in Seq(CacheEntries) /\ DOMAIN mutexes = 1..n
  BY DEF LocksOK
<1>2. CASE Places(p) = {}
  <2>1. Others(p) = mutexes /\ \A i \in 1..n : mutexes[i].peer # p
    BY <1>1, <1>2 DEF Others, Places
  <2> DEFINE f == [j \in 1..n |-> j]
  <2>2. /\ f \in [1..n -> 1..n] /\ \A j \in 1..n : mutexes[j] = mutexes[f[j]]
        /\ \A j, k \in 1..n : j < k => f[j] < f[k]
        /\ \A i \in 1..n : \E j \in 1..n : f[j] = i
    OBVIOUS
  <2> HIDE DEF f
  <2> QED BY <1>1, <2>1, <2>2
<1>3. CASE Places(p) # {}
  <2> DEFINE k == Place(p)
             O == RemoveAt(mutexes, k)
             a == SubSeq(mutexes, 1, k - 1)
             b == SubSeq(mutexes, k + 1, n)
             f == [j \in 1..(n - 1) |-> IF j < k THEN j ELSE j + 1]
  <2>1. k \in 1..n /\ mutexes[k].peer = p
    BY <1>1, <1>3 DEF Place, Places
  <2> HIDE DEF k
  <2>2. \A i \in 1..n : mutexes[i].peer = p <=> i = k
    BY <1>1, <2>1 DEF CachedOnce
  <2>3. a \in Seq(CacheEntries) /\ Len(a) = k - 1 /\ \A i \in 1..(k - 1) : a[i] = mutexes[i]
    BY <1>1, <2>1, SubSeqProperties
  <2>4. b \in Seq(CacheEntries) /\ Len(b) = n - k /\ \A i \in 1..(n - k) : b[i] = mutexes[k + i]
    <3> DEFINE l == k + 1
    <3>1. l \in Int /\ n \in Int /\ \A i \in l..n : mutexes[i] \in CacheEntries
      BY <1>1, <2>1
    <3> HIDE DEF l, n
    <3>2. /\ SubSeq(mutexes, l, n) \in Seq(CacheEntries)
          /\ Len(SubSeq(mutexes, l, n)) = IF l <= n THEN n - l + 1 ELSE 0
          /\ \A i \in 1..(n - l + 1) : SubSeq(mutexes, l, n)[i] = mutexes[l + i - 1]
      BY <3>1, SubSeqProperties
    <3>3. /\ n - l + 1 = n - k /\ (IF l <= n THEN n - l + 1 ELSE 0) = n - k
          /\ \A i \in 1..(n - k) : l + i - 1 = k + i
      BY <1>1, <2>1, <3>1 DEF l
    <3>4. b = SubSeq(mutexes, l, n)
      BY DEF l, n
    <3> HIDE DEF b
    <3> QED BY <3>2, <3>3, <3>4
  <2>5. O = a \o b
    BY DEF RemoveAt
  <2> HIDE DEF a, b, n
  <2>6. /\ a \o b \in Seq(CacheEntries) /\ Len(a \o b) = Len(a) + Len(b)
        /\ \A i \in 1..(Len(a) + Len(b)) : (a \o b)[i] = IF i <= Len(a) THEN a[i] ELSE b[i - Len(a)]
    BY <2>3, <2>4, ConcatProperties
  <2>7. O \in Seq(CacheEntries) /\ Len(O) = n - 1
    BY <1>1, <2>1, <2>3, <2>4, <2>5, <2>6
  <2>8. ASSUME NEW j \in 1..(n - 1) PROVE O[j] = mutexes[f[j]]
    <3>1. j \in 1..(Len(a) + Len(b)) /\ f[j] = IF j < k THEN j ELSE j + 1
      BY <1>1, <2>1, <2>3, <2>4
    <3>2. CASE j < k
      <4>1. j <= Len(a) /\ j \in 1..(k - 1)
        BY <1>1, <2>1, <2>3, <3>2
      <4> QED BY <2>3, <2>5, <2>6, <3>1, <3>2, <4>1
    <3>3. CASE ~(j < k)
      <4>1. ~(j <= Len(a)) /\ j - Len(a) \in 1..(n - k) /\ k + (j - Len(a)) = j + 1
        BY <1>1, <2>1, <2>3, <3>3
      <4> QED BY <2>4, <2>5, <2>6, <3>1, <3>3, <4>1
    <3> QED BY <3>2, <3>3
  <2>9. /\ f \in [1..(n - 1) -> 1..n]
        /\ \A i, j \in 1..(n - 1) : i < j => f[i] < f[j]
        /\ \A j \in 1..(n - 1) : f[j] # k
    BY <1>1, <2>1
  <2>10. ASSUME NEW i \in 1..n, i # k PROVE \E j \in 1..(n - 1) : f[j] = i
    <3>1. CASE i < k
      <4>1. i \in 1..(n - 1) /\ f[i] = i
        BY <1>1, <2>1, <3>1
      <4> QED BY <4>1
    <3>2. CASE i > k
      <4>1. i - 1 \in 1..(n - 1) /\ f[i - 1] = i
        BY <1>1, <2>1, <3>2
      <4> QED BY <4>1
    <3> QED BY <1>1, <2>1, <2>10, <3>1, <3>2
  <2> HIDE DEF f
  <2>11. \A j \in 1..(n - 1) : O[j].peer # p
    BY <2>2, <2>8, <2>9
  <2>12. Others(p) = O
    BY <1>3 DEF Others, k
  <2> HIDE DEF O
  <2>13. Len(O) <= Capacity /\ 1..Len(O) = 1..(n - 1)
    BY <1>1, <2>7, Constants
  <2>14. /\ f \in [1..Len(O) -> 1..n] /\ \A j \in 1..Len(O) : O[j] = mutexes[f[j]]
         /\ \A j, i \in 1..Len(O) : j < i => f[j] < f[i]
         /\ \A i \in 1..n : mutexes[i].peer # p => \E j \in 1..Len(O) : f[j] = i
         /\ \A j \in 1..Len(O) : O[j].peer # p
    BY <2>2, <2>8, <2>9, <2>10, <2>11, <2>13
  <2> QED BY <2>7, <2>12, <2>13, <2>14 DEF n
<1> QED BY <1>2, <1>3

\* MutexHolder.Get: the entry of p is the last one, and of the others at most the first is
\* gone, when the cache was full of others.
LEMMA RefreshedKeepsOrder ==
  ASSUME CallsOK, LocksOK, CachedOnce, NEW p \in Peers
  PROVE  LET R == Refreshed(p)
             L == Len(Refreshed(p)) IN
         /\ R \in Seq(CacheEntries) /\ L \in 1..Capacity
         /\ R[L] = [peer |-> p, mutex |-> MutexFor(p)] /\ MutexFor(p) \in Mutexes
         /\ \A j \in 1..(L - 1) : R[j].peer # p
         /\ \E g \in [1..(L - 1) -> 1..Len(mutexes)] :
              /\ \A j \in 1..(L - 1) : R[j] = mutexes[g[j]]
              /\ \A j, k \in 1..(L - 1) : j < k => g[j] < g[k]
              /\ \A i \in 1..Len(mutexes) : mutexes[i].peer # p =>
                   (\E j \in 1..(L - 1) : g[j] = i) \/ (L = Capacity /\ \A j \in 1..(L - 1) : g[j] > i)
<1> DEFINE O == Others(p)
           n == Len(mutexes)
           B == IF Len(O) = Capacity THEN Tail(O) ELSE O
           e == [peer |-> p, mutex |-> MutexFor(p)]
<1>1. MutexFor(p) \in Mutexes
  <2>1. CASE Places(p) = {}
    BY <2>1, NewMutexExists DEF MutexFor
  <2>2. CASE Places(p) # {}
    <3>1. Place(p) \in DOMAIN mutexes
      BY <2>2 DEF Place, Places
    <3>2. mutexes[Place(p)] \in CacheEntries
      BY <3>1 DEF LocksOK
    <3> QED BY <2>2, <3>2 DEF MutexFor, CacheEntries
  <2> QED BY <2>1, <2>2
<1>2. e \in CacheEntries
  BY <1>1 DEF CacheEntries
<1>3. Refreshed(p) = Append(B, e)
  BY DEF Refreshed, Entry
<1>4. n \in Nat /\ Capacity \in Nat /\ Capacity > 0
  BY Constants DEF LocksOK
<1>5. /\ O \in Seq(CacheEntries) /\ Len(O) \in Nat /\ Len(O) <= Capacity
      /\ \A j \in 1..Len(O) : O[j].peer # p
  BY OthersKeepOrder
<1>6. PICK f \in [1..Len(O) -> 1..n] :
        /\ \A j \in 1..Len(O) : O[j] = mutexes[f[j]]
        /\ \A j, k \in 1..Len(O) : j < k => f[j] < f[k]
        /\ \A i \in 1..n : mutexes[i].peer # p => \E j \in 1..Len(O) : f[j] = i
  BY OthersKeepOrder
<1> HIDE DEF O, e
<1>7. /\ B \in Seq(CacheEntries) /\ Len(B) \in Nat /\ Len(B) < Capacity
      /\ \A j \in 1..Len(B) : B[j].peer # p
      /\ \E g \in [1..Len(B) -> 1..n] :
           /\ \A j \in 1..Len(B) : B[j] = mutexes[g[j]]
           /\ \A j, k \in 1..Len(B) : j < k => g[j] < g[k]
           /\ \A i \in 1..n : mutexes[i].peer # p =>
                \/ \E j \in 1..Len(B) : g[j] = i
                \/ Len(B) + 1 = Capacity /\ \A j \in 1..Len(B) : g[j] > i
  <2>1. CASE Len(O) # Capacity
    <3>1. B = O
      BY <2>1
    <3> QED BY <1>4, <1>5, <1>6, <2>1, <3>1
  <2>2. CASE Len(O) = Capacity
    <3>1. B = Tail(O) /\ O # <<>>
      BY <1>4, <1>5, <2>2
    <3>2. /\ B \in Seq(CacheEntries) /\ Len(B) = Len(O) - 1
          /\ \A j \in 1..Len(B) : B[j] = O[j + 1] /\ j + 1 \in 1..Len(O)
      BY <1>4, <1>5, <2>2, <3>1
    <3> HIDE DEF B
    <3> DEFINE g == [j \in 1..Len(B) |-> f[j + 1]]
    <3>3. /\ g \in [1..Len(B) -> 1..n] /\ \A j \in 1..Len(B) : B[j] = mutexes[g[j]]
          /\ \A j, k \in 1..Len(B) : j < k => g[j] < g[k]
      BY <1>4, <1>5, <1>6, <3>2
    <3>4. ASSUME NEW i \in 1..n, mutexes[i].peer # p
          PROVE  \/ \E j \in 1..Len(B) : g[j] = i
                 \/ Len(B) + 1 = Capacity /\ \A j \in 1..Len(B) : g[j] > i
      <4>1. PICK j \in 1..Len(O) : f[j] = i
        BY <1>6, <3>4
      <4>2. CASE j = 1
        <5>1. \A k \in 1..Len(B) : f[k + 1] > f[1]
          BY <1>5, <1>6, <3>2
        <5> QED BY <1>4, <2>2, <3>2, <4>1, <4>2, <5>1
      <4>3. CASE j # 1
        <5>1. j - 1 \in 1..Len(B) /\ g[j - 1] = i
          BY <1>5, <3>2, <4>1, <4>3
        <5> QED BY <5>1
      <4> QED BY <4>2, <4>3
    <3>5. Len(B) \in Nat /\ Len(B) < Capacity /\ \A j \in 1..Len(B) : B[j].peer # p
      BY <1>4, <1>5, <2>2, <3>2
    <3> HIDE DEF g
    <3> QED BY <3>2, <3>3, <3>4, <3>5
  <2> QED BY <2>1, <2>2
<1> HIDE DEF B, n
<1>8. /\ Append(B, e) \in Seq(CacheEntries) /\ Len(Append(B, e)) = Len(B) + 1
      /\ \A j \in 1..Len(B) : Append(B, e)[j] = B[j]
      /\ Append(B, e)[Len(B) + 1] = e
  BY <1>2, <1>7, AppendProperties
<1> DEFINE R == Append(B, e)
<1> HIDE DEF R
<1>9. R \in Seq(CacheEntries) /\ Len(R) = Len(B) + 1 /\ (\A j \in 1..Len(B) : R[j] = B[j]) /\ R[Len(R)] = e
  BY <1>8 DEF R
<1>10. Len(R) \in 1..Capacity /\ Len(R) - 1 = Len(B)
  BY <1>4, <1>7, <1>9
<1>11. Refreshed(p) = R
  BY <1>3 DEF R
<1> DEFINE L == Len(R)
<1> HIDE DEF L
<1>12. /\ \A j \in 1..(L - 1) : R[j].peer # p
       /\ \E g \in [1..(L - 1) -> 1..n] :
            /\ \A j \in 1..(L - 1) : R[j] = mutexes[g[j]]
            /\ \A j, k \in 1..(L - 1) : j < k => g[j] < g[k]
            /\ \A i \in 1..n : mutexes[i].peer # p =>
                 (\E j \in 1..(L - 1) : g[j] = i) \/ (L = Capacity /\ \A j \in 1..(L - 1) : g[j] > i)
  <2>1. L - 1 = Len(B) /\ L = Len(B) + 1
    BY <1>9, <1>10 DEF L
  <2>2. 1..(L - 1) = 1..Len(B)
    BY <2>1
  <2>3. PICK g \in [1..Len(B) -> 1..n] :
           /\ \A j \in 1..Len(B) : B[j] = mutexes[g[j]]
           /\ \A j, k \in 1..Len(B) : j < k => g[j] < g[k]
           /\ \A i \in 1..n : mutexes[i].peer # p =>
                \/ \E j \in 1..Len(B) : g[j] = i
                \/ Len(B) + 1 = Capacity /\ \A j \in 1..Len(B) : g[j] > i
    BY <1>7
  <2>4. /\ g \in [1..(L - 1) -> 1..n]
        /\ \A j \in 1..(L - 1) : R[j] = mutexes[g[j]] /\ R[j].peer # p
        /\ \A j, k \in 1..(L - 1) : j < k => g[j] < g[k]
        /\ \A i \in 1..n : mutexes[i].peer # p =>
             (\E j \in 1..(L - 1) : g[j] = i) \/ (L = Capacity /\ \A j \in 1..(L - 1) : g[j] > i)
    BY <1>7, <1>9, <2>1, <2>2, <2>3
  <2> QED BY <2>4
<1> QED BY <1>1, <1>9, <1>10, <1>11, <1>12, Zenon DEF n, e, L

\* What asking for the mutex of p does to the calls.
Asks(c, p) ==
    /\ call' \in [Callers -> Calls]
    /\ call'[c].pc = "lock" /\ call'[c].peer = p /\ call'[c].mutex = MutexFor(p)
    /\ call'[c].asked = {}
    /\ \A d \in Callers : d # c =>
         /\ call'[d].pc = call[d].pc /\ call'[d].peer = call[d].peer
         /\ call'[d].mutex = call[d].mutex /\ call'[d].conn = call[d].conn
         /\ call'[d].stream = call[d].stream /\ call'[d].seq = call[d].seq
         /\ call'[d].asked = IF call[d].pc = "idle" \/ call[d].peer = p THEN call[d].asked
                             ELSE call[d].asked \cup {p}

\* What GetMutex does to the calls and to the cache.
LEMMA AskingKinds ==
  ASSUME CallsOK, LocksOK, CachedOnce, NEW c \in Callers, NEW p \in Peers, GetMutex(c, p)
  PROVE  Asks(c, p)
<1> DEFINE e == [Idle EXCEPT !.pc = "lock", !.peer = p, !.mutex = MutexFor(p)]
<1>1. call \in [Callers -> Calls] /\ MutexFor(p) \in Mutexes
  BY RefreshedKeepsOrder DEF CallsOK
<1>2. e \in Calls /\ e.pc = "lock" /\ e.peer = p /\ e.mutex = MutexFor(p) /\ e.asked = {}
  BY <1>1 DEF Idle, Calls, PCs
<1> HIDE DEF e
<1>3. call' = [Asking(p) EXCEPT ![c] = e]
  BY DEF GetMutex, e
<1>4. ASSUME NEW d \in Callers
      PROVE  /\ Asking(p)[d] \in Calls
             /\ Asking(p)[d].pc = call[d].pc /\ Asking(p)[d].peer = call[d].peer
             /\ Asking(p)[d].mutex = call[d].mutex /\ Asking(p)[d].conn = call[d].conn
             /\ Asking(p)[d].stream = call[d].stream /\ Asking(p)[d].seq = call[d].seq
             /\ Asking(p)[d].asked = IF call[d].pc = "idle" \/ call[d].peer = p THEN call[d].asked
                                     ELSE call[d].asked \cup {p}
  <2> DEFINE r == [call[d] EXCEPT !.asked = @ \cup {p}]
  <2>1. call[d] \in Calls
    BY <1>1
  <2>2. CASE call[d].pc = "idle" \/ call[d].peer = p
    <3>1. Asking(p)[d] = call[d]
      BY <2>2 DEF Asking
    <3> QED BY <2>1, <2>2, <3>1
  <2>3. CASE ~(call[d].pc = "idle" \/ call[d].peer = p)
    <3>1. Asking(p)[d] = r
      BY <2>3 DEF Asking
    <3>2. /\ r \in Calls /\ r.pc = call[d].pc /\ r.peer = call[d].peer /\ r.mutex = call[d].mutex
          /\ r.conn = call[d].conn /\ r.stream = call[d].stream /\ r.seq = call[d].seq
          /\ r.asked = call[d].asked \cup {p}
      BY <2>1 DEF Calls
    <3> HIDE DEF r
    <3> QED BY <2>3, <3>1, <3>2
  <2> QED BY <2>2, <2>3
<1>5. Asking(p) \in [Callers -> Calls]
  <2>1. Asking(p) = [d \in Callers |-> Asking(p)[d]]
    BY DEF Asking
  <2> QED BY <1>4, <2>1
<1>6. call' \in [Callers -> Calls] /\ call'[c] = e /\ \A d \in Callers : d # c => call'[d] = Asking(p)[d]
  BY <1>2, <1>3, <1>5
<1> QED BY <1>2, <1>4, <1>6 DEF Asks

\* Sending to p keeps the mutexes of the other calls, or the cache took Capacity peers since.
LEMMA GetMutexKeeps ==
  ASSUME CallsOK, LocksOK, LockInv, NEW c \in Callers, NEW p \in Peers,
         call[c].pc = "idle", GetMutex(c, p)
  PROVE  LocksOK' /\ LockInv' /\ \A d \in Callers : IsFiniteSet(call'[d].asked)
<1> DEFINE R == Refreshed(p)
           L == Len(Refreshed(p))
           n == Len(mutexes)
<1>i. CachedOnce /\ CachedOrEvicted /\ HoldsInside
  BY DEF LockInv
<1>t. /\ n \in Nat /\ DOMAIN mutexes = 1..n /\ Capacity \in Nat
      /\ \A d \in Callers : IsFiniteSet(call[d].asked)
  BY Constants DEF LocksOK, CallsOK, CallOK
<1>a. Asks(c, p)
  BY <1>i, AskingKinds
<1>1. mutexes' = R /\ holder' = holder
  BY DEF GetMutex
<1>2. /\ R \in Seq(CacheEntries) /\ L \in 1..Capacity /\ R[L].peer = p /\ R[L].mutex = MutexFor(p)
      /\ \A j \in 1..(L - 1) : R[j].peer # p
  <2>1. /\ R \in Seq(CacheEntries) /\ L \in 1..Capacity
        /\ R[L] = [peer |-> p, mutex |-> MutexFor(p)]
        /\ \A j \in 1..(L - 1) : R[j].peer # p
    BY <1>i, RefreshedKeepsOrder, Zenon
  <2> QED BY <2>1
<1>3. PICK g \in [1..(L - 1) -> 1..n] :
        /\ \A j \in 1..(L - 1) : R[j] = mutexes[g[j]]
        /\ \A j, k \in 1..(L - 1) : j < k => g[j] < g[k]
        /\ \A i \in 1..n : mutexes[i].peer # p =>
             (\E j \in 1..(L - 1) : g[j] = i) \/ (L = Capacity /\ \A j \in 1..(L - 1) : g[j] > i)
  BY <1>i, RefreshedKeepsOrder
<1>4. DOMAIN R = 1..L /\ L \in Nat /\ L >= 1
  BY <1>2, <1>t
<1> HIDE DEF R, L, n
<1>5. LocksOK'
  <2>1. Len(mutexes') <= Capacity
    BY <1>1, <1>2, <1>t DEF R, L
  <2> QED BY <1>1, <1>2, <2>1 DEF LocksOK
<1>6. CachedOnce'
  <2> SUFFICES ASSUME NEW i \in 1..L, NEW j \in 1..L, R[i].peer = R[j].peer PROVE i = j
    BY <1>1, <1>4 DEF CachedOnce
  <2>1. CASE i = L \/ j = L
    <3>1. i # L => i \in 1..(L - 1)
      BY <1>4
    <3>2. j # L => j \in 1..(L - 1)
      BY <1>4
    <3> QED BY <1>2, <2>1, <3>1, <3>2
  <2>2. CASE i # L /\ j # L
    <3>1. i \in 1..(L - 1) /\ j \in 1..(L - 1)
      BY <1>4, <2>2
    <3>2. g[i] = g[j]
      BY <1>3, <1>i, <1>t, <3>1 DEF CachedOnce
    <3>3. g[i] \in Nat /\ g[j] \in Nat
      BY <1>t, <3>1
    <3> QED BY <1>3, <3>1, <3>2, <3>3
  <2> QED BY <2>1, <2>2
<1>7. HoldsInside'
  BY <1>1, <1>a, <1>i DEF HoldsInside, Inside, Asks
<1>8. \A d \in Callers : IsFiniteSet(call'[d].asked)
  <2> SUFFICES ASSUME NEW d \in Callers PROVE IsFiniteSet(call'[d].asked)
    OBVIOUS
  <2>1. IsFiniteSet({})
    BY FS_EmptySet
  <2>2. IsFiniteSet(call[d].asked \cup {p})
    BY <1>t, FS_AddElement
  <2> QED BY <1>a, <1>t, <2>1, <2>2 DEF Asks
<1>9. CachedOrEvicted'
  <2> SUFFICES ASSUME NEW d \in Callers, call'[d].pc # "idle"
               PROVE  Cached(d)' \/ Cardinality(call'[d].asked) >= Capacity
    BY DEF CachedOrEvicted, Working
  <2>l. ASSUME call'[d].peer = p, call'[d].mutex = MutexFor(p) PROVE Cached(d)'
    <3>1. L \in DOMAIN mutexes' /\ \A j \in DOMAIN mutexes' : ~(j > L)
      BY <1>1, <1>4
    <3> QED BY <1>1, <1>2, <2>l, <3>1 DEF Cached
  <2>1. CASE d = c
    BY <1>a, <2>1, <2>l DEF Asks
  <2>2. CASE d # c
    <3>1. /\ call[d].pc # "idle" /\ call'[d].peer = call[d].peer /\ call'[d].mutex = call[d].mutex
          /\ call[d].asked \subseteq call'[d].asked
      BY <1>a, <2>2 DEF Asks
    <3>2. CASE Cardinality(call[d].asked) >= Capacity
      <4>1. Cardinality(call[d].asked) <= Cardinality(call'[d].asked)
        BY <1>8, <3>1, FS_Subset
      <4>2. Cardinality(call[d].asked) \in Nat /\ Cardinality(call'[d].asked) \in Nat
        BY <1>8, <1>t, FS_CardinalityType
      <4> QED BY <1>t, <3>2, <4>1, <4>2
    <3>3. CASE Cached(d)
      <4>1. PICK i \in 1..n : /\ mutexes[i].peer = call[d].peer /\ mutexes[i].mutex = call[d].mutex
                              /\ \A j \in 1..n : j > i => mutexes[j].peer \in call[d].asked
        BY <1>t, <3>3 DEF Cached
      <4>2. CASE call[d].peer = p
        <5>1. Places(p) # {} /\ Place(p) = i
          BY <1>i, <1>t, <4>1, <4>2 DEF Places, Place, CachedOnce
        <5> QED BY <2>l, <3>1, <4>1, <4>2, <5>1 DEF MutexFor
      <4>3. CASE call[d].peer # p
        <5>1. p \in call'[d].asked /\ \A j \in 1..n : j > i => mutexes[j].peer \in call'[d].asked
          BY <1>a, <2>2, <3>1, <4>1, <4>3 DEF Asks
        <5>2. CASE \E j \in 1..(L - 1) : g[j] = i
          <6>1. PICK j \in 1..(L - 1) : g[j] = i
            BY <5>2
          <6>2. ASSUME NEW k \in 1..L, k > j PROVE R[k].peer \in call'[d].asked
            <7>1. CASE k = L
              BY <1>2, <5>1, <7>1
            <7>2. CASE k # L
              <8>1. k \in 1..(L - 1)
                BY <1>4, <7>2
              <8>2. g[k] > i /\ g[k] \in 1..n /\ R[k] = mutexes[g[k]]
                BY <1>3, <1>4, <1>t, <6>1, <6>2, <8>1
              <8> QED BY <5>1, <8>2
            <7> QED BY <7>1, <7>2
          <6>3. j \in 1..L /\ R[j] = mutexes[i]
            BY <1>3, <1>4, <6>1
          <6> QED BY <1>1, <1>4, <3>1, <4>1, <6>2, <6>3 DEF Cached
        <5>3. CASE L = Capacity /\ \A j \in 1..(L - 1) : g[j] > i
          <6> DEFINE h == [j \in 1..L |-> R[j].peer]
          <6>1. ASSUME NEW j \in 1..L PROVE R[j].peer \in call'[d].asked
            <7>1. CASE j = L
              BY <1>2, <5>1, <7>1
            <7>2. CASE j # L
              <8>1. j \in 1..(L - 1)
                BY <1>4, <7>2
              <8> QED BY <1>3, <5>1, <5>3, <8>1
            <7> QED BY <7>1, <7>2
          <6>2. h \in Injection(1..L, call'[d].asked)
            <7>1. h \in [1..L -> call'[d].asked]
              BY <6>1
            <7>2. \A i1, i2 \in 1..L : h[i1] = h[i2] => i1 = i2
              BY <1>1, <1>4, <1>6 DEF CachedOnce
            <7> QED BY <7>1, <7>2 DEF Injection, IsInjective
          <6>3. Cardinality(1..L) = L
            <7> HIDE DEF h
            <7>1. L \in Nat
              BY <1>4
            <7> QED BY <7>1, CountTo
          <6>4. Cardinality(1..L) <= Cardinality(call'[d].asked)
            BY <1>8, <6>2, FS_Injection
          <6>5. Cardinality(call'[d].asked) \in Nat
            BY <1>8, FS_CardinalityType
          <6> QED BY <1>t, <5>3, <6>3, <6>4, <6>5
        <5>4. mutexes[i].peer # p
          BY <4>1, <4>3
        <5> QED BY <1>3, <4>1, <5>2, <5>3, <5>4
      <4> QED BY <4>2, <4>3
    <3> QED BY <1>i, <3>1, <3>2, <3>3 DEF CachedOrEvicted, Working
  <2> QED BY <2>1, <2>2
<1> QED BY <1>5, <1>6, <1>7, <1>8, <1>9 DEF LockInv

\* What Lock does.
LEMMA LockKinds ==
  ASSUME CallsOK, NEW c \in Callers, Lock(c)
  PROVE  /\ call[c].pc = "lock" /\ holder[call[c].mutex] = None
         /\ holder' = [holder EXCEPT ![call[c].mutex] = c] /\ mutexes' = mutexes
         /\ call' \in [Callers -> Calls] /\ SameLock(c) /\ call'[c].pc = "connect"
         /\ \A d \in Callers : d # c => call'[d] = call[d]
         /\ overlapped \subseteq overlapped'
         /\ \A d \in Callers : d # c /\ Inside(d) /\ call[d].peer = call[c].peer =>
              call[c].peer \in overlapped'
         /\ UNCHANGED <<up, streams, wire, counter, clock, seen>>
<1> DEFINE e == [call[c] EXCEPT !.pc = "connect"]
<1>1. call \in [Callers -> Calls] /\ call[c] \in Calls
  BY DEF CallsOK
<1>2. call' = [call EXCEPT ![c] = e]
  BY DEF Lock
<1>3. /\ e \in Calls /\ e.pc = "connect" /\ e.peer = call[c].peer /\ e.mutex = call[c].mutex
      /\ e.asked = call[c].asked
  BY <1>1 DEF Calls, PCs
<1> HIDE DEF e
<1>4. /\ call' \in [Callers -> Calls] /\ SameLock(c) /\ call'[c].pc = "connect"
      /\ \A d \in Callers : d # c => call'[d] = call[d]
  BY <1>1, <1>2, <1>3 DEF SameLock
<1>5. overlapped \subseteq overlapped' /\
      \A d \in Callers : d # c /\ Inside(d) /\ call[d].peer = call[c].peer => call[c].peer \in overlapped'
  BY DEF Lock
<1> QED BY <1>4, <1>5 DEF Lock, netVars, readVars

\* The cache, the holders and the calls stay in step.
LEMMA LockStep ==
  ASSUME CallsOK, NetOK, LocksOK, LockInv, [Next]_vars
  PROVE  LocksOK' /\ LockInv'
<1>i. CachedOnce /\ CachedOrEvicted /\ HoldsInside
  BY DEF LockInv
<1>t. /\ call \in [Callers -> Calls] /\ holder \in [Mutexes -> Callers \cup {None}]
      /\ \A c \in Callers : call[c].pc # "idle" => call[c].mutex \in Mutexes
      /\ None \notin Callers
  BY Constants DEF CallsOK, CallOK, LocksOK, Working
<1>o. mutexes' = mutexes => CachedOnce'
  BY <1>i DEF CachedOnce
<1>k. ASSUME mutexes' = mutexes,
             \A d \in Callers : call'[d].pc # "idle" => call[d].pc # "idle" /\ SameLock(d)
      PROVE  CachedOrEvicted'
  BY <1>i, <1>k DEF CachedOrEvicted, Working, Cached, SameLock
<1>s. \A d \in Callers : call'[d] = call[d] => SameLock(d)
  BY DEF SameLock
<1>1. ASSUME NEW c \in Callers, NEW p \in Peers, call[c].pc = "idle", GetMutex(c, p)
      PROVE  LocksOK' /\ LockInv'
  BY <1>1, GetMutexKeeps
<1>2. ASSUME NEW c \in Callers, Lock(c) PROVE LocksOK' /\ LockInv'
  <2>1. /\ call[c].pc = "lock" /\ holder[call[c].mutex] = None
        /\ holder' = [holder EXCEPT ![call[c].mutex] = c] /\ mutexes' = mutexes
        /\ SameLock(c) /\ call'[c].pc = "connect"
        /\ \A d \in Callers : d # c => call'[d] = call[d]
    BY <1>2, LockKinds
  <2>2. LocksOK'
    BY <1>t, <2>1 DEF LocksOK
  <2>3. CachedOrEvicted'
    BY <1>k, <1>s, <2>1
  <2>4. HoldsInside'
    <3> SUFFICES ASSUME NEW d \in Callers, call'[d].pc \notin {"idle", "lock"}
                 PROVE  holder'[call'[d].mutex] = d
      BY DEF HoldsInside, Inside
    <3>1. CASE d = c
      BY <1>t, <2>1, <3>1 DEF SameLock
    <3>2. CASE d # c
      <4>1. Inside(d) /\ call'[d] = call[d] /\ call[d].mutex \in Mutexes
        BY <1>t, <2>1, <3>2 DEF Inside
      <4>2. holder[call[d].mutex] = d
        BY <1>i, <4>1 DEF HoldsInside
      <4> QED BY <1>t, <2>1, <4>1, <4>2
    <3> QED BY <3>1, <3>2
  <2> QED BY <1>o, <2>1, <2>2, <2>3, <2>4 DEF LockInv
<1>3. ASSUME NEW c \in Callers, Advance(c) PROVE LocksOK' /\ LockInv'
  <2>1. /\ mutexes' = mutexes /\ holder' = holder /\ Inside(c) /\ SameLock(c)
        /\ \A d \in Callers : d # c => call'[d] = call[d]
    BY <1>3 DEF Advance
  <2>2. CachedOrEvicted'
    BY <1>k, <1>s, <2>1 DEF Inside
  <2>3. HoldsInside'
    BY <1>i, <2>1 DEF HoldsInside, Inside, SameLock
  <2> QED BY <1>o, <2>1, <2>2, <2>3 DEF LockInv, LocksOK
<1>4. ASSUME NEW c \in Callers, Leave(c) PROVE LocksOK' /\ LockInv'
  <2>1. /\ mutexes' = mutexes /\ holder' = [holder EXCEPT ![call[c].mutex] = None] /\ Inside(c)
        /\ call'[c].pc = "idle" /\ \A d \in Callers : d # c => call'[d] = call[d]
    BY <1>4, IdleIsCall DEF Leave
  <2>2. LocksOK'
    BY <1>t, <2>1 DEF LocksOK
  <2>3. CachedOrEvicted'
    BY <1>k, <1>s, <2>1
  <2>4. HoldsInside'
    <3> SUFFICES ASSUME NEW d \in Callers, call'[d].pc \notin {"idle", "lock"}
                 PROVE  holder'[call'[d].mutex] = d
      BY DEF HoldsInside, Inside
    <3>1. d # c /\ call'[d] = call[d] /\ Inside(d) /\ call[d].mutex \in Mutexes
      BY <1>t, <2>1 DEF Inside
    <3>2. holder[call[d].mutex] = d /\ holder[call[c].mutex] = c
      BY <1>i, <2>1, <3>1 DEF HoldsInside
    <3> QED BY <1>t, <2>1, <3>1, <3>2
  <2> QED BY <1>o, <2>1, <2>2, <2>3, <2>4 DEF LockInv
<1>5. CASE Restart
  <2>1. /\ mutexes' = <<>> /\ holder' = [m \in Mutexes |-> None]
        /\ \A c \in Callers : call'[c].pc = "idle"
    BY <1>5, IdleIsCall DEF Restart
  <2>2. LocksOK'
    BY <2>1, Constants DEF LocksOK
  <2>3. LockInv'
    BY <2>1 DEF LockInv, CachedOnce, CachedOrEvicted, HoldsInside, Working, Inside
  <2> QED BY <2>2, <2>3
<1>6. CASE UNCHANGED <<call, mutexes, holder, overlapped>>
  <2>1. LocksOK'
    BY <1>6 DEF LocksOK
  <2>2. LockInv'
    BY <1>6, <1>i DEF LockInv, CachedOnce, CachedOrEvicted, HoldsInside, Working, Inside, Cached
  <2> QED BY <2>1, <2>2
<1> QED BY <1>1, <1>2, <1>3, <1>4, <1>5, <1>6, StepKinds

\* What a step does to a stream: nothing, a message is written or read, it is reset, or it
\* is opened and nobody used it before.
LEMMA StreamKinds ==
  ASSUME NetOK, [Next]_vars
  PROVE  \/ UNCHANGED <<streams, wire>>
         \/ \E c \in Callers : Write(c)
         \/ \E c \in Callers : NewStream(c)
         \/ \E s \in StreamIds : Read(s)
         \/ \E S \in SUBSET StreamIds : ResetStreams(S)
<1>1. ASSUME NEW c \in Callers, CallerStep(c)
      PROVE  UNCHANGED <<streams, wire>> \/ Write(c) \/ NewStream(c)
  BY <1>1 DEF CallerStep, Lock, GetConnection, FindStream, NewStreamFails, CreateMessage,
              CreateMessageFails, WriteFails, netVars
<1>2. Environment => \/ UNCHANGED <<streams, wire>>
                     \/ \E S \in SUBSET StreamIds : ResetStreams(S)
  BY DEF Environment, Connect, Disconnect, Tick, Restart, netVars, Direct
<1>3. Receiving => \/ UNCHANGED <<streams, wire>> \/ \E s \in StreamIds : Read(s)
                   \/ \E S \in SUBSET StreamIds : ResetStreams(S)
  BY DEF Receiving, RegisterDirectMessageProcessor, Expire, StreamRead, ReadFails, ReadForeign,
         SendDirectToSelf, netVars
<1>4. ASSUME NEW c \in Callers, NEW p \in Peers, SendToConnectedPeer(c, p)
      PROVE  UNCHANGED <<streams, wire>>
  BY <1>4 DEF SendToConnectedPeer, GetMutex, netVars
<1>5. UNCHANGED vars => UNCHANGED <<streams, wire>>
  BY DEF vars, netVars
<1> QED BY <1>1, <1>2, <1>3, <1>4, <1>5 DEF Next

\* What a write does.
LEMMA WriteKinds ==
  ASSUME CallsOK, NetOK, NEW c \in Callers, Write(c)
  PROVE  LET s == call[c].stream
             n == Len(wire[s]) IN
         /\ s \in StreamIds /\ streams[s] # None /\ Writing(c) /\ Inside(c) /\ n \in Nat
         /\ wire' \in [StreamIds -> Seq(Frames)] /\ DOMAIN wire[s] = 1..n /\ DOMAIN wire'[s] = 1..(n + 1)
         /\ \A t \in StreamIds : t # s => wire'[t] = wire[t]
         /\ \A i \in 1..n : wire'[s][i] = wire[s][i]
         /\ \/ wire'[s][n + 1] = MessageOf(c)
            \/ wire'[s][n + 1] = Torn /\ \E d \in Callers : d # c /\ Writing(d) /\ call[d].stream = s
         /\ call'[c] = Idle /\ \A d \in Callers : d # c => call'[d] = call[d]
         /\ UNCHANGED <<up, streams, counter, clock, seen, ready, overlapped>>
<1> DEFINE s == call[c].stream
           n == Len(wire[s])
<1>1. /\ call \in [Callers -> Calls] /\ call[c] \in Calls /\ wire \in [StreamIds -> Seq(Frames)]
      /\ Writing(c) /\ Inside(c) /\ s \in StreamIds /\ streams[s] # None
  <2>1. call[c].pc = "write" /\ streams[s] # None
    BY DEF Write
  <2>2. CallOK(c)
    BY DEF CallsOK
  <2> QED BY <2>1, <2>2 DEF CallsOK, NetOK, CallOK, Streaming, Writing, Inside
<1>2. call'[c] = Idle /\ \A d \in Callers : d # c => call'[d] = call[d]
  BY <1>1 DEF Write, Return
<1>3. UNCHANGED <<up, streams, counter, clock, seen, ready, overlapped>>
  BY DEF Write, readVars
<1>4. PICK f \in {MessageOf(c)} \cup IF WritingTo(s) = {c} THEN {} ELSE {Torn} :
        wire' = [wire EXCEPT ![s] = Append(wire[s], f)]
  BY DEF Write
<1>5. f = MessageOf(c) \/ (f = Torn /\ WritingTo(s) # {c})
  <2>1. CASE WritingTo(s) = {c}
    <3> DEFINE E == IF WritingTo(s) = {c} THEN {} ELSE {Torn}
    <3>1. f \in {MessageOf(c)} \cup E
      BY <1>4
    <3>2. E = {}
      BY <2>1
    <3> HIDE DEF E
    <3>3. f = MessageOf(c)
      BY <3>1, <3>2, Zenon
    <3> QED BY <3>3
  <2>2. CASE WritingTo(s) # {c}
    <3>1. (IF WritingTo(s) = {c} THEN {} ELSE {Torn}) = {Torn}
      BY <2>2
    <3> QED BY <1>4, <2>2, <3>1
  <2> QED BY <2>1, <2>2
<1>6. MessageOf(c) \in Frames /\ Torn \in Frames
  BY <1>1 DEF MessageOf, Frames, SelfMessages, Calls
<1>7. f = MessageOf(c) \/ (f = Torn /\ \E d \in Callers : d # c /\ Writing(d) /\ call[d].stream = s)
  <2>1. c \in WritingTo(s)
    BY <1>1 DEF WritingTo, Writing
  <2> QED BY <1>5, <2>1 DEF WritingTo, Writing
<1>8. wire[s] \in Seq(Frames) /\ f \in Frames /\ n \in Nat /\ DOMAIN wire[s] = 1..n
  BY <1>1, <1>5, <1>6
<1> HIDE DEF s
<1>9. /\ Append(wire[s], f) \in Seq(Frames) /\ DOMAIN Append(wire[s], f) = 1..(n + 1)
      /\ \A i \in 1..n : Append(wire[s], f)[i] = wire[s][i]
      /\ Append(wire[s], f)[n + 1] = f
  BY <1>8
<1>10. wire' \in [StreamIds -> Seq(Frames)] /\ wire'[s] = Append(wire[s], f)
       /\ \A t \in StreamIds : t # s => wire'[t] = wire[t]
  BY <1>1, <1>4, <1>9
<1> QED BY <1>1, <1>2, <1>3, <1>7, <1>8, <1>9, <1>10 DEF s

\* What is left on a stream was there, in the same order.
Shrinks(s) ==
    \E k \in Nat : \A i \in DOMAIN wire'[s] :
        i + k \in DOMAIN wire[s] /\ wire'[s][i] = wire[s][i + k]

\* What a step does to the streams and to what is on them.
LEMMA WireKinds ==
  ASSUME CallsOK, NetOK, [Next]_vars
  PROVE  \/ \E c \in Callers : Write(c)
         \/ /\ wire' \in [StreamIds -> Seq(Frames)]
            /\ streams' \in [StreamIds -> Conns \cup {None}]
            /\ \A s \in StreamIds :
                 /\ Shrinks(s)
                 /\ streams'[s] = None => wire'[s] = <<>>
                 /\ streams'[s] # None => streams'[s] = streams[s] \/ wire'[s] = <<>>
<1> DEFINE Goal == /\ wire' \in [StreamIds -> Seq(Frames)]
                   /\ streams' \in [StreamIds -> Conns \cup {None}]
                   /\ \A s \in StreamIds :
                        /\ Shrinks(s)
                        /\ streams'[s] = None => wire'[s] = <<>>
                        /\ streams'[s] # None => streams'[s] = streams[s] \/ wire'[s] = <<>>
<1>t. /\ streams \in [StreamIds -> Conns \cup {None}] /\ wire \in [StreamIds -> Seq(Frames)]
      /\ \A s \in StreamIds : streams[s] = None => wire[s] = <<>>
      /\ None \notin Conns
  BY Constants DEF NetOK
<1>s. ASSUME NEW s \in StreamIds, wire'[s] = wire[s] \/ wire'[s] = <<>> PROVE Shrinks(s)
  <2>1. CASE wire'[s] = wire[s]
    <3>1. 0 \in Nat /\ \A i \in DOMAIN wire'[s] : i + 0 \in DOMAIN wire[s] /\ wire'[s][i] = wire[s][i + 0]
      BY <1>t, <2>1
    <3> QED BY <3>1 DEF Shrinks
  <2>2. CASE wire'[s] = <<>>
    <3>1. 0 \in Nat /\ DOMAIN wire'[s] = {}
      BY <2>2
    <3> QED BY <3>1 DEF Shrinks
  <2> QED BY <1>s, <2>1, <2>2
<1>1. CASE UNCHANGED <<streams, wire>>
  BY <1>1, <1>s, <1>t
<1>2. ASSUME NEW c \in Callers, NewStream(c) PROVE Goal
  <2>1. UnusedStream \in StreamIds /\ streams[UnusedStream] = None /\ wire' = wire
    BY <1>2 DEF NewStream, UnusedStream, UnusedStreams
  <2>2. PICK n \in Conns : streams' = [streams EXCEPT ![UnusedStream] = n]
    BY <1>2 DEF NewStream
  <2>3. /\ streams' \in [StreamIds -> Conns \cup {None}] /\ streams'[UnusedStream] # None
        /\ \A s \in StreamIds : s # UnusedStream => streams'[s] = streams[s]
    BY <1>t, <2>1, <2>2
  <2> QED BY <1>s, <1>t, <2>1, <2>3
<1>3. ASSUME NEW s \in StreamIds, Read(s) PROVE Goal
  <2>1. wire[s] # <<>> /\ wire' = [wire EXCEPT ![s] = Tail(wire[s])] /\ streams' = streams
    BY <1>3 DEF Read
  <2>2. wire[s] \in Seq(Frames)
    BY <1>t
  <2>3. /\ Tail(wire[s]) \in Seq(Frames)
        /\ \A i \in DOMAIN Tail(wire[s]) : i + 1 \in DOMAIN wire[s] /\ Tail(wire[s])[i] = wire[s][i + 1]
    BY <2>1, <2>2
  <2>4. /\ wire' \in [StreamIds -> Seq(Frames)] /\ wire'[s] = Tail(wire[s])
        /\ \A t \in StreamIds : t # s => wire'[t] = wire[t]
    BY <1>t, <2>1, <2>3
  <2>5. Shrinks(s)
    <3>1. 1 \in Nat /\ \A i \in DOMAIN wire'[s] : i + 1 \in DOMAIN wire[s] /\ wire'[s][i] = wire[s][i + 1]
      BY <2>3, <2>4
    <3> QED BY <3>1 DEF Shrinks
  <2> QED BY <1>s, <1>t, <2>1, <2>4, <2>5
<1>4. ASSUME NEW S \in SUBSET StreamIds, ResetStreams(S) PROVE Goal
  <2>1. /\ streams' = [s \in StreamIds |-> IF s \in S THEN None ELSE streams[s]]
        /\ wire' = [s \in StreamIds |-> IF s \in S THEN <<>> ELSE wire[s]]
    BY <1>4 DEF ResetStreams
  <2>2. <<>> \in Seq(Frames)
    OBVIOUS
  <2>3. wire' \in [StreamIds -> Seq(Frames)] /\ streams' \in [StreamIds -> Conns \cup {None}]
    BY <1>t, <2>1, <2>2
  <2> QED BY <1>s, <1>t, <2>1, <2>3
<1> HIDE DEF Goal
<1>5. (\E c \in Callers : Write(c)) \/ Goal
  BY <1>1, <1>2, <1>3, <1>4, StreamKinds DEF Goal
<1> QED BY <1>5 DEF Goal

\* What a step does to the sequence numbers.
LEMMA CounterKinds ==
  ASSUME NetOK, [Next]_vars
  PROVE  /\ counter' \in Nat /\ clock' \in Nat /\ counter' <= clock' /\ counter <= counter'
<1>t. counter \in Nat /\ clock \in Nat /\ counter <= clock
  BY DEF NetOK
<1>1. CASE UNCHANGED <<counter, clock>>
  BY <1>1, <1>t
<1>2. CASE NextSequenceNumber
  BY <1>2, <1>t DEF NextSequenceNumber
<1>3. CASE Tick
  BY <1>3, <1>t DEF Tick
<1>4. CASE Restart
  BY <1>4, <1>t DEF Restart, FirstCounter
<1>5. ASSUME NEW c \in Callers, CallerStep(c)
      PROVE  UNCHANGED <<counter, clock>> \/ NextSequenceNumber
  BY <1>5 DEF CallerStep, Lock, GetConnection, FindStream, NewStream, NewStreamFails, CreateMessage,
              CreateMessageFails, Write, WriteFails
<1>6. ASSUME NEW c \in Callers, NEW p \in Peers, SendToConnectedPeer(c, p)
      PROVE  UNCHANGED <<counter, clock>>
  BY <1>6 DEF SendToConnectedPeer, GetMutex
<1>7. Receiving => UNCHANGED <<counter, clock>> \/ NextSequenceNumber
  BY DEF Receiving, RegisterDirectMessageProcessor, Expire, StreamRead, Read, ReadFails, ReadForeign,
         SendDirectToSelf
<1>8. Environment => Tick \/ Restart \/ UNCHANGED <<counter, clock>>
  BY DEF Environment, Connect, Disconnect
<1>9. UNCHANGED vars => UNCHANGED <<counter, clock>>
  BY DEF vars
<1> QED BY <1>1, <1>2, <1>3, <1>4, <1>5, <1>6, <1>7, <1>8, <1>9 DEF Next

\* What a step does to what the receivers have seen: a message of the own name of a foreign
\* peer or the first of a stream is added.
LEMMA SeenKinds ==
  ASSUME NetOK, [Next]_vars
  PROVE  /\ DOMAIN seen' = Receivers
         /\ \/ \E s \in StreamIds :
                 /\ Read(s) /\ \A p \in Receivers : seen'[p] \subseteq seen[p] \cup {wire[s][1]}
            \/ \A p \in Receivers : \A m \in seen'[p] \cap SelfMessages : m \in seen[p]
<1>t. DOMAIN seen = Receivers /\ Self # Foreign
  BY Constants DEF NetOK
<1>1. CASE UNCHANGED seen
  BY <1>1, <1>t
<1>2. ASSUME NEW s \in StreamIds, Read(s)
      PROVE  /\ DOMAIN seen' = Receivers
             /\ \A p \in Receivers : seen'[p] \subseteq seen[p] \cup {wire[s][1]}
  BY <1>2, <1>t DEF Read, ProcessDirect
<1>3. ASSUME NEW p \in Receivers, NEW m, ReadForeign(p, m)
      PROVE  /\ DOMAIN seen' = Receivers
             /\ \A q \in Receivers : \A x \in seen'[q] \cap SelfMessages : x \in seen[q]
  BY <1>3, <1>t DEF ReadForeign, ProcessDirect, GetsToSeen, NameFits, SelfMessages
<1>4. ASSUME NEW p \in Receivers, Expire(p)
      PROVE  /\ DOMAIN seen' = Receivers
             /\ \A q \in Receivers : \A x \in seen'[q] \cap SelfMessages : x \in seen[q]
  BY <1>4, <1>t DEF Expire
<1>5. ASSUME NEW c \in Callers, CallerStep(c) PROVE UNCHANGED seen
  BY <1>5 DEF CallerStep, Lock, GetConnection, FindStream, NewStream, NewStreamFails, CreateMessage,
              CreateMessageFails, Write, WriteFails, readVars
<1>6. ASSUME NEW c \in Callers, NEW p \in Peers, SendToConnectedPeer(c, p) PROVE UNCHANGED seen
  BY <1>6 DEF SendToConnectedPeer, GetMutex, readVars
<1>7. Environment \/ UNCHANGED vars => UNCHANGED seen
  BY DEF Environment, Connect, Disconnect, Tick, Restart, readVars, vars
<1>8. ASSUME NEW p \in Receivers, RegisterDirectMessageProcessor(p) PROVE UNCHANGED seen
  BY <1>8 DEF RegisterDirectMessageProcessor
<1>9. ASSUME NEW s \in StreamIds, ReadFails(s) PROVE UNCHANGED seen
  BY <1>9 DEF ReadFails, readVars
<1>10. SendDirectToSelf => UNCHANGED seen
  BY DEF SendDirectToSelf, readVars
<1> QED BY <1>1, <1>2, <1>3, <1>4, <1>5, <1>6, <1>7, <1>8, <1>9, <1>10 DEF Next, Receiving, StreamRead

\* The connections, streams and counters stay what they are.
LEMMA NetStep ==
  ASSUME CallsOK, NetOK, [Next]_vars
  PROVE  NetOK'
<1>1. up' \subseteq Conns
  <2>t. up \subseteq Conns
    BY DEF NetOK
  <2>1. ASSUME NEW c \in Callers, CallerStep(c) PROVE up' \subseteq Conns
    BY <2>1, <2>t DEF CallerStep, Lock, GetConnection, FindStream, NewStream, NewStreamFails,
              CreateMessage, CreateMessageFails, Write, WriteFails, netVars
  <2>2. ASSUME NEW c \in Callers, NEW p \in Peers, SendToConnectedPeer(c, p) PROVE up' = up
    BY <2>2 DEF SendToConnectedPeer, GetMutex, netVars
  <2>3. Environment => up' \subseteq Conns
    BY <2>t DEF Environment, Connect, Disconnect, Tick, Restart, netVars
  <2>4. Receiving \/ UNCHANGED vars => up' = up
    BY DEF Receiving, RegisterDirectMessageProcessor, Expire, StreamRead, Read, ReadFails,
           ReadForeign, SendDirectToSelf, netVars, vars
  <2> QED BY <2>t, <2>1, <2>2, <2>3, <2>4 DEF Next
<1>2. /\ streams' \in [StreamIds -> Conns \cup {None}] /\ wire' \in [StreamIds -> Seq(Frames)]
      /\ \A s \in StreamIds : streams'[s] = None => wire'[s] = <<>>
  <2>1. ASSUME NEW c \in Callers, Write(c)
        PROVE  /\ streams' = streams /\ wire' \in [StreamIds -> Seq(Frames)]
               /\ \A s \in StreamIds : streams[s] = None => wire'[s] = wire[s]
    BY <2>1, WriteKinds
  <2> QED BY <2>1, WireKinds DEF NetOK
<1> QED BY <1>1, <1>2, CounterKinds, SeenKinds DEF NetOK

\* An open stream that a call uses belongs to its peer: nobody else opens it again.
LEMMA StreamsKept ==
  ASSUME CallsOK, NetOK, [Next]_vars, NEW d \in Callers, Streaming(d)
  PROVE  LET s == call[d].stream IN
         /\ s \in StreamIds
         /\ streams'[s] = streams[s] \/ streams'[s] = None
         /\ streams'[s] # None => streams[s] # None /\ PeerOf[streams'[s]] = call[d].peer
<1> DEFINE s == call[d].stream
<1>1. s \in StreamIds /\ (streams[s] # None => PeerOf[streams[s]] = call[d].peer)
  BY DEF CallsOK, CallOK
<1>t. streams \in [StreamIds -> Conns \cup {None}]
  BY DEF NetOK
<1>2. streams'[s] = streams[s] \/ streams'[s] = None
  <2>1. ASSUME NEW c \in Callers, Write(c) PROVE streams' = streams
    BY <2>1 DEF Write
  <2>2. ASSUME NEW c \in Callers, NewStream(c) PROVE streams'[s] = streams[s]
    <3>1. UnusedStream \in StreamIds /\ UnusedStream # s
      BY <2>2 DEF NewStream, UnusedStream, UnusedStreams
    <3> QED BY <1>1, <1>t, <2>2, <3>1 DEF NewStream
  <2>3. ASSUME NEW t \in StreamIds, Read(t) PROVE streams' = streams
    BY <2>3 DEF Read
  <2>4. ASSUME NEW S \in SUBSET StreamIds, ResetStreams(S)
        PROVE  streams'[s] = streams[s] \/ streams'[s] = None
    BY <1>1, <2>4 DEF ResetStreams
  <2> QED BY <2>1, <2>2, <2>3, <2>4, StreamKinds
<1> QED BY <1>1, <1>2

\* The calls stay what they are.
LEMMA CallsStep ==
  ASSUME CallsOK, NetOK, LocksOK, LockInv, [Next]_vars
  PROVE  CallsOK'
<1>t. /\ call \in [Callers -> Calls] /\ \A c \in Callers : CallOK(c)
      /\ streams \in [StreamIds -> Conns \cup {None}] /\ up \subseteq Conns
      /\ None \notin Conns
  BY Constants DEF CallsOK, NetOK
<1>s. ASSUME NEW d \in Callers,
             /\ call'[d].pc = call[d].pc /\ call'[d].peer = call[d].peer
             /\ call'[d].mutex = call[d].mutex /\ call'[d].conn = call[d].conn
             /\ call'[d].stream = call[d].stream /\ IsFiniteSet(call'[d].asked)
      PROVE  CallOK(d)'
  <2>1. CallOK(d)
    BY <1>t
  <2>2. Streaming(d) => /\ call[d].stream \in StreamIds
                        /\ streams'[call[d].stream] # None =>
                             PeerOf[streams'[call[d].stream]] = call[d].peer
    BY StreamsKept
  <2> QED BY <1>s, <2>1, <2>2 DEF CallOK, Working, Streaming
<1>u. \A d \in Callers : call'[d] = call[d] => CallOK(d)'
  BY <1>s, <1>t DEF CallOK
<1>e. ASSUME NEW d \in Callers, call'[d] = Idle PROVE CallOK(d)'
  BY <1>e, IdleIsCall, FS_EmptySet DEF CallOK, Working, Streaming
<1>1. ASSUME NEW c \in Callers, NEW p \in Peers, call[c].pc = "idle", GetMutex(c, p) PROVE CallsOK'
  <2>1. Asks(c, p)
    BY <1>1, AskingKinds DEF LockInv
  <2>2. \A d \in Callers : IsFiniteSet(call'[d].asked)
    BY <1>1, GetMutexKeeps
  <2>3. MutexFor(p) \in Mutexes
    BY RefreshedKeepsOrder DEF LockInv
  <2>4. CallOK(c)'
    BY <2>1, <2>2, <2>3 DEF CallOK, Working, Streaming, Asks
  <2>5. \A d \in Callers : d # c => CallOK(d)'
    BY <1>s, <2>1, <2>2 DEF Asks
  <2> QED BY <2>1, <2>4, <2>5 DEF CallsOK, Asks
<1>2. ASSUME NEW c \in Callers, CallerStep(c) PROVE CallsOK'
  <2>1. CallOK(c) /\ call[c] \in Calls
    BY <1>t
  <2>2. CASE Lock(c)
    <3>1. /\ call' \in [Callers -> Calls] /\ SameLock(c) /\ call'[c].pc = "connect"
          /\ call[c].pc = "lock" /\ \A d \in Callers : d # c => call'[d] = call[d]
      BY <2>2, LockKinds
    <3>2. CallOK(c)'
      BY <2>1, <3>1 DEF CallOK, Working, Streaming, SameLock
    <3> QED BY <1>u, <3>1, <3>2 DEF CallsOK
  <2>3. CASE Leave(c)
    BY <1>e, <1>u, <2>3 DEF Leave, CallsOK
  <2>4. CASE Advance(c)
    <3>1. /\ call' \in [Callers -> Calls] /\ SameLock(c) /\ Inside(c) /\ call'[c].pc \in {"stream", "create", "write"}
          /\ \A d \in Callers : d # c => call'[d] = call[d]
      BY <2>4 DEF Advance
    <3>2. CallOK(c)'
      <4>1. /\ call'[c].peer \in Peers /\ call'[c].mutex \in Mutexes /\ IsFiniteSet(call'[c].asked)
            /\ call'[c].peer = call[c].peer
        BY <2>1, <3>1 DEF CallOK, Working, Inside, SameLock
      <4>2. call'[c] # Idle
        BY <3>1, IdleIsCall
      <4>r. ~Return(c)
        BY <1>t, <4>2 DEF Return
      <4>3. CASE GetConnection(c)
        <5>1. PICK n \in ConnsToPeer(call[c].peer) :
                call' = [call EXCEPT ![c].pc = "stream", ![c].conn = n]
          BY <4>3, <4>r DEF GetConnection
        <5>2. n \in Conns /\ PeerOf[n] = call[c].peer
          BY <1>t, <5>1 DEF ConnsToPeer
        <5>3. call'[c].pc = "stream" /\ call'[c].conn = n
          BY <1>t, <2>1, <5>1 DEF Calls
        <5> QED BY <4>1, <5>2, <5>3 DEF CallOK, Working, Streaming
      <4>4. CASE FindStream(c)
        <5>1. PICK s \in Direct(call[c].conn) : UseStream(c, s)
          BY <4>4 DEF FindStream
        <5>2. call'[c].pc = "create" /\ call'[c].stream = s
          BY <1>t, <2>1, <5>1 DEF Calls, UseStream
        <5>3. s \in StreamIds /\ streams[s] = call[c].conn /\ PeerOf[call[c].conn] = call[c].peer
              /\ streams' = streams
          BY <2>1, <4>4, <5>1 DEF Direct, FindStream, CallOK, netVars
        <5> QED BY <4>1, <5>2, <5>3 DEF CallOK, Working, Streaming
      <4>5. CASE NewStream(c)
        <5>1. UnusedStream \in StreamIds
          BY <4>5 DEF NewStream, UnusedStream, UnusedStreams
        <5>2. PICK n \in Conns : PeerOf[n] = call[c].peer /\ streams' = [streams EXCEPT ![UnusedStream] = n]
          BY <4>5 DEF NewStream
        <5>3. call'[c].pc = "create" /\ call'[c].stream = UnusedStream
          BY <1>t, <2>1, <4>5 DEF Calls, UseStream, NewStream
        <5>4. streams'[UnusedStream] = n
          BY <1>t, <5>1, <5>2
        <5> QED BY <4>1, <5>1, <5>2, <5>3, <5>4 DEF CallOK, Working, Streaming
      <4>6. CASE CreateMessage(c)
        <5>1. /\ call[c].pc = "create" /\ call' = [call EXCEPT ![c].pc = "write", ![c].seq = counter']
              /\ streams' = streams
          BY <4>6 DEF CreateMessage, netVars
        <5>2. call'[c].pc = "write" /\ call'[c].stream = call[c].stream
          BY <1>t, <2>1, <5>1 DEF Calls
        <5> QED BY <2>1, <4>1, <5>1, <5>2 DEF CallOK, Working, Streaming
      <4>7. ~Lock(c)
        BY <3>1 DEF Lock, Inside
      <4> QED BY <1>2, <4>3, <4>4, <4>5, <4>6, <4>7, <4>r
              DEF CallerStep, NewStreamFails, CreateMessageFails, Write, WriteFails
    <3> QED BY <1>u, <3>1, <3>2 DEF CallsOK
  <2> QED BY <1>2, <2>2, <2>3, <2>4, CallerKinds
<1>3. CASE Restart
  BY <1>3, <1>e, IdleIsCall DEF Restart, CallsOK
<1>4. CASE UNCHANGED call
  BY <1>4, <1>t, <1>u DEF CallsOK
<1>5. Receiving \/ UNCHANGED vars => UNCHANGED call
  BY DEF Receiving, RegisterDirectMessageProcessor, Expire, StreamRead, Read, ReadFails,
         ReadForeign, SendDirectToSelf, vars
<1>6. Environment => Restart \/ UNCHANGED call
  BY DEF Environment, Connect, Disconnect, Tick
<1> QED BY <1>1, <1>2, <1>3, <1>4, <1>5, <1>6 DEF Next, SendToConnectedPeer

\* Who writes after a step has just made its message, or wrote the same one before.
LEMMA WriterKinds ==
  ASSUME CallsOK, NetOK, LocksOK, LockInv, [Next]_vars, NEW d \in Callers, Writing(d)'
  PROVE  \/ CreateMessage(d)
         \/ /\ Writing(d) /\ call'[d].stream = call[d].stream /\ call'[d].seq = call[d].seq
            /\ call'[d].peer = call[d].peer /\ ~Restart
<1> DEFINE Same == /\ call'[d].pc = call[d].pc /\ call'[d].stream = call[d].stream
                   /\ call'[d].seq = call[d].seq /\ call'[d].peer = call[d].peer
<1>t. call \in [Callers -> Calls]
  BY DEF CallsOK
<1>n. ~Restart
  BY IdleIsCall DEF Restart, Writing
<1>1. ASSUME NEW c \in Callers, NEW p \in Peers, GetMutex(c, p) PROVE Same
  <2>1. Asks(c, p)
    BY <1>1, AskingKinds DEF LockInv
  <2>2. d # c
    BY <2>1 DEF Writing, Asks
  <2> QED BY <2>1, <2>2 DEF Asks
<1>2. ASSUME NEW c \in Callers, CallerStep(c) PROVE Same \/ CreateMessage(d)
  <2>1. CASE c # d
    <3>1. call'[d] = call[d]
      BY <1>2, <2>1, CallerKinds, LockKinds DEF Advance, Leave
    <3> QED BY <3>1
  <2>2. CASE c = d
    <3>1. call'[c] # Idle
      BY <2>2, IdleIsCall DEF Writing
    <3>2. ~Return(c)
      BY <1>t, <3>1 DEF Return
    <3>3. ~Lock(c)
      BY <2>2, LockKinds DEF Writing
    <3>4. ~GetConnection(c)
      BY <1>t, <2>2, <3>2 DEF GetConnection, Writing, Calls
    <3>5. ~FindStream(c) /\ ~NewStream(c)
      BY <1>t, <2>2 DEF FindStream, NewStream, UseStream, Writing, Calls
    <3> QED BY <1>2, <2>2, <3>2, <3>3, <3>4, <3>5
            DEF CallerStep, NewStreamFails, CreateMessageFails, Write, WriteFails
  <2> QED BY <2>1, <2>2
<1>3. Receiving \/ UNCHANGED vars => UNCHANGED call
  BY DEF Receiving, RegisterDirectMessageProcessor, Expire, StreamRead, Read, ReadFails,
         ReadForeign, SendDirectToSelf, vars
<1>4. Environment => Restart \/ UNCHANGED call
  BY DEF Environment, Connect, Disconnect, Tick
<1>5. Same \/ CreateMessage(d)
  BY <1>1, <1>2, <1>3, <1>4, <1>n DEF Next, SendToConnectedPeer
<1> QED BY <1>5, <1>n DEF Writing

\* What making a message does.
LEMMA CreateKinds ==
  ASSUME CallsOK, NetOK, NEW d \in Callers, CreateMessage(d)
  PROVE  /\ Streaming(d) /\ ~Writing(d) /\ call'[d].seq = counter + 1 /\ counter' = counter + 1
         /\ call'[d].stream = call[d].stream /\ call'[d].peer = call[d].peer
         /\ \A c \in Callers : c # d => call'[c] = call[c]
         /\ UNCHANGED <<streams, wire, seen, overlapped>>
<1>1. call \in [Callers -> Calls] /\ call[d] \in Calls
  BY DEF CallsOK
<1>2. /\ call[d].pc = "create" /\ counter' = counter + 1
      /\ call' = [call EXCEPT ![d].pc = "write", ![d].seq = counter']
      /\ UNCHANGED <<streams, wire, seen, overlapped>>
  BY DEF CreateMessage, NextSequenceNumber, netVars, readVars
<1> QED BY <1>1, <1>2 DEF Calls, Streaming, Writing

\* Nobody forgets that a peer had two writers, until the node starts again.
LEMMA OverlappedGrows ==
  ASSUME CallsOK, NetOK, [Next]_vars
  PROVE  Restart \/ overlapped \subseteq overlapped'
<1>1. ASSUME NEW c \in Callers, NEW p \in Peers, GetMutex(c, p) PROVE overlapped' = overlapped
  BY <1>1 DEF GetMutex
<1>2. ASSUME NEW c \in Callers, Lock(c) PROVE overlapped \subseteq overlapped'
  BY <1>2, LockKinds
<1> QED BY <1>1, <1>2, StepKinds DEF Advance, Leave

\* Two callers that are inside are remembered.
LEMMA TogetherStep ==
  ASSUME CallsOK, NetOK, LocksOK, LockInv, TogetherRemembered, [Next]_vars
  PROVE  TogetherRemembered'
<1>1. ASSUME overlapped \subseteq overlapped',
             \A d \in Callers : Inside(d)' => Inside(d) /\ call'[d].peer = call[d].peer
      PROVE  TogetherRemembered'
  BY <1>1 DEF TogetherRemembered
<1>2. ASSUME NEW c \in Callers, NEW p \in Peers, GetMutex(c, p) PROVE TogetherRemembered'
  <2>1. Asks(c, p)
    BY <1>2, AskingKinds DEF LockInv
  <2>2. overlapped' = overlapped
    BY <1>2 DEF GetMutex
  <2>3. \A d \in Callers : Inside(d)' => Inside(d) /\ call'[d].peer = call[d].peer
    BY <2>1 DEF Inside, Asks
  <2> QED BY <1>1, <2>2, <2>3
<1>3. ASSUME NEW c \in Callers, Lock(c) PROVE TogetherRemembered'
  <2>1. /\ SameLock(c) /\ \A d \in Callers : d # c => call'[d] = call[d]
        /\ overlapped \subseteq overlapped'
        /\ \A d \in Callers : d # c /\ Inside(d) /\ call[d].peer = call[c].peer =>
             call[c].peer \in overlapped'
    BY <1>3, LockKinds
  <2>2. \A d \in Callers : d # c => (Inside(d)' <=> Inside(d))
    BY <2>1 DEF Inside
  <2> QED BY <2>1, <2>2 DEF TogetherRemembered, SameLock
<1>4. ASSUME NEW c \in Callers, Advance(c) \/ Leave(c) PROVE TogetherRemembered'
  <2>1. /\ overlapped' = overlapped /\ \A d \in Callers : d # c => call'[d] = call[d]
        /\ Inside(c)' => Inside(c) /\ call'[c].peer = call[c].peer
    BY <1>4, IdleIsCall DEF Advance, Leave, SameLock, Inside
  <2>2. \A d \in Callers : Inside(d)' => Inside(d) /\ call'[d].peer = call[d].peer
    BY <2>1 DEF Inside
  <2> QED BY <1>1, <2>1, <2>2
<1>5. CASE Restart
  BY <1>5, IdleIsCall DEF Restart, TogetherRemembered, Inside
<1>6. CASE UNCHANGED <<call, mutexes, holder, overlapped>>
  BY <1>6 DEF TogetherRemembered, Inside
<1> QED BY <1>2, <1>3, <1>4, <1>5, <1>6, StepKinds

\* Callers that write to one open stream write to one peer, together.
LEMMA OneStreamOnePeer ==
  ASSUME CallsOK, TogetherRemembered, NEW c \in Callers, NEW d \in Callers,
         c # d, Writing(c), Writing(d), call[c].stream = call[d].stream,
         streams[call[c].stream] # None
  PROVE  call[c].peer = call[d].peer /\ call[c].peer \in overlapped
<1>1. CallOK(c) /\ CallOK(d)
  BY DEF CallsOK
<1>2. call[c].peer = call[d].peer
  BY <1>1 DEF CallOK, Streaming, Writing
<1> QED BY <1>2 DEF TogetherRemembered, Inside, Writing

\* A stream stays in order, and its writer ahead of it.
LEMMA OrderStep ==
  ASSUME CallsOK, NetOK, LocksOK, LockInv, OrderInv, FreshInv, [Next]_vars
  PROVE  OrderInv'
<1>i. TogetherRemembered /\ WriterIsNext /\ StreamInOrder /\ NumbersCounted
  BY DEF OrderInv, FreshInv
<1>t. /\ wire \in [StreamIds -> Seq(Frames)] /\ counter \in Nat
      /\ \A c \in Callers : CallOK(c) /\ call[c] \in Calls
  BY DEF NetOK, CallsOK
<1>f. \A s \in StreamIds : \A i \in DOMAIN wire[s] : wire[s][i] # Torn => wire[s][i].seq \in Nat
  <2>1. \A s \in StreamIds : \A i \in DOMAIN wire[s] : wire[s][i] \in Frames
    BY <1>t
  <2> QED BY <2>1 DEF Frames, SelfMessages
<1>1. TogetherRemembered'
  BY <1>i, TogetherStep
<1>2. WriterIsNext'
  <2> SUFFICES ASSUME NEW d \in Callers, Writing(d)', streams'[call'[d].stream] # None,
                      call'[d].peer \notin overlapped', NEW i \in DOMAIN wire'[call'[d].stream]
               PROVE  wire'[call'[d].stream][i].seq < call'[d].seq
    BY DEF WriterIsNext
  <2> DEFINE s == call[d].stream
  <2>1. CASE CreateMessage(d)
    <3>1. /\ Streaming(d) /\ call'[d].seq = counter + 1
          /\ call'[d].stream = s /\ call'[d].peer = call[d].peer
          /\ UNCHANGED <<streams, wire, overlapped>>
      BY <2>1, CreateKinds
    <3>2. s \in StreamIds /\ streams[s] # None /\ PeerOf[streams[s]] = call[d].peer
      BY <1>t, <3>1 DEF CallOK
    <3>3. wire[s][i] # Torn /\ i \in DOMAIN wire[s]
      BY <1>i, <3>1, <3>2 DEF StreamInOrder
    <3>4. wire[s][i].seq <= counter /\ wire[s][i].seq \in Nat
      BY <1>f, <1>i, <3>2, <3>3 DEF NumbersCounted
    <3> QED BY <1>t, <3>1, <3>4
  <2>2. CASE /\ Writing(d) /\ call'[d].stream = s /\ call'[d].seq = call[d].seq
             /\ call'[d].peer = call[d].peer /\ ~Restart
    <3>1. s \in StreamIds /\ streams[s] # None /\ call[d].peer \notin overlapped
      BY <2>2, StreamsKept, OverlappedGrows DEF Streaming, Writing
    <3>2. \A j \in DOMAIN wire[s] : wire[s][j].seq < call[d].seq
      BY <1>i, <2>2, <3>1 DEF WriterIsNext
    <3>3. ASSUME NEW c \in Callers, Write(c) PROVE wire'[s] = wire[s]
      <4>1. c # d
        BY <3>3, WriteKinds, IdleIsCall DEF Writing
      <4>2. call[c].stream # s
        <5> SUFFICES ASSUME call[c].stream = s PROVE FALSE
          OBVIOUS
        <5>1. Writing(c)
          BY <3>3, WriteKinds
        <5>2. call[d].peer \in overlapped
          BY <1>i, <2>2, <3>1, <4>1, <5>1, OneStreamOnePeer
        <5> QED BY <3>1, <5>2
      <4> QED BY <3>1, <3>3, <4>2, WriteKinds
    <3>4. CASE wire'[s] = wire[s]
      BY <2>2, <3>2, <3>4
    <3>5. CASE Shrinks(s)
      BY <2>2, <3>2, <3>5 DEF Shrinks
    <3> QED BY <3>1, <3>3, <3>4, <3>5, WireKinds
  <2> QED BY <2>1, <2>2, WriterKinds
<1>3. StreamInOrder'
  <2> SUFFICES ASSUME NEW s \in StreamIds, streams'[s] # None, PeerOf[streams'[s]] \notin overlapped',
                      NEW i \in DOMAIN wire'[s], NEW j \in DOMAIN wire'[s]
               PROVE  wire'[s][i] # Torn /\ (i < j => wire'[s][i].seq < wire'[s][j].seq)
    BY DEF StreamInOrder
  <2>1. ~Restart
    BY DEF Restart, ResetStreams
  <2>2. overlapped \subseteq overlapped'
    BY <2>1, OverlappedGrows
  <2>o. ASSUME streams'[s] = streams[s]
        PROVE  \A x, y \in DOMAIN wire[s] : /\ wire[s][x] # Torn
                                            /\ x < y => wire[s][x].seq < wire[s][y].seq
    BY <1>i, <2>2, <2>o DEF StreamInOrder
  <2>3. ASSUME NEW c \in Callers, Write(c)
        PROVE  wire'[s][i] # Torn /\ (i < j => wire'[s][i].seq < wire'[s][j].seq)
    <3> DEFINE n == Len(wire[s])
    <3>1. /\ streams' = streams /\ overlapped' = overlapped /\ Writing(c)
          /\ call[c].stream # s => wire'[s] = wire[s]
      BY <2>3, WriteKinds
    <3>2. CASE call[c].stream # s
      BY <2>o, <3>1, <3>2
    <3>3. CASE call[c].stream = s
      <4>1. /\ n \in Nat /\ DOMAIN wire[s] = 1..n /\ DOMAIN wire'[s] = 1..(n + 1)
            /\ \A x \in 1..n : wire'[s][x] = wire[s][x]
            /\ \/ wire'[s][n + 1] = MessageOf(c)
               \/ wire'[s][n + 1] = Torn /\ \E d \in Callers : d # c /\ Writing(d) /\ call[d].stream = s
        BY <2>3, <3>3, WriteKinds
      <4>2. PeerOf[streams[s]] = call[c].peer /\ streams[s] # None
        BY <1>t, <3>1, <3>3 DEF CallOK, Streaming, Writing
      <4>3. ~ \E d \in Callers : d # c /\ Writing(d) /\ call[d].stream = s
        BY <1>i, <3>1, <3>3, <4>2, OneStreamOnePeer
      <4>4. wire'[s][n + 1] = MessageOf(c) /\ MessageOf(c) # Torn /\ MessageOf(c).seq = call[c].seq
        <5>1. MessageOf(c) \in SelfMessages
          BY <1>t DEF MessageOf, SelfMessages, Calls
        <5> QED BY <4>1, <4>3, <5>1, Constants DEF MessageOf
      <4>5. \A x \in 1..n : wire[s][x].seq < call[c].seq
        BY <1>i, <3>1, <3>3, <4>1, <4>2 DEF WriterIsNext
      <4>6. \A x, y \in 1..n : wire[s][x] # Torn /\ (x < y => wire[s][x].seq < wire[s][y].seq)
        BY <2>o, <3>1, <4>1
      <4> HIDE DEF n
      <4>7. CASE i \in 1..n /\ j \in 1..n
        BY <4>1, <4>6, <4>7
      <4>8. CASE i \in 1..n /\ j = n + 1
        BY <4>1, <4>4, <4>5, <4>6, <4>8
      <4>9. CASE i = n + 1
        BY <4>1, <4>4, <4>9
      <4>10. (i \in 1..n \/ i = n + 1) /\ (j \in 1..n \/ j = n + 1)
        BY <4>1
      <4> QED BY <4>7, <4>8, <4>9, <4>10
    <3> QED BY <3>2, <3>3
  <2>4. CASE Shrinks(s) /\ streams'[s] = streams[s]
    <3>1. PICK k \in Nat : \A x \in DOMAIN wire'[s] :
            x + k \in DOMAIN wire[s] /\ wire'[s][x] = wire[s][x + k]
      BY <2>4 DEF Shrinks
    <3>2. DOMAIN wire'[s] \subseteq Nat
      BY WireKinds, WriteKinds, NetStep DEF NetOK
    <3> QED BY <2>4, <2>o, <3>1, <3>2
  <2>5. CASE wire'[s] = <<>>
    BY <2>5
  <2> QED BY <2>3, <2>4, <2>5, WireKinds
<1> QED BY <1>1, <1>2, <1>3 DEF OrderInv

\* What a reader does: the first message leaves the stream.
LEMMA ReadKinds ==
  ASSUME NetOK, NEW s \in StreamIds, Read(s)
  PROVE  /\ 1 \in DOMAIN wire[s] /\ wire[s][1] # Torn
         /\ \A i \in DOMAIN wire'[s] : i \in Nat /\ i >= 1 /\ i + 1 \in DOMAIN wire[s] /\ wire'[s][i] = wire[s][i + 1]
         /\ \A t \in StreamIds : t # s => wire'[t] = wire[t]
         /\ UNCHANGED <<call, streams, counter>>
<1>1. /\ wire[s] # <<>> /\ Head(wire[s]) # Torn /\ wire' = [wire EXCEPT ![s] = Tail(wire[s])]
      /\ UNCHANGED <<call, streams, counter>>
  BY DEF Read
<1>2. wire \in [StreamIds -> Seq(Frames)] /\ wire[s] \in Seq(Frames)
  BY DEF NetOK
<1>3. wire'[s] = Tail(wire[s]) /\ \A t \in StreamIds : t # s => wire'[t] = wire[t]
  BY <1>1, <1>2
<1>4. 1 \in DOMAIN wire[s] /\ wire[s][1] # Torn
  BY <1>1, <1>2
<1>5. \A i \in DOMAIN Tail(wire[s]) : i \in Nat /\ i >= 1 /\ i + 1 \in DOMAIN wire[s] /\ Tail(wire[s])[i] = wire[s][i + 1]
  BY <1>1, <1>2
<1> QED BY <1>1, <1>3, <1>4, <1>5

\* Sequence numbers are given once.
LEMMA FreshStep ==
  ASSUME CallsOK, NetOK, LocksOK, LockInv, FreshInv, [Next]_vars
  PROVE  FreshInv'
<1>i. NumbersCounted /\ OnWireOnce /\ OnWireUnseen /\ WriterIsNew
  BY DEF FreshInv
<1>t. /\ wire \in [StreamIds -> Seq(Frames)] /\ counter \in Nat /\ counter' \in Nat /\ counter <= counter'
      /\ \A c \in Callers : call[c] \in Calls /\ call[c].seq \in Nat
      /\ wire' \in [StreamIds -> Seq(Frames)]
  BY CounterKinds, NetStep DEF NetOK, CallsOK, Calls
<1>d. \A s \in StreamIds : DOMAIN wire[s] \subseteq Nat /\ DOMAIN wire'[s] \subseteq Nat
  BY <1>t
<1>f. \A s \in StreamIds : \A i \in DOMAIN wire[s] :
        wire[s][i] # Torn => wire[s][i] \in SelfMessages /\ wire[s][i].seq \in Nat
  <2>1. \A s \in StreamIds : \A i \in DOMAIN wire[s] : wire[s][i] \in Frames
    BY <1>t
  <2> QED BY <2>1 DEF Frames, SelfMessages
<1>g. \A c \in Callers : /\ MessageOf(c) \in SelfMessages /\ MessageOf(c).seq = call[c].seq
                         /\ MessageOf(c) # Torn
  BY <1>t, Constants DEF MessageOf, SelfMessages
<1>w. ASSUME NEW c \in Callers, Write(c), NEW s \in StreamIds, NEW i \in DOMAIN wire'[s], wire'[s][i] # Torn
      PROVE  \/ i \in DOMAIN wire[s] /\ wire'[s][i] = wire[s][i]
             \/ /\ s = call[c].stream /\ i = Len(wire[s]) + 1 /\ wire'[s][i] = MessageOf(c)
  <2>1. CASE s # call[c].stream
    <3>1. wire'[s] = wire[s]
      BY <1>w, <2>1, WriteKinds
    <3> QED BY <1>w, <3>1
  <2>2. CASE s = call[c].stream
    <3> DEFINE n == Len(wire[s])
    <3>1. /\ n \in Nat /\ DOMAIN wire[s] = 1..n /\ DOMAIN wire'[s] = 1..(n + 1)
          /\ \A x \in 1..n : wire'[s][x] = wire[s][x]
          /\ wire'[s][n + 1] = MessageOf(c) \/ wire'[s][n + 1] = Torn
      BY <1>w, <2>2, WriteKinds
    <3>2. i \in 1..n \/ i = n + 1
      BY <3>1
    <3> QED BY <1>w, <2>2, <3>1, <3>2
  <2> QED BY <2>1, <2>2
<1>o. ASSUME NEW s \in StreamIds, NEW i \in DOMAIN wire'[s], wire'[s][i] # Torn
      PROVE  \/ \E j \in DOMAIN wire[s] : wire'[s][i] = wire[s][j]
             \/ \E c \in Callers : Write(c) /\ wire'[s][i] = MessageOf(c)
  <2>1. ASSUME Shrinks(s) PROVE \E j \in DOMAIN wire[s] : wire'[s][i] = wire[s][j]
    BY <2>1 DEF Shrinks
  <2> QED BY <1>o, <1>w, <2>1, WireKinds
<1>1. NumbersCounted'
  <2>1. ASSUME NEW d \in Callers, Writing(d)' PROVE call'[d].seq <= counter'
    <3>1. CASE CreateMessage(d)
      BY <1>t, <3>1, CreateKinds
    <3>2. CASE Writing(d) /\ call'[d].seq = call[d].seq
      <4>1. call[d].seq <= counter
        BY <1>i, <3>2 DEF NumbersCounted
      <4> QED BY <1>t, <3>2, <4>1
    <3> QED BY <2>1, <3>1, <3>2, WriterKinds
  <2>2. ASSUME NEW s \in StreamIds, NEW i \in DOMAIN wire'[s], wire'[s][i] # Torn
        PROVE  wire'[s][i].seq <= counter'
    <3>1. CASE \E j \in DOMAIN wire[s] : wire'[s][i] = wire[s][j]
      <4>1. wire'[s][i].seq <= counter /\ wire'[s][i].seq \in Nat
        BY <1>f, <1>i, <2>2, <3>1 DEF NumbersCounted
      <4> QED BY <1>t, <4>1
    <3>2. ASSUME NEW c \in Callers, Write(c), wire'[s][i] = MessageOf(c) PROVE wire'[s][i].seq <= counter'
      <4>1. Writing(c) /\ call[c].seq <= counter
        BY <1>i, <3>2, WriteKinds DEF NumbersCounted
      <4> QED BY <1>g, <1>t, <3>2, <4>1
    <3> QED BY <1>o, <2>2, <3>1, <3>2
  <2>3. ASSUME NEW p \in Receivers, NEW m \in seen'[p], m \in SelfMessages PROVE m.seq <= counter'
    <3>0. m.seq \in Nat
      BY <2>3 DEF SelfMessages
    <3>1. CASE m \in seen[p]
      <4>1. m.seq <= counter
        BY <1>i, <2>3, <3>1 DEF NumbersCounted
      <4> QED BY <1>t, <3>0, <4>1
    <3>2. ASSUME NEW s \in StreamIds, Read(s), m = wire[s][1] PROVE m.seq <= counter'
      <4>1. m.seq <= counter
        BY <1>i, <3>2, ReadKinds DEF NumbersCounted
      <4> QED BY <1>t, <3>0, <4>1
    <3> QED BY <2>3, <3>1, <3>2, SeenKinds
  <2> QED BY <2>1, <2>2, <2>3 DEF NumbersCounted
<1>2. OnWireOnce'
  <2> SUFFICES ASSUME NEW s \in StreamIds, NEW r \in StreamIds,
                      NEW i \in DOMAIN wire'[s], NEW j \in DOMAIN wire'[r],
                      wire'[s][i] # Torn, wire'[s][i] = wire'[r][j]
               PROVE  s = r /\ i = j
    BY DEF OnWireOnce
  <2>1. CASE Shrinks(s) /\ Shrinks(r)
    <3>1. PICK k \in Nat : \A x \in DOMAIN wire'[s] :
            x + k \in DOMAIN wire[s] /\ wire'[s][x] = wire[s][x + k]
      BY <2>1 DEF Shrinks
    <3>2. PICK l \in Nat : \A x \in DOMAIN wire'[r] :
            x + l \in DOMAIN wire[r] /\ wire'[r][x] = wire[r][x + l]
      BY <2>1 DEF Shrinks
    <3>3. s = r
      BY <1>i, <3>1, <3>2 DEF OnWireOnce
    <3>4. i + k \in DOMAIN wire[s] /\ j + k \in DOMAIN wire[s] /\ wire[s][i + k] = wire[s][j + k]
          /\ wire[s][i + k] # Torn
      BY <3>1, <3>3
    <3>5. i + k = j + k
      BY <1>i, <3>4 DEF OnWireOnce
    <3>6. i \in Nat /\ j \in Nat
      BY <1>d
    <3> QED BY <3>3, <3>5, <3>6
  <2>2. ASSUME NEW c \in Callers, Write(c) PROVE s = r /\ i = j
    <3>1. \A x \in StreamIds : \A y \in DOMAIN wire[x] : wire[x][y] # MessageOf(c)
      BY <1>i, <2>2, WriteKinds DEF WriterIsNew
    <3>2. \/ i \in DOMAIN wire[s] /\ wire'[s][i] = wire[s][i]
          \/ s = call[c].stream /\ i = Len(wire[s]) + 1 /\ wire'[s][i] = MessageOf(c)
      BY <1>w, <2>2
    <3>3. \/ j \in DOMAIN wire[r] /\ wire'[r][j] = wire[r][j]
          \/ r = call[c].stream /\ j = Len(wire[r]) + 1 /\ wire'[r][j] = MessageOf(c)
      BY <1>w, <2>2
    <3> QED BY <1>i, <3>1, <3>2, <3>3 DEF OnWireOnce
  <2> QED BY <2>1, <2>2, WireKinds
<1>3. OnWireUnseen'
  <2> SUFFICES ASSUME NEW s \in StreamIds, NEW i \in DOMAIN wire'[s], NEW p \in Receivers,
                      wire'[s][i] # Torn
               PROVE  wire'[s][i] \notin seen'[p]
    BY DEF OnWireUnseen
  <2>1. wire'[s][i] \in SelfMessages
    BY <1>f, <1>g, <1>o
  <2>2. ASSUME NEW r \in StreamIds, Read(r), seen'[p] \subseteq seen[p] \cup {wire[r][1]}
        PROVE  wire'[s][i] \notin seen'[p]
    <3>1. CASE s = r
      <4>1. i + 1 \in DOMAIN wire[s] /\ wire'[s][i] = wire[s][i + 1] /\ i + 1 # 1 /\ 1 \in DOMAIN wire[s]
        BY <2>2, <3>1, ReadKinds
      <4>2. wire[s][i + 1] # wire[s][1]
        BY <1>i, <4>1 DEF OnWireOnce
      <4> QED BY <1>i, <2>2, <3>1, <4>1, <4>2 DEF OnWireUnseen
    <3>2. CASE s # r
      <4>1. i \in DOMAIN wire[s] /\ wire'[s][i] = wire[s][i] /\ 1 \in DOMAIN wire[r]
        BY <2>2, <3>2, ReadKinds
      <4>2. wire[s][i] # wire[r][1]
        BY <1>i, <3>2, <4>1 DEF OnWireOnce
      <4> QED BY <1>i, <2>2, <4>1, <4>2 DEF OnWireUnseen
    <3> QED BY <3>1, <3>2
  <2>3. ASSUME \A m \in seen'[p] \cap SelfMessages : m \in seen[p]
        PROVE  wire'[s][i] \notin seen'[p]
    <3>1. wire'[s][i] \notin seen[p]
      <4>1. CASE \E j \in DOMAIN wire[s] : wire'[s][i] = wire[s][j]
        BY <1>i, <4>1 DEF OnWireUnseen
      <4>2. ASSUME NEW c \in Callers, Write(c), wire'[s][i] = MessageOf(c) PROVE wire'[s][i] \notin seen[p]
        BY <1>i, <4>2, WriteKinds DEF WriterIsNew
      <4> QED BY <1>o, <4>1, <4>2
    <3> QED BY <2>1, <2>3, <3>1
  <2> QED BY <2>2, <2>3, SeenKinds
<1>4. WriterIsNew'
  <2> SUFFICES ASSUME NEW d \in Callers, Writing(d)'
               PROVE  /\ \A s \in StreamIds : \A i \in DOMAIN wire'[s] : wire'[s][i] # MessageOf(d)'
                      /\ \A p \in Receivers : MessageOf(d)' \notin seen'[p]
                      /\ \A e \in Callers : Writing(e)' /\ call'[e].seq = call'[d].seq => d = e
    BY DEF WriterIsNew
  <2>1. CASE CreateMessage(d)
    <3>1. /\ call'[d].seq = counter + 1 /\ UNCHANGED <<wire, seen>>
          /\ \A c \in Callers : c # d => call'[c] = call[c]
      BY <2>1, CreateKinds
    <3>2. MessageOf(d)' \in SelfMessages /\ MessageOf(d)'.seq = counter + 1 /\ MessageOf(d)' # Torn
      BY <1>t, <3>1, Constants DEF MessageOf, SelfMessages
    <3>3. ASSUME NEW s \in StreamIds, NEW i \in DOMAIN wire[s], wire[s][i] = MessageOf(d)' PROVE FALSE
      <4>1. wire[s][i].seq <= counter
        BY <1>i, <3>2, <3>3 DEF NumbersCounted
      <4> QED BY <1>t, <3>2, <3>3, <4>1
    <3>4. ASSUME NEW p \in Receivers, MessageOf(d)' \in seen[p] PROVE FALSE
      <4>1. MessageOf(d)'.seq <= counter
        BY <1>i, <3>2, <3>4 DEF NumbersCounted
      <4> QED BY <1>t, <3>2, <4>1
    <3>5. ASSUME NEW e \in Callers, Writing(e)', call'[e].seq = call'[d].seq, d # e PROVE FALSE
      <4>1. Writing(e) /\ call[e].seq = counter + 1
        BY <3>1, <3>5 DEF Writing
      <4>2. call[e].seq <= counter
        BY <1>i, <4>1 DEF NumbersCounted
      <4> QED BY <1>t, <4>1, <4>2
    <3> QED BY <3>1, <3>3, <3>4, <3>5
  <2>2. CASE Writing(d) /\ call'[d].seq = call[d].seq
    <3>1. MessageOf(d)' = MessageOf(d) /\ MessageOf(d) \in SelfMessages /\ MessageOf(d) # Torn
      BY <1>g, <2>2 DEF MessageOf
    <3>2. /\ \A s \in StreamIds : \A i \in DOMAIN wire[s] : wire[s][i] # MessageOf(d)
          /\ \A p \in Receivers : MessageOf(d) \notin seen[p]
          /\ \A e \in Callers : Writing(e) /\ call[e].seq = call[d].seq => d = e
      BY <1>i, <2>2 DEF WriterIsNew
    <3>3. ASSUME NEW s \in StreamIds, NEW i \in DOMAIN wire'[s] PROVE wire'[s][i] # MessageOf(d)
      <4>1. CASE wire'[s][i] = Torn
        BY <3>1, <4>1
      <4>2. ASSUME NEW c \in Callers, Write(c), wire'[s][i] = MessageOf(c) PROVE wire'[s][i] # MessageOf(d)
        <5>1. Writing(c) /\ call'[c] = Idle
          BY <4>2, WriteKinds
        <5>2. c # d
          BY <5>1, IdleIsCall DEF Writing
        <5>3. call[c].seq # call[d].seq
          BY <3>2, <5>1, <5>2
        <5> QED BY <1>g, <4>2, <5>3
      <4> QED BY <1>o, <3>2, <4>1, <4>2
    <3>4. ASSUME NEW p \in Receivers PROVE MessageOf(d) \notin seen'[p]
      <4>1. ASSUME NEW r \in StreamIds, Read(r), seen'[p] \subseteq seen[p] \cup {wire[r][1]}
            PROVE  MessageOf(d) \notin seen'[p]
        BY <3>2, <4>1, ReadKinds
      <4> QED BY <3>1, <3>2, <4>1, SeenKinds
    <3>5. ASSUME NEW e \in Callers, Writing(e)', call'[e].seq = call'[d].seq PROVE d = e
      <4>1. CASE CreateMessage(e)
        <5>1. call'[e].seq = counter + 1
          BY <4>1, CreateKinds
        <5>2. call[d].seq <= counter
          BY <1>i, <2>2 DEF NumbersCounted
        <5> QED BY <1>t, <2>2, <3>5, <5>1, <5>2
      <4>2. CASE Writing(e) /\ call'[e].seq = call[e].seq
        BY <2>2, <3>2, <3>5, <4>2
      <4> QED BY <3>5, <4>1, <4>2, WriterKinds
    <3> QED BY <3>1, <3>3, <3>4, <3>5
  <2> QED BY <2>1, <2>2, WriterKinds
<1> QED BY <1>1, <1>2, <1>3, <1>4 DEF FreshInv

\* The initial state satisfies the inductive invariant.
LEMMA InitIInv == Init => IInv
<1> SUFFICES ASSUME Init PROVE IInv
  OBVIOUS
<1>c. /\ \A c \in Callers : call[c] = Idle
      /\ call = [c \in Callers |-> Idle] /\ mutexes = <<>>
  BY DEF Init
<1>n. \A c \in Callers : /\ ~Working(c) /\ ~Streaming(c) /\ ~Writing(c) /\ ~Inside(c)
                         /\ call[c].pc # "stream"
  BY <1>c, IdleIsCall DEF Working, Streaming, Writing, Inside
<1>1. CallsOK
  BY <1>c, <1>n, IdleIsCall, FS_EmptySet DEF CallsOK, CallOK
<1>2. LocksOK
  <2>1. mutexes \in Seq(CacheEntries) /\ Len(mutexes) = 0
    BY <1>c
  <2> QED BY <2>1, Constants DEF Init, LocksOK
<1>3. NetOK
  <2>1. <<>> \in Seq(Frames)
    OBVIOUS
  <2> QED BY <2>1 DEF Init, NetOK
<1>4. LockInv
  BY <1>c, <1>n DEF LockInv, CachedOnce, CachedOrEvicted, HoldsInside
<1>5. OrderInv
  BY <1>n DEF Init, OrderInv, TogetherRemembered, WriterIsNext, StreamInOrder
<1>6. FreshInv
  <2>1. \A s \in StreamIds : DOMAIN wire[s] = {}
    BY DEF Init
  <2>2. \A p \in Receivers : seen[p] = {}
    BY DEF Init
  <2> QED BY <1>n, <2>1, <2>2 DEF FreshInv, NumbersCounted, OnWireOnce, OnWireUnseen, WriterIsNew
<1> QED BY <1>1, <1>2, <1>3, <1>4, <1>5, <1>6 DEF IInv

\* Every step of senders, receivers and network keeps the inductive invariant.
THEOREM InvariantHolds == Spec => []IInv
<1>1. IInv /\ [Next]_vars => IInv'
  <2> SUFFICES ASSUME IInv, [Next]_vars PROVE IInv'
    OBVIOUS
  <2>1. CallsOK /\ LocksOK /\ NetOK /\ LockInv /\ OrderInv /\ FreshInv
    BY DEF IInv
  <2> QED BY <2>1, CallsStep, NetStep, LockStep, OrderStep, FreshStep DEF IInv
<1> QED BY <1>1, InitIInv, PTL DEF Spec

\* Two callers hold different mutexes of one peer only after Capacity other peers were
\* asked for: the cache of MutexHolder never evicts sooner.
THEOREM OneWriter == Spec => []OneWriterUnlessEvicted
<1>1. IInv => OneWriterUnlessEvicted
  <2> SUFFICES ASSUME IInv, NEW c \in Callers, NEW d \in Callers, c # d, Inside(c), Inside(d),
                      call[c].peer = call[d].peer,
                      ~(Cardinality(call[c].asked) >= Capacity),
                      ~(Cardinality(call[d].asked) >= Capacity)
               PROVE  FALSE
    BY DEF OneWriterUnlessEvicted
  <2>1. CachedOnce /\ CachedOrEvicted /\ HoldsInside
    BY DEF IInv, LockInv
  <2>2. Cached(c) /\ Cached(d)
    BY <2>1 DEF CachedOrEvicted, Working, Inside
  <2>3. call[c].mutex = call[d].mutex
    BY <2>1, <2>2 DEF Cached, CachedOnce
  <2> QED BY <2>1, <2>3 DEF HoldsInside
<1> QED BY <1>1, InvariantHolds, PTL

\* A stream whose peer never had two writers carries whole frames in the order of their
\* sequence numbers.
THEOREM StreamsInOrder == Spec => []StreamInOrder
<1>1. IInv => StreamInOrder
  BY DEF IInv, OrderInv
<1> QED BY <1>1, InvariantHolds, PTL

\* A message on its way was not seen by its receiver, whatever others sent and however
\* often the sender restarted.
THEOREM FreshNeverSeen == Spec => []FreshIsNotSeen
<1>1. IInv => FreshIsNotSeen
  <2> SUFFICES ASSUME IInv, NEW s \in StreamIds, NEW i \in DOMAIN wire[s], wire[s][i] # Torn
               PROVE  wire[s][i] \notin seen[PeerOf[streams[s]]]
    BY DEF FreshIsNotSeen
  <2>1. streams[s] \in Conns
    BY DEF IInv, NetOK
  <2> QED BY <2>1, Constants DEF IInv, FreshInv, OnWireUnseen
<1> QED BY <1>1, InvariantHolds, PTL

\* A mutex that is locked is locked by a caller that is between its Lock and its Unlock.
HeldInside ==
    \A m \in Mutexes : holder[m] # None => Inside(holder[m]) /\ call[holder[m]].mutex = m

\* A caller leaves with its mutex unlocked, whichever way it leaves.
LEMMA HeldStep ==
  ASSUME CallsOK, NetOK, LocksOK, LockInv, HeldInside, [Next]_vars
  PROVE  HeldInside'
<1>t. /\ holder \in [Mutexes -> Callers \cup {None}] /\ None \notin Callers
      /\ \A c \in Callers : call[c].pc # "idle" => call[c].mutex \in Mutexes
  BY Constants DEF CallsOK, CallOK, LocksOK, Working
<1>s. ASSUME holder' = holder,
             \A d \in Callers : Inside(d) => Inside(d)' /\ call'[d].mutex = call[d].mutex
      PROVE  HeldInside'
  <2> SUFFICES ASSUME NEW m \in Mutexes, holder[m] # None
               PROVE  Inside(holder[m])' /\ call'[holder[m]].mutex = m
    BY <1>s DEF HeldInside, Inside
  <2>1. holder[m] \in Callers /\ Inside(holder[m]) /\ call[holder[m]].mutex = m
    BY <1>t DEF HeldInside
  <2> QED BY <1>s, <2>1 DEF Inside
<1>1. ASSUME NEW c \in Callers, NEW p \in Peers, call[c].pc = "idle", GetMutex(c, p)
      PROVE  HeldInside'
  <2>1. Asks(c, p) /\ holder' = holder
    BY <1>1, AskingKinds DEF LockInv, GetMutex
  <2>2. \A d \in Callers : Inside(d) => Inside(d)' /\ call'[d].mutex = call[d].mutex
    BY <1>1, <2>1 DEF Asks, Inside
  <2> QED BY <1>s, <2>1, <2>2
<1>2. ASSUME NEW c \in Callers, Lock(c) PROVE HeldInside'
  <2>1. /\ call[c].pc = "lock" /\ holder[call[c].mutex] = None
        /\ holder' = [holder EXCEPT ![call[c].mutex] = c]
        /\ SameLock(c) /\ call'[c].pc = "connect"
        /\ \A d \in Callers : d # c => call'[d] = call[d]
    BY <1>2, LockKinds
  <2> SUFFICES ASSUME NEW m \in Mutexes, holder'[m] # None
               PROVE  call'[holder'[m]].pc \notin {"idle", "lock"} /\ call'[holder'[m]].mutex = m
    BY DEF HeldInside, Inside
  <2>2. CASE m = call[c].mutex
    BY <1>t, <2>1, <2>2 DEF SameLock
  <2>3. CASE m # call[c].mutex
    <3>1. holder'[m] = holder[m]
      BY <1>t, <2>1, <2>3
    <3>2. holder[m] \in Callers /\ Inside(holder[m]) /\ call[holder[m]].mutex = m
      BY <1>t, <3>1 DEF HeldInside
    <3>3. holder[m] # c
      BY <2>3, <3>2
    <3> QED BY <2>1, <3>1, <3>2, <3>3 DEF Inside
  <2> QED BY <2>2, <2>3
<1>3. ASSUME NEW c \in Callers, Advance(c) PROVE HeldInside'
  <2>1. \A d \in Callers : Inside(d) => Inside(d)' /\ call'[d].mutex = call[d].mutex
    BY <1>3 DEF Advance, SameLock, Inside
  <2> QED BY <1>3, <1>s, <2>1 DEF Advance
<1>4. ASSUME NEW c \in Callers, Leave(c) PROVE HeldInside'
  <2>1. /\ holder' = [holder EXCEPT ![call[c].mutex] = None]
        /\ \A d \in Callers : d # c => call'[d] = call[d]
    BY <1>4 DEF Leave
  <2> SUFFICES ASSUME NEW m \in Mutexes, holder'[m] # None
               PROVE  call'[holder'[m]].pc \notin {"idle", "lock"} /\ call'[holder'[m]].mutex = m
    BY DEF HeldInside, Inside
  <2>2. m # call[c].mutex /\ holder'[m] = holder[m]
    BY <1>t, <2>1
  <2>3. holder[m] \in Callers /\ Inside(holder[m]) /\ call[holder[m]].mutex = m
    BY <1>t, <2>2 DEF HeldInside
  <2>4. holder[m] # c
    BY <2>2, <2>3
  <2> QED BY <2>1, <2>2, <2>3, <2>4 DEF Inside
<1>5. CASE Restart
  BY <1>5 DEF Restart, HeldInside
<1>6. CASE UNCHANGED <<call, mutexes, holder, overlapped>>
  BY <1>6, <1>s DEF Inside
<1> QED BY <1>1, <1>2, <1>3, <1>4, <1>5, <1>6, StepKinds

\* No way out of Send, with or without a connection, a stream, a message or a write that
\* works, keeps the mutex of the peer, and none unlocks another caller's: a caller that
\* waits for a mutex waits for one that is still inside (directSender.go:212-248).
THEOREM MutexesGivenBack == Spec => []HeldInside
<1>1. Init => HeldInside
  BY DEF Init, HeldInside
<1>2. IInv /\ HeldInside /\ [Next]_vars => HeldInside'
  BY HeldStep DEF IInv
<1> QED BY <1>1, <1>2, InvariantHolds, PTL DEF Spec
============================================================================
