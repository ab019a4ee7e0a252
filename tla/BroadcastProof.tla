-------------------------- MODULE BroadcastProof --------------------------
(***************************************************************************)
(* For every set of senders and topics and every number of channels: the   *)
(* load balancer's slices and map agree, a broadcast is neither lost nor   *)
(* doubled, the throttler counts the broadcasts in progress, and only a    *)
(* broadcast on a channel that is removed can panic.                       *)
(***************************************************************************)
EXTENDS Broadcast, SequenceTheorems, FiniteSetTheorems, TLAPS

\* Every channel in use was made, none twice, and no channel in use was closed.
ChannelsLive ==
    /\ \A k \in DOMAIN chans : chans[k] \in 1..made /\ chans[k] \notin closedChans
    /\ \A j, k \in DOMAIN chans : chans[j] = chans[k] => j = k
    /\ closedChans \subseteq 1..made
    /\ \A i \in Chans : i > made => fwd[i] = "none"

\* The load balancer always has its default channel.
NamesNotEmpty == Len(names) >= 1

Holds(i, g) == fwd[i] = "push" /\ obj[i] = g

AtConsumer(g) == consumer = "publish" /\ collected = g

Settled(g) == outcome[g] # "none"

\* A message handed over is with one forwarding goroutine, with the consumer or settled.
OnePlace(g) ==
    /\ \A i, j \in Chans : Holds(i, g) /\ Holds(j, g) => i = j
    /\ \A i \in Chans : Holds(i, g) => ~AtConsumer(g) /\ ~Settled(g)
    /\ AtConsumer(g) => ~Settled(g)
    /\ ((\E i \in Chans : Holds(i, g)) \/ AtConsumer(g) \/ Settled(g))
         <=> sender[g] \in {"end", "sent"}

EachInOnePlace == \A g \in Senders : OnePlace(g)

\* The consumer publishes a message of a sender.
ConsumerHolds == consumer = "publish" => collected \in Senders

\* A goroutine that sends has a channel that was made, whether or not it is still open.
TargetsMade == \A g \in Senders : sender[g] = "send" => target[g] \in Chans

IInv ==
    /\ TypeOK /\ ChannelsConsistent /\ ChannelsLive /\ NamesNotEmpty /\ TargetsMade
    /\ EachInOnePlace /\ ConsumerHolds /\ ThrottlerAccounting

\* The goroutines that hold a slot of the throttler.
Busy == {g \in Senders : sender[g] \in {"get", "send", "end", "panic"}}

\* What RemoveAt leaves: the elements before k, then those after it.
LEMMA RemoveAtIndices ==
  ASSUME NEW S, NEW s \in Seq(S), NEW k \in 1..Len(s)
  PROVE  /\ RemoveAt(s, k) \in Seq(S)
         /\ Len(RemoveAt(s, k)) = Len(s) - 1
         /\ \A j \in 1..(Len(s) - 1) : RemoveAt(s, k)[j] = IF j < k THEN s[j] ELSE s[j + 1]
<1> DEFINE a == SubSeq(s, 1, k - 1)
           b == SubSeq(s, k + 1, Len(s))
<1>1. Len(s) \in Nat /\ \A i \in 1..Len(s) : s[i] \in S
  OBVIOUS
<1>2. /\ a \in Seq(S) /\ Len(a) = k - 1
      /\ \A i \in 1..(k - 1) : a[i] = s[i]
  BY <1>1, SubSeqProperties
<1>3. /\ b \in Seq(S) /\ Len(b) = Len(s) - k
      /\ \A i \in 1..(Len(s) - k) : b[i] = s[k + i]
  BY <1>1, SubSeqProperties
<1> HIDE DEF a, b
<1>4. /\ a \o b \in Seq(S)
      /\ Len(a \o b) = Len(a) + Len(b)
      /\ \A i \in 1..(Len(a) + Len(b)) : (a \o b)[i] = IF i <= Len(a) THEN a[i] ELSE b[i - Len(a)]
  BY <1>2, <1>3, ConcatProperties
<1>5. RemoveAt(s, k) = a \o b
  BY DEF RemoveAt, a, b
<1>6. Len(a \o b) = Len(s) - 1
  BY <1>1, <1>2, <1>3, <1>4
<1>7. ASSUME NEW j \in 1..(Len(s) - 1)
      PROVE  (a \o b)[j] = IF j < k THEN s[j] ELSE s[j + 1]
  <2>1. j \in 1..(Len(a) + Len(b))
    BY <1>1, <1>2, <1>3
  <2>2. CASE j < k
    BY <1>1, <1>2, <1>4, <2>1, <2>2
  <2>3. CASE ~(j < k)
    <3>1. j - Len(a) \in 1..(Len(s) - k) /\ ~(j <= Len(a)) /\ k + (j - Len(a)) = j + 1
      BY <1>1, <1>2, <2>3
    <3> QED BY <1>3, <1>4, <2>1, <2>3, <3>1
  <2> QED BY <2>2, <2>3
<1> QED BY <1>4, <1>5, <1>6, <1>7

\* The initial state satisfies the inductive invariant.
LEMMA InitIInv == Init => IInv
<1> SUFFICES ASSUME Init PROVE IInv
  OBVIOUS
<1>1. Busy = {} /\ throttled = 0
  BY DEF Init, Busy
<1>2. ThrottlerAccounting
  BY <1>1, FS_EmptySet DEF ThrottlerAccounting, Busy
<1>3. Cardinality(Senders) \in Nat
  BY SendersAssumption, FS_CardinalityType
<1>4. names \in Seq(Names) /\ chans \in Seq(Chans) /\ Len(names) = 1 /\ Len(chans) = 1
      /\ names[1] = DefaultChannel /\ chans[1] = 1 /\ MaxChannels \in Nat \ {0}
  BY BoundsAssumption DEF Init, Names, Chans
<1>5. TypeOK
  <2>1. /\ namesChans \in [Names -> 0..MaxChannels] /\ made \in Chans /\ closedChans \subseteq Chans
        /\ fwd \in [Chans -> {"none", "select", "push", "done"}]
        /\ obj \in [Chans -> Senders \cup {NoMessage}]
    BY <1>4 DEF Init, Chans
  <2>2. /\ throttled \in 0..Cardinality(Senders) /\ target \in [Senders -> 0..MaxChannels]
        /\ sender \in [Senders -> {"idle", "start", "get", "send", "end", "sent", "refused", "panic"}]
        /\ outcome \in [Senders -> {"none", "published", "dropped"}]
    BY <1>3, <1>4 DEF Init
  <2> QED BY <1>4, <2>1, <2>2 DEF Init, TypeOK
<1>6. ChannelsConsistent /\ NamesNotEmpty
  BY <1>4 DEF Init, ChannelsConsistent, NamesNotEmpty, IsInjective, Names
<1>7. ChannelsLive
  BY <1>4 DEF Init, ChannelsLive, Chans
<1>8. EachInOnePlace /\ ConsumerHolds /\ TargetsMade
  BY DEF Init, EachInOnePlace, OnePlace, Holds, AtConsumer, Settled, ConsumerHolds, TargetsMade
<1> QED BY <1>2, <1>5, <1>6, <1>7, <1>8 DEF IInv

\* The channels change when one is added and when one is removed.
LEMMA ChannelKinds ==
  ASSUME [Next]_vars
  PROVE  \/ UNCHANGED clbVars
         \/ \E n \in Topics : AddChannel(n)
         \/ \E n \in Removable : RemoveChannel(n)
<1>1. ASSUME NEW t \in Topics, CreateTopic(t) PROVE UNCHANGED clbVars \/ AddChannel(t)
  BY <1>1 DEF CreateTopic
<1>2. ASSUME NEW n \in Removable, AddChannelAgain(n) PROVE n \in Topics /\ AddChannel(n)
  BY <1>2, NamesAssumption DEF AddChannelAgain
<1>3. ASSUME NEW g \in Senders, SenderStep(g) PROVE UNCHANGED clbVars
  BY <1>3 DEF SenderStep, StartBroadcast, StartBroadcastUsingPrivateKey, StartProcessing, GetChannel,
              Handoff, SendPanics, EndProcessing
<1>4. ASSUME NEW i \in Chans, ForwardNil(i) \/ ForwarderStops(i) \/ Collect(i)
      PROVE  UNCHANGED clbVars
  BY <1>4 DEF ForwardNil, ForwarderStops, Collect
<1>5. ASSUME \/ UnJoinAllTopics \/ DurationBetweenSends \/ CollectNothing \/ Publish
             \/ ConsumerStops \/ CancelHandler \/ CloseLoadBalancer \/ UNCHANGED vars
      PROVE  UNCHANGED clbVars
  BY <1>5 DEF UnJoinAllTopics, DurationBetweenSends, CollectNothing, Publish, ConsumerStops,
              CancelHandler, CloseLoadBalancer, vars, clbVars
<1> QED BY <1>1, <1>2, <1>3, <1>4, <1>5 DEF Next, ConsumerStep

\* A new channel is known by its name everywhere.
LEMMA AddKeepsConsistent ==
  ASSUME TypeOK, ChannelsConsistent, ChannelsLive, NamesNotEmpty, NEW n \in Topics, AddChannel(n)
  PROVE  /\ names' \in Seq(Names) /\ chans' \in Seq(Chans)
         /\ namesChans' \in [Names -> 0..MaxChannels]
         /\ made' \in Chans /\ closedChans' \subseteq Chans
         /\ ChannelsConsistent' /\ NamesNotEmpty'
         /\ \A k \in DOMAIN chans' : chans'[k] \in 1..made' /\ chans'[k] \notin closedChans'
         /\ \A j, k \in DOMAIN chans' : chans'[j] = chans'[k] => j = k
         /\ closedChans' \subseteq 1..made'
<1>1. CASE namesChans[n] # 0
  <2>1. UNCHANGED <<names, chans, namesChans, made, closedChans>>
    BY <1>1 DEF AddChannel, clbVars
  <2> QED BY <2>1 DEF TypeOK, ChannelsConsistent, ChannelsLive, NamesNotEmpty
<1>2. CASE namesChans[n] = 0
  <2> DEFINE i == made + 1
             L == Len(names)
  <2>1. /\ made < MaxChannels /\ made' = i
        /\ names' = Append(names, n) /\ chans' = Append(chans, i)
        /\ namesChans' = [namesChans EXCEPT ![n] = i]
        /\ closedChans' = closedChans
    BY <1>2 DEF AddChannel
  <2>2. /\ i \in Chans /\ made \in Nat /\ made >= 1 /\ MaxChannels \in Nat /\ n \in Names
        /\ names \in Seq(Names) /\ chans \in Seq(Chans) /\ namesChans \in [Names -> 0..MaxChannels]
    BY <2>1, BoundsAssumption DEF TypeOK, Chans, Names
  <2> HIDE DEF i
  <2>3. /\ L \in Nat /\ L >= 1 /\ Len(chans) = L
        /\ DOMAIN names = 1..L /\ DOMAIN chans = 1..L
        /\ names' \in Seq(Names) /\ chans' \in Seq(Chans) /\ Len(names') = L + 1 /\ Len(chans') = L + 1
        /\ DOMAIN names' = 1..(L + 1) /\ DOMAIN chans' = 1..(L + 1)
        /\ \A k \in 1..L : names'[k] = names[k] /\ chans'[k] = chans[k]
        /\ names'[L + 1] = n /\ chans'[L + 1] = i
    <3>1. Len(chans) = L /\ L >= 1
      BY DEF ChannelsConsistent, NamesNotEmpty
    <3>2. L \in Nat /\ DOMAIN names = 1..L
      BY <2>2
    <3>3. DOMAIN chans = 1..L
      BY <2>2, <3>1
    <3>4. /\ names' \in Seq(Names) /\ Len(names') = L + 1 /\ DOMAIN names' = 1..(L + 1)
          /\ \A k \in 1..L : names'[k] = names[k]
          /\ names'[L + 1] = n
      BY <2>1, <2>2
    <3>5. /\ chans' \in Seq(Chans) /\ Len(chans') = L + 1 /\ DOMAIN chans' = 1..(L + 1)
          /\ \A k \in 1..L : chans'[k] = chans[k]
          /\ chans'[L + 1] = i
      BY <2>1, <2>2, <3>1
    <3> QED BY <3>1, <3>2, <3>3, <3>4, <3>5
  <2> HIDE DEF L
  <2>4. \A k \in 1..(L + 1) : k \in 1..L \/ k = L + 1
    BY <2>3
  <2>5. /\ \A k \in 1..L : namesChans[names[k]] = chans[k] /\ chans[k] \notin closedChans
                           /\ chans[k] \in 1..made /\ names[k] \in Names
        /\ names[1] = DefaultChannel
        /\ \A m \in Names : namesChans[m] # 0 => \E k \in 1..L : names[k] = m
        /\ \A j, k \in 1..L : names[j] = names[k] => j = k
        /\ \A j, k \in 1..L : chans[j] = chans[k] => j = k
        /\ closedChans \subseteq 1..made
    <3>1. \A k \in 1..L : names[k] \in Names
      BY <2>2, <2>3 DEF L
    <3>2. \A k \in 1..L : namesChans[names[k]] = chans[k] /\ chans[k] \notin closedChans
      BY <2>3 DEF ChannelsConsistent
    <3>3. /\ names[1] = DefaultChannel
          /\ \A m \in Names : namesChans[m] # 0 => \E k \in 1..L : names[k] = m
          /\ \A j, k \in 1..L : names[j] = names[k] => j = k
      BY <2>3 DEF ChannelsConsistent, IsInjective
    <3>4. /\ \A k \in 1..L : chans[k] \in 1..made
          /\ \A j, k \in 1..L : chans[j] = chans[k] => j = k
          /\ closedChans \subseteq 1..made
      BY <2>3 DEF ChannelsLive
    <3> QED BY <3>1, <3>2, <3>3, <3>4
  <2>6. /\ \A k \in 1..L : chans[k] # i /\ chans[k] # 0 /\ names[k] # n
        /\ i \notin closedChans /\ i # 0
    BY <1>2, <2>2, <2>5 DEF i
  <2>7. namesChans'[n] = i /\ \A m \in Names : m # n => namesChans'[m] = namesChans[m]
    BY <2>1, <2>2
  <2>8. namesChans' \in [Names -> 0..MaxChannels]
    BY <2>1, <2>2 DEF Chans
  <2>9. \A k \in 1..(L + 1) : namesChans'[names'[k]] = chans'[k] /\ chans'[k] \notin closedChans'
    BY <2>1, <2>3, <2>4, <2>5, <2>6, <2>7
  <2>10. \A m \in Names : namesChans'[m] # 0 => \E k \in 1..(L + 1) : names'[k] = m
    <3> SUFFICES ASSUME NEW m \in Names, namesChans'[m] # 0
                 PROVE  \E k \in 1..(L + 1) : names'[k] = m
      OBVIOUS
    <3>1. CASE m = n
      BY <2>3, <3>1
    <3>2. CASE m # n
      <4>1. PICK k \in 1..L : names[k] = m
        BY <2>5, <2>7, <3>2
      <4>2. k \in 1..(L + 1) /\ names'[k] = m
        BY <2>3, <4>1
      <4> QED BY <4>2
    <3> QED BY <3>1, <3>2
  <2>11. \A j, k \in 1..(L + 1) : names'[j] = names'[k] => j = k
    BY <2>3, <2>4, <2>5, <2>6
  <2>12. names'[1] = DefaultChannel
    BY <2>3, <2>5
  <2>13. ChannelsConsistent' /\ NamesNotEmpty'
    BY <2>3, <2>9, <2>10, <2>11, <2>12 DEF ChannelsConsistent, NamesNotEmpty, IsInjective
  <2>14. \A j, k \in 1..(L + 1) : chans'[j] = chans'[k] => j = k
    BY <2>3, <2>4, <2>5, <2>6
  <2>15. \A k \in 1..(L + 1) : chans'[k] \in 1..made'
    <3>1. \A x \in 1..made : x \in 1..made'
      BY <2>1, <2>2 DEF i
    <3>2. i \in 1..made'
      BY <2>1, <2>2 DEF i
    <3> QED BY <2>3, <2>4, <2>5, <3>1, <3>2
  <2>16. closedChans' \subseteq 1..made'
    BY <2>1, <2>2, <2>5 DEF i
  <2> QED BY <2>1, <2>2, <2>3, <2>8, <2>9, <2>13, <2>14, <2>15, <2>16 DEF TypeOK
<1> QED BY <1>1, <1>2

\* Removing a channel takes the same index out of both slices; the default channel stays.
LEMMA RemoveKeepsConsistent ==
  ASSUME TypeOK, ChannelsConsistent, ChannelsLive, NamesNotEmpty, NEW n \in Removable,
         RemoveChannel(n)
  PROVE  /\ names' \in Seq(Names) /\ chans' \in Seq(Chans)
         /\ namesChans' \in [Names -> 0..MaxChannels]
         /\ made' \in Chans /\ closedChans' \subseteq Chans
         /\ ChannelsConsistent' /\ NamesNotEmpty'
         /\ \A k \in DOMAIN chans' : chans'[k] \in 1..made' /\ chans'[k] \notin closedChans'
         /\ \A j, k \in DOMAIN chans' : chans'[j] = chans'[k] => j = k
         /\ closedChans' \subseteq 1..made'
<1> DEFINE L == Len(names)
<1>1. PICK k \in DOMAIN names :
        /\ names[k] = n
        /\ names' = RemoveAt(names, k)
        /\ chans' = RemoveAt(chans, k)
        /\ closedChans' = closedChans \cup {chans[k]}
  BY DEF RemoveChannel, ClosedChannel
<1>2. namesChans' = [namesChans EXCEPT ![n] = 0] /\ made' = made
  BY DEF RemoveChannel, ForgetName
<1>3. /\ names \in Seq(Names) /\ chans \in Seq(Chans) /\ namesChans \in [Names -> 0..MaxChannels]
      /\ n \in Names /\ n # DefaultChannel /\ made \in Chans /\ MaxChannels \in Nat
      /\ closedChans \subseteq Chans
  BY NamesAssumption, BoundsAssumption DEF TypeOK, Names
<1>4. Len(chans) = L /\ L \in Nat /\ DOMAIN names = 1..L /\ DOMAIN chans = 1..L /\ k \in 1..L
  <2>1. Len(chans) = L
    BY DEF ChannelsConsistent
  <2> QED BY <1>1, <1>3, <2>1
<1>5. /\ \A j \in 1..L : namesChans[names[j]] = chans[j] /\ chans[j] \notin closedChans
                         /\ chans[j] \in 1..made /\ names[j] \in Names
      /\ names[1] = DefaultChannel
      /\ \A m \in Names : namesChans[m] # 0 => \E j \in 1..L : names[j] = m
      /\ \A i, j \in 1..L : names[i] = names[j] => i = j
      /\ \A i, j \in 1..L : chans[i] = chans[j] => i = j
      /\ closedChans \subseteq 1..made
  <2>1. \A x \in 1..L : names[x] \in Names
    BY <1>3, <1>4
  <2>2. \A x \in 1..L : namesChans[names[x]] = chans[x] /\ chans[x] \notin closedChans
    BY <1>4 DEF ChannelsConsistent
  <2>3. /\ names[1] = DefaultChannel
        /\ \A m \in Names : namesChans[m] # 0 => \E x \in 1..L : names[x] = m
        /\ \A j, x \in 1..L : names[j] = names[x] => j = x
    BY <1>4 DEF ChannelsConsistent, IsInjective
  <2>4. /\ \A x \in 1..L : chans[x] \in 1..made
        /\ \A j, x \in 1..L : chans[j] = chans[x] => j = x
        /\ closedChans \subseteq 1..made
    BY <1>4 DEF ChannelsLive
  <2> QED BY <2>1, <2>2, <2>3, <2>4
<1>6. k # 1 /\ L >= 2
  BY <1>1, <1>3, <1>4, <1>5
<1> DEFINE f(j) == IF j < k THEN j ELSE j + 1
<1>7. /\ names' \in Seq(Names) /\ Len(names') = L - 1 /\ DOMAIN names' = 1..(L - 1)
      /\ \A j \in 1..(L - 1) : names'[j] = names[f(j)]
  <2>1. /\ RemoveAt(names, k) \in Seq(Names) /\ Len(RemoveAt(names, k)) = L - 1
        /\ \A j \in 1..(L - 1) : RemoveAt(names, k)[j] = IF j < k THEN names[j] ELSE names[j + 1]
    BY <1>3, <1>4, RemoveAtIndices
  <2>2. DOMAIN RemoveAt(names, k) = 1..(L - 1)
    BY <2>1, <1>4
  <2> QED BY <1>1, <2>1, <2>2
<1>8. /\ chans' \in Seq(Chans) /\ Len(chans') = L - 1 /\ DOMAIN chans' = 1..(L - 1)
      /\ \A j \in 1..(L - 1) : chans'[j] = chans[f(j)]
  <2>1. /\ RemoveAt(chans, k) \in Seq(Chans) /\ Len(RemoveAt(chans, k)) = L - 1
        /\ \A j \in 1..(L - 1) : RemoveAt(chans, k)[j] = IF j < k THEN chans[j] ELSE chans[j + 1]
    <3>1. k \in 1..Len(chans) /\ Len(chans) = L
      BY <1>4
    <3> QED BY <1>3, <3>1, RemoveAtIndices
  <2>2. DOMAIN RemoveAt(chans, k) = 1..(L - 1)
    BY <2>1, <1>4
  <2> QED BY <1>1, <2>1, <2>2
<1> HIDE DEF L
<1>9. /\ \A j \in 1..(L - 1) : f(j) \in 1..L /\ f(j) # k
      /\ \A i, j \in 1..(L - 1) : f(i) = f(j) => i = j
      /\ \A i \in 1..L : i # k => \E j \in 1..(L - 1) : f(j) = i
      /\ f(1) = 1 /\ 1 \in 1..(L - 1)
  <2>1. ASSUME NEW i \in 1..L, i # k PROVE \E j \in 1..(L - 1) : f(j) = i
    <3>1. CASE i < k
      <4>1. i \in 1..(L - 1) /\ f(i) = i
        BY <1>4, <3>1
      <4> QED BY <4>1
    <3>2. CASE i > k
      <4>1. i - 1 \in 1..(L - 1) /\ f(i - 1) = i
        BY <1>4, <3>2
      <4> QED BY <4>1
    <3> QED BY <1>4, <2>1, <3>1, <3>2
  <2>2. \A j \in 1..(L - 1) : f(j) \in 1..L /\ f(j) # k
    BY <1>4
  <2>3. \A i, j \in 1..(L - 1) : f(i) = f(j) => i = j
    BY <1>4
  <2>4. f(1) = 1 /\ 1 \in 1..(L - 1)
    BY <1>4, <1>6
  <2> QED BY <2>1, <2>2, <2>3, <2>4
<1> HIDE DEF f
<1>10. namesChans' \in [Names -> 0..MaxChannels] /\ namesChans'[n] = 0
       /\ \A m \in Names : m # n => namesChans'[m] = namesChans[m]
  BY <1>2, <1>3
<1>11. \A j \in 1..(L - 1) : names'[j] # n /\ chans'[j] # chans[k] /\ chans'[j] \in 1..made
                             /\ names'[j] \in Names /\ namesChans[names'[j]] = chans'[j]
                             /\ chans'[j] \notin closedChans
  BY <1>1, <1>4, <1>5, <1>7, <1>8, <1>9
<1>12. \A j \in 1..(L - 1) : namesChans'[names'[j]] = chans'[j] /\ chans'[j] \notin closedChans'
  BY <1>1, <1>10, <1>11
<1>13. \A m \in Names : namesChans'[m] # 0 => \E j \in 1..(L - 1) : names'[j] = m
  <2> SUFFICES ASSUME NEW m \in Names, namesChans'[m] # 0
               PROVE  \E j \in 1..(L - 1) : names'[j] = m
    OBVIOUS
  <2>1. m # n /\ namesChans[m] # 0
    BY <1>10
  <2>2. PICK i \in 1..L : names[i] = m
    BY <1>5, <2>1
  <2>3. PICK j \in 1..(L - 1) : f(j) = i
    BY <1>1, <1>9, <2>1, <2>2
  <2> QED BY <1>7, <2>2, <2>3
<1>14. \A i, j \in 1..(L - 1) : names'[i] = names'[j] => i = j
  BY <1>5, <1>7, <1>9
<1>15. \A i, j \in 1..(L - 1) : chans'[i] = chans'[j] => i = j
  BY <1>5, <1>8, <1>9
<1>16. names'[1] = DefaultChannel
  BY <1>5, <1>7, <1>9
<1>17. ChannelsConsistent' /\ NamesNotEmpty'
  <2>1. Len(names') >= 1
    BY <1>4, <1>6, <1>7
  <2> QED BY <1>7, <1>8, <1>12, <1>13, <1>14, <1>16, <2>1 DEF ChannelsConsistent, NamesNotEmpty, IsInjective
<1>18. chans[k] \in Chans /\ chans[k] \in 1..made
  BY <1>3, <1>4, <1>5
<1>19. closedChans' \subseteq Chans /\ closedChans' \subseteq 1..made' /\ made' \in Chans
  BY <1>1, <1>2, <1>3, <1>5, <1>18
<1>20. \A j \in DOMAIN chans' : chans'[j] \in 1..made' /\ chans'[j] \notin closedChans'
  BY <1>2, <1>8, <1>11, <1>12
<1>21. \A i, j \in DOMAIN chans' : chans'[i] = chans'[j] => i = j
  BY <1>8, <1>15
<1> QED BY <1>7, <1>8, <1>10, <1>17, <1>19, <1>20, <1>21

\* The steps that the forwarding goroutines take part in.
LEMMA ForwarderKinds ==
  ASSUME [Next]_vars
  PROVE  \/ UNCHANGED fwdVars /\ UNCHANGED made
         \/ \E n \in Topics : AddChannel(n) /\ UNCHANGED <<senderVars, consumerVars>>
         \/ \E g \in Senders : Handoff(g)
         \/ \E i \in Chans : ForwardNil(i) \/ ForwarderStops(i) \/ Collect(i)
<1>1. ASSUME NEW t \in Topics, CreateTopic(t)
      PROVE  (UNCHANGED fwdVars /\ UNCHANGED made) \/ (AddChannel(t) /\ UNCHANGED <<senderVars, consumerVars>>)
  BY <1>1 DEF CreateTopic, clbVars
<1>2. ASSUME NEW n \in Removable, AddChannelAgain(n)
      PROVE  n \in Topics /\ AddChannel(n) /\ UNCHANGED <<senderVars, consumerVars>>
  BY <1>2, NamesAssumption DEF AddChannelAgain
<1>3. ASSUME NEW g \in Senders, SenderStep(g)
      PROVE  Handoff(g) \/ (UNCHANGED fwdVars /\ UNCHANGED made)
  BY <1>3 DEF SenderStep, StartBroadcast, StartBroadcastUsingPrivateKey, StartProcessing, GetChannel,
              SendPanics, EndProcessing, clbVars
<1>4. ASSUME \/ UnJoinAllTopics \/ DurationBetweenSends \/ CollectNothing \/ Publish
             \/ ConsumerStops \/ CancelHandler \/ CloseLoadBalancer \/ UNCHANGED vars
             \/ \E n \in Removable : RemoveChannel(n)
      PROVE  UNCHANGED fwdVars /\ UNCHANGED made
  BY <1>4 DEF UnJoinAllTopics, DurationBetweenSends, CollectNothing, Publish, ConsumerStops,
              CancelHandler, CloseLoadBalancer, RemoveChannel, vars, fwdVars, clbVars
<1> QED BY <1>1, <1>2, <1>3, <1>4 DEF Next, ConsumerStep

\* Forwarding goroutines keep their types, and run only for channels that were made.
LEMMA ForwardersTyped ==
  ASSUME TypeOK, ChannelsLive, [Next]_vars
  PROVE  /\ fwd' \in [Chans -> {"none", "select", "push", "done"}]
         /\ obj' \in [Chans -> Senders \cup {NoMessage}]
         /\ \A i \in Chans : i > made' => fwd'[i] = "none"
<1>t. /\ fwd \in [Chans -> {"none", "select", "push", "done"}]
      /\ obj \in [Chans -> Senders \cup {NoMessage}]
      /\ \A i \in Chans : i > made => fwd[i] = "none"
      /\ made \in Chans /\ MaxChannels \in Nat
  BY BoundsAssumption DEF TypeOK, ChannelsLive
<1>1. CASE UNCHANGED fwdVars /\ UNCHANGED made
  BY <1>t, <1>1 DEF fwdVars
<1>2. ASSUME NEW n \in Topics, AddChannel(n), UNCHANGED <<senderVars, consumerVars>>
      PROVE  /\ fwd' \in [Chans -> {"none", "select", "push", "done"}]
             /\ obj' \in [Chans -> Senders \cup {NoMessage}]
             /\ \A i \in Chans : i > made' => fwd'[i] = "none"
  <2>1. CASE namesChans[n] # 0
    BY <1>t, <1>2, <2>1 DEF AddChannel, clbVars, fwdVars
  <2>2. CASE namesChans[n] = 0
    <3>1. made' = made + 1 /\ fwd' = [fwd EXCEPT ![made + 1] = "select"] /\ obj' = obj
      BY <1>2, <2>2 DEF AddChannel
    <3>2. \A i \in Chans : i > made + 1 => i > made /\ i # made + 1
      BY <1>t DEF Chans
    <3> QED BY <1>t, <3>1, <3>2
  <2> QED BY <2>1, <2>2
<1>3. ASSUME NEW i \in Chans, NEW pc \in {"select", "push", "done"},
             fwd[i] # "none", fwd' = [fwd EXCEPT ![i] = pc], made' = made,
             NEW m \in Senders \cup {NoMessage}, obj' = obj \/ obj' = [obj EXCEPT ![i] = m]
      PROVE  /\ fwd' \in [Chans -> {"none", "select", "push", "done"}]
             /\ obj' \in [Chans -> Senders \cup {NoMessage}]
             /\ \A j \in Chans : j > made' => fwd'[j] = "none"
  BY <1>t, <1>3
<1>4. ASSUME NEW g \in Senders, Handoff(g)
      PROVE  /\ fwd' \in [Chans -> {"none", "select", "push", "done"}]
             /\ obj' \in [Chans -> Senders \cup {NoMessage}]
             /\ \A j \in Chans : j > made' => fwd'[j] = "none"
  <2> DEFINE i == target[g]
  <2>1. fwd[i] = "select" /\ fwd' = [fwd EXCEPT ![i] = "push"] /\ obj' = [obj EXCEPT ![i] = g]
        /\ made' = made
    BY <1>4 DEF Handoff, clbVars
  <2>2. CASE i \in Chans
    BY <1>3, <2>1, <2>2
  <2>3. CASE i \notin Chans
    BY <1>t, <2>1, <2>3
  <2> QED BY <2>2, <2>3
<1>5. ASSUME NEW i \in Chans, ForwardNil(i) \/ ForwarderStops(i) \/ Collect(i)
      PROVE  /\ fwd' \in [Chans -> {"none", "select", "push", "done"}]
             /\ obj' \in [Chans -> Senders \cup {NoMessage}]
             /\ \A j \in Chans : j > made' => fwd'[j] = "none"
  <2>1. /\ fwd[i] # "none" /\ made' = made
        /\ \E pc \in {"select", "push", "done"} : fwd' = [fwd EXCEPT ![i] = pc]
        /\ obj' = obj \/ obj' = [obj EXCEPT ![i] = NoMessage]
    BY <1>5 DEF ForwardNil, ForwarderStops, Collect, AfterPush, clbVars
  <2> QED BY <1>3, <2>1
<1> QED BY <1>1, <1>2, <1>4, <1>5, ForwarderKinds

\* What a step does to the Broadcast goroutines.
LEMMA SenderKinds ==
  ASSUME [Next]_vars
  PROVE  \/ \E g \in Senders :
              /\ sender[g] = "idle" /\ UNCHANGED <<throttled, target>>
              /\ \E pc \in {"start", "refused"} : sender' = [sender EXCEPT ![g] = pc]
         \/ \E g \in Senders : StartProcessing(g)
         \/ \E g \in Senders :
              /\ sender[g] = "get" /\ UNCHANGED throttled
              /\ target' = [target EXCEPT ![g] = GetChannelOrDefault(ChannelOf[g])]
              /\ sender' = [sender EXCEPT ![g] = "send"]
         \/ \E g \in Senders : Handoff(g)
         \/ \E g \in Senders :
              /\ sender[g] = "send" /\ UNCHANGED <<throttled, target>>
              /\ sender' = [sender EXCEPT ![g] = "panic"]
         \/ \E g \in Senders : EndProcessing(g)
         \/ UNCHANGED senderVars
<1>1. ASSUME NEW g \in Senders, StartBroadcast(g) \/ StartBroadcastUsingPrivateKey(g)
      PROVE  /\ sender[g] = "idle" /\ UNCHANGED <<throttled, target>>
             /\ \E pc \in {"start", "refused"} : sender' = [sender EXCEPT ![g] = pc]
  BY <1>1 DEF StartBroadcast, StartBroadcastUsingPrivateKey
<1>2. ASSUME NEW g \in Senders, GetChannel(g)
      PROVE  /\ sender[g] = "get" /\ UNCHANGED throttled
             /\ target' = [target EXCEPT ![g] = GetChannelOrDefault(ChannelOf[g])]
             /\ sender' = [sender EXCEPT ![g] = "send"]
  BY <1>2 DEF GetChannel
<1>3. ASSUME NEW g \in Senders, SendPanics(g)
      PROVE  /\ sender[g] = "send" /\ UNCHANGED <<throttled, target>>
             /\ sender' = [sender EXCEPT ![g] = "panic"]
  BY <1>3 DEF SendPanics
<1>4. ASSUME \/ UnJoinAllTopics \/ DurationBetweenSends \/ CollectNothing \/ Publish
             \/ ConsumerStops \/ CancelHandler \/ CloseLoadBalancer \/ UNCHANGED vars
             \/ \E n \in Removable : RemoveChannel(n) \/ AddChannelAgain(n)
             \/ \E t \in Topics : CreateTopic(t)
             \/ \E i \in Chans : ForwardNil(i) \/ ForwarderStops(i) \/ Collect(i)
      PROVE  UNCHANGED senderVars
  BY <1>4 DEF UnJoinAllTopics, DurationBetweenSends, CollectNothing, Publish, ConsumerStops,
              CancelHandler, CloseLoadBalancer, RemoveChannel, AddChannelAgain, CreateTopic,
              ForwardNil, ForwarderStops, Collect, vars, senderVars
<1>5. ASSUME NEW g \in Senders, SenderStep(g)
      PROVE  \/ /\ sender[g] = "idle" /\ UNCHANGED <<throttled, target>>
                /\ \E pc \in {"start", "refused"} : sender' = [sender EXCEPT ![g] = pc]
             \/ StartProcessing(g)
             \/ /\ sender[g] = "get" /\ UNCHANGED throttled
                /\ target' = [target EXCEPT ![g] = GetChannelOrDefault(ChannelOf[g])]
                /\ sender' = [sender EXCEPT ![g] = "send"]
             \/ Handoff(g)
             \/ /\ sender[g] = "send" /\ UNCHANGED <<throttled, target>>
                /\ sender' = [sender EXCEPT ![g] = "panic"]
             \/ EndProcessing(g)
  <2>1. CASE StartBroadcast(g) \/ StartBroadcastUsingPrivateKey(g)
    BY <1>1, <2>1
  <2>2. CASE GetChannel(g)
    BY <1>2, <2>2
  <2>3. CASE SendPanics(g)
    BY <1>3, <2>3
  <2> QED BY <1>5, <2>1, <2>2, <2>3 DEF SenderStep
<1>6. CASE \E g \in Senders : SenderStep(g)
  BY <1>5, <1>6
<1>7. CASE ~\E g \in Senders : SenderStep(g)
  BY <1>4, <1>7 DEF Next, ConsumerStep
<1> QED BY <1>6, <1>7

\* The throttler's counter follows the goroutines that hold a slot.
LEMMA ThrottlerStep ==
  ASSUME TypeOK, ChannelsConsistent, NamesNotEmpty, ThrottlerAccounting, [Next]_vars
  PROVE  /\ ThrottlerAccounting' /\ throttled' \in 0..Cardinality(Senders)
         /\ sender' \in [Senders -> {"idle", "start", "get", "send", "end", "sent", "refused", "panic"}]
         /\ target' \in [Senders -> 0..MaxChannels]
<1> DEFINE Pcs == {"idle", "start", "get", "send", "end", "sent", "refused", "panic"}
           Slot == {"get", "send", "end", "panic"}
<1>t. sender \in [Senders -> Pcs] /\ target \in [Senders -> 0..MaxChannels] /\ MaxChannels \in Nat
  BY BoundsAssumption DEF TypeOK
<1>b. /\ Busy \subseteq Senders /\ Busy' \subseteq Senders /\ IsFiniteSet(Busy) /\ IsFiniteSet(Busy')
      /\ Cardinality(Busy) \in Nat /\ Cardinality(Busy') \in Nat /\ Cardinality(Senders) \in Nat
      /\ Cardinality(Busy') <= Cardinality(Senders)
      /\ throttled = Cardinality(Busy)
      /\ \A g \in Senders : g \in Busy <=> sender[g] \in Slot
  <2>1. Busy \in SUBSET Senders /\ Busy' \in SUBSET Senders
    BY DEF Busy
  <2>2. throttled = Cardinality(Busy)
    BY DEF ThrottlerAccounting, Busy
  <2>3. \A g \in Senders : g \in Busy <=> sender[g] \in Slot
    BY DEF Busy
  <2> QED BY <2>1, <2>2, <2>3, SendersAssumption, FS_Subset, FS_CardinalityType
<1>s. SUFFICES /\ throttled' = Cardinality(Busy') /\ sender' \in [Senders -> Pcs]
               /\ target' \in [Senders -> 0..MaxChannels]
  BY <1>b DEF ThrottlerAccounting, Busy
<1>1. ASSUME NEW g \in Senders, NEW pc \in Pcs, sender' = [sender EXCEPT ![g] = pc],
             sender[g] \in Slot <=> pc \in Slot
      PROVE  Busy' = Busy /\ sender' \in [Senders -> Pcs]
  BY <1>t, <1>1 DEF Busy
<1>2. ASSUME NEW g \in Senders, sender[g] = "idle", UNCHANGED <<throttled, target>>,
             NEW pc \in {"start", "refused"}, sender' = [sender EXCEPT ![g] = pc]
      PROVE  throttled' = Cardinality(Busy') /\ sender' \in [Senders -> Pcs]
             /\ target' \in [Senders -> 0..MaxChannels]
  BY <1>t, <1>b, <1>1, <1>2
<1>3. ASSUME NEW g \in Senders, StartProcessing(g)
      PROVE  throttled' = Cardinality(Busy') /\ sender' \in [Senders -> Pcs]
             /\ target' \in [Senders -> 0..MaxChannels]
  <2>1. sender[g] = "start" /\ throttled' = throttled + 1 /\ sender' = [sender EXCEPT ![g] = "get"]
        /\ target' = target
    BY <1>3 DEF StartProcessing
  <2>2. Busy' = Busy \cup {g} /\ g \notin Busy
    BY <1>t, <2>1 DEF Busy
  <2>3. Cardinality(Busy') = Cardinality(Busy) + 1
    BY <1>b, <2>2, FS_AddElement
  <2> QED BY <1>t, <1>b, <2>1, <2>3
<1>4. ASSUME NEW g \in Senders, sender[g] = "get", UNCHANGED throttled,
             target' = [target EXCEPT ![g] = GetChannelOrDefault(ChannelOf[g])],
             sender' = [sender EXCEPT ![g] = "send"]
      PROVE  throttled' = Cardinality(Busy') /\ sender' \in [Senders -> Pcs]
             /\ target' \in [Senders -> 0..MaxChannels]
  <2>1. Busy' = Busy /\ sender' \in [Senders -> Pcs]
    BY <1>1, <1>4
  <2>2. chans[1] \in 0..MaxChannels
    <3>1. chans \in Seq(Chans) /\ Len(chans) >= 1 /\ Len(chans) \in Nat
      BY DEF TypeOK, ChannelsConsistent, NamesNotEmpty
    <3>2. chans[1] \in Chans
      BY <3>1
    <3> QED BY <1>t, <3>2 DEF Chans
  <2>3. namesChans[ChannelOf[g]] \in 0..MaxChannels
    BY SendersAssumption DEF TypeOK, Names
  <2>4. GetChannelOrDefault(ChannelOf[g]) \in 0..MaxChannels
    BY <2>2, <2>3 DEF GetChannelOrDefault
  <2> QED BY <1>t, <1>b, <1>4, <2>1, <2>4
<1>5. ASSUME NEW g \in Senders, Handoff(g)
      PROVE  throttled' = Cardinality(Busy') /\ sender' \in [Senders -> Pcs]
             /\ target' \in [Senders -> 0..MaxChannels]
  <2>1. sender[g] = "send" /\ throttled' = throttled /\ sender' = [sender EXCEPT ![g] = "end"]
        /\ target' = [target EXCEPT ![g] = 0]
    BY <1>5 DEF Handoff
  <2>2. Busy' = Busy /\ sender' \in [Senders -> Pcs]
    BY <1>1, <2>1
  <2> QED BY <1>t, <1>b, <2>1, <2>2
<1>6. ASSUME NEW g \in Senders, sender[g] = "send", UNCHANGED <<throttled, target>>,
             sender' = [sender EXCEPT ![g] = "panic"]
      PROVE  throttled' = Cardinality(Busy') /\ sender' \in [Senders -> Pcs]
             /\ target' \in [Senders -> 0..MaxChannels]
  BY <1>t, <1>b, <1>1, <1>6
<1>7. ASSUME NEW g \in Senders, EndProcessing(g)
      PROVE  throttled' = Cardinality(Busy') /\ sender' \in [Senders -> Pcs]
             /\ target' \in [Senders -> 0..MaxChannels]
  <2>1. sender[g] = "end" /\ throttled' = throttled - 1 /\ sender' = [sender EXCEPT ![g] = "sent"]
        /\ target' = target
    BY <1>7 DEF EndProcessing, SlotReturned
  <2>2. Busy' = Busy \ {g} /\ g \in Busy
    BY <1>t, <2>1 DEF Busy
  <2>3. Cardinality(Busy') = Cardinality(Busy) - 1
    BY <1>b, <2>2, FS_RemoveElement
  <2> QED BY <1>t, <1>b, <2>1, <2>3
<1>8. CASE UNCHANGED senderVars
  <2>1. UNCHANGED <<sender, target, throttled>>
    BY <1>8 DEF senderVars
  <2>2. Busy' = Busy
    BY <2>1 DEF Busy
  <2> QED BY <1>t, <1>b, <2>1, <2>2
<1> HIDE DEF Pcs
<1> QED BY <1>2, <1>3, <1>4, <1>5, <1>6, <1>7, <1>8, SenderKinds

\* A broadcast's channel is looked up among the channels made.
LEMMA TargetsStep ==
  ASSUME TypeOK, ChannelsConsistent, NamesNotEmpty, TargetsMade, [Next]_vars
  PROVE  TargetsMade'
<1>t. /\ DOMAIN sender = Senders /\ DOMAIN target = Senders /\ MaxChannels \in Nat
  BY BoundsAssumption DEF TypeOK
<1>1. ASSUME NEW g \in Senders, NEW pc, sender' = [sender EXCEPT ![g] = pc], pc # "send",
             UNCHANGED target \/ target' = [target EXCEPT ![g] = 0]
      PROVE  TargetsMade'
  BY <1>t, <1>1 DEF TargetsMade
<1>2. ASSUME NEW g \in Senders,
             target' = [target EXCEPT ![g] = GetChannelOrDefault(ChannelOf[g])],
             sender' = [sender EXCEPT ![g] = "send"]
      PROVE  TargetsMade'
  <2>1. chans[1] \in Chans
    <3>1. chans \in Seq(Chans) /\ Len(chans) >= 1 /\ Len(chans) \in Nat
      BY DEF TypeOK, ChannelsConsistent, NamesNotEmpty
    <3> QED BY <3>1
  <2>2. namesChans[ChannelOf[g]] \in 0..MaxChannels
    BY SendersAssumption DEF TypeOK, Names
  <2>3. GetChannelOrDefault(ChannelOf[g]) \in Chans
    BY <1>t, <2>1, <2>2 DEF GetChannelOrDefault, Chans
  <2> QED BY <1>t, <1>2, <2>3 DEF TargetsMade
<1>3. CASE UNCHANGED senderVars
  BY <1>3 DEF senderVars, TargetsMade
<1>4. ASSUME NEW g \in Senders, StartProcessing(g) PROVE TargetsMade'
  BY <1>1, <1>4 DEF StartProcessing
<1>5. ASSUME NEW g \in Senders, Handoff(g) PROVE TargetsMade'
  BY <1>1, <1>5 DEF Handoff
<1>6. ASSUME NEW g \in Senders, EndProcessing(g) PROVE TargetsMade'
  BY <1>1, <1>6 DEF EndProcessing
<1>7. ASSUME NEW g \in Senders, UNCHANGED <<throttled, target>>,
             NEW pc \in {"start", "refused"}, sender' = [sender EXCEPT ![g] = pc]
      PROVE  TargetsMade'
  BY <1>1, <1>7
<1>8. ASSUME NEW g \in Senders, UNCHANGED <<throttled, target>>,
             sender' = [sender EXCEPT ![g] = "panic"]
      PROVE  TargetsMade'
  BY <1>1, <1>8
<1> QED BY <1>2, <1>3, <1>4, <1>5, <1>6, <1>7, <1>8, SenderKinds

\* A step that moves no message keeps each in its place.
LEMMA PlacesKept ==
  ASSUME EachInOnePlace,
         \A g \in Senders :
            /\ \A i \in Chans : Holds(i, g)' <=> Holds(i, g)
            /\ AtConsumer(g)' <=> AtConsumer(g)
            /\ Settled(g)' <=> Settled(g)
            /\ sender'[g] \in {"end", "sent"} <=> sender[g] \in {"end", "sent"}
  PROVE  EachInOnePlace'
<1> SUFFICES ASSUME NEW g \in Senders PROVE OnePlace(g)'
  BY DEF EachInOnePlace
<1>1. OnePlace(g)
  BY DEF EachInOnePlace
<1>2. /\ \A i, j \in Chans : Holds(i, g)' /\ Holds(j, g)' => i = j
      /\ \A i \in Chans : Holds(i, g)' => ~AtConsumer(g)' /\ ~Settled(g)'
      /\ AtConsumer(g)' => ~Settled(g)'
      /\ ((\E i \in Chans : Holds(i, g)') \/ AtConsumer(g)' \/ Settled(g)')
           <=> sender'[g] \in {"end", "sent"}
  BY <1>1, Zenon DEF OnePlace
<1> QED BY <1>2, Zenon DEF OnePlace

\* What a step does to the consumer and to the outcomes.
LEMMA ConsumerKinds ==
  ASSUME [Next]_vars
  PROVE  \/ \E i \in Chans : Collect(i)
         \/ Publish
         \/ consumer # "publish" /\ consumer' \in {"collect", "timer", "done"}
            /\ UNCHANGED <<collected, outcome, fwd, obj, sender>>
         \/ UNCHANGED consumerVars
<1>1. ASSUME DurationBetweenSends \/ CollectNothing \/ ConsumerStops
      PROVE  consumer # "publish" /\ consumer' \in {"collect", "timer", "done"}
             /\ UNCHANGED <<collected, outcome, fwd, obj, sender>>
  BY <1>1 DEF DurationBetweenSends, CollectNothing, ConsumerStops, fwdVars, senderVars
<1>2. ASSUME \/ UnJoinAllTopics \/ CancelHandler \/ CloseLoadBalancer \/ UNCHANGED vars
             \/ \E n \in Removable : RemoveChannel(n) \/ AddChannelAgain(n)
             \/ \E t \in Topics : CreateTopic(t)
             \/ \E i \in Chans : ForwardNil(i) \/ ForwarderStops(i)
             \/ \E g \in Senders : SenderStep(g)
      PROVE  UNCHANGED consumerVars
  BY <1>2 DEF UnJoinAllTopics, CancelHandler, CloseLoadBalancer, RemoveChannel, AddChannelAgain,
              CreateTopic, ForwardNil, ForwarderStops, SenderStep, StartBroadcast,
              StartBroadcastUsingPrivateKey, StartProcessing, GetChannel, Handoff, SendPanics,
              EndProcessing, vars, consumerVars
<1> QED BY <1>1, <1>2 DEF Next, ConsumerStep

\* The consumer keeps its types and publishes only messages of senders.
LEMMA ConsumerStepTyped ==
  ASSUME TypeOK, ConsumerHolds, [Next]_vars
  PROVE  /\ consumer' \in {"timer", "collect", "publish", "done"}
         /\ collected' \in Senders \cup {NoMessage}
         /\ outcome' \in [Senders -> {"none", "published", "dropped"}]
         /\ ConsumerHolds'
<1>t. /\ consumer \in {"timer", "collect", "publish", "done"}
      /\ collected \in Senders \cup {NoMessage}
      /\ outcome \in [Senders -> {"none", "published", "dropped"}]
      /\ obj \in [Chans -> Senders \cup {NoMessage}]
  BY DEF TypeOK
<1>1. ASSUME NEW i \in Chans, Collect(i)
      PROVE  /\ consumer' \in {"timer", "collect", "publish", "done"}
             /\ collected' \in Senders \cup {NoMessage}
             /\ outcome' \in [Senders -> {"none", "published", "dropped"}]
             /\ ConsumerHolds'
  BY <1>t, <1>1 DEF Collect, ConsumerHolds
<1>2. CASE Publish
  <2>1. consumer' = "timer" /\ collected' = NoMessage
        /\ \E r \in {"published", "dropped"} : outcome' = [outcome EXCEPT ![collected] = r]
    BY <1>2 DEF Publish
  <2> QED BY <1>t, <2>1 DEF ConsumerHolds
<1>3. CASE consumer # "publish" /\ consumer' \in {"collect", "timer", "done"}
           /\ UNCHANGED <<collected, outcome, fwd, obj, sender>>
  BY <1>t, <1>3 DEF ConsumerHolds
<1>4. CASE UNCHANGED consumerVars
  BY <1>t, <1>4 DEF consumerVars, ConsumerHolds
<1> QED BY <1>1, <1>2, <1>3, <1>4, ConsumerKinds

\* No message is lost or doubled.
LEMMA PlacesStep ==
  ASSUME TypeOK, ChannelsLive, TargetsMade, ConsumerHolds, EachInOnePlace, [Next]_vars
  PROVE  EachInOnePlace'
<1>t. /\ fwd \in [Chans -> {"none", "select", "push", "done"}] /\ DOMAIN obj = Chans
      /\ DOMAIN sender = Senders /\ DOMAIN outcome = Senders
      /\ made \in Chans /\ MaxChannels \in Nat /\ NoMessage \notin Senders
  BY BoundsAssumption, SendersAssumption DEF TypeOK
<1>o. \A g \in Senders : OnePlace(g)
  BY DEF EachInOnePlace
<1>1. ASSUME NEW g \in Senders, Handoff(g) PROVE EachInOnePlace'
  <2> DEFINE i == target[g]
  <2>1. /\ sender[g] = "send" /\ fwd[i] = "select" /\ i \in Chans
        /\ fwd' = [fwd EXCEPT ![i] = "push"] /\ obj' = [obj EXCEPT ![i] = g]
        /\ sender' = [sender EXCEPT ![g] = "end"]
        /\ UNCHANGED <<consumer, collected, outcome>>
    BY <1>1 DEF Handoff, consumerVars, TargetsMade
  <2> HIDE DEF i
  <2>2. /\ \A j \in Chans : ~Holds(j, g)
        /\ ~AtConsumer(g) /\ ~Settled(g)
    BY <1>o, <2>1 DEF OnePlace
  <2>3. \A h \in Senders, j \in Chans : Holds(j, h)' <=> Holds(j, h) \/ (j = i /\ h = g)
    BY <1>t, <2>1 DEF Holds
  <2>4. \A h \in Senders : (AtConsumer(h)' <=> AtConsumer(h)) /\ (Settled(h)' <=> Settled(h))
    BY <2>1 DEF AtConsumer, Settled
  <2>5. sender'[g] = "end" /\ \A h \in Senders : h # g => sender'[h] = sender[h]
    BY <1>t, <2>1
  <2>6. OnePlace(g)'
    BY <2>1, <2>2, <2>3, <2>4, <2>5 DEF OnePlace
  <2>7. ASSUME NEW h \in Senders, h # g PROVE OnePlace(h)'
    BY <1>o, <2>3, <2>4, <2>5, <2>7 DEF OnePlace
  <2> QED BY <2>6, <2>7 DEF EachInOnePlace
<1>2. ASSUME NEW i \in Chans, Collect(i) PROVE EachInOnePlace'
  <2>1. /\ consumer = "collect" /\ fwd[i] = "push" /\ fwd' = [fwd EXCEPT ![i] = "select"]
        /\ obj' = [obj EXCEPT ![i] = NoMessage] /\ collected' = obj[i]
        /\ consumer' = IF obj[i] = NoMessage THEN "timer" ELSE "publish"
        /\ UNCHANGED <<sender, outcome>>
    BY <1>2 DEF Collect, AfterPush, senderVars
  <2>2. \A h \in Senders, j \in Chans : Holds(j, h)' <=> Holds(j, h) /\ j # i
    BY <1>t, <2>1 DEF Holds
  <2>3. \A h \in Senders : ~AtConsumer(h) /\ (AtConsumer(h)' <=> Holds(i, h))
    BY <1>t, <2>1 DEF AtConsumer, Holds
  <2>4. \A h \in Senders : Settled(h)' <=> Settled(h)
    BY <2>1 DEF Settled
  <2>5. ASSUME NEW h \in Senders PROVE OnePlace(h)'
    BY <1>o, <2>1, <2>2, <2>3, <2>4 DEF OnePlace
  <2> QED BY <2>5 DEF EachInOnePlace
<1>3. CASE Publish
  <2>1. /\ consumer = "publish" /\ consumer' = "timer"
        /\ \E r \in {"published", "dropped"} : outcome' = [outcome EXCEPT ![collected] = r]
        /\ UNCHANGED <<fwd, obj, sender>>
    BY <1>3 DEF Publish, fwdVars, senderVars
  <2>2. \A h \in Senders, j \in Chans : Holds(j, h)' <=> Holds(j, h)
    BY <2>1 DEF Holds
  <2>3. \A h \in Senders : ~AtConsumer(h)' /\ (Settled(h)' <=> Settled(h) \/ AtConsumer(h))
    BY <1>t, <2>1 DEF AtConsumer, Settled
  <2>4. ASSUME NEW h \in Senders PROVE OnePlace(h)'
    BY <1>o, <2>1, <2>2, <2>3 DEF OnePlace
  <2> QED BY <2>4 DEF EachInOnePlace
<1>4. ASSUME NEW i \in Chans, ForwardNil(i) \/ ForwarderStops(i) PROVE EachInOnePlace'
  <2>1. /\ fwd[i] = "select" /\ UNCHANGED <<sender, consumer, collected, outcome>>
        /\ \/ fwd' = [fwd EXCEPT ![i] = "push"] /\ obj' = [obj EXCEPT ![i] = NoMessage]
           \/ fwd' = [fwd EXCEPT ![i] = "done"] /\ obj' = obj
    BY <1>4 DEF ForwardNil, ForwarderStops, senderVars, consumerVars
  <2>2. \A h \in Senders, j \in Chans : Holds(j, h)' <=> Holds(j, h)
    BY <1>t, <2>1 DEF Holds
  <2> QED BY <2>1, <2>2, PlacesKept DEF AtConsumer, Settled
<1>5. ASSUME NEW n \in Topics, AddChannel(n), UNCHANGED <<senderVars, consumerVars>>
      PROVE  EachInOnePlace'
  <2>1. UNCHANGED <<sender, consumer, collected, outcome>>
    BY <1>5 DEF senderVars, consumerVars
  <2>2. \A h \in Senders, j \in Chans : Holds(j, h)' <=> Holds(j, h)
    <3>1. CASE namesChans[n] # 0
      BY <1>5, <3>1 DEF AddChannel, fwdVars, Holds
    <3>2. CASE namesChans[n] = 0
      <4>1. /\ made < MaxChannels /\ fwd' = [fwd EXCEPT ![made + 1] = "select"]
            /\ obj' = obj
        BY <1>5, <3>2 DEF AddChannel
      <4>2. made + 1 \in Chans /\ made + 1 > made
        BY <1>t, <4>1 DEF Chans
      <4>3. fwd[made + 1] = "none"
        BY <4>2 DEF ChannelsLive
      <4> QED BY <1>t, <4>1, <4>2, <4>3 DEF Holds
    <3> QED BY <3>1, <3>2
  <2> QED BY <2>1, <2>2, PlacesKept DEF AtConsumer, Settled
<1>6. ASSUME UNCHANGED fwdVars, ~Publish PROVE EachInOnePlace'
  <2>1. \A h \in Senders, j \in Chans : Holds(j, h)' <=> Holds(j, h)
    BY <1>6 DEF fwdVars, Holds
  <2>2. \A h \in Senders : sender'[h] \in {"end", "sent"} <=> sender[h] \in {"end", "sent"}
    <3>1. ASSUME NEW g \in Senders, NEW pc, sender' = [sender EXCEPT ![g] = pc],
                 pc \in {"end", "sent"} <=> sender[g] \in {"end", "sent"}
          PROVE  \A h \in Senders : sender'[h] \in {"end", "sent"} <=> sender[h] \in {"end", "sent"}
      BY <1>t, <3>1
    <3>2. ASSUME NEW g \in Senders, Handoff(g) PROVE FALSE
      <4>1. target[g] \in Chans /\ fwd[target[g]] = "select" /\ fwd' = [fwd EXCEPT ![target[g]] = "push"]
        BY <3>2 DEF Handoff, TargetsMade
      <4> QED BY <1>6, <1>t, <4>1 DEF fwdVars
    <3>3. ASSUME NEW g \in Senders, StartProcessing(g)
          PROVE  sender[g] = "start" /\ sender' = [sender EXCEPT ![g] = "get"]
      BY <3>3 DEF StartProcessing
    <3>4. ASSUME NEW g \in Senders, EndProcessing(g)
          PROVE  sender[g] = "end" /\ sender' = [sender EXCEPT ![g] = "sent"]
      BY <3>4 DEF EndProcessing
    <3>5. UNCHANGED senderVars => sender' = sender
      BY DEF senderVars
    <3>6. \/ UNCHANGED sender
          \/ \E g \in Senders : \E pc : sender' = [sender EXCEPT ![g] = pc]
               /\ (pc \in {"end", "sent"} <=> sender[g] \in {"end", "sent"})
      BY <3>2, <3>3, <3>4, <3>5, SenderKinds
    <3> QED BY <3>1, <3>6
  <2>3. \A h \in Senders : (AtConsumer(h)' <=> AtConsumer(h)) /\ (Settled(h)' <=> Settled(h))
    <3>1. ASSUME NEW i \in Chans, Collect(i) PROVE FALSE
      BY <1>6, <1>t, <3>1 DEF Collect, AfterPush, fwdVars
    <3> QED BY <1>6, <3>1, ConsumerKinds DEF AtConsumer, Settled, consumerVars
  <2> QED BY <2>1, <2>2, <2>3, PlacesKept
<1> QED BY <1>1, <1>2, <1>3, <1>4, <1>5, <1>6, ForwarderKinds

\* The remaining variables keep their types.
LEMMA FlagsTyped ==
  ASSUME TypeOK, [Next]_vars
  PROVE  clbDone' \in BOOLEAN /\ handlerDone' \in BOOLEAN /\ topics' \subseteq Topics
<1>t. clbDone \in BOOLEAN /\ handlerDone \in BOOLEAN /\ topics \subseteq Topics
  BY DEF TypeOK
<1>1. /\ UNCHANGED clbDone \/ clbDone' = TRUE
      /\ UNCHANGED handlerDone \/ handlerDone' = TRUE
      /\ UNCHANGED topics \/ topics' = {} \/ \E t \in Topics : topics' = topics \cup {t}
  BY DEF Next, ConsumerStep, UnJoinAllTopics, CancelHandler, CloseLoadBalancer, RemoveChannel,
         AddChannelAgain, CreateTopic, ForwardNil, ForwarderStops, SenderStep, StartBroadcast,
         StartBroadcastUsingPrivateKey, StartProcessing, GetChannel, Handoff, SendPanics,
         EndProcessing, DurationBetweenSends, CollectNothing, Publish, ConsumerStops, Collect, vars
<1> QED BY <1>t, <1>1

\* The inductive invariant holds of every reachable state.
THEOREM InvariantHolds == Spec => []IInv
<1>1. IInv /\ [Next]_vars => IInv'
  <2> SUFFICES ASSUME IInv, [Next]_vars PROVE IInv'
    OBVIOUS
  <2>i. /\ TypeOK /\ ChannelsConsistent /\ ChannelsLive /\ NamesNotEmpty /\ TargetsMade
        /\ EachInOnePlace /\ ConsumerHolds /\ ThrottlerAccounting
    BY DEF IInv
  <2>1. /\ names' \in Seq(Names) /\ chans' \in Seq(Chans)
        /\ namesChans' \in [Names -> 0..MaxChannels]
        /\ made' \in Chans /\ closedChans' \subseteq Chans
        /\ ChannelsConsistent' /\ NamesNotEmpty'
        /\ \A k \in DOMAIN chans' : chans'[k] \in 1..made' /\ chans'[k] \notin closedChans'
        /\ \A j, k \in DOMAIN chans' : chans'[j] = chans'[k] => j = k
        /\ closedChans' \subseteq 1..made'
    <3>1. CASE UNCHANGED clbVars
      <4>1. UNCHANGED <<names, chans, namesChans, made, closedChans>>
        BY <3>1 DEF clbVars
      <4> QED BY <2>i, <4>1 DEF TypeOK, ChannelsConsistent, NamesNotEmpty, ChannelsLive
    <3> QED BY <2>i, <3>1, ChannelKinds, AddKeepsConsistent, RemoveKeepsConsistent
  <2>2. /\ fwd' \in [Chans -> {"none", "select", "push", "done"}]
        /\ obj' \in [Chans -> Senders \cup {NoMessage}]
        /\ \A i \in Chans : i > made' => fwd'[i] = "none"
    BY <2>i, ForwardersTyped
  <2>3. ChannelsLive'
    BY <2>1, <2>2 DEF ChannelsLive
  <2>4. /\ ThrottlerAccounting' /\ throttled' \in 0..Cardinality(Senders)
        /\ sender' \in [Senders -> {"idle", "start", "get", "send", "end", "sent", "refused", "panic"}]
        /\ target' \in [Senders -> 0..MaxChannels]
    BY <2>i, ThrottlerStep
  <2>5. /\ consumer' \in {"timer", "collect", "publish", "done"}
        /\ collected' \in Senders \cup {NoMessage}
        /\ outcome' \in [Senders -> {"none", "published", "dropped"}]
        /\ ConsumerHolds'
    BY <2>i, ConsumerStepTyped
  <2>6. TypeOK'
    BY <2>1, <2>2, <2>4, <2>5, <2>i, FlagsTyped DEF TypeOK
  <2> QED BY <2>i, <2>1, <2>3, <2>4, <2>5, <2>6, TargetsStep, PlacesStep DEF IInv
<1> QED BY <1>1, InitIInv, PTL DEF Spec

\* The load balancer's slices and its map name the same open channels, the default one
\* first, through every interleaving of CreateTopic, AddChannel and RemoveChannel.
THEOREM ChannelsAgree == Spec => []ChannelsConsistent
<1>1. IInv => ChannelsConsistent
  BY DEF IInv
<1> QED BY <1>1, InvariantHolds, PTL

\* A broadcast handed over is in exactly one place until it is published or dropped.
THEOREM BroadcastsConserved == Spec => []MessageConservation
<1>1. IInv => MessageConservation
  <2> SUFFICES ASSUME IInv, NEW g \in Senders
               PROVE  Cardinality(Places(g)) = IF sender[g] \in {"end", "sent"} THEN 1 ELSE 0
    BY DEF MessageConservation
  <2>o. OnePlace(g)
    BY DEF IInv, EachInOnePlace
  <2>1. \A p : p \in Places(g) <=>
          \/ \E i \in Chans : Holds(i, g) /\ p = <<"forwarder", i>>
          \/ AtConsumer(g) /\ p = <<"consumer", 0>>
          \/ Settled(g) /\ p = <<"settled", 0>>
    BY DEF Places, Holds, AtConsumer, Settled
  <2>2. CASE sender[g] \notin {"end", "sent"}
    <3>1. Places(g) = {}
      BY <2>o, <2>1, <2>2 DEF OnePlace
    <3> QED BY <2>2, <3>1, FS_EmptySet
  <2>3. CASE sender[g] \in {"end", "sent"}
    <3>1. \E p : Places(g) = {p}
      <4>1. CASE AtConsumer(g)
        <5>1. Places(g) = {<<"consumer", 0>>}
          BY <2>o, <2>1, <4>1 DEF OnePlace
        <5> QED BY <5>1
      <4>2. CASE Settled(g)
        <5>1. Places(g) = {<<"settled", 0>>}
          BY <2>o, <2>1, <4>2 DEF OnePlace
        <5> QED BY <5>1
      <4>3. ASSUME NEW i \in Chans, Holds(i, g) PROVE \E p : Places(g) = {p}
        <5>1. Places(g) = {<<"forwarder", i>>}
          BY <2>o, <2>1, <4>3 DEF OnePlace
        <5> QED BY <5>1
      <4> QED BY <2>o, <2>3, <4>1, <4>2, <4>3 DEF OnePlace
    <3> QED BY <2>3, <3>1, FS_Singleton
  <2> QED BY <2>2, <2>3
<1> QED BY <1>1, InvariantHolds, PTL

\* The throttler counts the goroutines between StartProcessing and EndProcessing.
THEOREM ThrottlerCounts == Spec => []ThrottlerAccounting
<1>1. IInv => ThrottlerAccounting
  BY DEF IInv
<1> QED BY <1>1, InvariantHolds, PTL

(***************************************************************************)
(* Which broadcasts can panic                                              *)
(***************************************************************************)

\* A goroutine that asked for a channel no one removes sends on one that no one removes:
\* that channel, or the default one when it did not exist yet.
SafeTarget(g) ==
    sender[g] = "send" =>
        \E n \in Names \ Removable : namesChans[n] # 0 /\ namesChans[n] = target[g]

Unharmed ==
    \A g \in Senders : ChannelOf[g] \notin Removable => sender[g] # "panic" /\ SafeTarget(g)

\* AddChannel leaves a channel that exists as it is, RemoveChannel those of other names.
LEMMA UnremovableStay ==
  ASSUME TypeOK, [Next]_vars, NEW n \in Names \ Removable, namesChans[n] # 0
  PROVE  namesChans'[n] = namesChans[n]
<1>t. DOMAIN namesChans = Names
  BY DEF TypeOK
<1>1. ASSUME NEW m \in Topics, AddChannel(m) PROVE namesChans'[n] = namesChans[n]
  <2>1. CASE namesChans[m] # 0
    BY <1>1, <2>1 DEF AddChannel, clbVars
  <2>2. CASE namesChans[m] = 0
    <3>1. m # n /\ namesChans' = [namesChans EXCEPT ![m] = made + 1]
      BY <1>1, <2>2 DEF AddChannel
    <3> QED BY <1>t, <3>1
  <2> QED BY <2>1, <2>2
<1>2. ASSUME NEW m \in Removable, RemoveChannel(m) PROVE namesChans'[n] = namesChans[n]
  <2>1. m # n /\ namesChans' = [namesChans EXCEPT ![m] = 0]
    BY <1>2 DEF RemoveChannel, ForgetName
  <2> QED BY <1>t, <2>1
<1>3. CASE UNCHANGED clbVars
  BY <1>3 DEF clbVars
<1> QED BY <1>1, <1>2, <1>3, ChannelKinds

\* What GetChannelOrDefault answers for a channel no one removes.
LEMMA LookupIsSafe ==
  ASSUME TypeOK, ChannelsConsistent, ChannelsLive, NamesNotEmpty, NEW c \in Names \ Removable
  PROVE  \E n \in Names \ Removable :
            namesChans[n] # 0 /\ namesChans[n] = GetChannelOrDefault(c)
<1>1. CASE namesChans[c] # 0
  BY <1>1 DEF GetChannelOrDefault
<1>2. CASE namesChans[c] = 0
  <2>1. DefaultChannel \in Names \ Removable
    BY NamesAssumption DEF Names
  <2>2. /\ names \in Seq(Names) /\ Len(names) \in Nat /\ Len(names) >= 1
        /\ chans \in Seq(Chans) /\ Len(chans) = Len(names)
    BY DEF TypeOK, ChannelsConsistent, NamesNotEmpty
  <2>3. 1 \in DOMAIN names /\ 1 \in DOMAIN chans /\ chans[1] \in Chans
    BY <2>2
  <2>4. namesChans[DefaultChannel] = chans[1]
    BY <2>3 DEF ChannelsConsistent
  <2>5. chans[1] # 0
    BY <2>3, BoundsAssumption DEF Chans
  <2> QED BY <1>2, <2>1, <2>4, <2>5 DEF GetChannelOrDefault
<1> QED BY <1>1, <1>2

\* A goroutine with a safe target stays safe while it waits, and its send does not panic.
LEMMA UnharmedStep ==
  ASSUME IInv, Unharmed, [Next]_vars
  PROVE  Unharmed'
<1> SUFFICES ASSUME NEW g \in Senders, ChannelOf[g] \notin Removable
             PROVE  sender'[g] # "panic" /\ SafeTarget(g)'
  BY DEF Unharmed
<1>i. TypeOK /\ ChannelsConsistent /\ ChannelsLive /\ NamesNotEmpty
  BY DEF IInv
<1>t. DOMAIN sender = Senders /\ DOMAIN target = Senders /\ ChannelOf[g] \in Names \ Removable
  BY <1>i, SendersAssumption DEF TypeOK, Names
<1>u. sender[g] # "panic" /\ SafeTarget(g)
  BY DEF Unharmed
<1>1. CASE sender'[g] = sender[g] /\ target'[g] = target[g]
  <2>1. CASE sender[g] = "send"
    <3>1. PICK n \in Names \ Removable : namesChans[n] # 0 /\ namesChans[n] = target[g]
      BY <1>u, <2>1 DEF SafeTarget
    <3>2. namesChans'[n] = namesChans[n]
      BY <1>i, <3>1, UnremovableStay
    <3> QED BY <1>1, <2>1, <3>1, <3>2 DEF SafeTarget
  <2>2. CASE sender[g] # "send"
    BY <1>1, <1>u, <2>2 DEF SafeTarget
  <2> QED BY <2>1, <2>2
<1>2. CASE sender'[g] \in {"start", "refused", "get", "end", "sent"}
  BY <1>2 DEF SafeTarget
<1>3. CASE GetChannel(g)
  <2>1. PICK n \in Names \ Removable :
          namesChans[n] # 0 /\ namesChans[n] = GetChannelOrDefault(ChannelOf[g])
    BY <1>i, <1>t, LookupIsSafe
  <2>2. namesChans'[n] = namesChans[n]
    BY <1>i, <2>1, UnremovableStay
  <2>3. sender'[g] = "send" /\ target'[g] = GetChannelOrDefault(ChannelOf[g])
    BY <1>3, <1>t DEF GetChannel
  <2> QED BY <2>1, <2>2, <2>3 DEF SafeTarget
<1>4. CASE SendPanics(g)
  <2>1. PICK n \in Names \ Removable : namesChans[n] # 0 /\ namesChans[n] = target[g]
    BY <1>4, <1>u DEF SafeTarget, SendPanics
  <2>2. PICK k \in DOMAIN names : names[k] = n
    BY <1>i, <2>1 DEF ChannelsConsistent
  <2>3. target[g] \notin closedChans
    BY <1>i, <2>1, <2>2 DEF ChannelsConsistent
  <2> QED BY <1>4, <2>3 DEF SendPanics
<1>5. ASSUME NEW h \in Senders, SenderStep(h), h # g
      PROVE  sender'[g] = sender[g] /\ target'[g] = target[g]
  BY <1>5, <1>t DEF SenderStep, StartBroadcast, StartBroadcastUsingPrivateKey, StartProcessing,
                    GetChannel, Handoff, SendPanics, EndProcessing
<1>6. ASSUME SenderStep(g)
      PROVE  \/ sender'[g] \in {"start", "refused", "get", "end", "sent"}
             \/ GetChannel(g) \/ SendPanics(g)
  BY <1>6, <1>t DEF SenderStep, StartBroadcast, StartBroadcastUsingPrivateKey, StartProcessing,
                    Handoff, EndProcessing
<1>7. CASE ~\E h \in Senders : SenderStep(h)
  <2>1. UNCHANGED senderVars
    BY <1>7 DEF Next, ConsumerStep, UnJoinAllTopics, DurationBetweenSends, CollectNothing, Publish,
                ConsumerStops, CancelHandler, CloseLoadBalancer, RemoveChannel, AddChannelAgain,
                CreateTopic, ForwardNil, ForwarderStops, Collect, vars, senderVars
  <2> QED BY <1>1, <2>1 DEF senderVars
<1> QED BY <1>1, <1>2, <1>3, <1>4, <1>5, <1>6, <1>7

\* Only a broadcast on a channel that the application removes can panic: GetChannelOrDefault
\* hands the channel out from under its lock, and the send that comes after finds it open
\* unless RemoveChannel closed just that name.
THEOREM OnlyRemovedChannelsPanic ==
  Spec => []PanicsOnlyIfRemoved
<1>1. Init => Unharmed
  BY DEF Init, Unharmed, SafeTarget
<1>2. IInv /\ Unharmed /\ [Next]_vars => Unharmed'
  BY UnharmedStep
<1>3. Unharmed => PanicsOnlyIfRemoved
  BY DEF Unharmed, PanicsOnlyIfRemoved
<1> QED BY <1>1, <1>2, <1>3, InvariantHolds, PTL DEF Spec
============================================================================
