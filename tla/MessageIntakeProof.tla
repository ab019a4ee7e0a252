------------------------ MODULE MessageIntakeProof ------------------------
(***************************************************************************)
(* For every set of topics, processors and messages and every duration of  *)
(* pubsub's cache: registrations and validators agree, a message that came *)
(* late is processed once, and equivalent messages are relayed once unless *)
(* their validations overlapped or the cache was filled in between.        *)
(***************************************************************************)
EXTENDS MessageIntake, FiniteSetTheorems, SequenceTheorems, TLAPS

\* The calls that hold mutTopics, and where they are.
Registrars ==
    {Idle} \cup [pc : {"cache", "add"}, topic : Topics, id : Identifiers]
    \cup [pc : {"drop"}, topic : Topics] \cup [pc : {"all"}, left : SUBSET Topics]

\* The variables whose types TypeOK leaves open.
ShapeOK == registrar \in Registrars /\ DOMAIN equivalent = Topics /\ relayed \subseteq Messages

\* The topic that the call under way has half registered or half dropped.
Busy(t) == registrar.pc \in {"cache", "add", "drop"} /\ registrar.topic = t

TopicAgrees(t) ==
    /\ IsRegistered(t) => validator[t] = processors[t]
    /\ ~IsRegistered(t) => validator[t] = Nil
    /\ validator[t] # Nil => procs[validator[t]] # {}

\* A busy topic has its validator, with topicProcessors that may be empty.
TopicsAgree ==
    \A t \in Topics :
        IF Busy(t) THEN IsRegistered(t) /\ validator[t] = processors[t] ELSE TopicAgrees(t)

\* No two topics share their topicProcessors, and new ones are new.
NoSharing ==
    /\ \A t \in Topics : IsRegistered(t) => processors[t] <= made
    /\ \A s, t \in Topics : IsRegistered(s) /\ processors[s] = processors[t] => s = t

RegistryInv == TopicsAgree /\ NoSharing

\* The window of timestamps has passed the message.
TooOldNow(m) == Unix(now) - CacheSeconds > TimestampOf[m]

\* A message that came late is too old whenever pubsub has forgotten it, so that it is not
\* given to processors again.
LateOnce(m) ==
    /\ handed[m] <= 1
    /\ seenAt[m] # Never => Unix(seenAt[m]) > TimestampOf[m]
    /\ seenAt[m] = Never => TooOldNow(m)
    /\ validation[m] = "check" /\ handed[m] = 1 => TooOldNow(m)
    /\ validation[m] = "process" => handed[m] = 0

LateInv == \A m \in Messages : late[m] => LateOnce(m)

Ids == {EquivalentOf[m] : m \in Messages}

Distinct(c) == \A i, j \in 1..Len(c) : c[i] = c[j] => i = j

\* An LRU cache has an identifier once and is never longer than its size.
IsCache(c) == c \in Seq(Ids) /\ Len(c) <= equivalentMessagesCacheSize /\ Distinct(c)

\* The identifier x is in the cache, and all the more recent ones are in the set U.
Behind(c, x, U) ==
    \E i \in 1..Len(c) : c[i] = x /\ \A j \in 1..Len(c) : j > i => c[j] \in U

CachesOK ==
    /\ \A t \in Topics : IsCache(equivalent[t])
    /\ DOMAIN used = Messages /\ \A m \in Messages : IsFiniteSet(used[m])

\* A relayed message has its identifier in the cache, less recent than only those used
\* since, unless as many as the cache holds were; one about to be stored overlapped with,
\* or outlived, every other of its identifier that is about to be stored or was relayed.
Remembered(m) ==
    Behind(equivalent[TopicOf[m]], EquivalentOf[m], used[m]) \/ FullOfOthers(m)

StoredWhenRelayed == \A m \in relayed : Remembered(m)

Excused == overlapped \cup outlived

PutsExcused ==
    \A m, k \in Messages :
        /\ m # k /\ SameId(m, k) /\ validation[m] = "put"
        /\ validation[k] = "put" \/ k \in relayed
        => {m, k} \in Excused

RelayInv == StoredWhenRelayed /\ PutsExcused /\ EquivalentsRelayedOnce

IInv == TypeOK /\ ShapeOK /\ CachesOK /\ RegistryInv /\ LateInv /\ RelayInv

\* Whole seconds: time n is in second n \div Second.
LEMMA UnixBounds ==
  ASSUME NEW n \in Nat
  PROVE  Unix(n) \in Nat /\ Second * Unix(n) <= n /\ n < Second * Unix(n) + Second
<1>1. Second \in Nat /\ Second > 0
  BY TimeAssumption
<1> DEFINE q == n \div Second
<1>2. q \in Nat /\ n = Second * q + (n % Second) /\ n % Second \in 0..(Second - 1)
  BY <1>1
<1> QED BY <1>1, <1>2 DEF Unix

\* Seconds do not run backwards.
LEMMA UnixGrows ==
  ASSUME NEW s \in Nat, NEW n \in Nat, s <= n
  PROVE  Unix(s) <= Unix(n)
<1>1. Second \in Nat /\ Second > 0
  BY TimeAssumption
<1>2. /\ Unix(s) \in Nat /\ Second * Unix(s) <= s
      /\ Unix(n) \in Nat /\ n < Second * Unix(n) + Second
  BY UnixBounds
<1>3. SUFFICES ASSUME Unix(n) + 1 <= Unix(s) PROVE FALSE
  BY <1>2
<1>4. Second * (Unix(n) + 1) <= Second * Unix(s)
  BY <1>1, <1>2, <1>3
<1>5. Second * (Unix(n) + 1) = Second * Unix(n) + Second
  BY <1>1, <1>2
<1> QED BY <1>1, <1>2, <1>4, <1>5

\* What pubsub forgets came at least CacheSeconds whole seconds ago.
LEMMA ForgottenIsOld ==
  ASSUME NEW s \in Nat, NEW n \in Nat, n > s + CacheSeconds * Second
  PROVE  Unix(n) >= Unix(s) + CacheSeconds
<1>1. Second \in Nat /\ Second > 0 /\ CacheSeconds \in Nat
  BY TimeAssumption
<1>2. /\ Unix(s) \in Nat /\ Second * Unix(s) <= s
      /\ Unix(n) \in Nat /\ n < Second * Unix(n) + Second
  BY UnixBounds
<1>3. SUFFICES ASSUME Unix(n) + 1 <= Unix(s) + CacheSeconds PROVE FALSE
  BY <1>1, <1>2
<1>4. Second * (Unix(n) + 1) <= Second * (Unix(s) + CacheSeconds)
  BY <1>1, <1>2, <1>3
<1>5. /\ Second * (Unix(n) + 1) = Second * Unix(n) + Second
      /\ Second * (Unix(s) + CacheSeconds) = Second * Unix(s) + CacheSeconds * Second
  BY <1>1, <1>2
<1> QED BY <1>1, <1>2, <1>4, <1>5

\* What the places of a registration call say of it.
LEMMA RegistrarCases ==
  ASSUME NEW r \in Registrars
  PROVE  /\ r.pc = "idle" <=> r = Idle
         /\ r.pc \in {"cache", "add"} =>
              r \in [pc : {"cache", "add"}, topic : Topics, id : Identifiers]
         /\ r.pc = "drop" => r.topic \in Topics
         /\ r.pc = "all" => r \in [pc : {"all"}, left : SUBSET Topics]
         /\ r.pc \in {"idle", "cache", "add", "drop", "all"}
  BY DEF Registrars, Idle

\* A topic with topicProcessors.
LEMMA RegisteredIsMade ==
  ASSUME TypeOK, NEW t \in Topics
  PROVE  /\ IsRegistered(t) <=> processors[t] \in Made
         /\ Nil \notin Made /\ Absent \notin Made /\ Nil # Absent
  BY TimeAssumption DEF TypeOK, IsRegistered, Made, Nil, Absent

\* A call that registers, adds, removes or drops keeps registrations and validators agreed.
LEMMA RegistryStep ==
  ASSUME TypeOK, ShapeOK, RegistryInv, RegistrarStep
  PROVE  /\ RegistryInv' /\ registrar' \in Registrars
         /\ processors' \in [Topics -> Made \cup {Nil, Absent}]
         /\ procs' \in [Made -> SUBSET Identifiers] /\ made' \in 0..MaxMade
         /\ validator' \in [Topics -> Made \cup {Nil}]
<1> DEFINE Goal == /\ RegistryInv' /\ registrar' \in Registrars
                   /\ processors' \in [Topics -> Made \cup {Nil, Absent}]
                   /\ procs' \in [Made -> SUBSET Identifiers] /\ made' \in 0..MaxMade
                   /\ validator' \in [Topics -> Made \cup {Nil}]
<1>t. /\ processors \in [Topics -> Made \cup {Nil, Absent}]
      /\ procs \in [Made -> SUBSET Identifiers] /\ made \in 0..MaxMade
      /\ validator \in [Topics -> Made \cup {Nil}] /\ MaxMade \in Nat
      /\ registrar \in Registrars
  BY TimeAssumption DEF TypeOK, ShapeOK
<1>n. Nil \notin Made /\ Absent \notin Made /\ Nil # Absent
  BY TimeAssumption DEF Made, Nil, Absent
<1>r. \A t \in Topics : IsRegistered(t) <=> processors[t] \in Made
  BY RegisteredIsMade
<1>i. TopicsAgree /\ NoSharing
  BY DEF RegistryInv
<1>d. Idle \in Registrars /\ Idle.pc = "idle"
  BY DEF Registrars, Idle
<1>1. ASSUME NEW t \in Topics, NEW i \in Identifiers, RegisterTopic(t, i) PROVE Goal
  <2>1. /\ registrar = Idle /\ ~IsRegistered(t) /\ made < MaxMade /\ made' = made + 1
        /\ processors' = [processors EXCEPT ![t] = made'] /\ procs' = procs
    BY <1>1 DEF RegisterTopic
  <2>2. \A s \in Topics : ~Busy(s) /\ TopicAgrees(s)
    BY <1>i, <1>d, <2>1 DEF TopicsAgree, Busy
  <2>3. validator[t] = Nil
    BY <2>1, <2>2 DEF TopicAgrees
  <2>4. /\ validator' = [validator EXCEPT ![t] = made']
        /\ registrar' = [pc |-> "cache", topic |-> t, id |-> i]
    BY <1>1, <2>3 DEF RegisterTopic
  <2>5. made' \in Made /\ made' \in 0..MaxMade
    BY <1>t, <2>1 DEF Made
  <2>6. registrar' \in Registrars /\ registrar'.pc = "cache" /\ registrar'.topic = t
    BY <2>4 DEF Registrars
  <2>7. /\ processors' \in [Topics -> Made \cup {Nil, Absent}] /\ validator' \in [Topics -> Made \cup {Nil}]
        /\ processors'[t] = made' /\ validator'[t] = made'
        /\ \A s \in Topics : s # t => processors'[s] = processors[s] /\ validator'[s] = validator[s]
    BY <1>t, <2>1, <2>4, <2>5
  <2>8. \A s \in Topics : IsRegistered(s)' <=> processors'[s] \in Made
    BY <1>n, <2>7 DEF IsRegistered
  <2>9. TopicsAgree'
    <3> SUFFICES ASSUME NEW s \in Topics
                 PROVE  IF Busy(s)' THEN IsRegistered(s)' /\ validator'[s] = processors'[s]
                        ELSE TopicAgrees(s)'
      BY DEF TopicsAgree
    <3>1. CASE s = t
      BY <2>5, <2>6, <2>7, <2>8, <3>1 DEF Busy
    <3>2. CASE s # t
      <4>1. ~Busy(s)'
        BY <2>6, <3>2 DEF Busy
      <4>2. TopicAgrees(s)'
        BY <2>1, <2>2, <2>7, <3>2 DEF TopicAgrees, IsRegistered
      <4> QED BY <4>1, <4>2
    <3> QED BY <3>1, <3>2
  <2>10. NoSharing'
    <3>1. \A s \in Topics : IsRegistered(s) => processors[s] <= made /\ processors[s] \in Made
      BY <1>i, <1>r DEF NoSharing
    <3>2. \A s \in Topics : s # t /\ IsRegistered(s)' =>
            IsRegistered(s) /\ processors'[s] <= made /\ processors'[s] # made'
      BY <1>t, <2>1, <2>7, <3>1 DEF IsRegistered, Made
    <3>3. \A s \in Topics : IsRegistered(s)' => processors'[s] <= made'
      BY <1>t, <2>1, <2>5, <2>7, <2>8, <3>2 DEF Made
    <3>4. ASSUME NEW s \in Topics, NEW u \in Topics, IsRegistered(s)', processors'[s] = processors'[u]
          PROVE  s = u
      <4>1. IsRegistered(u)'
        BY <2>8, <3>4
      <4>2. CASE s # t /\ u # t
        BY <1>i, <2>7, <3>2, <3>4, <4>2 DEF NoSharing
      <4>3. CASE s = t \/ u = t
        BY <2>7, <3>2, <3>4, <4>1, <4>3
      <4> QED BY <4>2, <4>3
    <3> QED BY <3>3, <3>4 DEF NoSharing
  <2> QED BY <1>t, <2>1, <2>5, <2>6, <2>7, <2>9, <2>10 DEF RegistryInv
<1>2. CASE MakeCache
  <2>1. /\ registrar.pc = "cache" /\ registrar' = [registrar EXCEPT !.pc = "add"]
        /\ UNCHANGED <<processors, procs, made, validator>>
    BY <1>2 DEF MakeCache
  <2>2. registrar \in [pc : {"cache", "add"}, topic : Topics, id : Identifiers]
    BY <1>t, <2>1, RegistrarCases
  <2>3. registrar' \in Registrars /\ registrar'.pc = "add" /\ registrar'.topic = registrar.topic
    BY <2>1, <2>2 DEF Registrars
  <2>4. \A s \in Topics : Busy(s)' <=> Busy(s)
    BY <2>1, <2>3 DEF Busy
  <2>5. \A s \in Topics : /\ IsRegistered(s)' <=> IsRegistered(s)
                          /\ TopicAgrees(s)' <=> TopicAgrees(s)
    BY <2>1 DEF IsRegistered, TopicAgrees
  <2>6. TopicsAgree'
    BY <1>i, <2>1, <2>4, <2>5 DEF TopicsAgree
  <2>7. NoSharing'
    BY <1>i, <2>1, <2>5 DEF NoSharing
  <2> QED BY <1>t, <2>1, <2>3, <2>6, <2>7 DEF RegistryInv
<1>3. ASSUME NEW t \in Topics, NEW i \in Identifiers, AddTopicProcessor(t, i), IsRegistered(t),
             \A s \in Topics : s # t => ~Busy(s)
      PROVE  Goal
  <2> DEFINE o == processors[t]
  <2>1. /\ procs' = [procs EXCEPT ![o] = @ \cup {i}] /\ registrar' = Idle
        /\ UNCHANGED <<processors, made, validator>>
    BY <1>3 DEF AddTopicProcessor
  <2>2. o \in Made /\ validator[t] = o
    BY <1>3, <1>i, <1>r DEF TopicsAgree, TopicAgrees
  <2>3. /\ procs' \in [Made -> SUBSET Identifiers]
        /\ \A p \in Made : procs[p] \subseteq procs'[p]
        /\ procs'[o] # {}
    BY <1>t, <2>1, <2>2
  <2>4. ASSUME NEW s \in Topics PROVE ~Busy(s)' /\ TopicAgrees(s)'
    <3>1. ~Busy(s)'
      BY <1>d, <2>1 DEF Busy
    <3>2. CASE s = t
      <4>1. IsRegistered(s)' /\ validator'[s] = o /\ processors'[s] = o
        BY <1>3, <2>1, <2>2, <3>2 DEF IsRegistered
      <4> QED BY <2>3, <3>1, <4>1 DEF TopicAgrees
    <3>3. CASE s # t
      <4>1. TopicAgrees(s)
        BY <1>3, <1>i, <3>3 DEF TopicsAgree
      <4>2. validator[s] # Nil => validator[s] \in Made
        BY <1>t
      <4> QED BY <2>1, <2>3, <3>1, <4>1, <4>2 DEF TopicAgrees, IsRegistered
    <3> QED BY <3>1, <3>2, <3>3
  <2>5. TopicsAgree'
    BY <2>4 DEF TopicsAgree
  <2>6. NoSharing'
    BY <1>i, <2>1 DEF NoSharing, IsRegistered
  <2> QED BY <1>d, <1>t, <2>1, <2>3, <2>5, <2>6 DEF RegistryInv
<1>4. CASE AddFirstProcessor
  <2>1. registrar.pc = "add" /\ AddTopicProcessor(registrar.topic, registrar.id)
    BY <1>4 DEF AddFirstProcessor
  <2>2. registrar.topic \in Topics /\ registrar.id \in Identifiers
    BY <1>t, <2>1, RegistrarCases
  <2>3. IsRegistered(registrar.topic) /\ \A s \in Topics : s # registrar.topic => ~Busy(s)
    BY <1>i, <2>1, <2>2 DEF TopicsAgree, Busy
  <2> QED BY <1>3, <2>1, <2>2, <2>3
<1>5. ASSUME NEW t \in Topics, NEW i \in Identifiers, AddProcessor(t, i) PROVE Goal
  BY <1>3, <1>5, <1>d DEF AddProcessor, Busy
<1>6. ASSUME NEW t \in Topics, NEW i \in Identifiers, RemoveTopicProcessor(t, i) PROVE Goal
  <2> DEFINE o == processors[t]
  <2>1. /\ registrar = Idle /\ IsRegistered(t) /\ procs' = [procs EXCEPT ![o] = @ \ {i}]
        /\ registrar' = IF procs'[o] = {} THEN [pc |-> "drop", topic |-> t] ELSE Idle
        /\ UNCHANGED <<processors, made, validator>>
    BY <1>6 DEF RemoveTopicProcessor, DropsTopic
  <2>2. \A s \in Topics : ~Busy(s) /\ TopicAgrees(s)
    BY <1>i, <1>d, <2>1 DEF TopicsAgree, Busy
  <2>3. o \in Made /\ validator[t] = o
    BY <1>r, <2>1, <2>2 DEF TopicAgrees
  <2>4. /\ procs' \in [Made -> SUBSET Identifiers]
        /\ \A p \in Made : p # o => procs'[p] = procs[p]
    BY <1>t, <2>1, <2>3
  <2>5. ASSUME NEW s \in Topics, s # t PROVE TopicAgrees(s)'
    <3>1. validator[s] # Nil => validator[s] \in Made /\ validator[s] # o
      <4> SUFFICES ASSUME validator[s] # Nil PROVE validator[s] \in Made /\ validator[s] # o
        OBVIOUS
      <4>1. IsRegistered(s) /\ validator[s] = processors[s]
        BY <2>2 DEF TopicAgrees
      <4> QED BY <1>i, <1>t, <2>5, <4>1 DEF NoSharing
    <3> QED BY <2>1, <2>2, <2>4, <3>1 DEF TopicAgrees, IsRegistered
  <2>6. CASE procs'[o] = {}
    <3>1. registrar' = [pc |-> "drop", topic |-> t]
      BY <2>1, <2>6
    <3>2. registrar' \in Registrars /\ registrar'.pc = "drop" /\ registrar'.topic = t
      BY <3>1 DEF Registrars
    <3>3. \A s \in Topics : Busy(s)' <=> s = t
      BY <3>2 DEF Busy
    <3>4. TopicsAgree'
      BY <2>1, <2>3, <2>5, <3>3 DEF TopicsAgree, IsRegistered
    <3>5. NoSharing'
      BY <1>i, <2>1 DEF NoSharing, IsRegistered
    <3> QED BY <1>t, <2>1, <2>4, <3>2, <3>4, <3>5 DEF RegistryInv
  <2>7. CASE procs'[o] # {}
    <3>1. registrar' = Idle
      BY <2>1, <2>7
    <3>2. \A s \in Topics : ~Busy(s)'
      BY <1>d, <3>1 DEF Busy
    <3>3. TopicAgrees(t)'
      BY <1>n, <2>1, <2>3, <2>7 DEF TopicAgrees, IsRegistered
    <3>4. TopicsAgree'
      BY <2>5, <3>2, <3>3 DEF TopicsAgree
    <3>5. NoSharing'
      BY <1>i, <2>1 DEF NoSharing, IsRegistered
    <3> QED BY <1>d, <1>t, <2>1, <2>4, <3>1, <3>4, <3>5 DEF RegistryInv
  <2> QED BY <2>6, <2>7
<1>7. ASSUME NEW t \in Topics, NEW v \in {Nil, Absent},
             processors' = [processors EXCEPT ![t] = v], validator' = [validator EXCEPT ![t] = Nil],
             UNCHANGED <<procs, made>>, registrar' \in Registrars,
             \A s \in Topics : (s # t => ~Busy(s)) /\ ~Busy(s)'
      PROVE  Goal
  <2>1. /\ processors' \in [Topics -> Made \cup {Nil, Absent}] /\ validator' \in [Topics -> Made \cup {Nil}]
        /\ processors'[t] = v /\ validator'[t] = Nil
        /\ \A s \in Topics : s # t => processors'[s] = processors[s] /\ validator'[s] = validator[s]
    BY <1>t, <1>7
  <2>2. ~IsRegistered(t)' /\ \A s \in Topics : s # t => (IsRegistered(s)' <=> IsRegistered(s))
    BY <2>1 DEF IsRegistered
  <2>3. \A s \in Topics : TopicAgrees(s)'
    <3>1. TopicAgrees(t)'
      BY <2>1, <2>2 DEF TopicAgrees
    <3>2. ASSUME NEW s \in Topics, s # t PROVE TopicAgrees(s)'
      <4>1. TopicAgrees(s)
        BY <1>7, <1>i, <3>2 DEF TopicsAgree
      <4> QED BY <1>7, <2>1, <2>2, <3>2, <4>1 DEF TopicAgrees
    <3> QED BY <3>1, <3>2
  <2>4. TopicsAgree'
    BY <1>7, <2>3 DEF TopicsAgree
  <2>5. NoSharing'
    <3>1. \A s \in Topics : IsRegistered(s)' => s # t /\ processors'[s] \in Made
      BY <1>r, <2>1, <2>2
    <3> QED BY <1>7, <1>i, <1>n, <2>1, <2>2, <3>1 DEF NoSharing
  <2> QED BY <1>7, <1>t, <2>1, <2>4, <2>5 DEF RegistryInv
<1>8. CASE DropTopic
  <2>1. /\ registrar.pc = "drop" /\ registrar' = Idle
        /\ processors' = [processors EXCEPT ![registrar.topic] = Nil]
        /\ validator' = [validator EXCEPT ![registrar.topic] = Nil]
        /\ UNCHANGED <<procs, made>>
    BY <1>8 DEF DropTopic
  <2>2. registrar.topic \in Topics
    BY <1>t, <2>1, RegistrarCases
  <2>3. \A s \in Topics : (s # registrar.topic => ~Busy(s)) /\ ~Busy(s)'
    BY <1>d, <2>1 DEF Busy
  <2> QED BY <1>7, <1>d, <2>1, <2>2, <2>3
<1>9. ASSUME UNCHANGED <<processors, procs, made, validator>>, registrar' \in Registrars,
             \A s \in Topics : ~Busy(s) /\ ~Busy(s)'
      PROVE  Goal
  <2>1. \A s \in Topics : TopicAgrees(s)'
    BY <1>9, <1>i DEF TopicsAgree, TopicAgrees, IsRegistered
  <2>2. NoSharing'
    BY <1>9, <1>i DEF NoSharing, IsRegistered
  <2> QED BY <1>9, <1>t, <2>1, <2>2 DEF RegistryInv, TopicsAgree
<1>10. CASE UnregisterAll
  <2>1. /\ registrar = Idle /\ UNCHANGED <<processors, procs, made, validator>>
        /\ registrar' = [pc |-> "all", left |-> {t \in Topics : processors[t] # Absent}]
    BY <1>10 DEF UnregisterAll
  <2>2. registrar' \in Registrars /\ registrar'.pc = "all"
    BY <2>1 DEF Registrars
  <2>3. \A s \in Topics : ~Busy(s) /\ ~Busy(s)'
    BY <1>d, <2>1, <2>2 DEF Busy
  <2> QED BY <1>9, <2>1, <2>2, <2>3
<1>11. ASSUME NEW t \in Topics, UnregisterNext(t) PROVE Goal
  <2>1. /\ registrar.pc = "all" /\ UNCHANGED <<procs, made>>
        /\ \/ /\ validator' = [validator EXCEPT ![t] = Nil]
              /\ processors' = [processors EXCEPT ![t] = Absent]
              /\ registrar' = IF registrar.left = {t} THEN Idle
                              ELSE [registrar EXCEPT !.left = @ \ {t}]
           \/ registrar' = Idle /\ UNCHANGED <<validator, processors>>
    BY <1>11 DEF UnregisterNext
  <2>2. registrar \in [pc : {"all"}, left : SUBSET Topics]
    BY <1>t, <2>1, RegistrarCases
  <2>3. registrar' = Idle \/ registrar' \in [pc : {"all"}, left : SUBSET Topics]
    BY <2>1, <2>2
  <2>4. registrar' \in Registrars /\ registrar'.pc \in {"idle", "all"}
    BY <1>d, <2>3 DEF Registrars
  <2>5. \A s \in Topics : ~Busy(s) /\ ~Busy(s)'
    BY <2>1, <2>4 DEF Busy
  <2>6. CASE UNCHANGED <<validator, processors>>
    BY <1>9, <2>1, <2>4, <2>5, <2>6
  <2>7. CASE /\ validator' = [validator EXCEPT ![t] = Nil]
             /\ processors' = [processors EXCEPT ![t] = Absent]
    BY <1>7, <2>1, <2>4, <2>5, <2>7
  <2> QED BY <2>1, <2>6, <2>7
<1> HIDE DEF Goal
<1>12. Goal
  <2>1. CASE \E t \in Topics, i \in Identifiers :
               RegisterTopic(t, i) \/ AddProcessor(t, i) \/ RemoveTopicProcessor(t, i)
    BY <1>1, <1>5, <1>6, <2>1
  <2>2. CASE MakeCache \/ AddFirstProcessor \/ DropTopic \/ UnregisterAll
    BY <1>2, <1>4, <1>8, <1>10, <2>2 DEF Goal
  <2>3. CASE \E t \in Topics : UnregisterNext(t)
    BY <1>11, <2>3
  <2> QED BY <2>1, <2>2, <2>3 DEF RegistrarStep
<1> QED BY <1>12 DEF Goal

\* The registrar leaves messages alone, validations leave registrations alone.
LEMMA IntakeKinds ==
  ASSUME [Next]_vars
  PROVE  \/ RegistrarStep /\ UNCHANGED <<now, seenAt, validation, with, denied, handed, late>>
         \/ UNCHANGED registryVars /\ Tick
         \/ UNCHANGED registryVars /\ \E m \in Messages : Arrive(m) \/ Forget(m)
         \/ UNCHANGED registryVars /\ \E m \in Messages : Check(m) \/ Process(m)
         \/ /\ UNCHANGED <<processors, procs, made, validator, cached, registrar>>
            /\ \E m \in Messages : LookUp(m) \/ PutId(m)
         \/ UNCHANGED vars
<1>1. ASSUME RegistrarStep PROVE UNCHANGED <<now, seenAt, validation, with, denied, handed, late>>
  BY <1>1 DEF RegistrarStep, RegisterTopic, AddProcessor, AddTopicProcessor, RemoveTopicProcessor,
              MakeCache, AddFirstProcessor, DropTopic, UnregisterAll, UnregisterNext, intakeVars
<1>2. ASSUME NEW m \in Messages, Arrive(m) \/ Forget(m) \/ Check(m) \/ Process(m)
      PROVE  UNCHANGED registryVars
  BY <1>2 DEF Arrive, Forget, Check, Process
<1>3. Tick => UNCHANGED registryVars
  BY DEF Tick
<1>4. ASSUME NEW m \in Messages, LookUp(m) \/ PutId(m)
      PROVE  UNCHANGED <<processors, procs, made, validator, cached, registrar>>
  BY <1>4 DEF LookUp, PutId
<1> QED BY <1>1, <1>2, <1>3, <1>4 DEF Next, ValidationStep

\* Registrations and validators keep agreeing.
LEMMA RegistryPreserved ==
  ASSUME TypeOK, ShapeOK, RegistryInv, [Next]_vars
  PROVE  /\ RegistryInv' /\ registrar' \in Registrars
         /\ processors' \in [Topics -> Made \cup {Nil, Absent}]
         /\ procs' \in [Made -> SUBSET Identifiers] /\ made' \in 0..MaxMade
         /\ validator' \in [Topics -> Made \cup {Nil}]
<1>1. CASE RegistrarStep
  BY <1>1, RegistryStep
<1>2. CASE UNCHANGED <<processors, procs, made, validator, registrar>>
  <2>1. \A t \in Topics : /\ TopicAgrees(t)' <=> TopicAgrees(t)
                          /\ Busy(t)' <=> Busy(t)
                          /\ IsRegistered(t)' <=> IsRegistered(t)
    BY <1>2 DEF TopicAgrees, Busy, IsRegistered
  <2>2. RegistryInv'
    BY <1>2, <2>1 DEF RegistryInv, TopicsAgree, NoSharing
  <2> QED BY <1>2, <2>2 DEF TypeOK, ShapeOK
<1> QED BY <1>1, <1>2, IntakeKinds DEF registryVars, vars

\* Where the validation of a message goes in a step: it comes, is forgotten, or moves.
LEMMA ValidationTyped ==
  ASSUME TypeOK, [Next]_vars
  PROVE  /\ now' \in 0..MaxTime /\ seenAt' \in [Messages -> 0..MaxTime \cup {Never}]
         /\ validation' \in [Messages -> {"idle", "check", "process", "lookUp", "put"}]
         /\ with' \in [Messages -> Made \cup {Nil}]
         /\ denied' \subseteq Peers
         /\ handed' \in [Messages -> 0..2] /\ late' \in [Messages -> BOOLEAN]
<1> DEFINE Vs == {"idle", "check", "process", "lookUp", "put"}
<1>t. /\ now \in 0..MaxTime /\ seenAt \in [Messages -> 0..MaxTime \cup {Never}]
      /\ validation \in [Messages -> Vs]
      /\ with \in [Messages -> Made \cup {Nil}]
      /\ denied \subseteq Peers
      /\ handed \in [Messages -> 0..2] /\ late \in [Messages -> BOOLEAN]
      /\ \A m \in Messages : validator[TopicOf[m]] \in Made \cup {Nil}
      /\ MaxTime \in Nat
  BY TimeAssumption, MessagesAssumption DEF TypeOK
<1>e. ASSUME NEW m \in Messages, ValidationEnds(m)
      PROVE  validation' \in [Messages -> Vs] /\ with' \in [Messages -> Made \cup {Nil}]
  BY <1>t, <1>e DEF ValidationEnds
<1>m. ASSUME NEW m \in Messages, NEW to \in Vs, ValidationMoves(m, to)
      PROVE  validation' \in [Messages -> Vs] /\ with' \in [Messages -> Made \cup {Nil}]
  BY <1>t, <1>m DEF ValidationMoves
<1>1. CASE UNCHANGED <<now, seenAt, validation, with, denied, handed, late>>
  BY <1>t, <1>1
<1>2. CASE Tick
  <2>1. now' \in 0..MaxTime /\ UNCHANGED <<seenAt, validation, with, denied, handed, late>>
    BY <1>t, <1>2 DEF Tick, intakeVars
  <2> QED BY <1>t, <2>1
<1>3. ASSUME NEW m \in Messages, Arrive(m)
      PROVE  /\ UNCHANGED <<now, denied, handed>>
             /\ seenAt' \in [Messages -> 0..MaxTime \cup {Never}]
             /\ validation' \in [Messages -> Vs] /\ with' \in [Messages -> Made \cup {Nil}]
             /\ late' \in [Messages -> BOOLEAN]
  <2>1. /\ seenAt' = [seenAt EXCEPT ![m] = now] /\ UNCHANGED <<now, denied, handed>>
        /\ late' = [late EXCEPT ![m] = IF handed[m] = 0 THEN Unix(now) > TimestampOf[m] ELSE @]
        /\ with' = [with EXCEPT ![m] = validator[TopicOf[m]]]
        /\ validation' = [validation EXCEPT ![m] = IF with'[m] = Nil THEN "idle" ELSE "check"]
    BY <1>3 DEF Arrive
  <2>2. seenAt' \in [Messages -> 0..MaxTime \cup {Never}]
    BY <1>t, <2>1
  <2>3. with' \in [Messages -> Made \cup {Nil}] /\ validation' \in [Messages -> Vs]
    BY <1>t, <2>1
  <2>4. late' \in [Messages -> BOOLEAN]
    <3>1. CASE handed[m] = 0
      <4>1. late' = [late EXCEPT ![m] = Unix(now) > TimestampOf[m]]
        BY <2>1, <3>1
      <4>2. (Unix(now) > TimestampOf[m]) \in BOOLEAN
        OBVIOUS
      <4> QED BY <1>t, <4>1, <4>2, Zenon
    <3>2. CASE handed[m] # 0
      <4>1. late' = [late EXCEPT ![m] = late[m]]
        BY <2>1, <3>2
      <4> QED BY <1>t, <4>1, Zenon
    <3> QED BY <3>1, <3>2
  <2> QED BY <2>1, <2>2, <2>3, <2>4
<1>4. ASSUME NEW m \in Messages, Forget(m)
      PROVE  /\ UNCHANGED <<now, validation, with, denied, handed, late>>
             /\ seenAt' \in [Messages -> 0..MaxTime \cup {Never}]
  BY <1>t, <1>4 DEF Forget
<1>5. ASSUME NEW m \in Messages, Check(m)
      PROVE  /\ UNCHANGED <<now, seenAt, handed, late>> /\ denied' \subseteq Peers
             /\ validation' \in [Messages -> Vs] /\ with' \in [Messages -> Made \cup {Nil}]
  <2>1. ValidationEnds(m) \/ ValidationMoves(m, "process")
    BY <1>5 DEF Check
  <2>2. From[m] \in Peers \cup {NoPeer}
    BY MessagesAssumption
  <2>3. denied' = denied \/ \E p \in Peers : denied' = denied \cup ({p, From[m]} \ {NoPeer})
    BY <1>5 DEF Check, Blacklisted
  <2>4. UNCHANGED <<now, seenAt, handed, late>>
    BY <1>5 DEF Check
  <2>5. denied' \subseteq Peers
    BY <1>t, <2>2, <2>3
  <2>6. validation' \in [Messages -> Vs] /\ with' \in [Messages -> Made \cup {Nil}]
    BY <1>e, <1>m, <2>1
  <2> QED BY <2>4, <2>5, <2>6
<1>6. ASSUME NEW m \in Messages, Process(m)
      PROVE  /\ UNCHANGED <<now, seenAt, denied, late>> /\ handed' \in [Messages -> 0..2]
             /\ validation' \in [Messages -> Vs] /\ with' \in [Messages -> Made \cup {Nil}]
  <2>1. ValidationEnds(m) \/ ValidationMoves(m, "lookUp")
    BY <1>6 DEF Process
  <2>2. UNCHANGED <<now, seenAt, denied, late>>
    BY <1>6 DEF Process
  <2>3. handed' = [handed EXCEPT ![m] = IF procs[with[m]] # {} /\ @ < 2 THEN @ + 1 ELSE @]
    BY <1>6 DEF Process
  <2>4. handed' \in [Messages -> 0..2]
    BY <1>t, <2>3
  <2>5. validation' \in [Messages -> Vs] /\ with' \in [Messages -> Made \cup {Nil}]
    BY <1>e, <1>m, <2>1
  <2> QED BY <2>2, <2>4, <2>5
<1>7. ASSUME NEW m \in Messages, LookUp(m) \/ PutId(m)
      PROVE  /\ UNCHANGED <<now, seenAt, denied, handed, late>>
             /\ validation' \in [Messages -> Vs] /\ with' \in [Messages -> Made \cup {Nil}]
  <2>1. ValidationEnds(m) \/ ValidationMoves(m, "put")
    BY <1>7 DEF LookUp, PutId
  <2>2. UNCHANGED <<now, seenAt, denied, handed, late>>
    BY <1>7 DEF LookUp, PutId
  <2> QED BY <1>e, <1>m, <2>1, <2>2
<1>8. CASE UNCHANGED vars
  BY <1>1, <1>8 DEF vars
<1> HIDE DEF Vs
<1> QED BY <1>t, <1>1, <1>2, <1>3, <1>4, <1>5, <1>6, <1>7, <1>8, IntakeKinds DEF Vs

\* What a step may do to one message that came late, as far as its second delivery goes.
LEMMA LateStep ==
  ASSUME TypeOK, LateInv, [Next]_vars
  PROVE  LateInv'
<1>t. /\ now \in Nat /\ now' \in Nat /\ now <= now'
      /\ seenAt \in [Messages -> Nat \cup {Never}] /\ Never \notin Nat
      /\ validation \in [Messages -> {"idle", "check", "process", "lookUp", "put"}]
      /\ handed \in [Messages -> 0..2] /\ late \in [Messages -> BOOLEAN]
      /\ TimestampOf \in [Messages -> Nat] /\ CacheSeconds \in Nat /\ MaxTime \in Nat
  <2>1. MaxTime \in Nat /\ CacheSeconds \in Nat /\ Never \notin Nat
    BY TimeAssumption DEF Never
  <2>2. now \in Nat
    BY <2>1 DEF TypeOK
  <2>3. now' = now \/ now' = now + 1
    BY IntakeKinds DEF Tick, Arrive, Forget, Check, Process, LookUp, PutId, vars
  <2>4. now' \in Nat /\ now <= now'
    BY <2>2, <2>3
  <2>5. seenAt \in [Messages -> Nat \cup {Never}]
    BY <2>1 DEF TypeOK
  <2> QED BY <2>1, <2>2, <2>4, <2>5, MessagesAssumption DEF TypeOK
<1>u. \A n \in Nat : Unix(n) \in Nat
  BY UnixBounds
<1>g. \A m \in Messages : TooOldNow(m) => TooOldNow(m)'
  <2>1. Unix(now) <= Unix(now')
    BY <1>t, UnixGrows
  <2> QED BY <1>t, <1>u, <2>1 DEF TooOldNow, Unix
<1> SUFFICES ASSUME NEW m \in Messages, late'[m] PROVE LateOnce(m)'
  BY DEF LateInv
<1>i. late[m] => LateOnce(m)
  BY DEF LateInv
<1>1. CASE late[m] /\ UNCHANGED <<seenAt[m], handed[m], validation[m]>>
  BY <1>1, <1>g, <1>i DEF LateOnce
<1>2. ASSUME UNCHANGED late, UNCHANGED <<seenAt[m], handed[m], validation[m]>> PROVE LateOnce(m)'
  BY <1>1, <1>2
<1>3. ASSUME NEW k \in Messages, k # m, Arrive(k) \/ Forget(k) \/ Check(k) \/ Process(k) \/ LookUp(k) \/ PutId(k)
      PROVE  LateOnce(m)'
  <2>1. UNCHANGED <<seenAt[m], handed[m], validation[m], late[m]>>
    BY <1>t, <1>3 DEF Arrive, Forget, Check, Process, LookUp, PutId, ValidationEnds, ValidationMoves
  <2> QED BY <1>1, <2>1
<1>4. CASE Arrive(m)
  <2>1. /\ seenAt[m] = Never /\ seenAt' = [seenAt EXCEPT ![m] = now] /\ UNCHANGED <<now, handed>>
        /\ late' = [late EXCEPT ![m] = IF handed[m] = 0 THEN Unix(now) > TimestampOf[m] ELSE @]
        /\ \E pc \in {"idle", "check"} : validation' = [validation EXCEPT ![m] = pc]
    BY <1>4 DEF Arrive
  <2>2. seenAt'[m] = now /\ validation'[m] \in {"idle", "check"} /\ seenAt'[m] # Never
    BY <1>t, <2>1
  <2>3. late'[m] = IF handed[m] = 0 THEN Unix(now) > TimestampOf[m] ELSE late[m]
    BY <1>t, <2>1
  <2>4. CASE handed[m] = 0
    <3>1. Unix(now) > TimestampOf[m]
      BY <2>3, <2>4
    <3> QED BY <2>1, <2>2, <2>4, <3>1 DEF LateOnce
  <2>5. CASE handed[m] # 0
    <3>1. late[m]
      BY <2>3, <2>5
    <3>2. TooOldNow(m) /\ handed[m] <= 1
      BY <1>i, <2>1, <3>1 DEF LateOnce
    <3>3. Unix(now) > TimestampOf[m]
      BY <1>t, <1>u, <3>2 DEF TooOldNow
    <3>4. TooOldNow(m)'
      BY <1>g, <3>2
    <3> QED BY <2>1, <2>2, <3>2, <3>3, <3>4 DEF LateOnce
  <2> QED BY <2>4, <2>5
<1>5. CASE Forget(m)
  <2>1. /\ seenAt[m] # Never /\ now > seenAt[m] + CacheSeconds * Second
        /\ seenAt' = [seenAt EXCEPT ![m] = Never] /\ UNCHANGED <<now, handed, validation, late>>
    BY <1>5 DEF Forget
  <2>2. LateOnce(m)
    BY <1>i, <2>1
  <2>3. seenAt[m] \in Nat /\ Unix(seenAt[m]) > TimestampOf[m]
    BY <1>t, <2>1, <2>2 DEF LateOnce
  <2>4. Unix(now) >= Unix(seenAt[m]) + CacheSeconds
    BY <1>t, <2>1, <2>3, ForgottenIsOld
  <2>5. TooOldNow(m)
    <3>1. Unix(now) \in Nat /\ Unix(seenAt[m]) \in Nat /\ TimestampOf[m] \in Nat
      BY <1>t, <1>u, <2>3
    <3> QED BY <1>t, <2>3, <2>4, <3>1 DEF TooOldNow
  <2>6. TooOldNow(m)'
    BY <1>g, <2>5
  <2>7. seenAt'[m] = Never
    BY <1>t, <2>1
  <2> QED BY <2>1, <2>2, <2>6, <2>7 DEF LateOnce
<1>6. CASE Check(m)
  <2>1. validation[m] = "check" /\ UNCHANGED <<now, seenAt, handed, late>>
    BY <1>6 DEF Check
  <2>2. LateOnce(m)
    BY <1>i, <2>1
  <2>3. \/ validation'[m] = "idle"
        \/ validation'[m] = "process" /\ Unix(now) - CacheSeconds <= TimestampOf[m]
    BY <1>t, <1>6 DEF Check, ValidationEnds, ValidationMoves, NotTooOld
  <2>4. validation'[m] = "process" => handed[m] = 0
    <3> SUFFICES ASSUME validation'[m] = "process", handed[m] # 0 PROVE FALSE
      OBVIOUS
    <3>1. handed[m] = 1
      BY <1>t, <2>2 DEF LateOnce
    <3>2. Unix(now) - CacheSeconds > TimestampOf[m]
      BY <2>1, <2>2, <3>1 DEF LateOnce, TooOldNow
    <3>3. Unix(now) \in Nat /\ TimestampOf[m] \in Nat
      BY <1>t, <1>u
    <3> QED BY <1>t, <2>3, <3>2, <3>3
  <2>5. TooOldNow(m)' <=> TooOldNow(m)
    BY <2>1 DEF TooOldNow, Unix
  <2> QED BY <2>1, <2>2, <2>3, <2>4, <2>5 DEF LateOnce
<1>7. CASE Process(m)
  <2>1. /\ validation[m] = "process" /\ UNCHANGED <<now, seenAt, late>>
        /\ handed' = [handed EXCEPT ![m] = IF procs[with[m]] # {} /\ @ < 2 THEN @ + 1 ELSE @]
    BY <1>7 DEF Process
  <2>2. LateOnce(m)
    BY <1>i, <2>1
  <2>3. validation'[m] \in {"idle", "lookUp"}
    BY <1>t, <1>7 DEF Process, ValidationEnds, ValidationMoves
  <2>4. handed'[m] <= 1
    <3>1. handed[m] = 0
      BY <2>1, <2>2 DEF LateOnce
    <3> QED BY <1>t, <2>1, <3>1
  <2>5. TooOldNow(m)' <=> TooOldNow(m)
    BY <2>1 DEF TooOldNow, Unix
  <2> QED BY <2>1, <2>2, <2>3, <2>4, <2>5 DEF LateOnce
<1>8. CASE LookUp(m) \/ PutId(m)
  <2>1. UNCHANGED <<now, seenAt, handed, late>>
    BY <1>8 DEF LookUp, PutId
  <2>2. validation'[m] \in {"idle", "put"}
    BY <1>t, <1>8 DEF LookUp, PutId, ValidationEnds, ValidationMoves
  <2>3. TooOldNow(m)' <=> TooOldNow(m)
    BY <2>1 DEF TooOldNow, Unix
  <2> QED BY <1>i, <2>1, <2>2, <2>3 DEF LateOnce
<1>9. ASSUME UNCHANGED <<seenAt, validation, handed, late>> PROVE LateOnce(m)'
  BY <1>1, <1>9
<1>10. Tick \/ UNCHANGED vars => UNCHANGED <<seenAt, validation, handed, late>>
  BY DEF Tick, vars, intakeVars
<1> QED BY <1>3, <1>4, <1>5, <1>6, <1>7, <1>8, <1>9, <1>10, IntakeKinds

\* What RemoveAt leaves: the elements before k, then those after it.
LEMMA RemoveAtIndices ==
  ASSUME NEW S, NEW s \in Seq(S), NEW k \in 1..Len(s)
  PROVE  /\ RemoveAt(s, k) \in Seq(S)
         /\ Len(RemoveAt(s, k)) = Len(s) - 1
         /\ \A j \in 1..(Len(s) - 1) : RemoveAt(s, k)[j] = IF j < k THEN s[j] ELSE s[j + 1]
<1> DEFINE a == SubSeq(s, 1, k - 1)
           b == SubSeq(s, k + 1, Len(s))
<1>1. Len(s) \in Nat /\ \A i \in 1..Len(s) : s[i] \in S
  OBVIOUS
<1>2. /\ a \in Seq(S) /\ Len(a) = k - 1
      /\ \A i \in 1..(k - 1) : a[i] = s[i]
  BY <1>1, SubSeqProperties
<1>3. /\ b \in Seq(S) /\ Len(b) = Len(s) - k
      /\ \A i \in 1..(Len(s) - k) : b[i] = s[k + i]
  BY <1>1, SubSeqProperties
<1> HIDE DEF a, b
<1>4. /\ a \o b \in Seq(S)
      /\ Len(a \o b) = Len(a) + Len(b)
      /\ \A i \in 1..(Len(a) + Len(b)) : (a \o b)[i] = IF i <= Len(a) THEN a[i] ELSE b[i - Len(a)]
  BY <1>2, <1>3, ConcatProperties
<1>5. RemoveAt(s, k) = a \o b
  BY DEF RemoveAt, a, b
<1>6. Len(a \o b) = Len(s) - 1
  BY <1>1, <1>2, <1>3, <1>4
<1>7. ASSUME NEW j \in 1..(Len(s) - 1)
      PROVE  (a \o b)[j] = IF j < k THEN s[j] ELSE s[j + 1]
  <2>1. j \in 1..(Len(a) + Len(b))
    BY <1>1, <1>2, <1>3
  <2>2. CASE j < k
    BY <1>1, <1>2, <1>4, <2>1, <2>2
  <2>3. CASE ~(j < k)
    <3>1. j - Len(a) \in 1..(Len(s) - k) /\ ~(j <= Len(a)) /\ k + (j - Len(a)) = j + 1
      BY <1>1, <1>2, <2>3
    <3> QED BY <1>3, <1>4, <2>1, <2>3, <3>1
  <2> QED BY <2>2, <2>3
<1> QED BY <1>4, <1>5, <1>6, <1>7

\* The others in a cache keep their order.
LEMMA OthersKeepOrder ==
  ASSUME NEW c, IsCache(c), NEW x \in Ids
  PROVE  /\ IsCache(Others(c, x))
         /\ \A i \in 1..Len(Others(c, x)) : Others(c, x)[i] # x
         /\ \A y, U : y # x /\ Behind(c, y, U) => Behind(Others(c, x), y, U)
<1>t. c \in Seq(Ids) /\ Len(c) \in Nat /\ Len(c) <= equivalentMessagesCacheSize /\ Distinct(c)
      /\ equivalentMessagesCacheSize \in Nat /\ DOMAIN c = 1..Len(c)
  BY CacheAssumption DEF IsCache
<1>1. CASE ~Contains(c, x)
  BY <1>1, <1>t DEF Others, Contains
<1>2. CASE Contains(c, x)
  <2> DEFINE k == CHOOSE i \in DOMAIN c : c[i] = x
             o == RemoveAt(c, k)
  <2>1. k \in 1..Len(c) /\ c[k] = x
    <3>1. \E i \in DOMAIN c : c[i] = x
      BY <1>2, <1>t DEF Contains
    <3> QED BY <1>t, <3>1
  <2>2. Others(c, x) = o
    BY <1>2 DEF Others
  <2> HIDE DEF k
  <2>3. /\ o \in Seq(Ids) /\ Len(o) = Len(c) - 1
        /\ \A j \in 1..(Len(c) - 1) : o[j] = IF j < k THEN c[j] ELSE c[j + 1]
    BY <1>t, <2>1, RemoveAtIndices
  <2> HIDE DEF o
  <2>4. \A i \in 1..Len(o) : o[i] # x
    BY <1>t, <2>1, <2>3 DEF Distinct
  <2>5. Distinct(o)
    <3> SUFFICES ASSUME NEW i \in 1..Len(o), NEW j \in 1..Len(o), o[i] = o[j] PROVE i = j
      BY DEF Distinct
    <3> DEFINE f(l) == IF l < k THEN l ELSE l + 1
    <3>1. f(i) \in 1..Len(c) /\ f(j) \in 1..Len(c) /\ o[i] = c[f(i)] /\ o[j] = c[f(j)]
      BY <1>t, <2>1, <2>3
    <3>2. f(i) = f(j)
      BY <1>t, <3>1 DEF Distinct
    <3> QED BY <1>t, <2>1, <3>2
  <2>6. ASSUME NEW y, NEW U, y # x, Behind(c, y, U) PROVE Behind(o, y, U)
    <3>1. PICK i \in 1..Len(c) : c[i] = y /\ \A j \in 1..Len(c) : j > i => c[j] \in U
      BY <2>6 DEF Behind
    <3> DEFINE n == IF i < k THEN i ELSE i - 1
    <3>2. n \in 1..Len(o) /\ o[n] = y
      BY <1>t, <2>1, <2>3, <2>6, <3>1
    <3>3. ASSUME NEW j \in 1..Len(o), j > n PROVE o[j] \in U
      <4>1. CASE j < k
        <5>1. i # k
          BY <2>1, <2>6, <3>1
        <5>2. j \in 1..Len(c) /\ j > i /\ o[j] = c[j]
          BY <1>t, <2>1, <2>3, <3>1, <3>3, <4>1, <5>1
        <5> QED BY <3>1, <5>2
      <4>2. CASE ~(j < k)
        <5>1. j + 1 \in 1..Len(c) /\ j + 1 > i /\ o[j] = c[j + 1]
          BY <1>t, <2>1, <2>3, <3>1, <3>3, <4>2
        <5> QED BY <3>1, <5>1
      <4> QED BY <4>1, <4>2
    <3> HIDE DEF n
    <3> QED BY <3>2, <3>3 DEF Behind
  <2>7. IsCache(o)
    BY <1>t, <2>3, <2>5 DEF IsCache
  <2> QED BY <2>2, <2>4, <2>6, <2>7
<1> QED BY <1>1, <1>2

\* The least recent identifier is dropped: either another one is behind the same ones, or
\* all that is left was used since.
LEMMA TailKeepsOrder ==
  ASSUME NEW c, IsCache(c), c # <<>>
  PROVE  /\ IsCache(Tail(c)) /\ Len(Tail(c)) = Len(c) - 1
         /\ \A i \in 1..Len(Tail(c)) : i + 1 \in 1..Len(c) /\ Tail(c)[i] = c[i + 1]
         /\ \A y, U : Behind(c, y, U) =>
              Behind(Tail(c), y, U) \/ \A i \in 1..Len(Tail(c)) : Tail(c)[i] \in U
<1>t. c \in Seq(Ids) /\ Len(c) \in Nat /\ Len(c) <= equivalentMessagesCacheSize /\ Distinct(c)
      /\ equivalentMessagesCacheSize \in Nat /\ Len(c) > 0
  BY CacheAssumption DEF IsCache
<1> DEFINE s == Tail(c)
<1>1. /\ s \in Seq(Ids) /\ Len(s) = Len(c) - 1
      /\ \A i \in 1..Len(s) : i + 1 \in 1..Len(c) /\ s[i] = c[i + 1]
  BY <1>t
<1> HIDE DEF s
<1>2. Distinct(s)
  <2> SUFFICES ASSUME NEW i \in 1..Len(s), NEW j \in 1..Len(s), s[i] = s[j] PROVE i = j
    BY DEF Distinct
  <2>1. i + 1 = j + 1
    BY <1>1, <1>t DEF Distinct
  <2> QED BY <2>1
<1>3. ASSUME NEW y, NEW U, Behind(c, y, U)
      PROVE  Behind(s, y, U) \/ \A i \in 1..Len(s) : s[i] \in U
  <2>1. PICK i \in 1..Len(c) : c[i] = y /\ \A j \in 1..Len(c) : j > i => c[j] \in U
    BY <1>3 DEF Behind
  <2>2. CASE i = 1
    BY <1>1, <1>t, <2>1, <2>2
  <2>3. CASE i # 1
    <3>1. i - 1 \in 1..Len(s) /\ s[i - 1] = y
      BY <1>1, <1>t, <2>1, <2>3
    <3>2. \A j \in 1..Len(s) : j > i - 1 => s[j] \in U
      BY <1>1, <1>t, <2>1
    <3> QED BY <3>1, <3>2 DEF Behind
  <2> QED BY <2>2, <2>3
<1>4. IsCache(s)
  BY <1>1, <1>2, <1>t DEF IsCache
<1> QED BY <1>1, <1>3, <1>4 DEF s

\* An identifier is put into a cache with room, as the most recent one.
LEMMA AppendKeepsOrder ==
  ASSUME NEW c, IsCache(c), NEW x \in Ids, \A i \in 1..Len(c) : c[i] # x,
         Len(c) < equivalentMessagesCacheSize
  PROVE  /\ IsCache(Append(c, x)) /\ Len(Append(c, x)) = Len(c) + 1
         /\ \A i \in 1..Len(c) : Append(c, x)[i] = c[i]
         /\ \A U : Behind(Append(c, x), x, U)
         /\ \A y, U : Behind(c, y, U) /\ x \in U => Behind(Append(c, x), y, U)
<1>t. c \in Seq(Ids) /\ Len(c) \in Nat /\ Distinct(c) /\ equivalentMessagesCacheSize \in Nat
  BY CacheAssumption DEF IsCache
<1> DEFINE s == Append(c, x)
<1>1. /\ s \in Seq(Ids) /\ Len(s) = Len(c) + 1 /\ s[Len(c) + 1] = x
      /\ \A i \in 1..Len(c) : s[i] = c[i]
  BY <1>t, AppendProperties
<1> HIDE DEF s
<1>2. \A i \in 1..Len(s) : i = Len(c) + 1 \/ i \in 1..Len(c)
  BY <1>1, <1>t
<1>3. Distinct(s)
  BY <1>1, <1>2, <1>t DEF Distinct
<1>4. IsCache(s)
  BY <1>1, <1>3, <1>t DEF IsCache
<1>5. ASSUME NEW U PROVE Behind(s, x, U)
  <2>1. Len(c) + 1 \in 1..Len(s) /\ \A j \in 1..Len(s) : ~(j > Len(c) + 1)
    BY <1>1, <1>t
  <2> QED BY <1>1, <2>1 DEF Behind
<1>6. ASSUME NEW y, NEW U, Behind(c, y, U), x \in U PROVE Behind(s, y, U)
  <2>1. PICK i \in 1..Len(c) : c[i] = y /\ \A j \in 1..Len(c) : j > i => c[j] \in U
    BY <1>6 DEF Behind
  <2>2. i \in 1..Len(s) /\ s[i] = y
    BY <1>1, <1>t, <2>1
  <2>3. \A j \in 1..Len(s) : j > i => s[j] \in U
    BY <1>1, <1>2, <1>6, <2>1
  <2> QED BY <2>2, <2>3 DEF Behind
<1> QED BY <1>1, <1>4, <1>5, <1>6 DEF s

\* Using x makes it the most recent one; every other one stays behind x and those that were
\* behind it, or the cache is full of them.
LEMMA UsedKeepsOrder ==
  ASSUME NEW c, IsCache(c), NEW x \in Ids
  PROVE  /\ IsCache(Used(c, x))
         /\ \A U : Behind(Used(c, x), x, U)
         /\ \A y, U : y # x /\ x \in U /\ Behind(c, y, U) =>
              \/ Behind(Used(c, x), y, U)
              \/ /\ Len(Used(c, x)) = equivalentMessagesCacheSize
                 /\ \A i \in 1..Len(Used(c, x)) : Used(c, x)[i] \in U
<1> DEFINE o == Others(c, x)
           b == IF Len(o) = equivalentMessagesCacheSize THEN Tail(o) ELSE o
<1>1. /\ IsCache(o) /\ \A i \in 1..Len(o) : o[i] # x
      /\ \A y, U : y # x /\ Behind(c, y, U) => Behind(o, y, U)
  BY OthersKeepOrder
<1>2. Used(c, x) = Append(b, x)
  BY DEF Used
<1> HIDE DEF o
<1>3. /\ o \in Seq(Ids) /\ Len(o) \in Nat /\ Len(o) <= equivalentMessagesCacheSize
      /\ equivalentMessagesCacheSize \in Nat /\ equivalentMessagesCacheSize > 0
  BY <1>1, CacheAssumption DEF IsCache
<1>4. /\ IsCache(b) /\ Len(b) \in Nat /\ Len(b) < equivalentMessagesCacheSize
      /\ \A i \in 1..Len(b) : b[i] # x
      /\ \A y, U : Behind(o, y, U) =>
           \/ Behind(b, y, U)
           \/ Len(b) + 1 = equivalentMessagesCacheSize /\ \A i \in 1..Len(b) : b[i] \in U
  <2>1. CASE Len(o) # equivalentMessagesCacheSize
    <3>1. b = o
      BY <2>1
    <3> QED BY <1>1, <1>3, <2>1, <3>1
  <2>2. CASE Len(o) = equivalentMessagesCacheSize
    <3>1. b = Tail(o) /\ o # <<>>
      BY <1>3, <2>2
    <3> HIDE DEF b
    <3>2. /\ IsCache(b) /\ Len(b) = Len(o) - 1
          /\ \A i \in 1..Len(b) : i + 1 \in 1..Len(o) /\ b[i] = o[i + 1]
          /\ \A y, U : Behind(o, y, U) => Behind(b, y, U) \/ \A i \in 1..Len(b) : b[i] \in U
      BY <1>1, <3>1, TailKeepsOrder
    <3>3. Len(b) \in Nat /\ Len(b) + 1 = equivalentMessagesCacheSize
      BY <1>3, <2>2, <3>2
    <3> QED BY <1>1, <1>3, <3>2, <3>3
  <2> QED BY <2>1, <2>2
<1> HIDE DEF b
<1> DEFINE u == Append(b, x)
<1>5. /\ IsCache(u) /\ Len(u) = Len(b) + 1 /\ \A i \in 1..Len(b) : u[i] = b[i]
      /\ \A U : Behind(u, x, U)
      /\ \A y, U : Behind(b, y, U) /\ x \in U => Behind(u, y, U)
  BY <1>4, AppendKeepsOrder
<1>6. u[Len(b) + 1] = x
  BY <1>4, AppendProperties DEF IsCache
<1> HIDE DEF u
<1>7. ASSUME NEW y, NEW U, y # x, x \in U, Behind(c, y, U)
      PROVE  \/ Behind(u, y, U)
             \/ /\ Len(u) = equivalentMessagesCacheSize
                /\ \A i \in 1..Len(u) : u[i] \in U
  <2>1. Behind(o, y, U)
    BY <1>1, <1>7
  <2>2. CASE Behind(b, y, U)
    BY <1>5, <1>7, <2>2
  <2>3. CASE Len(b) + 1 = equivalentMessagesCacheSize /\ \A i \in 1..Len(b) : b[i] \in U
    <3>1. \A i \in 1..Len(u) : i = Len(b) + 1 \/ i \in 1..Len(b)
      BY <1>4, <1>5
    <3> QED BY <1>5, <1>6, <1>7, <2>3, <3>1
  <2> QED BY <1>4, <2>1, <2>2, <2>3
<1>8. Used(c, x) = u
  BY <1>2 DEF u
<1> QED BY <1>5, <1>7, <1>8

\* A cache that is full of identifiers from a finite set: the set has as many.
LEMMA FullCache ==
  ASSUME NEW c, IsCache(c), NEW U, IsFiniteSet(U), Len(c) = equivalentMessagesCacheSize,
         \A i \in 1..Len(c) : c[i] \in U
  PROVE  Cardinality(U) >= equivalentMessagesCacheSize
<1> DEFINE n == Len(c)
           f == [i \in 1..n |-> c[i]]
<1>1. n \in Nat /\ Distinct(c)
  BY CacheAssumption DEF IsCache
<1>2. f \in Injection(1..n, U)
  <2>1. f \in [1..n -> U]
    OBVIOUS
  <2>2. \A i, j \in 1..n : f[i] = f[j] => i = j
    BY <1>1 DEF Distinct
  <2> QED BY <2>1, <2>2 DEF Injection, IsInjective
<1> HIDE DEF n, f
<1>3. Cardinality(1..n) = n
  <2>1. 1 \in Int /\ n \in Int
    BY <1>1
  <2>2. Cardinality(1..n) = IF 1 > n THEN 0 ELSE n - 1 + 1
    BY <2>1, FS_Interval, Zenon
  <2> QED BY <1>1, <2>2
<1>4. Cardinality(1..n) <= Cardinality(U)
  BY <1>2, FS_Injection
<1>5. Cardinality(U) \in Nat
  BY FS_CardinalityType
<1> QED BY <1>1, <1>3, <1>4, <1>5 DEF n

\* Using an identifier leaves caches caches, and every relayed message remembered, and it
\* is itself remembered.
LEMMA UseIdKeeps ==
  ASSUME ShapeOK, CachesOK, StoredWhenRelayed, NEW m \in Messages, UseId(m)
  PROVE  /\ CachesOK' /\ DOMAIN equivalent' = Topics
         /\ \A k \in relayed \cup {m} : Remembered(k)'
<1> DEFINE t == TopicOf[m]
           x == EquivalentOf[m]
<1>t. /\ t \in Topics /\ x \in Ids /\ DOMAIN equivalent = Topics /\ DOMAIN used = Messages
      /\ relayed \subseteq Messages /\ \A k \in Messages : TopicOf[k] \in Topics
      /\ \A k \in Messages : IsFiniteSet(used[k])
  BY MessagesAssumption DEF Ids, ShapeOK, CachesOK
<1>c. IsCache(equivalent[t])
  BY <1>t DEF CachesOK
<1>1. /\ DOMAIN equivalent' = Topics /\ equivalent'[t] = Used(equivalent[t], x)
      /\ \A s \in Topics : s # t => equivalent'[s] = equivalent[s]
  BY <1>t DEF UseId
<1>2. /\ DOMAIN used' = Messages
      /\ \A k \in Messages : k \notin relayed \/ SameId(m, k) => used'[k] = {}
      /\ \A k \in relayed : TopicOf[k] # t => used'[k] = used[k]
      /\ \A k \in relayed : TopicOf[k] = t /\ EquivalentOf[k] # x => used'[k] = used[k] \cup {x}
  BY <1>t DEF UseId, SameId
<1>3. \A s \in Topics : IsCache(equivalent'[s])
  BY <1>1, <1>c, <1>t, UsedKeepsOrder DEF CachesOK
<1>4. ASSUME NEW k \in Messages PROVE IsFiniteSet(used'[k])
  <2>1. IsFiniteSet({})
    BY FS_EmptySet
  <2>2. IsFiniteSet(used[k] \cup {x})
    BY <1>t, FS_AddElement
  <2>3. used'[k] \in {{}, used[k], used[k] \cup {x}}
    BY <1>2, <1>t DEF SameId
  <2> QED BY <1>t, <2>1, <2>2, <2>3
<1>5. CachesOK'
  BY <1>2, <1>3, <1>4 DEF CachesOK
<1>s. SameId(m, m)
  BY DEF SameId
<1> HIDE DEF t, x
<1>6. ASSUME NEW k \in Messages, SameId(m, k) PROVE Remembered(k)'
  <2>1. TopicOf[k] = t /\ EquivalentOf[k] = x
    BY <1>6 DEF SameId, t, x
  <2>2. Behind(equivalent'[t], x, used'[k])
    BY <1>1, <1>c, <1>t, UsedKeepsOrder
  <2> QED BY <2>1, <2>2 DEF Remembered
<1>7. ASSUME NEW k \in relayed, ~SameId(m, k) PROVE Remembered(k)'
  <2>t. k \in Messages /\ TopicOf[k] \in Topics /\ Remembered(k)
    BY <1>t DEF StoredWhenRelayed
  <2>1. CASE TopicOf[k] # t
    <3>1. used'[k] = used[k] /\ equivalent'[TopicOf[k]] = equivalent[TopicOf[k]]
      BY <1>1, <1>2, <2>1, <2>t
    <3> QED BY <2>t, <3>1 DEF Remembered, FullOfOthers
  <2>2. CASE TopicOf[k] = t
    <3> DEFINE y == EquivalentOf[k]
               U == used[k] \cup {x}
    <3>1. y # x
      BY <1>7, <2>2 DEF SameId, t, x
    <3>2. used'[k] = U /\ IsFiniteSet(U)
      BY <1>2, <1>4, <2>2, <2>t, <3>1
    <3>3. CASE Behind(equivalent[t], y, used[k])
      <4>1. Behind(equivalent[t], y, U)
        BY <3>3 DEF Behind
      <4>2. \/ Behind(equivalent'[t], y, U)
            \/ /\ Len(equivalent'[t]) = equivalentMessagesCacheSize
               /\ \A i \in 1..Len(equivalent'[t]) : equivalent'[t][i] \in U
        <5> HIDE DEF y
        <5>1. x \in U
          OBVIOUS
        <5> HIDE DEF U
        <5> QED BY <1>1, <1>c, <1>t, <3>1, <4>1, <5>1, UsedKeepsOrder
      <4>3. CASE Behind(equivalent'[t], y, U)
        BY <2>2, <3>2, <4>3 DEF Remembered
      <4>4. CASE /\ Len(equivalent'[t]) = equivalentMessagesCacheSize
                 /\ \A i \in 1..Len(equivalent'[t]) : equivalent'[t][i] \in U
        <5>1. Cardinality(U) >= equivalentMessagesCacheSize
          BY <1>3, <1>t, <3>2, <4>4, FullCache
        <5> QED BY <3>2, <5>1 DEF Remembered, FullOfOthers
      <4> QED BY <4>2, <4>3, <4>4
    <3>4. CASE FullOfOthers(k)
      <4>1. Cardinality(used[k]) <= Cardinality(U)
        BY <3>2, FS_Subset
      <4>2. Cardinality(used[k]) \in Nat /\ Cardinality(U) \in Nat
        BY <1>t, <2>t, <3>2, FS_CardinalityType
      <4>3. Cardinality(U) >= equivalentMessagesCacheSize
        BY <3>4, <4>1, <4>2, CacheAssumption DEF FullOfOthers
      <4> QED BY <3>2, <4>3 DEF Remembered, FullOfOthers
    <3> QED BY <2>2, <2>t, <3>3, <3>4 DEF Remembered
  <2> QED BY <2>1, <2>2
<1>8. \A k \in relayed \cup {m} : Remembered(k)'
  BY <1>6, <1>7, <1>s, <1>t
<1> QED BY <1>1, <1>5, <1>8

\* The steps that touch the caches of identifiers, and what was relayed.
LEMMA CacheKinds ==
  ASSUME [Next]_vars
  PROVE  \/ /\ UNCHANGED <<cached, equivalent, relayed, used, overlapped, outlived>>
            /\ \/ UNCHANGED validation
               \/ \E m \in Messages : Arrive(m) \/ Forget(m) \/ Check(m) \/ Process(m)
         \/ MakeCache /\ UNCHANGED <<used, validation, overlapped, outlived>>
         \/ \E m \in Messages : LookUp(m) \/ PutId(m)
<1>1. RegistrarStep =>
        \/ MakeCache /\ UNCHANGED <<used, validation, overlapped, outlived>>
        \/ UNCHANGED <<cached, equivalent, relayed, used, overlapped, outlived, validation>>
  BY DEF RegistrarStep, RegisterTopic, AddProcessor, AddTopicProcessor, RemoveTopicProcessor,
         MakeCache, AddFirstProcessor, DropTopic, UnregisterAll, UnregisterNext, intakeVars,
         relayVars
<1>2. ASSUME NEW m \in Messages, Arrive(m) \/ Forget(m) \/ Check(m) \/ Process(m)
      PROVE  UNCHANGED <<cached, equivalent, relayed, used, overlapped, outlived>>
  BY <1>2 DEF Arrive, Forget, Check, Process, registryVars, relayVars
<1>3. Tick \/ UNCHANGED vars =>
        UNCHANGED <<cached, equivalent, relayed, used, overlapped, outlived, validation>>
  BY DEF Tick, registryVars, intakeVars, relayVars, vars
<1> QED BY <1>1, <1>2, <1>3 DEF Next, ValidationStep

\* The caches of identifiers, and what was relayed, stay what they are.
LEMMA CachesTyped ==
  ASSUME TypeOK, ShapeOK, CachesOK, RelayInv, [Next]_vars
  PROVE  /\ cached' \subseteq Topics /\ DOMAIN equivalent' = Topics
         /\ relayed' \subseteq Messages /\ CachesOK'
<1> DEFINE Goal == /\ cached' \subseteq Topics /\ DOMAIN equivalent' = Topics
                   /\ relayed' \subseteq Messages /\ CachesOK'
<1>t. cached \subseteq Topics /\ DOMAIN equivalent = Topics /\ relayed \subseteq Messages
  BY DEF TypeOK, ShapeOK
<1>1. ASSUME UNCHANGED <<cached, equivalent, relayed, used>> PROVE Goal
  BY <1>t, <1>1 DEF CachesOK
<1>2. ASSUME MakeCache, UNCHANGED used PROVE Goal
  <2>1. registrar.topic \in Topics
    BY <1>2, RegistrarCases DEF MakeCache, ShapeOK
  <2>2. IsCache(<<>>)
    BY CacheAssumption DEF IsCache, Distinct
  <2>3. DOMAIN equivalent' = Topics /\ \A t \in Topics : equivalent'[t] \in {<<>>, equivalent[t]}
    BY <1>2, <1>t DEF MakeCache
  <2>4. CachesOK'
    BY <1>2, <2>2, <2>3 DEF CachesOK
  <2>5. cached' \subseteq Topics /\ relayed' \subseteq Messages
    BY <1>2, <1>t, <2>1 DEF MakeCache
  <2> QED BY <2>3, <2>4, <2>5
<1>3. ASSUME NEW m \in Messages, LookUp(m) \/ PutId(m) PROVE Goal
  <2>1. cached' = cached /\ relayed' \subseteq relayed \cup {m}
    BY <1>3 DEF LookUp, PutId
  <2>2. UNCHANGED <<equivalent, used>> \/ UseId(m)
    BY <1>3 DEF LookUp, PutId
  <2>3. CachesOK' /\ DOMAIN equivalent' = Topics
    <3>1. CASE UNCHANGED <<equivalent, used>>
      BY <1>t, <3>1 DEF CachesOK
    <3>2. CASE UseId(m)
      BY <3>2, UseIdKeeps DEF RelayInv
    <3> QED BY <2>2, <3>1, <3>2
  <2> QED BY <1>t, <2>1, <2>3
<1> HIDE DEF Goal
<1>4. Goal
  BY <1>1, <1>2, <1>3, CacheKinds
<1> QED BY <1>4 DEF Goal

\* Having the same identifier on the same topic, and being a pair, go both ways.
LEMMA SameIdSymmetric ==
  ASSUME NEW m, NEW k
  PROVE  (SameId(m, k) <=> SameId(k, m)) /\ {m, k} = {k, m}
  BY DEF SameId

\* Equivalent messages stay relayed once, unless their look-ups overlapped or the cache was
\* filled in between.
LEMMA RelayStep ==
  ASSUME TypeOK, ShapeOK, CachesOK, RelayInv, [Next]_vars
  PROVE  RelayInv'
<1>t. /\ validation \in [Messages -> {"idle", "check", "process", "lookUp", "put"}]
      /\ DOMAIN equivalent = Topics /\ relayed \subseteq Messages
      /\ \A m \in Messages : TopicOf[m] \in Topics
  BY MessagesAssumption DEF TypeOK, ShapeOK
<1>i. StoredWhenRelayed /\ PutsExcused /\ EquivalentsRelayedOnce
  BY DEF RelayInv
<1>1. ASSUME UNCHANGED <<relayed, overlapped, outlived>>, StoredWhenRelayed',
             \A m \in Messages : validation'[m] = "put" => validation[m] = "put"
      PROVE  RelayInv'
  <2>1. PutsExcused'
    BY <1>1, <1>i DEF PutsExcused, SameId, Excused
  <2>2. EquivalentsRelayedOnce'
    BY <1>1, <1>i DEF EquivalentsRelayedOnce, SameId
  <2> QED BY <1>1, <2>1, <2>2 DEF RelayInv
<1>s. ASSUME UNCHANGED <<equivalent, used, relayed>> PROVE StoredWhenRelayed'
  BY <1>s, <1>i DEF StoredWhenRelayed, Remembered, FullOfOthers
<1>2. ASSUME MakeCache, UNCHANGED <<used, validation, overlapped, outlived>> PROVE RelayInv'
  <2>1. /\ equivalent' = [equivalent EXCEPT ![registrar.topic] = <<>>]
        /\ relayed' = {m \in relayed : TopicOf[m] # registrar.topic}
    BY <1>2 DEF MakeCache
  <2>2. StoredWhenRelayed'
    <3> SUFFICES ASSUME NEW m \in relayed, TopicOf[m] # registrar.topic PROVE Remembered(m)'
      BY <2>1 DEF StoredWhenRelayed
    <3>1. equivalent'[TopicOf[m]] = equivalent[TopicOf[m]] /\ Remembered(m)
      BY <1>i, <1>t, <2>1 DEF StoredWhenRelayed
    <3> QED BY <1>2, <3>1 DEF Remembered, FullOfOthers
  <2>3. PutsExcused'
    BY <1>2, <1>i, <2>1 DEF PutsExcused, SameId, Excused
  <2>4. EquivalentsRelayedOnce'
    BY <1>2, <1>i, <2>1 DEF EquivalentsRelayedOnce, SameId
  <2> QED BY <2>2, <2>3, <2>4 DEF RelayInv
<1>3. ASSUME NEW m \in Messages, LookUp(m) PROVE RelayInv'
  <2>1. UNCHANGED relayed
    BY <1>3 DEF LookUp
  <2>2. CASE ValidationEnds(m) /\ UNCHANGED <<overlapped, outlived>>
    <3>1. UNCHANGED <<equivalent, used>> \/ UseId(m)
      BY <1>3 DEF LookUp
    <3>2. StoredWhenRelayed'
      <4>1. CASE UNCHANGED <<equivalent, used>>
        BY <1>s, <2>1, <4>1
      <4>2. CASE UseId(m)
        BY <1>i, <2>1, <4>2, UseIdKeeps DEF StoredWhenRelayed
      <4> QED BY <3>1, <4>1, <4>2
    <3> QED BY <1>1, <1>t, <2>1, <2>2, <3>2 DEF ValidationEnds
  <2>3. CASE /\ ~Hit(m) /\ UNCHANGED <<equivalent, used>>
             /\ ValidationMoves(m, "put")
             /\ overlapped' = overlapped \cup
                  {{m, k} : k \in {n \in Messages : validation[n] = "put" /\ SameId(m, n)}}
             /\ outlived' = outlived \cup
                  {{m, k} : k \in {n \in relayed : FullOfOthers(n) /\ SameId(m, n)}}
    <3>1. \A k \in Messages : k # m => validation'[k] = validation[k]
      BY <1>t, <2>3 DEF ValidationMoves
    <3>2. Excused \subseteq Excused' /\
          \A k \in Messages : validation[k] = "put" /\ SameId(m, k) =>
              {m, k} \in Excused' /\ {k, m} \in Excused'
      BY <2>3, SameIdSymmetric DEF Excused
    <3>3. ASSUME NEW k \in relayed, SameId(m, k) PROVE {m, k} \in Excused'
      <4>1. Remembered(k) /\ TopicOf[k] = TopicOf[m] /\ EquivalentOf[k] = EquivalentOf[m]
        BY <1>i, <3>3 DEF StoredWhenRelayed, SameId
      <4>2. ~Behind(equivalent[TopicOf[k]], EquivalentOf[k], used[k])
        BY <2>3, <4>1 DEF Hit, Contains, Behind
      <4>3. FullOfOthers(k)
        BY <4>1, <4>2 DEF Remembered
      <4> QED BY <2>3, <3>3, <4>3 DEF Excused
    <3>4. ASSUME NEW a \in Messages, NEW b \in Messages, a # b, SameId(a, b), validation'[a] = "put",
                 validation'[b] = "put" \/ b \in relayed
          PROVE  {a, b} \in Excused'
      <4>1. CASE a = m
        BY <3>1, <3>2, <3>3, <3>4, <4>1
      <4>2. CASE b = m
        BY <3>1, <3>2, <3>4, <4>2, SameIdSymmetric
      <4>3. CASE a # m /\ b # m
        BY <1>i, <3>1, <3>2, <3>4, <4>3 DEF PutsExcused
      <4> QED BY <4>1, <4>2, <4>3
    <3>5. PutsExcused'
      BY <2>1, <3>4 DEF PutsExcused, SameId
    <3>6. StoredWhenRelayed'
      BY <1>s, <2>1, <2>3
    <3>7. EquivalentsRelayedOnce'
      BY <1>i, <2>1, <3>2 DEF EquivalentsRelayedOnce, SameId, Excused
    <3> QED BY <3>5, <3>6, <3>7 DEF RelayInv
  <2> QED BY <1>3, <2>2, <2>3 DEF LookUp
<1>4. ASSUME NEW m \in Messages, PutId(m) PROVE RelayInv'
  <2>1. /\ validation[m] = "put" /\ relayed' = relayed \cup {m} /\ UseId(m)
        /\ validation' = [validation EXCEPT ![m] = "idle"] /\ UNCHANGED <<overlapped, outlived>>
    BY <1>4 DEF PutId, ValidationEnds
  <2>2. \A k \in Messages : validation'[k] = "put" => k # m /\ validation[k] = "put"
    BY <1>t, <2>1
  <2>5. StoredWhenRelayed'
    BY <1>i, <2>1, UseIdKeeps DEF StoredWhenRelayed
  <2>6. PutsExcused'
    BY <1>i, <2>1, <2>2 DEF PutsExcused, SameId, Excused
  <2>7. ASSUME NEW a \in relayed', NEW b \in relayed', a # b, SameId(a, b)
        PROVE  {a, b} \in Excused
    <3>1. a \in Messages /\ b \in Messages
      BY <1>t, <2>1
    <3>2. CASE a = m
      BY <1>i, <2>1, <2>7, <3>1, <3>2 DEF PutsExcused
    <3>3. CASE b = m
      <4>1. {b, a} \in Excused
        BY <1>i, <2>1, <2>7, <3>1, <3>3, SameIdSymmetric DEF PutsExcused
      <4> QED BY <4>1, SameIdSymmetric
    <3>4. CASE a # m /\ b # m
      BY <1>i, <2>1, <2>7, <3>4 DEF EquivalentsRelayedOnce, Excused
    <3> QED BY <3>2, <3>3, <3>4
  <2>8. EquivalentsRelayedOnce'
    BY <2>1, <2>7 DEF EquivalentsRelayedOnce, SameId, Excused
  <2> QED BY <2>5, <2>6, <2>8 DEF RelayInv
<1>5. ASSUME UNCHANGED <<equivalent, relayed, used, overlapped, outlived>>,
             NEW m \in Messages, Arrive(m) \/ Forget(m) \/ Check(m) \/ Process(m)
      PROVE  RelayInv'
  <2>1. \A k \in Messages : validation'[k] = "put" => validation[k] = "put"
    BY <1>t, <1>5 DEF Arrive, Forget, Check, Process, ValidationEnds, ValidationMoves
  <2> QED BY <1>1, <1>5, <1>s, <2>1
<1>6. ASSUME UNCHANGED <<equivalent, relayed, used, overlapped, outlived, validation>> PROVE RelayInv'
  BY <1>1, <1>6, <1>s
<1> QED BY <1>2, <1>3, <1>4, <1>5, <1>6, CacheKinds

\* The initial state satisfies the inductive invariant.
LEMMA InitIInv == Init => IInv
<1> SUFFICES ASSUME Init PROVE IInv
  OBVIOUS
<1>1. MaxTime \in Nat /\ MaxMade \in Nat
  BY TimeAssumption
<1>2. TypeOK
  BY <1>1 DEF Init, TypeOK, Never, Made
<1>3. ShapeOK
  BY DEF Init, ShapeOK, Registrars
<1>4. \A t \in Topics : ~Busy(t) /\ ~IsRegistered(t) /\ TopicAgrees(t)
  BY DEF Init, Busy, Idle, IsRegistered, TopicAgrees
<1>5. RegistryInv
  BY <1>4 DEF RegistryInv, TopicsAgree, NoSharing
<1>6. LateInv
  BY DEF Init, LateInv
<1>7. RelayInv
  BY DEF Init, RelayInv, StoredWhenRelayed, PutsExcused, EquivalentsRelayedOnce
<1>8. CachesOK
  <2>1. IsFiniteSet({})
    BY FS_EmptySet
  <2>2. IsCache(<<>>)
    BY CacheAssumption DEF IsCache, Distinct
  <2> QED BY <2>1, <2>2 DEF Init, CachesOK
<1> QED BY <1>2, <1>3, <1>5, <1>6, <1>7, <1>8 DEF IInv

\* Every step of messagesHandler and of pubsub keeps the inductive invariant.
THEOREM InvariantHolds == Spec => []IInv
<1>1. IInv /\ [Next]_vars => IInv'
  <2> SUFFICES ASSUME IInv, [Next]_vars PROVE IInv'
    OBVIOUS
  <2>1. TypeOK /\ ShapeOK /\ CachesOK /\ RegistryInv /\ LateInv /\ RelayInv
    BY DEF IInv
  <2>2. TypeOK'
    BY <2>1, RegistryPreserved, ValidationTyped, CachesTyped DEF TypeOK
  <2>3. ShapeOK'
    BY <2>1, RegistryPreserved, CachesTyped DEF ShapeOK
  <2> QED BY <2>1, <2>2, <2>3, RegistryPreserved, CachesTyped, LateStep, RelayStep DEF IInv
<1> QED BY <1>1, InitIInv, PTL DEF Spec

\* Whenever no call changes the registration, a topic has a validator exactly when it has
\* processors, and it is the validator of those.
THEOREM RegistriesAgree == Spec => []RegistryAgrees
<1>1. IInv => RegistryAgrees
  <2> SUFFICES ASSUME IInv, registrar = Idle, NEW t \in Topics PROVE TopicAgrees(t)
    BY DEF RegistryAgrees, TopicAgrees
  <2>1. ~Busy(t)
    BY DEF Busy, Idle
  <2> QED BY <2>1 DEF IInv, RegistryInv, TopicsAgree
<1> QED BY <1>1, InvariantHolds, PTL

\* A message that first came after the second of its timestamp is processed once at most,
\* whatever the durations: pubsub's cache outlives the window of timestamps.
THEOREM LateProcessedOnce == Spec => []LateIsProcessedOnce
<1>1. IInv => LateIsProcessedOnce
  BY DEF IInv, LateInv, LateOnce, LateIsProcessedOnce
<1> QED BY <1>1, InvariantHolds, PTL

\* Messages with one identifier are relayed once, whatever the size of the cache, unless
\* their look-ups overlapped or as many other identifiers as the cache holds were used
\* between the last use of it and the second look-up (messagesHandler.go:31, 326, 372-384).
THEOREM EquivalentsOnce == Spec => []EquivalentsRelayedOnce
<1>1. IInv => EquivalentsRelayedOnce
  BY DEF IInv, RelayInv
<1> QED BY <1>1, InvariantHolds, PTL
============================================================================
