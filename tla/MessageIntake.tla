--------------------------- MODULE MessageIntake ---------------------------
(***************************************************************************)
(* The receiving side of messagesHandler (p2p/libp2p/messagesHandler.go):  *)
(* processors registered on topics, the validator that pubsub calls for    *)
(* each message of a topic, and the window of timestamps that, with        *)
(* pubsub's cache of seen messages, keeps a message from being processed   *)
(* again.                                                                  *)
(*                                                                         *)
(* Registration runs under mutTopics; the validators do not take it, so a  *)
(* call is one step per effect they can see.  They also read the map of    *)
(* caches without it: when the Go runtime notices, it ends the program,    *)
(* which is a behaviour that stops.  pubsub is external.  Time goes in     *)
(* ticks, several to a second.                                             *)
(***************************************************************************)
EXTENDS Integers, FiniteSets, SequencesExt

CONSTANTS
    Topics, Identifiers,
    Messages,       \* messages of the network
    TopicOf, TimestampOf, From, \* of a message: topic, timestamp in seconds, originator
    Malformed,      \* messages that NewMessage cannot read
    EquivalentOf,   \* the identifier that the processors give a message, or NoId
    NoId,
    Peers,
    NoPeer,         \* an empty peer identifier
    Second,         \* ticks of a second
    CacheSeconds,   \* pubsubTimeCacheDuration
    AdvanceSeconds, \* acceptMessagesInAdvanceDuration
    equivalentMessagesCacheSize,
    MaxTime,        \* bound: the last tick
    MaxMade,        \* bound: topicProcessors ever made
    ArriveAt        \* bound: ArriveAt[m] are the ticks at which m may come

ASSUME MessagesAssumption ==
    /\ TopicOf \in [Messages -> Topics] /\ TimestampOf \in [Messages -> Nat]
    /\ From \in [Messages -> Peers \cup {NoPeer}] /\ Malformed \subseteq Messages

ASSUME TimeAssumption ==
    Second \in Nat \ {0} /\ {CacheSeconds, AdvanceSeconds, MaxTime, MaxMade} \subseteq Nat

ASSUME CacheAssumption == equivalentMessagesCacheSize \in Nat \ {0}

VARIABLES
    processors, \* handler.processors: topicProcessors, Nil or Absent
    procs,      \* identifiers in each topicProcessors
    made,       \* how many topicProcessors were made
    validator,  \* pubsub's validators: the topicProcessors they were made with
    equivalent, \* handler.equivalentMessages: the identifiers in the LRU cache of a topic,
                \* the most recent last
    cached,     \* topics that have such a cache
    registrar,  \* the call that holds mutTopics
    now,        \* the clock, in ticks
    seenAt,     \* pubsub's cache of seen messages: when the message came
    validation, \* where the validation of a message is
    with,       \* the topicProcessors of its validator
    denied,     \* peers that were blacklisted
    handed,     \* how often a message was given to processors (history)
    late,       \* the message was not new when it first came (history)
    relayed,    \* messages accepted since the cache of their topic was made (history)
    used,       \* for a relayed message, the other identifiers that were used in the cache
                \* since its own was last used (history)
    overlapped, \* pairs of messages whose identifiers were looked up together (history)
    outlived    \* pairs of messages of which one was looked up when a cache full of other
                \* identifiers had been used since the other's (history)

registryVars == <<processors, procs, made, validator, equivalent, cached, registrar>>
intakeVars == <<seenAt, validation, with, denied, handed, late, overlapped, outlived>>
relayVars == <<relayed, used>>
vars == <<processors, procs, made, validator, equivalent, cached, registrar, now, seenAt,
          validation, with, denied, handed, late, relayed, used, overlapped, outlived>>

Absent == -1  \* no entry in the map
Nil == 0      \* an entry that is nil, or no validator
Made == 1..MaxMade
Never == -1

Idle == [pc |-> "idle"]

TypeOK ==
    /\ processors \in [Topics -> Made \cup {Nil, Absent}]
    /\ procs \in [Made -> SUBSET Identifiers] /\ made \in 0..MaxMade
    /\ validator \in [Topics -> Made \cup {Nil}]
    /\ cached \subseteq Topics
    /\ now \in 0..MaxTime /\ seenAt \in [Messages -> 0..MaxTime \cup {Never}]
    /\ validation \in [Messages -> {"idle", "check", "process", "lookUp", "put"}]
    /\ with \in [Messages -> Made \cup {Nil}]
    /\ denied \subseteq Peers
    /\ handed \in [Messages -> 0..2] /\ late \in [Messages -> BOOLEAN]

Init ==
    /\ processors = [t \in Topics |-> Absent]
    /\ procs = [o \in Made |-> {}] /\ made = 0
    /\ validator = [t \in Topics |-> Nil]
    /\ equivalent = [t \in Topics |-> <<>>] /\ cached = {}
    /\ registrar = Idle
    /\ now = 0 /\ seenAt = [m \in Messages |-> Never]
    /\ validation = [m \in Messages |-> "idle"] /\ with = [m \in Messages |-> Nil]
    /\ denied = {}
    /\ handed = [m \in Messages |-> 0] /\ late = [m \in Messages |-> FALSE]
    /\ relayed = {} /\ used = [m \in Messages |-> {}]
    /\ overlapped = {} /\ outlived = {}

(***************************************************************************)
(* RegisterMessageProcessor                                                *)
(***************************************************************************)
IsRegistered(t) == processors[t] \notin {Absent, Nil}

\* The topic's first processor: a topicProcessors is made and its validator registered.
RegisterTopic(t, i) ==
    /\ registrar = Idle /\ ~IsRegistered(t)
    /\ made < MaxMade
    /\ made' = made + 1
    /\ processors' = [processors EXCEPT ![t] = made']
    /\ \/ /\ validator[t] = Nil
          /\ validator' = [validator EXCEPT ![t] = made']
          /\ registrar' = [pc |-> "cache", topic |-> t, id |-> i]
       \/ validator[t] # Nil /\ UNCHANGED <<validator, registrar>>
    /\ UNCHANGED <<procs, equivalent, cached, now, intakeVars, relayVars>>

\* The map of caches is written, with a new cache for the topic.
MakeCache ==
    /\ registrar.pc = "cache"
    /\ equivalent' = [equivalent EXCEPT ![registrar.topic] = <<>>]
    /\ cached' = cached \cup {registrar.topic}
    /\ relayed' = {m \in relayed : TopicOf[m] # registrar.topic}
    /\ registrar' = [registrar EXCEPT !.pc = "add"]
    /\ UNCHANGED <<processors, procs, made, validator, now, intakeVars, used>>

AddTopicProcessor(t, i) ==
    /\ procs' = [procs EXCEPT ![processors[t]] = @ \cup {i}]
    /\ registrar' = Idle
    /\ UNCHANGED <<processors, made, validator, equivalent, cached, now, intakeVars, relayVars>>

AddFirstProcessor == registrar.pc = "add" /\ AddTopicProcessor(registrar.topic, registrar.id)

\* A further processor; an identifier that is there already is refused.
AddProcessor(t, i) ==
    /\ registrar = Idle /\ IsRegistered(t)
    /\ i \notin procs[processors[t]]
    /\ AddTopicProcessor(t, i)

(***************************************************************************)
(* UnregisterMessageProcessor and UnregisterAllMessageProcessors           *)
(***************************************************************************)

\* Mutant: the topic is kept when its last processor goes.
KeepTopic(rest) == FALSE

DropsTopic(rest) == rest = {}

RemoveTopicProcessor(t, i) ==
    /\ registrar = Idle /\ IsRegistered(t)
    /\ i \in procs[processors[t]]
    /\ procs' = [procs EXCEPT ![processors[t]] = @ \ {i}]
    /\ registrar' = IF DropsTopic(procs'[processors[t]]) THEN [pc |-> "drop", topic |-> t]
                    ELSE Idle
    /\ UNCHANGED <<processors, made, validator, equivalent, cached, now, intakeVars, relayVars>>

\* The entry stays in the map, nil.
DropTopic ==
    /\ registrar.pc = "drop"
    /\ processors' = [processors EXCEPT ![registrar.topic] = Nil]
    /\ validator' = [validator EXCEPT ![registrar.topic] = Nil]
    /\ registrar' = Idle
    /\ UNCHANGED <<procs, made, equivalent, cached, now, intakeVars, relayVars>>

UnregisterAll ==
    /\ registrar = Idle
    /\ \E t \in Topics : processors[t] # Absent
    /\ registrar' = [pc |-> "all", left |-> {t \in Topics : processors[t] # Absent}]
    /\ UNCHANGED <<processors, procs, made, validator, equivalent, cached, now, intakeVars,
                   relayVars>>

\* The map's order is random; a topic without a validator, whose entry is nil, ends the
\* loop with an error.
UnregisterNext(t) ==
    /\ registrar.pc = "all" /\ t \in registrar.left
    /\ \/ /\ validator[t] # Nil
          /\ validator' = [validator EXCEPT ![t] = Nil]
          /\ processors' = [processors EXCEPT ![t] = Absent]
          /\ registrar' = IF registrar.left = {t} THEN Idle
                          ELSE [registrar EXCEPT !.left = @ \ {t}]
       \/ validator[t] = Nil /\ registrar' = Idle /\ UNCHANGED <<validator, processors>>
    /\ UNCHANGED <<procs, made, equivalent, cached, now, intakeVars, relayVars>>

(***************************************************************************)
(* Time and pubsub                                                         *)
(***************************************************************************)
Tick ==
    /\ now < MaxTime
    /\ now' = now + 1
    /\ UNCHANGED <<registryVars, intakeVars, relayVars>>

\* time.Unix: whole seconds.
Unix(t) == t \div Second

\* The sweep of pubsub's cache.  Bound: of the messages that may come again.
Forget(m) ==
    /\ seenAt[m] # Never /\ now > seenAt[m] + CacheSeconds * Second
    /\ \E t \in ArriveAt[m] : t >= now
    /\ seenAt' = [seenAt EXCEPT ![m] = Never]
    /\ UNCHANGED <<registryVars, now, validation, with, denied, handed, late, relayVars,
                   overlapped, outlived>>

\* pubsub marks the message as seen and calls the topic's validator, or relays the message
\* when the topic has none.  Bound: one validation of a message at a time.
Arrive(m) ==
    /\ now \in ArriveAt[m]
    /\ seenAt[m] = Never /\ validation[m] = "idle"
    /\ seenAt' = [seenAt EXCEPT ![m] = now]
    /\ late' = [late EXCEPT ![m] = IF handed[m] = 0 THEN Unix(now) > TimestampOf[m] ELSE @]
    /\ with' = [with EXCEPT ![m] = validator[TopicOf[m]]]
    /\ validation' = [validation EXCEPT ![m] = IF with'[m] = Nil THEN "idle" ELSE "check"]
    /\ UNCHANGED <<registryVars, now, denied, handed, relayVars, overlapped, outlived>>

(***************************************************************************)
(* The validator made by pubsubCallback                                    *)
(***************************************************************************)

\* Mutant: a message may be one second older than the cache remembers.
PastOneSecondMore(m) == Unix(now) - CacheSeconds - 1 <= TimestampOf[m]

\* validateMessageByTimestamp: ErrMessageTooOld otherwise.
NotTooOld(m) == Unix(now) - CacheSeconds <= TimestampOf[m]

\* validateMessageByTimestamp: ErrMessageTooNew otherwise.
NotTooNew(m) == Unix(now + AdvanceSeconds * Second) >= TimestampOf[m]

ValidationEnds(m) ==
    /\ validation' = [validation EXCEPT ![m] = "idle"]
    /\ with' = [with EXCEPT ![m] = Nil]

ValidationMoves(m, to) == validation' = [validation EXCEPT ![m] = to] /\ UNCHANGED with

\* blacklistPid, of the peer the message came from and of the originator it names.
Blacklisted(m, p) == denied \cup ({p, From[m]} \ {NoPeer})

\* transformAndCheckMessage: a message that cannot be read has the peer it came from and
\* its originator blacklisted.
Check(m) ==
    /\ validation[m] = "check"
    /\ \/ /\ m \in Malformed
          /\ ValidationEnds(m)
          /\ \E p \in Peers : denied' = Blacklisted(m, p)
       \/ /\ m \notin Malformed /\ NotTooOld(m) /\ NotTooNew(m)
          /\ ValidationMoves(m, "process")
          /\ UNCHANGED denied
       \/ /\ m \notin Malformed /\ ~(NotTooOld(m) /\ NotTooNew(m))
          /\ ValidationEnds(m)
          /\ UNCHANGED denied
    /\ UNCHANGED <<registryVars, now, seenAt, handed, late, relayVars, overlapped, outlived>>

\* The processors of the list are called.  The message is rejected when one of them
\* rejects it, and accepted when it has no identifier or the list is empty.
Process(m) ==
    /\ validation[m] = "process"
    /\ handed' = [handed EXCEPT ![m] = IF procs[with[m]] # {} /\ @ < 2 THEN @ + 1 ELSE @]
    /\ \/ ValidationEnds(m)
       \/ /\ procs[with[m]] # {} /\ EquivalentOf[m] # NoId
          /\ ValidationMoves(m, "lookUp")
    /\ UNCHANGED <<registryVars, now, seenAt, denied, late, relayVars, overlapped, outlived>>

SameId(m, k) == TopicOf[m] = TopicOf[k] /\ EquivalentOf[m] = EquivalentOf[k]

(***************************************************************************)
(* The LRU cache of a topic (external): Get, when it hits, and Put make    *)
(* the identifier the most recent one, and Put drops the least recent one  *)
(* of a full cache.                                                        *)
(***************************************************************************)
Others(c, x) == IF Contains(c, x) THEN RemoveAt(c, CHOOSE i \in DOMAIN c : c[i] = x) ELSE c

\* Mutant: the identifier is not stored.
NotStored(c, x) == c

Used(c, x) ==
    Append(IF Len(Others(c, x)) = equivalentMessagesCacheSize THEN Tail(Others(c, x))
           ELSE Others(c, x), x)

\* The identifier of m is used in the cache of its topic.
UseId(m) ==
    /\ equivalent' = [equivalent EXCEPT ![TopicOf[m]] = Used(@, EquivalentOf[m])]
    /\ used' = [k \in Messages |->
                   CASE k \notin relayed \/ SameId(m, k) -> {}
                     [] k \in relayed /\ TopicOf[k] # TopicOf[m] -> used[k]
                     [] OTHER -> used[k] \cup {EquivalentOf[m]}]

Hit(m) == Contains(equivalent[TopicOf[m]], EquivalentOf[m])

FullOfOthers(m) == Cardinality(used[m]) >= equivalentMessagesCacheSize

\* isEquivalentMessageFirstBroadcast, its first part.  The message is accepted when the
\* topic has no cache yet, and rejected when the identifier is in the cache.
LookUp(m) ==
    /\ validation[m] = "lookUp"
    /\ \/ /\ TopicOf[m] \notin cached
          /\ ValidationEnds(m)
          /\ UNCHANGED <<equivalent, used, overlapped, outlived>>
       \/ /\ TopicOf[m] \in cached /\ Hit(m)
          /\ ValidationEnds(m)
          /\ UseId(m)
          /\ UNCHANGED <<overlapped, outlived>>
       \/ /\ TopicOf[m] \in cached /\ ~Hit(m)
          /\ ValidationMoves(m, "put")
          /\ overlapped' = overlapped \cup
               {{m, k} : k \in {n \in Messages : validation[n] = "put" /\ SameId(m, n)}}
          /\ outlived' = outlived \cup
               {{m, k} : k \in {n \in relayed : FullOfOthers(n) /\ SameId(m, n)}}
          /\ UNCHANGED <<equivalent, used>>
    /\ UNCHANGED <<processors, procs, made, validator, cached, registrar, now, seenAt, denied,
                   handed, late, relayed>>

PutId(m) ==
    /\ validation[m] = "put"
    /\ UseId(m)
    /\ relayed' = relayed \cup {m}
    /\ ValidationEnds(m)
    /\ UNCHANGED <<processors, procs, made, validator, cached, registrar, now, seenAt, denied,
                   handed, late, overlapped, outlived>>

----------------------------------------------------------------------------

RegistrarStep ==
    \/ \E t \in Topics, i \in Identifiers :
         RegisterTopic(t, i) \/ AddProcessor(t, i) \/ RemoveTopicProcessor(t, i)
    \/ MakeCache \/ AddFirstProcessor \/ DropTopic \/ UnregisterAll
    \/ \E t \in Topics : UnregisterNext(t)

ValidationStep(m) == Check(m) \/ Process(m) \/ LookUp(m) \/ PutId(m)

Next ==
    \/ RegistrarStep \/ Tick
    \/ \E m \in Messages : Arrive(m) \/ Forget(m) \/ ValidationStep(m)

Spec == Init /\ [][Next]_vars

(***************************************************************************)
(* Properties                                                              *)
(***************************************************************************)

\* Unless a call is changing the registration, a topic has a validator exactly when it has
\* topicProcessors, the same ones, and at least one processor in them: a message that comes
\* then is not relayed unprocessed, and the topic can be registered again, also after
\* UnregisterAllMessageProcessors stopped half way.
RegistryAgrees ==
    registrar = Idle =>
        \A t \in Topics :
            /\ IsRegistered(t) => validator[t] = processors[t]
            /\ ~IsRegistered(t) => validator[t] = Nil
            /\ validator[t] # Nil => procs[validator[t]] # {}

\* A message that first came after the second of its timestamp is given to processors once
\* at most: by the time pubsub forgets it, it is too old.
LateIsProcessedOnce == \A m \in Messages : late[m] => handed[m] <= 1

\* "not reprocessing nor re-broadcasting the same message over and over again"
\* (checkMessage), for which validateMessageByTimestamp is said to accept
\* "(now-pubsubTimeCacheDuration+acceptMessagesInAdvanceDuration, ...".
ProcessedOnce == \A m \in Messages : handed[m] <= 1

\* Of the messages with one identifier one is relayed, unless their identifiers were looked
\* up by validations that ran together, or the second one's when as many other identifiers
\* as the cache holds had been used since the first one's, as long as the topic keeps its
\* cache.
EquivalentsRelayedOnce ==
    \A m, k \in relayed : m # k /\ SameId(m, k) => {m, k} \in overlapped \cup outlived
============================================================================
