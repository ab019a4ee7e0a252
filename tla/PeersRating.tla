---------------------------- MODULE PeersRating ----------------------------
(***************************************************************************)
(* peersRatingHandler (p2p/rating/peersRatingHandler.go): every peer that  *)
(* is rated is in the top rated or the bad rated cache according to its    *)
(* rating, and requests are directed to the top rated ones first.          *)
(*                                                                         *)
(* The operations run one at a time, under mut.  A rating update is one    *)
(* step; the loop of splitPeersByTiers, which changes the cache it reads,  *)
(* is one step per peer.                                                   *)
(***************************************************************************)
EXTENDS Integers, Sequences, FiniteSets

CONSTANTS
    Peers,
    MinRating, MaxRating,           \* minRating and maxRating
    IncreaseFactor, DecreaseFactor, \* increaseFactor and decreaseFactor
    TopCapacity, BadCapacity,       \* sizes of the two caches
    Lists                           \* bound: the lists given to GetTopRatedPeersFromList

ASSUME RatingsAssumption ==
    /\ MinRating \in Int /\ MaxRating \in Int
    /\ MinRating < 0 /\ 0 <= MaxRating
    /\ IncreaseFactor \in Int /\ DecreaseFactor \in Int
    /\ 0 < IncreaseFactor /\ DecreaseFactor < 0

ASSUME CapacitiesAssumption == TopCapacity \in Nat \ {0} /\ BadCapacity \in Nat \ {0}

ASSUME ListsAssumption ==
    \A l \in Lists : l \in Seq(Peers) /\ \A i, j \in DOMAIN l : l[i] = l[j] => i = j

VARIABLES
    topRated, badRated, \* the caches: functions from the peers they hold to their ratings
    selecting,          \* GetTopRatedPeersFromList runs, and holds mut
    list, wanted, next, \* its arguments, and the place of the loop in the list
    foundTop, foundBad, \* the two lists of splitPeersByTiers
    answer              \* what it returned

cacheVars == <<topRated, badRated>>
selectVars == <<selecting, list, wanted, next, foundTop, foundBad, answer>>
vars == <<topRated, badRated, selecting, list, wanted, next, foundTop, foundBad, answer>>

DefaultRating == 0
Ratings == MinRating..MaxRating

TypeOK ==
    /\ DOMAIN topRated \subseteq Peers /\ topRated \in [DOMAIN topRated -> Ratings]
    /\ DOMAIN badRated \subseteq Peers /\ badRated \in [DOMAIN badRated -> Ratings]
    /\ selecting \in BOOLEAN
    /\ list \in Seq(Peers) /\ wanted \in Nat /\ next \in 1..(Len(list) + 1)
    /\ foundTop \in Seq(Peers) /\ foundBad \in Seq(Peers) /\ answer \in Seq(Peers)

Init ==
    /\ topRated = [p \in {} |-> 0]
    /\ badRated = [p \in {} |-> 0]
    /\ selecting = FALSE
    /\ list = <<>> /\ wanted = 0 /\ next = 1
    /\ foundTop = <<>> /\ foundBad = <<>> /\ answer = <<>>

(***************************************************************************)
(* The caches: external, of a bounded size.                                *)
(***************************************************************************)
Without(cache, p) == [q \in DOMAIN cache \ {p} |-> cache[q]]
With(cache, p, r) == [q \in DOMAIN cache \cup {p} |-> IF q = p THEN r ELSE cache[q]]

\* The caches that may result from Put(p, r): a full cache evicts another peer.
Put(cache, p, r, capacity) ==
    IF p \in DOMAIN cache \/ Cardinality(DOMAIN cache) < capacity
      THEN {With(cache, p, r)}
      ELSE {With(Without(cache, q), p, r) : q \in DOMAIN cache}

Known == DOMAIN topRated \cup DOMAIN badRated

(***************************************************************************)
(* IncreaseRating and DecreaseRating                                       *)
(***************************************************************************)

\* Mutant: the lower limit is left out.
UpperLimitOnly(r) == IF r > MaxRating THEN MaxRating ELSE r

\* updateRating keeps the new rating within the limits.
Limited(r) == IF r > MaxRating THEN MaxRating ELSE IF r < MinRating THEN MinRating ELSE r

\* getOldRating, of a peer that is in one of the caches.
OldRating(p) == IF p \in DOMAIN topRated THEN topRated[p] ELSE badRated[p]

\* computeRatingTier
IsTopRated(r) == r >= DefaultRating

\* updateRating of a new peer: it is stored with the default rating, whatever the update.
RateNewPeer(p) ==
    /\ p \notin Known
    /\ topRated' \in Put(topRated, p, DefaultRating, TopCapacity)
    /\ UNCHANGED badRated

\* updateRatingCacher, the tier does not change.
RateInTier(p, r) ==
    /\ IsTopRated(OldRating(p)) = IsTopRated(r)
    /\ \/ /\ IsTopRated(r)
          /\ topRated' \in Put(topRated, p, r, TopCapacity)
          /\ UNCHANGED badRated
       \/ /\ ~IsTopRated(r)
          /\ badRated' \in Put(badRated, p, r, BadCapacity)
          /\ UNCHANGED topRated

\* Mutant: the peer is not removed from the cache it leaves.
StaysBehind(cache, p) == cache

\* movePeerToNewTier removes the peer from one cache and puts it in the other.
LeavesTier(cache, p) == Without(cache, p)

MoveToNewTier(p, r) ==
    /\ IsTopRated(OldRating(p)) # IsTopRated(r)
    /\ \/ /\ IsTopRated(r)
          /\ badRated' = LeavesTier(badRated, p)
          /\ topRated' \in Put(topRated, p, r, TopCapacity)
       \/ /\ ~IsTopRated(r)
          /\ topRated' = LeavesTier(topRated, p)
          /\ badRated' \in Put(badRated, p, r, BadCapacity)

UpdateRating(p, factor) ==
    /\ ~selecting
    /\ \/ RateNewPeer(p)
       \/ /\ p \in Known
          /\ LET r == Limited(OldRating(p) + factor)
             IN  RateInTier(p, r) \/ MoveToNewTier(p, r)
    /\ UNCHANGED selectVars

(***************************************************************************)
(* GetTopRatedPeersFromList                                                *)
(***************************************************************************)

\* An empty list, or a minimum below minNumOfPeers, is answered with an empty list.
SelectPeers(l, n) ==
    /\ ~selecting
    /\ list' = l /\ wanted' = n /\ next' = 1
    /\ foundTop' = <<>> /\ foundBad' = <<>> /\ answer' = <<>>
    /\ selecting' = (n >= 1 /\ l # <<>>)
    /\ UNCHANGED cacheVars

\* Mutant: only the top rated cache is looked at.
NotTopRated(p) == p \notin DOMAIN topRated

\* isNewPeer
IsNewPeer(p) == p \notin Known

\* One turn of the loop of splitPeersByTiers: a new peer is stored with the default
\* rating and counts as top rated.
SplitNext ==
    LET p == list[next]
    IN  /\ selecting
        /\ next <= Len(list)
        /\ next' = next + 1
        /\ foundTop' = IF p \in DOMAIN topRated \/ IsNewPeer(p)
                         THEN Append(foundTop, p) ELSE foundTop
        /\ foundBad' = IF p \in DOMAIN badRated THEN Append(foundBad, p) ELSE foundBad
        /\ \/ ~IsNewPeer(p) /\ UNCHANGED topRated
           \/ IsNewPeer(p) /\ topRated' \in Put(topRated, p, DefaultRating, TopCapacity)
        /\ UNCHANGED <<badRated, selecting, list, wanted, answer>>

\* Mutant: the bad rated peers are appended one peer too late.
PadTooLate == IF Len(foundTop) + 1 < wanted THEN foundTop \o foundBad ELSE foundTop

\* The bad rated peers are appended when the top rated ones are too few.
Selected == IF Len(foundTop) < wanted THEN foundTop \o foundBad ELSE foundTop

AnswerSelection ==
    /\ selecting
    /\ next > Len(list)
    /\ answer' = Selected
    /\ selecting' = FALSE
    /\ UNCHANGED <<cacheVars, list, wanted, next, foundTop, foundBad>>

----------------------------------------------------------------------------

Next ==
    \/ \E p \in Peers, factor \in {IncreaseFactor, DecreaseFactor} : UpdateRating(p, factor)
    \/ \E l \in Lists : \E n \in 0..(Len(l) + 1) : SelectPeers(l, n)
    \/ SplitNext
    \/ AnswerSelection

Spec == Init /\ [][Next]_vars

(***************************************************************************)
(* Properties                                                              *)
(***************************************************************************)

\* A peer is in one tier at most, and every peer is in the tier of its rating: moves
\* between the tiers, evictions and the peers that splitPeersByTiers adds never leave a
\* rating behind in the other cache (getOldRating would read the wrong one for ever).
TiersAgreeWithRatings ==
    /\ DOMAIN topRated \cap DOMAIN badRated = {}
    /\ \A p \in DOMAIN topRated : IsTopRated(topRated[p])
    /\ \A p \in DOMAIN badRated : ~IsTopRated(badRated[p])

\* What a finished GetTopRatedPeersFromList returned: peers of the list, each once, as
\* many as were wanted if the list has them, and a bad rated one only when the top rated
\* ones did not suffice, although the loop stores and evicts peers while it runs.
SelectionIsRight ==
    (~selecting /\ wanted >= 1 /\ list # <<>>) =>
        /\ \A i \in DOMAIN answer : \E j \in DOMAIN list : answer[i] = list[j]
        /\ \A i, j \in DOMAIN answer : answer[i] = answer[j] => i = j
        /\ Len(answer) >= wanted \/ Len(answer) = Len(list)
        /\ (\E i \in DOMAIN answer, j \in DOMAIN foundBad : answer[i] = foundBad[j])
              => Len(foundTop) < wanted

\* A peer comes from the bad to the top tier only by an increase of the rating it had:
\* no step gives a peer that is still known as bad rated the default rating again.
BadPeersEarnTheirWay ==
    [][\A p \in DOMAIN badRated :
         p \in DOMAIN topRated' => topRated'[p] = Limited(badRated[p] + IncreaseFactor)]_vars
============================================================================
