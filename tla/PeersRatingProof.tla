------------------------- MODULE PeersRatingProof --------------------------
(***************************************************************************)
(* Proofs about PeersRating, for every set of peers, every limits and      *)
(* factors of the ratings, every size of the caches and every list.        *)
(***************************************************************************)
EXTENDS PeersRating, SequenceTheorems, TLAPS

\* A cache: a function from some of the peers to ratings.
Caches == UNION {[D -> Ratings] : D \in SUBSET Peers}

\* The two lists of splitPeersByTiers are a split of the part of the list that the loop
\* has passed: each of its peers is in one of them, once.
SplitInv ==
    /\ \A i, j \in DOMAIN list : list[i] = list[j] => i = j
    /\ Len(foundTop) + Len(foundBad) = next - 1
    /\ \A i \in DOMAIN foundTop : \E k \in 1..(next - 1) : foundTop[i] = list[k]
    /\ \A i \in DOMAIN foundBad : \E k \in 1..(next - 1) : foundBad[i] = list[k]
    /\ \A i, j \in DOMAIN foundTop : foundTop[i] = foundTop[j] => i = j
    /\ \A i, j \in DOMAIN foundBad : foundBad[i] = foundBad[j] => i = j
    /\ \A i \in DOMAIN foundTop, j \in DOMAIN foundBad : foundTop[i] # foundBad[j]

\* The inductive invariant.
IInv == TypeOK /\ TiersAgreeWithRatings /\ SplitInv /\ SelectionIsRight

----------------------------------------------------------------------------
(***************************************************************************)
(* The caches                                                              *)
(***************************************************************************)

\* The type of the caches, in the two forms the proofs need.
LEMMA CacheType ==
    ASSUME NEW c
    PROVE  c \in Caches <=> (DOMAIN c \subseteq Peers /\ c \in [DOMAIN c -> Ratings])
BY DEF Caches

\* The default rating is a rating, of the top rated tier.
LEMMA DefaultIsTop == DefaultRating \in Ratings /\ IsTopRated(DefaultRating)
BY RatingsAssumption DEF DefaultRating, Ratings, IsTopRated

\* updateRating stores a rating between the limits.
LEMMA LimitedType ==
    ASSUME NEW r \in Int PROVE Limited(r) \in Ratings
BY RatingsAssumption DEF Limited, Ratings

\* Remove takes one peer out of a cache and leaves the others alone.
LEMMA WithoutFact ==
    ASSUME NEW c \in Caches, NEW p
    PROVE  /\ Without(c, p) \in Caches
           /\ DOMAIN Without(c, p) = DOMAIN c \ {p}
           /\ \A q \in DOMAIN Without(c, p) : Without(c, p)[q] = c[q]
<1>1. PICK D \in SUBSET Peers : c \in [D -> Ratings]
  BY DEF Caches
<1>2. Without(c, p) \in [D \ {p} -> Ratings]
  BY <1>1 DEF Without
<1> QED
  BY <1>1, <1>2 DEF Without, Caches

\* Put stores the rating; of the other peers it evicts one at most and changes none.
LEMMA PutFact ==
    ASSUME NEW c \in Caches, NEW p \in Peers, NEW r \in Ratings, NEW n,
           NEW d \in Put(c, p, r, n)
    PROVE  /\ d \in Caches
           /\ p \in DOMAIN d /\ d[p] = r
           /\ DOMAIN d \subseteq DOMAIN c \cup {p}
           /\ \A q \in DOMAIN d \ {p} : d[q] = c[q]
<1>1. ASSUME NEW e \in Caches PROVE
         /\ With(e, p, r) \in Caches
         /\ DOMAIN With(e, p, r) = DOMAIN e \cup {p}
         /\ With(e, p, r)[p] = r
         /\ \A q \in DOMAIN e \ {p} : With(e, p, r)[q] = e[q]
  <2>1. PICK D \in SUBSET Peers : e \in [D -> Ratings]
    BY DEF Caches
  <2>2. With(e, p, r) \in [D \cup {p} -> Ratings]
    BY <2>1 DEF With
  <2>3. D \cup {p} \in SUBSET Peers /\ DOMAIN e = D
    BY <2>1
  <2>4. With(e, p, r) \in Caches
    BY <2>2, <2>3 DEF Caches
  <2>5. DOMAIN With(e, p, r) = DOMAIN e \cup {p}
    BY DEF With
  <2>6. With(e, p, r)[p] = r
    BY DEF With
  <2>7. \A q \in DOMAIN e \ {p} : With(e, p, r)[q] = e[q]
    BY DEF With
  <2> QED
    BY <2>4, <2>5, <2>6, <2>7
<1>2. CASE d = With(c, p, r)
  BY <1>1, <1>2
<1>3. CASE \E q \in DOMAIN c : d = With(Without(c, q), p, r)
  <2>1. PICK q \in DOMAIN c : d = With(Without(c, q), p, r)
    BY <1>3
  <2>2. /\ Without(c, q) \in Caches
        /\ DOMAIN Without(c, q) = DOMAIN c \ {q}
        /\ \A x \in DOMAIN Without(c, q) : Without(c, q)[x] = c[x]
    BY WithoutFact
  <2> DEFINE e == Without(c, q)
  <2>3. e \in Caches /\ DOMAIN e = DOMAIN c \ {q} /\ \A x \in DOMAIN e : e[x] = c[x]
    BY <2>2
  <2>4. d = With(e, p, r)
    BY <2>1
  <2> HIDE DEF e
  <2> QED
    BY <1>1, <2>3, <2>4
<1> QED
  BY <1>2, <1>3 DEF Put

----------------------------------------------------------------------------
(***************************************************************************)
(* The tiers                                                               *)
(***************************************************************************)

\* The part of the type and of the tiers that only depends on the caches.
CachesInv == topRated \in Caches /\ badRated \in Caches /\ TiersAgreeWithRatings

\* Storing a new peer keeps the tiers in order.
LEMMA NewPeerKeepsTiers ==
    ASSUME CachesInv, NEW p \in Peers, p \notin Known,
           topRated' \in Put(topRated, p, DefaultRating, TopCapacity), badRated' = badRated
    PROVE  CachesInv'
<1>1. DefaultRating \in Ratings /\ IsTopRated(DefaultRating)
  BY DefaultIsTop
<1>2. /\ topRated' \in Caches
      /\ p \in DOMAIN topRated' /\ topRated'[p] = DefaultRating
      /\ DOMAIN topRated' \subseteq DOMAIN topRated \cup {p}
      /\ \A q \in DOMAIN topRated' \ {p} : topRated'[q] = topRated[q]
  BY <1>1, PutFact DEF CachesInv
<1> QED
  BY <1>1, <1>2 DEF CachesInv, TiersAgreeWithRatings, Known

\* An update of the rating keeps the tiers in order.
LEMMA UpdateKeepsTiers ==
    ASSUME CachesInv, NEW p \in Peers, NEW factor \in {IncreaseFactor, DecreaseFactor},
           UpdateRating(p, factor)
    PROVE  CachesInv'
<1>1. CASE RateNewPeer(p)
  BY <1>1, NewPeerKeepsTiers DEF RateNewPeer
<1>2. ASSUME p \in Known,
             RateInTier(p, Limited(OldRating(p) + factor))
               \/ MoveToNewTier(p, Limited(OldRating(p) + factor))
      PROVE  CachesInv'
  <2> DEFINE r == Limited(OldRating(p) + factor)
  <2>1. OldRating(p) \in Ratings
    BY <1>2 DEF OldRating, Known, CachesInv, Caches
  <2>2. OldRating(p) + factor \in Int
    BY <2>1, RatingsAssumption DEF Ratings
  <2>3. r \in Ratings
    BY <2>2, LimitedType
  <2>4. IsTopRated(OldRating(p)) <=> p \in DOMAIN topRated
    BY <1>2 DEF OldRating, Known, CachesInv, TiersAgreeWithRatings
  <2>5. RateInTier(p, r) \/ MoveToNewTier(p, r)
    BY <1>2
  <2> HIDE DEF r
  <2>6. topRated \in Caches /\ badRated \in Caches
    BY DEF CachesInv
  <2>7. ASSUME topRated' \in Put(topRated, p, r, TopCapacity)
        PROVE  /\ topRated' \in Caches
               /\ p \in DOMAIN topRated' /\ topRated'[p] = r
               /\ DOMAIN topRated' \subseteq DOMAIN topRated \cup {p}
               /\ \A q \in DOMAIN topRated' \ {p} : topRated'[q] = topRated[q]
    BY <2>3, <2>6, <2>7, PutFact
  <2>8. ASSUME badRated' \in Put(badRated, p, r, BadCapacity)
        PROVE  /\ badRated' \in Caches
               /\ p \in DOMAIN badRated' /\ badRated'[p] = r
               /\ DOMAIN badRated' \subseteq DOMAIN badRated \cup {p}
               /\ \A q \in DOMAIN badRated' \ {p} : badRated'[q] = badRated[q]
    BY <2>3, <2>6, <2>8, PutFact
  <2>9. CASE RateInTier(p, r) /\ IsTopRated(r)
    <3>1. topRated' \in Put(topRated, p, r, TopCapacity) /\ badRated' = badRated
             /\ p \in DOMAIN topRated
      BY <2>4, <2>9 DEF RateInTier
    <3> QED
      BY <1>2, <2>7, <2>9, <3>1 DEF CachesInv, TiersAgreeWithRatings
  <2>10. CASE RateInTier(p, r) /\ ~IsTopRated(r)
    <3>1. badRated' \in Put(badRated, p, r, BadCapacity) /\ topRated' = topRated
             /\ p \notin DOMAIN topRated
      BY <2>4, <2>10 DEF RateInTier
    <3> QED
      BY <1>2, <2>8, <2>10, <3>1 DEF CachesInv, TiersAgreeWithRatings
  <2>11. CASE MoveToNewTier(p, r) /\ IsTopRated(r)
    <3>1. topRated' \in Put(topRated, p, r, TopCapacity) /\ badRated' = Without(badRated, p)
      BY <2>11 DEF MoveToNewTier, LeavesTier
    <3>2. /\ badRated' \in Caches
          /\ DOMAIN badRated' = DOMAIN badRated \ {p}
          /\ \A q \in DOMAIN badRated' : badRated'[q] = badRated[q]
      BY <2>6, <3>1, WithoutFact
    <3> QED
      BY <2>7, <2>11, <3>1, <3>2 DEF CachesInv, TiersAgreeWithRatings
  <2>12. CASE MoveToNewTier(p, r) /\ ~IsTopRated(r)
    <3>1. badRated' \in Put(badRated, p, r, BadCapacity) /\ topRated' = Without(topRated, p)
      BY <2>12 DEF MoveToNewTier, LeavesTier
    <3>2. /\ topRated' \in Caches
          /\ DOMAIN topRated' = DOMAIN topRated \ {p}
          /\ \A q \in DOMAIN topRated' : topRated'[q] = topRated[q]
      BY <2>6, <3>1, WithoutFact
    <3> QED
      BY <2>8, <2>12, <3>1, <3>2 DEF CachesInv, TiersAgreeWithRatings
  <2> QED
    BY <2>5, <2>9, <2>10, <2>11, <2>12
<1> QED
  BY <1>1, <1>2 DEF UpdateRating

----------------------------------------------------------------------------
(***************************************************************************)
(* The selection                                                           *)
(***************************************************************************)

\* Appending a value that a list does not hold keeps its values different.
LEMMA AppendDistinct ==
    ASSUME NEW S, NEW s \in Seq(S), NEW x \in S,
           \A i, j \in DOMAIN s : s[i] = s[j] => i = j,
           \A i \in DOMAIN s : s[i] # x
    PROVE  LET t == Append(s, x)
           IN  /\ t \in Seq(S) /\ Len(t) = Len(s) + 1
               /\ \A i \in DOMAIN t : (i \in DOMAIN s /\ t[i] = s[i]) \/ t[i] = x
               /\ \A i, j \in DOMAIN t : t[i] = t[j] => i = j
OBVIOUS

\* One turn of splitPeersByTiers keeps the split.
LEMMA SplitKeepsSplit ==
    ASSUME IInv, SplitNext
    PROVE  /\ SplitInv'
           /\ foundTop' \in Seq(Peers) /\ foundBad' \in Seq(Peers)
<1> DEFINE p == list[next]
<1>1. /\ next \in DOMAIN list /\ p \in Peers /\ next \in Nat
      /\ next' = next + 1 /\ list' = list
      /\ next \in 1..Len(list)
  BY DEF IInv, TypeOK, SplitNext
<1>2. /\ \A i \in DOMAIN foundTop : foundTop[i] # p
      /\ \A i \in DOMAIN foundBad : foundBad[i] # p
  <2>1. ASSUME NEW k \in 1..(next - 1) PROVE list[k] # list[next]
    <3>1. k \in DOMAIN list /\ k # next
      BY <1>1 DEF IInv, TypeOK
    <3> QED
      BY <1>1, <3>1 DEF IInv, SplitInv
  <2> QED
    BY <2>1 DEF IInv, SplitInv
<1>3. \/ foundTop' = Append(foundTop, p) /\ foundBad' = foundBad
      \/ foundTop' = foundTop /\ foundBad' = Append(foundBad, p)
  BY DEF SplitNext, IsNewPeer, Known, IInv, TiersAgreeWithRatings
<1>4. foundTop \in Seq(Peers) /\ foundBad \in Seq(Peers)
  BY DEF IInv, TypeOK
<1>5. SplitInv
  BY DEF IInv
<1>6. /\ \E k \in 1..next : p = list[k]
      /\ \A i \in DOMAIN foundTop : \E k \in 1..next : foundTop[i] = list[k]
      /\ \A i \in DOMAIN foundBad : \E k \in 1..next : foundBad[i] = list[k]
  <2>1. next \in 1..next /\ 1..(next - 1) \subseteq 1..next
    BY <1>1
  <2> QED
    BY <1>5, <2>1 DEF SplitInv
<1>7. /\ Len(foundTop) + Len(foundBad) = next - 1
      /\ Len(foundTop) \in Nat /\ Len(foundBad) \in Nat
  BY <1>4, <1>5, LenProperties DEF SplitInv
<1> HIDE DEF p
<1>8. CASE foundTop' = Append(foundTop, p) /\ foundBad' = foundBad
  <2>1. /\ foundTop' \in Seq(Peers) /\ Len(foundTop') = Len(foundTop) + 1
        /\ \A i \in DOMAIN foundTop' :
             (i \in DOMAIN foundTop /\ foundTop'[i] = foundTop[i]) \/ foundTop'[i] = p
        /\ \A i, j \in DOMAIN foundTop' : foundTop'[i] = foundTop'[j] => i = j
    <3>1. \A i, j \in DOMAIN foundTop : foundTop[i] = foundTop[j] => i = j
      BY <1>5 DEF SplitInv
    <3>2. p \in Peers /\ foundTop \in Seq(Peers) /\ \A i \in DOMAIN foundTop : foundTop[i] # p
      BY <1>1, <1>2, <1>4
    <3>3. foundTop' = Append(foundTop, p)
      BY <1>8
    <3> QED
      BY <3>1, <3>2, <3>3, AppendDistinct
  <2>2. \A i \in DOMAIN foundTop' : \E k \in 1..next : foundTop'[i] = list[k]
    BY <1>6, <2>1
  <2>3. \A i \in DOMAIN foundBad' : \E k \in 1..next : foundBad'[i] = list[k]
    BY <1>8, <1>6
  <2>4. \A i \in DOMAIN foundTop', j \in DOMAIN foundBad' : foundTop'[i] # foundBad'[j]
    BY <1>2, <1>5, <1>8, <2>1 DEF SplitInv
  <2>5. Len(foundTop') + Len(foundBad') = next' - 1
    <3>1. Len(foundTop') = Len(foundTop) + 1 /\ Len(foundBad') = Len(foundBad)
      BY <1>8, <2>1
    <3> QED
      BY <1>1, <1>7, <3>1
  <2>6. next' - 1 = next
    BY <1>1
  <2>7. \A i, j \in DOMAIN list' : list'[i] = list'[j] => i = j
    BY <1>1, <1>5 DEF SplitInv
  <2>8. \A i \in DOMAIN foundTop' : \E k \in 1..(next' - 1) : foundTop'[i] = list'[k]
    BY <1>1, <2>2, <2>6
  <2>9. \A i \in DOMAIN foundBad' : \E k \in 1..(next' - 1) : foundBad'[i] = list'[k]
    BY <1>1, <2>3, <2>6
  <2>10. \A i, j \in DOMAIN foundBad' : foundBad'[i] = foundBad'[j] => i = j
    BY <1>5, <1>8 DEF SplitInv
  <2>11. foundTop' \in Seq(Peers) /\ foundBad' \in Seq(Peers)
    BY <1>4, <1>8, <2>1
  <2>12. SplitInv'
    BY <2>1, <2>4, <2>5, <2>7, <2>8, <2>9, <2>10 DEF SplitInv
  <2> QED
    BY <2>11, <2>12
<1>9. CASE foundTop' = foundTop /\ foundBad' = Append(foundBad, p)
  <2>1. /\ foundBad' \in Seq(Peers) /\ Len(foundBad') = Len(foundBad) + 1
        /\ \A i \in DOMAIN foundBad' :
             (i \in DOMAIN foundBad /\ foundBad'[i] = foundBad[i]) \/ foundBad'[i] = p
        /\ \A i, j \in DOMAIN foundBad' : foundBad'[i] = foundBad'[j] => i = j
    <3>1. \A i, j \in DOMAIN foundBad : foundBad[i] = foundBad[j] => i = j
      BY <1>5 DEF SplitInv
    <3>2. p \in Peers /\ foundBad \in Seq(Peers) /\ \A i \in DOMAIN foundBad : foundBad[i] # p
      BY <1>1, <1>2, <1>4
    <3>3. foundBad' = Append(foundBad, p)
      BY <1>9
    <3> QED
      BY <3>1, <3>2, <3>3, AppendDistinct
  <2>2. \A i \in DOMAIN foundBad' : \E k \in 1..next : foundBad'[i] = list[k]
    BY <1>6, <2>1
  <2>3. \A i \in DOMAIN foundTop' : \E k \in 1..next : foundTop'[i] = list[k]
    BY <1>9, <1>6
  <2>4. \A i \in DOMAIN foundTop', j \in DOMAIN foundBad' : foundTop'[i] # foundBad'[j]
    BY <1>2, <1>5, <1>9, <2>1 DEF SplitInv
  <2>5. Len(foundTop') + Len(foundBad') = next' - 1
    <3>1. Len(foundBad') = Len(foundBad) + 1 /\ Len(foundTop') = Len(foundTop)
      BY <1>9, <2>1
    <3> QED
      BY <1>1, <1>7, <3>1
  <2>6. next' - 1 = next
    BY <1>1
  <2>7. \A i, j \in DOMAIN list' : list'[i] = list'[j] => i = j
    BY <1>1, <1>5 DEF SplitInv
  <2>8. \A i \in DOMAIN foundBad' : \E k \in 1..(next' - 1) : foundBad'[i] = list'[k]
    BY <1>1, <2>2, <2>6
  <2>9. \A i \in DOMAIN foundTop' : \E k \in 1..(next' - 1) : foundTop'[i] = list'[k]
    BY <1>1, <2>3, <2>6
  <2>10. \A i, j \in DOMAIN foundTop' : foundTop'[i] = foundTop'[j] => i = j
    BY <1>5, <1>9 DEF SplitInv
  <2>11. foundTop' \in Seq(Peers) /\ foundBad' \in Seq(Peers)
    BY <1>4, <1>9, <2>1
  <2>12. SplitInv'
    BY <2>1, <2>4, <2>5, <2>7, <2>8, <2>9, <2>10 DEF SplitInv
  <2> QED
    BY <2>11, <2>12
<1> QED
  BY <1>3, <1>8, <1>9

\* When the loop has passed the whole list, the answer is right.
LEMMA AnswerIsRight ==
    ASSUME IInv, AnswerSelection
    PROVE  SelectionIsRight' /\ answer' \in Seq(Peers)
<1>1. /\ foundTop \in Seq(Peers) /\ foundBad \in Seq(Peers) /\ list \in Seq(Peers)
      /\ wanted \in Nat /\ next = Len(list) + 1
      /\ list' = list /\ wanted' = wanted /\ foundTop' = foundTop /\ foundBad' = foundBad
      /\ answer' = Selected
  BY DEF IInv, TypeOK, AnswerSelection
<1>2. SplitInv
  BY DEF IInv
<1>3. Len(foundTop) + Len(foundBad) = Len(list) /\ next - 1 = Len(list)
  BY <1>1, <1>2, LenProperties DEF SplitInv
<1>4. CASE Len(foundTop) < wanted
  <2>1. answer' = foundTop \o foundBad
    BY <1>1, <1>4 DEF Selected
  <2>2. /\ answer' \in Seq(Peers) /\ Len(answer') = Len(list)
        /\ \A i \in DOMAIN answer' :
              \/ i \in DOMAIN foundTop /\ answer'[i] = foundTop[i]
              \/ /\ i - Len(foundTop) \in DOMAIN foundBad
                 /\ answer'[i] = foundBad[i - Len(foundTop)]
                 /\ i \in Nat
    BY <1>1, <1>3, <2>1
  <2>3. \A i \in DOMAIN answer' : \E j \in DOMAIN list : answer'[i] = list[j]
    <3>1. DOMAIN list = 1..(next - 1)
      BY <1>1, <1>3, LenProperties
    <3>2. /\ \A i \in DOMAIN foundTop : \E j \in DOMAIN list : foundTop[i] = list[j]
          /\ \A i \in DOMAIN foundBad : \E j \in DOMAIN list : foundBad[i] = list[j]
      BY <1>2, <3>1 DEF SplitInv
    <3> TAKE i \in DOMAIN answer'
    <3>3. CASE i \in DOMAIN foundTop /\ answer'[i] = foundTop[i]
      BY <3>2, <3>3
    <3>4. CASE /\ i - Len(foundTop) \in DOMAIN foundBad
               /\ answer'[i] = foundBad[i - Len(foundTop)]
      BY <3>2, <3>4
    <3> QED
      BY <2>2, <3>3, <3>4
  <2>4. \A i, j \in DOMAIN answer' : answer'[i] = answer'[j] => i = j
    <3> SUFFICES ASSUME NEW i \in DOMAIN answer', NEW j \in DOMAIN answer',
                        answer'[i] = answer'[j]
                 PROVE  i = j
      OBVIOUS
    <3>1. CASE i \in DOMAIN foundTop /\ answer'[i] = foundTop[i]
      <4>1. CASE j \in DOMAIN foundTop /\ answer'[j] = foundTop[j]
        BY <1>2, <3>1, <4>1 DEF SplitInv
      <4>2. CASE /\ j - Len(foundTop) \in DOMAIN foundBad
                 /\ answer'[j] = foundBad[j - Len(foundTop)]
        BY <1>2, <3>1, <4>2 DEF SplitInv
      <4> QED
        BY <2>2, <4>1, <4>2
    <3>2. CASE /\ i - Len(foundTop) \in DOMAIN foundBad
               /\ answer'[i] = foundBad[i - Len(foundTop)] /\ i \in Nat
      <4>1. CASE j \in DOMAIN foundTop /\ answer'[j] = foundTop[j]
        BY <1>2, <3>2, <4>1 DEF SplitInv
      <4>2. CASE /\ j - Len(foundTop) \in DOMAIN foundBad
                 /\ answer'[j] = foundBad[j - Len(foundTop)] /\ j \in Nat
        <5>1. i - Len(foundTop) = j - Len(foundTop)
          BY <1>2, <3>2, <4>2 DEF SplitInv
        <5> QED
          BY <1>1, <3>2, <4>2, <5>1, LenProperties
      <4> QED
        BY <2>2, <4>1, <4>2
    <3> QED
      BY <2>2, <3>1, <3>2
  <2> QED
    BY <1>1, <1>4, <2>2, <2>3, <2>4 DEF SelectionIsRight
<1>5. CASE ~(Len(foundTop) < wanted)
  <2>1. answer' = foundTop /\ Len(foundTop) >= wanted
    BY <1>1, <1>5, LenProperties DEF Selected
  <2>2. \A i \in DOMAIN foundTop : \E j \in DOMAIN list : foundTop[i] = list[j]
    BY <1>1, <1>2, <1>3 DEF SplitInv
  <2> QED
    BY <1>1, <1>2, <2>1, <2>2 DEF SelectionIsRight, SplitInv
<1> QED
  BY <1>4, <1>5

----------------------------------------------------------------------------
(***************************************************************************)
(* The theorems                                                            *)
(***************************************************************************)

\* The invariant holds, whatever updates and selections run: the caches keep the peers
\* in the tier of their rating, which is what makes the split of the list a split.
THEOREM InvariantHolds == Spec => []IInv
<1>1. Init => IInv
  <2> SUFFICES ASSUME Init PROVE IInv
    OBVIOUS
  <2>1. TypeOK
    <3>1. topRated \in [{} -> Ratings] /\ badRated \in [{} -> Ratings]
      BY DEF Init
    <3>2. DOMAIN topRated = {} /\ DOMAIN badRated = {}
      BY DEF Init
    <3>3. <<>> \in Seq(Peers) /\ Len(<<>>) = 0
      OBVIOUS
    <3>4. /\ DOMAIN topRated \subseteq Peers /\ topRated \in [DOMAIN topRated -> Ratings]
          /\ DOMAIN badRated \subseteq Peers /\ badRated \in [DOMAIN badRated -> Ratings]
      BY <3>1, <3>2, Zenon
    <3>5. /\ selecting = FALSE /\ list = <<>> /\ wanted = 0 /\ next = 1
          /\ foundTop = <<>> /\ foundBad = <<>> /\ answer = <<>>
      BY DEF Init
    <3>6. /\ list \in Seq(Peers) /\ wanted \in Nat /\ next \in 1..(Len(list) + 1)
          /\ foundTop \in Seq(Peers) /\ foundBad \in Seq(Peers) /\ answer \in Seq(Peers)
      BY <3>3, <3>5
    <3> QED
      BY <3>4, <3>5, <3>6 DEF TypeOK
  <2>2. TiersAgreeWithRatings /\ SplitInv /\ SelectionIsRight
    BY DEF Init, TiersAgreeWithRatings, SplitInv, SelectionIsRight
  <2> QED
    BY <2>1, <2>2 DEF IInv
<1>2. IInv /\ [Next]_vars => IInv'
  <2> SUFFICES ASSUME IInv, [Next]_vars PROVE IInv'
    OBVIOUS
  <2>1. CachesInv
    BY CacheType DEF IInv, TypeOK, CachesInv
  <2>2. ASSUME CachesInv'
        PROVE  /\ DOMAIN topRated' \subseteq Peers /\ topRated' \in [DOMAIN topRated' -> Ratings]
               /\ DOMAIN badRated' \subseteq Peers /\ badRated' \in [DOMAIN badRated' -> Ratings]
               /\ TiersAgreeWithRatings'
    BY <2>2, CacheType DEF CachesInv
  <2>3. ASSUME NEW p \in Peers, NEW factor \in {IncreaseFactor, DecreaseFactor},
               UpdateRating(p, factor)
        PROVE  IInv'
    <3>1. CachesInv'
      BY <2>1, <2>3, UpdateKeepsTiers
    <3>2. UNCHANGED selectVars
      BY <2>3 DEF UpdateRating
    <3> QED
      BY <2>2, <3>1, <3>2 DEF IInv, TypeOK, SplitInv, SelectionIsRight, selectVars
  <2>4. ASSUME NEW l \in Lists, NEW n \in 0..(Len(l) + 1), SelectPeers(l, n) PROVE IInv'
    <3>1. l \in Seq(Peers) /\ (\A i, j \in DOMAIN l : l[i] = l[j] => i = j)
      BY ListsAssumption
    <3>2. TypeOK'
      BY <2>4, <3>1, LenProperties DEF SelectPeers, cacheVars, IInv, TypeOK
    <3>3. SplitInv'
      BY <2>4, <3>1 DEF SelectPeers, SplitInv
    <3>4. SelectionIsRight' /\ TiersAgreeWithRatings'
      BY <2>4, <3>1 DEF SelectPeers, SelectionIsRight, cacheVars, IInv, TiersAgreeWithRatings
    <3> QED
      BY <3>2, <3>3, <3>4 DEF IInv
  <2>5. ASSUME SplitNext PROVE IInv'
    <3>1. SplitInv' /\ foundTop' \in Seq(Peers) /\ foundBad' \in Seq(Peers)
      BY <2>5, SplitKeepsSplit
    <3>2. CachesInv'
      <4>1. list[next] \in Peers /\ badRated' = badRated
        BY <2>5 DEF SplitNext, IInv, TypeOK
      <4>2. CASE ~IsNewPeer(list[next]) /\ topRated' = topRated
        BY <2>1, <4>1, <4>2 DEF CachesInv, TiersAgreeWithRatings
      <4>3. CASE /\ IsNewPeer(list[next])
                 /\ topRated' \in Put(topRated, list[next], DefaultRating, TopCapacity)
        BY <2>1, <4>1, <4>3, NewPeerKeepsTiers DEF IsNewPeer
      <4> QED
        BY <2>5, <4>2, <4>3 DEF SplitNext
    <3>3. /\ next' \in 1..(Len(list') + 1) /\ selecting' = TRUE
          /\ list' = list /\ wanted' = wanted /\ answer' = answer
      BY <2>5 DEF SplitNext, IInv, TypeOK
    <3> QED
      BY <2>2, <3>1, <3>2, <3>3 DEF IInv, TypeOK, SelectionIsRight
  <2>6. ASSUME AnswerSelection PROVE IInv'
    <3>1. SelectionIsRight' /\ answer' \in Seq(Peers)
      BY <2>6, AnswerIsRight
    <3>2. /\ topRated' = topRated /\ badRated' = badRated /\ list' = list /\ next' = next
          /\ foundTop' = foundTop /\ foundBad' = foundBad /\ wanted' = wanted
          /\ selecting' = FALSE
      BY <2>6 DEF AnswerSelection, cacheVars
    <3>3. TypeOK'
      BY <3>1, <3>2 DEF IInv, TypeOK
    <3>4. TiersAgreeWithRatings'
      BY <3>2 DEF IInv, TiersAgreeWithRatings
    <3>5. SplitInv'
      BY <3>2 DEF IInv, SplitInv
    <3> QED
      BY <3>1, <3>3, <3>4, <3>5 DEF IInv
  <2>7. CASE UNCHANGED vars
    BY <2>7 DEF IInv, TypeOK, TiersAgreeWithRatings, SplitInv, SelectionIsRight, vars
  <2> QED
    BY <2>3, <2>4, <2>5, <2>6, <2>7 DEF Next
<1> QED
  BY <1>1, <1>2, PTL DEF Spec

\* Every rating the caches hold is between minRating and maxRating, and the variables
\* of a selection have their types.
THEOREM TypeCorrect == Spec => []TypeOK
<1>1. IInv => TypeOK
  BY DEF IInv
<1> QED
  BY <1>1, InvariantHolds, PTL

\* Whatever is evicted from the caches, no peer is ever in both of them, and each is in
\* the one of its rating.
THEOREM TiersAgree == Spec => []TiersAgreeWithRatings
<1>1. IInv => TiersAgreeWithRatings
  BY DEF IInv
<1> QED
  BY <1>1, InvariantHolds, PTL

\* GetTopRatedPeersFromList answers every list without repetitions with enough peers of
\* it, each once, for every size of the caches: the evictions of its own loop do no harm.
THEOREM SelectionCorrect == Spec => []SelectionIsRight
<1>1. IInv => SelectionIsRight
  BY DEF IInv
<1> QED
  BY <1>1, InvariantHolds, PTL

\* A bad rated peer gets into the top rated cache only by an increase of its rating.
THEOREM BadPeersRise == Spec => BadPeersEarnTheirWay
<1> DEFINE Step ==
      \A p \in DOMAIN badRated :
        p \in DOMAIN topRated' => topRated'[p] = Limited(badRated[p] + IncreaseFactor)
<1>1. IInv /\ [Next]_vars => (Step \/ UNCHANGED vars)
  <2> SUFFICES ASSUME IInv, Next, NEW p \in DOMAIN badRated, p \in DOMAIN topRated'
               PROVE  topRated'[p] = Limited(badRated[p] + IncreaseFactor)
    OBVIOUS
  <2>1. CachesInv /\ topRated \in Caches /\ badRated \in Caches /\ p \notin DOMAIN topRated
    BY CacheType DEF IInv, TypeOK, CachesInv, TiersAgreeWithRatings
  <2>2. topRated' # topRated
    BY <2>1
  <2>3. ASSUME NEW q \in Peers, NEW r \in Ratings, topRated' \in Put(topRated, q, r, TopCapacity)
        PROVE  p = q /\ topRated'[p] = r
    BY <2>1, <2>3, PutFact
  <2>4. ASSUME NEW q \in Peers, NEW factor \in {IncreaseFactor, DecreaseFactor},
               UpdateRating(q, factor)
        PROVE  topRated'[p] = Limited(badRated[p] + IncreaseFactor)
    <3> DEFINE r == Limited(OldRating(q) + factor)
    <3>1. CASE RateNewPeer(q)
      BY <2>3, <3>1, DefaultIsTop DEF RateNewPeer, Known
    <3>2. CASE q \in Known /\ (RateInTier(q, r) \/ MoveToNewTier(q, r))
      <4>1. OldRating(q) \in Ratings
        BY <2>1, <3>2 DEF OldRating, Known, Caches
      <4>2. OldRating(q) + factor \in Int
        BY <4>1, RatingsAssumption DEF Ratings
      <4>3. r \in Ratings
        BY <4>2, LimitedType
      <4>4. IsTopRated(OldRating(q)) <=> q \in DOMAIN topRated
        BY <3>2 DEF OldRating, Known, IInv, TiersAgreeWithRatings
      <4>5. topRated' \in Put(topRated, q, r, TopCapacity)
        <5>1. DOMAIN Without(topRated, q) = DOMAIN topRated \ {q}
          BY <2>1, WithoutFact
        <5>2. topRated' # Without(topRated, q)
          BY <2>1, <5>1
        <5> QED
          BY <2>2, <3>2, <5>2 DEF RateInTier, MoveToNewTier, LeavesTier
      <4>6. p = q /\ topRated'[p] = r
        BY <2>3, <4>3, <4>5
      <4>7. OldRating(q) = badRated[p] /\ ~IsTopRated(OldRating(q))
        BY <2>1, <4>4, <4>6 DEF OldRating
      <4>8. IsTopRated(r)
        <5>1. DOMAIN Without(topRated, q) = DOMAIN topRated \ {q}
          BY <2>1, WithoutFact
        <5>2. topRated' # Without(topRated, q)
          BY <2>1, <5>1
        <5> QED
          BY <2>2, <3>2, <4>7, <5>2 DEF RateInTier, MoveToNewTier, LeavesTier
      <4>9. factor = IncreaseFactor
        BY <4>1, <4>7, <4>8, RatingsAssumption DEF Limited, IsTopRated, DefaultRating, Ratings
      <4> QED
        BY <4>6, <4>7, <4>9
    <3> QED
      BY <2>4, <3>1, <3>2 DEF UpdateRating
  <2>5. CASE SplitNext
    <3>1. /\ IsNewPeer(list[next])
          /\ topRated' \in Put(topRated, list[next], DefaultRating, TopCapacity)
          /\ list[next] \in Peers
      BY <2>2, <2>5 DEF SplitNext, IInv, TypeOK
    <3> QED
      BY <2>3, <3>1, DefaultIsTop DEF IsNewPeer, Known
  <2>6. ~(\E l \in Lists : \E n \in 0..(Len(l) + 1) : SelectPeers(l, n)) /\ ~AnswerSelection
    BY <2>2 DEF SelectPeers, AnswerSelection, cacheVars
  <2> QED
    BY <2>4, <2>5, <2>6 DEF Next
<1> QED
  BY <1>1, InvariantHolds, PTL DEF Spec, BadPeersEarnTheirWay
============================================================================
