-------------------------- MODULE ConnectionsProof --------------------------
(***************************************************************************)
(* For every set of peers, distances and limits, and for both sharders:    *)
(* the sharder evicts what its reference says, and when the callbacks have *)
(* ended the node is within its limits.                                    *)
(*                                                                         *)
(* The discoverers (Discovery, as the instance Disc), for any number of    *)
(* seeders and callers: Bootstrap answers exactly who waits, and nobody    *)
(* waits for a goroutine that is gone.                                     *)
(***************************************************************************)
EXTENDS Connections, FiniteSetTheorems, TLAPS

\* The sharder evicts nobody of the peers S.
Fits(S) == {} \in EvictionLists(sharder, S, kind, preferred)

\* Connected peers whose callback is yet to look at the denial evaluator and the peers.
Fresh == {p \in Peers : callback[p].pc = "denied?"}
Old == connected \ Fresh

Callbacks == [pc : {"done", "denied?", "put", "compute", "evict"},
              peers : SUBSET Peers, late : BOOLEAN, list : SUBSET Peers]
CallbacksOK ==
    /\ callback \in [Peers -> Callbacks] /\ connected \subseteq Peers
    /\ settled \in BOOLEAN

Asked(p) == callback[p].pc \in {"put", "compute"}

\* A callback that is not late saw every peer that is connected now.
SeesAll == \A p \in Peers : Asked(p) /\ ~callback[p].late => connected \subseteq callback[p].peers

\* The old peers are within the limits, or a callback is about to see to it: one that saw
\* all of them and will compute its list, or one whose list is enough.
Limited ==
    settled =>
        \/ Fits(Old)
        \/ \E p \in Peers : Asked(p) /\ Old \subseteq callback[p].peers
        \/ \E p \in Peers : callback[p].pc = "evict" /\ Fits(Old \ callback[p].list)

IInv == CallbacksOK /\ SeesAll /\ Limited

-----------------------------------------------------------------------------
(* What the sharders keep. *)

\* The chain has five kinds, each with a maximum.
LEMMA ChainFacts ==
  /\ DOMAIN Chain = 1..5 /\ \A i \in 1..5 : Chain[i] \in ChainKinds
  /\ \A k \in ChainKinds : \E i \in 1..5 : Chain[i] = k
  /\ \A k \in ChainKinds : Maximum[k] \in Nat
<1>1. DOMAIN Chain = 1..5
  BY DEF Chain
<1>2. ChainKinds = {"intraShardValidators", "crossShardValidators", "intraShardObservers",
                    "crossShardObservers", "unknown"}
  <2>1. ChainKinds = {Chain[i] : i \in 1..5}
    BY <1>1 DEF ChainKinds
  <2> QED BY <2>1 DEF Chain
<1>3. \A i \in 1..5 : Chain[i] \in ChainKinds
  BY <1>1 DEF ChainKinds
<1>4. \A k \in ChainKinds : \E i \in 1..5 : Chain[i] = k
  BY <1>1 DEF ChainKinds
<1>5. /\ MaxIntraShardValidators \in Nat /\ MaxCrossShardValidators \in Nat
      /\ MaxIntraShardObservers \in Nat /\ MaxCrossShardObservers \in Nat
      /\ TargetPeerCount - Provided \in Nat /\ MaxSeeders \in Nat
  BY SharderAssumption DEF Provided
<1>6. \A k \in ChainKinds : Maximum[k] \in Nat
  BY <1>2, <1>5 DEF Maximum
<1> QED BY <1>1, <1>3, <1>4, <1>6

\* What computeUsedAndSpare returns.
LEMMA UsedFacts ==
  ASSUME NEW existing \in Nat, NEW maximum \in Nat
  PROVE  LET us == ComputeUsedAndSpare(existing, maximum)
         IN  /\ us[1] \in Nat /\ us[2] \in Nat /\ us[1] =< existing /\ us[1] + us[2] = maximum
             /\ existing =< us[1] <=> existing =< maximum
BY DEF ComputeUsedAndSpare

\* A kind that keeps no more than was used of it before, and has at least as much to
\* spare from the kinds before it, evicts nobody and leaves at least as much to spare.
LEMMA KeptStep ==
  ASSUME NEW n \in Nat, NEW m \in Nat, NEW maximum \in Nat, NEW r \in Nat, NEW t \in Nat, r =< t,
         m =< ComputeUsedAndSpare(n, maximum + r)[1]
  PROVE  /\ m =< ComputeUsedAndSpare(m, maximum + t)[1]
         /\ ComputeUsedAndSpare(n, maximum + r)[2] =< ComputeUsedAndSpare(m, maximum + t)[2]
BY DEF ComputeUsedAndSpare

\* What evict leaves: no more than numKeep.
LEMMA EvictsLeaves ==
  ASSUME NEW list, IsFiniteSet(list), NEW e \in SUBSET list, NEW n \in Nat, Evicts(e, list, n)
  PROVE  Cardinality(list \ e) =< n
<1>1. Cardinality(list) \in Nat /\ Cardinality(e) \in Nat
  BY FS_Subset, FS_CardinalityType
<1>2. Cardinality(list \ e) = Cardinality(list) - Cardinality(e)
  <2>1. list \cap e = e
    OBVIOUS
  <2> QED BY <2>1, FS_Difference
<1>3. \A x \in Int : Max({0, x}) >= x
  <2> SUFFICES ASSUME NEW x \in Int PROVE Max({0, x}) >= x
    OBVIOUS
  <2>1. \E y \in {0, x} : \A z \in {0, x} : y >= z
    OBVIOUS
  <2> QED BY <2>1 DEF Max
<1> QED BY <1>1, <1>2, <1>3 DEF Evicts

\* evict returns nobody exactly when the list is no longer than numKeep.
LEMMA EvictsNone ==
  ASSUME NEW list, IsFiniteSet(list), NEW n \in Nat
  PROVE  Evicts({}, list, n) <=> Cardinality(list) =< n
<1>1. Cardinality(list) \in Nat /\ Cardinality({}) = 0
  BY FS_EmptySet, FS_CardinalityType
<1>2. \A x \in Int : Max({0, x}) = 0 <=> x =< 0
  <2> SUFFICES ASSUME NEW x \in Int PROVE Max({0, x}) = 0 <=> x =< 0
    OBVIOUS
  <2>1. \E y \in {0, x} : \A z \in {0, x} : y >= z
    OBVIOUS
  <2>2. Max({0, x}) \in {0, x} /\ \A z \in {0, x} : Max({0, x}) >= z
    BY <2>1 DEF Max
  <2> QED BY <2>2
<1> QED BY <1>1, <1>2 DEF Evicts

Size(lists, i) == Cardinality(lists[Chain[i]])

\* What a kind may use besides its maximum.
Before(us, i) == IF i = 1 THEN 0 ELSE us[i - 1][2]

\* The chain of calls of computeUsedAndSpare in ComputeEvictionList.
LEMMA UsedChain ==
  ASSUME NEW lists, \A k \in ChainKinds : IsFiniteSet(lists[k])
  PROVE  LET us == UsedAndSpare(lists)
         IN  \A i \in 1..5 :
               /\ us[i] = ComputeUsedAndSpare(Size(lists, i), Maximum[Chain[i]] + Before(us, i))
               /\ Size(lists, i) \in Nat /\ us[i][1] \in Nat /\ us[i][2] \in Nat
               /\ us[i][1] =< Size(lists, i) /\ Before(us, i) \in Nat
<1> DEFINE us == UsedAndSpare(lists)
<1>1. \A i \in 1..5 : Size(lists, i) \in Nat /\ Maximum[Chain[i]] \in Nat
  BY ChainFacts, FS_CardinalityType DEF Size
<1>2. /\ us[1] = ComputeUsedAndSpare(Size(lists, 1), Maximum[Chain[1]] + 0)
      /\ us[2] = ComputeUsedAndSpare(Size(lists, 2), Maximum[Chain[2]] + us[1][2])
      /\ us[3] = ComputeUsedAndSpare(Size(lists, 3), Maximum[Chain[3]] + us[2][2])
      /\ us[4] = ComputeUsedAndSpare(Size(lists, 4), Maximum[Chain[4]] + us[3][2])
      /\ us[5] = ComputeUsedAndSpare(Size(lists, 5), Maximum[Chain[5]] + us[4][2])
  BY DEF UsedAndSpare, Size
<1> HIDE DEF us
<1>3. \A i \in 1..5 : i = 1 \/ i = 2 \/ i = 3 \/ i = 4 \/ i = 5
  OBVIOUS
<1>4. \A i \in 1..5 :
        us[i] = ComputeUsedAndSpare(Size(lists, i), Maximum[Chain[i]] + Before(us, i))
  <2> SUFFICES ASSUME NEW i \in 1..5
               PROVE  us[i] = ComputeUsedAndSpare(Size(lists, i), Maximum[Chain[i]] + Before(us, i))
    OBVIOUS
  <2>1. CASE i = 1
    BY <1>2, <2>1 DEF Before
  <2>2. CASE i = 2
    BY <1>2, <2>2 DEF Before
  <2>3. CASE i = 3
    BY <1>2, <2>3 DEF Before
  <2>4. CASE i = 4
    BY <1>2, <2>4 DEF Before
  <2>5. CASE i = 5
    BY <1>2, <2>5 DEF Before
  <2> QED BY <1>3, <2>1, <2>2, <2>3, <2>4, <2>5
<1> DEFINE OK(i) == /\ us[i][1] \in Nat /\ us[i][2] \in Nat /\ us[i][1] =< Size(lists, i)
                    /\ Before(us, i) \in Nat
<1>5. ASSUME NEW i \in 1..5, Before(us, i) \in Nat PROVE OK(i)
  <2>1. Maximum[Chain[i]] + Before(us, i) \in Nat /\ Size(lists, i) \in Nat
    BY <1>1, <1>5
  <2> QED BY <1>4, <1>5, <2>1, UsedFacts
<1>6. OK(1)
  BY <1>5 DEF Before
<1>7. OK(2)
  BY <1>5, <1>6 DEF Before
<1>8. OK(3)
  BY <1>5, <1>7 DEF Before
<1>9. OK(4)
  BY <1>5, <1>8 DEF Before
<1>10. OK(5)
  BY <1>5, <1>9 DEF Before
<1>11. \A i \in 1..5 : OK(i)
  BY <1>3, <1>6, <1>7, <1>8, <1>9, <1>10
<1> QED BY <1>1, <1>4, <1>11 DEF us

\* Lists with no more peers of each kind than were kept of other lists are kept whole.
LEMMA KeptIsKept ==
  ASSUME NEW lists, \A k \in ChainKinds : IsFiniteSet(lists[k]),
         NEW kept, \A k \in ChainKinds : IsFiniteSet(kept[k]),
         \A i \in 1..5 : Size(kept, i) =< UsedAndSpare(lists)[i][1]
  PROVE  \A i \in 1..5 : Size(kept, i) =< UsedAndSpare(kept)[i][1]
<1> DEFINE us == UsedAndSpare(lists)
           ks == UsedAndSpare(kept)
<1>1. \A i \in 1..5 :
        /\ us[i] = ComputeUsedAndSpare(Size(lists, i), Maximum[Chain[i]] + Before(us, i))
        /\ Size(lists, i) \in Nat /\ us[i][1] \in Nat /\ us[i][2] \in Nat
        /\ us[i][1] =< Size(lists, i) /\ Before(us, i) \in Nat
  BY UsedChain
<1>2. \A i \in 1..5 :
        /\ ks[i] = ComputeUsedAndSpare(Size(kept, i), Maximum[Chain[i]] + Before(ks, i))
        /\ Size(kept, i) \in Nat /\ ks[i][1] \in Nat /\ ks[i][2] \in Nat
        /\ ks[i][1] =< Size(kept, i) /\ Before(ks, i) \in Nat
  BY UsedChain
<1>3. \A i \in 1..5 : Maximum[Chain[i]] \in Nat /\ Size(kept, i) =< us[i][1]
  BY ChainFacts
<1> HIDE DEF us, ks
<1> DEFINE OK(i) == Size(kept, i) =< ks[i][1] /\ us[i][2] =< ks[i][2]
<1>4. ASSUME NEW i \in 1..5, Before(us, i) =< Before(ks, i) PROVE OK(i)
  <2>1. /\ us[i] = ComputeUsedAndSpare(Size(lists, i), Maximum[Chain[i]] + Before(us, i))
        /\ ks[i] = ComputeUsedAndSpare(Size(kept, i), Maximum[Chain[i]] + Before(ks, i))
    BY <1>1, <1>2
  <2>2. /\ Size(lists, i) \in Nat /\ Size(kept, i) \in Nat /\ Maximum[Chain[i]] \in Nat
        /\ Before(us, i) \in Nat /\ Before(ks, i) \in Nat
    BY <1>1, <1>2, <1>3
  <2>3. Size(kept, i) =< ComputeUsedAndSpare(Size(lists, i), Maximum[Chain[i]] + Before(us, i))[1]
    BY <1>3, <2>1
  <2>4. /\ Size(kept, i) =< ComputeUsedAndSpare(Size(kept, i), Maximum[Chain[i]] + Before(ks, i))[1]
        /\ ComputeUsedAndSpare(Size(lists, i), Maximum[Chain[i]] + Before(us, i))[2]
             =< ComputeUsedAndSpare(Size(kept, i), Maximum[Chain[i]] + Before(ks, i))[2]
    BY <1>4, <2>2, <2>3, KeptStep
  <2> QED BY <2>1, <2>4
<1>5. OK(1)
  BY <1>4 DEF Before
<1>6. OK(2)
  BY <1>4, <1>5 DEF Before
<1>7. OK(3)
  BY <1>4, <1>6 DEF Before
<1>8. OK(4)
  BY <1>4, <1>7 DEF Before
<1>9. OK(5)
  BY <1>4, <1>8 DEF Before
<1>10. \A i \in 1..5 : i = 1 \/ i = 2 \/ i = 3 \/ i = 4 \/ i = 5
  OBVIOUS
<1>11. \A i \in 1..5 : Size(kept, i) =< ks[i][1]
  BY <1>5, <1>6, <1>7, <1>8, <1>9, <1>10
<1> QED BY <1>11 DEF ks

\* The lists of some peers are finite, and so is that of the seeders among them.
LEMMA ListsFinite ==
  ASSUME NEW S \in SUBSET Peers, NEW k, NEW pf
  PROVE  /\ IsFiniteSet(S)
         /\ \A x \in ChainKinds : IsFiniteSet(OfKind(S, k, pf)[x])
         /\ IsFiniteSet(SeedersOf(S)) /\ Cardinality(SeedersOf(S)) \in Nat
<1>1. IsFiniteSet(S)
  BY SharderAssumption, FS_Subset
<1>2. SeedersOf(S) \in SUBSET S /\ \A x \in ChainKinds : OfKind(S, k, pf)[x] \in SUBSET S
  BY DEF OfKind, SeedersOf
<1> QED BY <1>1, <1>2, FS_Subset, FS_CardinalityType

\* What the lists sharder keeps of the seeders.
UsedSeeders(S) == ComputeUsedAndSpare(Cardinality(SeedersOf(S)), MaxSeeders)[1]

\* The lists sharder evicts nobody exactly when each kind is within what it may use.
LEMMA ListsFit ==
  ASSUME NEW S \in SUBSET Peers, NEW k, NEW pf
  PROVE  LET lists == OfKind(S, k, pf)
         IN  {} \in ComputeEvictionList(S, k, pf) <=>
               /\ \A i \in 1..5 : Size(lists, i) =< UsedAndSpare(lists)[i][1]
               /\ Cardinality(SeedersOf(S)) =< UsedSeeders(S)
<1> DEFINE lists == OfKind(S, k, pf)
<1>1. \A i \in 1..5 : IsFiniteSet(lists[Chain[i]]) /\ UsedAndSpare(lists)[i][1] \in Nat
  <2>1. \A x \in ChainKinds : IsFiniteSet(lists[x])
    BY ListsFinite
  <2> HIDE DEF lists
  <2> QED BY <2>1, UsedChain, ChainFacts
<1>2. IsFiniteSet(SeedersOf(S)) /\ UsedSeeders(S) \in Nat
  BY ListsFinite, UsedFacts, SharderAssumption DEF UsedSeeders
<1>3. {} \in ComputeEvictionList(S, k, pf) <=>
        /\ \A i \in 1..5 : Evicts({}, lists[Chain[i]], UsedAndSpare(lists)[i][1])
        /\ Evicts({}, SeedersOf(S), UsedSeeders(S))
  <2>1. \A X : {} \cap X = {}
    OBVIOUS
  <2> QED BY <2>1, ChainFacts DEF ComputeEvictionList, UsedSeeders
<1> HIDE DEF lists
<1>4. \A i \in 1..5 : Evicts({}, lists[Chain[i]], UsedAndSpare(lists)[i][1])
                        <=> Size(lists, i) =< UsedAndSpare(lists)[i][1]
  BY <1>1, EvictsNone DEF Size
<1>5. Evicts({}, SeedersOf(S), UsedSeeders(S)) <=> Cardinality(SeedersOf(S)) =< UsedSeeders(S)
  BY <1>2, EvictsNone
<1> QED BY <1>3, <1>4, <1>5 DEF lists

\* Peers of whom the lists sharder evicts nobody stay so when some of them leave or become
\* preferred ones.
LEMMA FewerFitLists ==
  ASSUME NEW S \in SUBSET Peers, NEW T \in SUBSET S, NEW k, NEW pf, NEW pg, pf \subseteq pg,
         {} \in ComputeEvictionList(S, k, pf)
  PROVE  {} \in ComputeEvictionList(T, k, pg)
<1> DEFINE lists == OfKind(S, k, pf)
           kept == OfKind(T, k, pg)
<1>1. /\ \A i \in 1..5 : Size(lists, i) =< UsedAndSpare(lists)[i][1]
      /\ Cardinality(SeedersOf(S)) =< UsedSeeders(S)
  BY ListsFit
<1>2. /\ \A x \in ChainKinds : IsFiniteSet(lists[x]) /\ IsFiniteSet(kept[x])
      /\ IsFiniteSet(SeedersOf(S)) /\ Cardinality(SeedersOf(S)) \in Nat
      /\ Cardinality(SeedersOf(T)) \in Nat
  BY ListsFinite
<1>3. \A x \in ChainKinds : kept[x] \in SUBSET lists[x]
  BY DEF OfKind
<1>4. SeedersOf(T) \in SUBSET SeedersOf(S)
  BY DEF SeedersOf
<1> HIDE DEF lists, kept
<1>5. \A i \in 1..5 : Size(kept, i) =< UsedAndSpare(lists)[i][1]
  <2> SUFFICES ASSUME NEW i \in 1..5 PROVE Size(kept, i) =< UsedAndSpare(lists)[i][1]
    OBVIOUS
  <2>1. Size(kept, i) =< Size(lists, i)
    BY <1>2, <1>3, ChainFacts, FS_Subset DEF Size
  <2>2. Size(lists, i) \in Nat /\ UsedAndSpare(lists)[i][1] \in Nat
    BY <1>2, UsedChain
  <2>3. Size(kept, i) \in Nat
    BY <1>2, UsedChain
  <2> QED BY <1>1, <2>1, <2>2, <2>3
<1>6. \A i \in 1..5 : Size(kept, i) =< UsedAndSpare(kept)[i][1]
  BY <1>2, <1>5, KeptIsKept
<1>7. Cardinality(SeedersOf(T)) =< UsedSeeders(T)
  <2>1. Cardinality(SeedersOf(T)) =< Cardinality(SeedersOf(S))
    BY <1>2, <1>4, FS_Subset
  <2> QED BY <1>1, <1>2, <2>1, SharderAssumption DEF UsedSeeders, ComputeUsedAndSpare
<1> QED BY <1>6, <1>7, ListsFit DEF kept

\* The lists sharder evicts nobody of the peers that an eviction list leaves.
LEMMA RestFitsLists ==
  ASSUME NEW S \in SUBSET Peers, NEW k, NEW pf, NEW e \in ComputeEvictionList(S, k, pf)
  PROVE  {} \in ComputeEvictionList(S \ e, k, pf)
<1> DEFINE lists == OfKind(S, k, pf)
           kept == OfKind(S \ e, k, pf)
<1>1. /\ \A i \in 1..5 : Evicts(e \cap lists[Chain[i]], lists[Chain[i]], UsedAndSpare(lists)[i][1])
      /\ Evicts(e \cap SeedersOf(S), SeedersOf(S), UsedSeeders(S))
  BY ChainFacts DEF ComputeEvictionList, UsedSeeders
<1>2. /\ \A x \in ChainKinds : IsFiniteSet(lists[x]) /\ IsFiniteSet(kept[x])
      /\ IsFiniteSet(SeedersOf(S)) /\ Cardinality(SeedersOf(S)) \in Nat
      /\ Cardinality(SeedersOf(S \ e)) \in Nat
  BY ListsFinite
<1>3. \A x \in ChainKinds : kept[x] = lists[x] \ (e \cap lists[x])
  BY DEF OfKind
<1>4. SeedersOf(S \ e) = SeedersOf(S) \ (e \cap SeedersOf(S))
  BY DEF SeedersOf
<1> HIDE DEF lists, kept
<1>5. \A i \in 1..5 : Size(kept, i) =< UsedAndSpare(lists)[i][1]
  <2> SUFFICES ASSUME NEW i \in 1..5 PROVE Size(kept, i) =< UsedAndSpare(lists)[i][1]
    OBVIOUS
  <2>1. UsedAndSpare(lists)[i][1] \in Nat
    BY <1>2, UsedChain
  <2>2. Chain[i] \in ChainKinds
    BY ChainFacts
  <2> QED BY <1>1, <1>2, <1>3, <2>1, <2>2, EvictsLeaves DEF Size
<1>6. \A i \in 1..5 : Size(kept, i) =< UsedAndSpare(kept)[i][1]
  BY <1>2, <1>5, KeptIsKept
<1>7. Cardinality(SeedersOf(S \ e)) =< UsedSeeders(S \ e)
  <2>1. UsedSeeders(S) \in Nat /\ UsedSeeders(S) =< MaxSeeders
    BY <1>2, SharderAssumption DEF UsedSeeders, ComputeUsedAndSpare
  <2>2. Cardinality(SeedersOf(S \ e)) =< UsedSeeders(S)
    BY <1>1, <1>2, <1>4, <2>1, EvictsLeaves
  <2> QED BY <1>2, <2>1, <2>2, SharderAssumption DEF UsedSeeders, ComputeUsedAndSpare
<1>8. S \ e \in SUBSET Peers
  OBVIOUS
<1> QED BY <1>6, <1>7, <1>8, ListsFit DEF kept

\* Fewer peers, or more preferred ones, are within the limits of either sharder.
LEMMA FewerFit ==
  ASSUME NEW sh, NEW S \in SUBSET Peers, NEW T \in SUBSET S, NEW k, NEW pf, NEW pg, pf \subseteq pg,
         {} \in EvictionLists(sh, S, k, pf)
  PROVE  {} \in EvictionLists(sh, T, k, pg)
<1>1. CASE sh = "lists"
  BY <1>1, FewerFitLists DEF EvictionLists
<1>2. CASE sh # "lists"
  <2>1. Evicts({}, S, OneListPeerCount)
    BY <1>2 DEF EvictionLists, OneListEvictionList
  <2>2. IsFiniteSet(S) /\ IsFiniteSet(T) /\ OneListPeerCount \in Nat
    BY SharderAssumption, FS_Subset
  <2>3. Cardinality(S) =< OneListPeerCount
    BY <2>1, <2>2, EvictsNone
  <2>4. Cardinality(T) =< Cardinality(S) /\ Cardinality(T) \in Nat /\ Cardinality(S) \in Nat
    BY <2>2, FS_Subset, FS_CardinalityType
  <2>5. Evicts({}, T, OneListPeerCount)
    <3>1. Cardinality(T) =< OneListPeerCount
      BY <2>2, <2>3, <2>4
    <3> QED BY <2>2, <3>1, EvictsNone
  <2> QED BY <1>2, <2>5 DEF EvictionLists, OneListEvictionList
<1> QED BY <1>1, <1>2

\* Evicting is done after one round, for every setting of the limits: of the peers that an
\* eviction list leaves, either sharder would evict nobody (ComputeEvictionList, evict).
THEOREM RestFits ==
  ASSUME NEW sh, NEW S \in SUBSET Peers, NEW k, NEW pf, NEW e \in EvictionLists(sh, S, k, pf)
  PROVE  {} \in EvictionLists(sh, S \ e, k, pf)
<1>1. CASE sh = "lists"
  BY <1>1, RestFitsLists DEF EvictionLists
<1>2. CASE sh # "lists"
  <2>1. e \in SUBSET S /\ Evicts(e, S, OneListPeerCount)
    BY <1>2 DEF EvictionLists, OneListEvictionList
  <2>2. IsFiniteSet(S) /\ IsFiniteSet(S \ e) /\ OneListPeerCount \in Nat
    BY SharderAssumption, FS_Subset
  <2>3. Cardinality(S \ e) =< OneListPeerCount
    BY <2>1, <2>2, EvictsLeaves
  <2>4. Evicts({}, S \ e, OneListPeerCount)
    BY <2>2, <2>3, EvictsNone
  <2> QED BY <1>2, <2>4 DEF EvictionLists, OneListEvictionList
<1> QED BY <1>1, <1>2

\* An eviction list has only peers that were asked about.
LEMMA EvictsSome ==
  ASSUME NEW sh, NEW S, NEW k, NEW pf, NEW e \in EvictionLists(sh, S, k, pf)
  PROVE  e \subseteq S
BY DEF EvictionLists, ComputeEvictionList, OneListEvictionList

-----------------------------------------------------------------------------
(* The invariant. *)

\* The initial state satisfies the inductive invariant.
LEMMA InitIInv == Init => IInv
<1> SUFFICES ASSUME Init PROVE IInv
  OBVIOUS
<1>1. CallbacksOK
  BY DEF Init, CallbacksOK, Callbacks, Done
<1>2. SeesAll
  BY DEF Init, SeesAll, Asked
<1>3. Fits({})
  <2>1. CASE sharder = "lists"
    <3> DEFINE lists == OfKind({}, kind, preferred)
    <3>1. \A x \in ChainKinds : lists[x] = {} /\ IsFiniteSet(lists[x])
      BY FS_EmptySet DEF OfKind
    <3> HIDE DEF lists
    <3>2. \A i \in 1..5 : Size(lists, i) = 0
      BY <3>1, ChainFacts, FS_EmptySet DEF Size
    <3>3. \A i \in 1..5 : UsedAndSpare(lists)[i][1] \in Nat
      BY <3>1, UsedChain
    <3>4. \A i \in 1..5 : Size(lists, i) =< UsedAndSpare(lists)[i][1]
      BY <3>2, <3>3
    <3>5. Cardinality(SeedersOf({})) =< UsedSeeders({})
      <4>1. Cardinality(SeedersOf({})) = 0
        BY FS_EmptySet DEF SeedersOf
      <4> QED BY <4>1, SharderAssumption DEF UsedSeeders, ComputeUsedAndSpare
    <3> QED BY <2>1, <3>4, <3>5, ListsFit DEF Fits, EvictionLists, lists
  <2>2. CASE sharder # "lists"
    <3>1. Evicts({}, {}, OneListPeerCount)
      BY EvictsNone, FS_EmptySet, SharderAssumption
    <3> QED BY <2>2, <3>1 DEF Fits, EvictionLists, OneListEvictionList
  <2> QED BY <2>1, <2>2
<1>4. Old = {}
  BY DEF Init, Old
<1> QED BY <1>1, <1>2, <1>3, <1>4 DEF IInv, Limited

\* Some of the peers are no more connected, and nothing that the sharder reads has changed.
LEMMA FewerConnected ==
  ASSUME IInv, connected' \subseteq connected,
         UNCHANGED <<sharder, callback, kind, preferred, settled>>
  PROVE  IInv'
<1>1. CallbacksOK' /\ SeesAll'
  BY DEF IInv, CallbacksOK, SeesAll, Asked
<1>2. Old \in SUBSET Peers /\ Old' \in SUBSET Old
  BY DEF IInv, CallbacksOK, Old, Fresh
<1>3. ASSUME NEW X, Fits(Old \ X) PROVE Fits(Old \ X)'
  <2>1. Old \ X \in SUBSET Peers /\ Old' \ X \in SUBSET (Old \ X)
    BY <1>2
  <2> QED BY <1>3, <2>1, FewerFit DEF Fits
<1>4. Fits(Old) => Fits(Old)'
  BY <1>2, FewerFit DEF Fits
<1>5. Limited'
  BY <1>2, <1>3, <1>4 DEF IInv, Limited, Asked
<1> QED BY <1>1, <1>5 DEF IInv

\* A new connection is fresh, and makes late the callbacks that have asked for the peers.
LEMMA OpenedStep ==
  ASSUME IInv, NEW p \in Peers, Opened(p), UNCHANGED <<sharder, kind, preferred, settled>>
  PROVE  IInv'
<1>1. /\ p \notin connected /\ callback[p].pc = "done" /\ connected' = connected \cup {p}
      /\ callback' = [q \in Peers |->
           IF q = p THEN [Done EXCEPT !.pc = "denied?"]
           ELSE [callback[q] EXCEPT !.late = callback[q].pc \in {"put", "compute"}]]
  BY DEF Opened
<1>2. callback'[p] \in Callbacks /\ callback'[p].pc = "denied?"
  BY <1>1 DEF Done, Callbacks
<1>3. ASSUME NEW q \in Peers, q # p
      PROVE  /\ callback'[q] \in Callbacks /\ callback'[q].pc = callback[q].pc
             /\ callback'[q].peers = callback[q].peers /\ callback'[q].list = callback[q].list
             /\ Asked(q) => callback'[q].late
  <2>1. callback[q] \in Callbacks /\ callback'[q] = [callback[q] EXCEPT !.late = Asked(q)]
    BY <1>1, <1>3 DEF IInv, CallbacksOK, Asked
  <2>2. Asked(q) \in BOOLEAN
    BY DEF Asked
  <2> QED BY <2>1, <2>2 DEF Callbacks
<1>4. CallbacksOK'
  BY <1>1, <1>2, <1>3 DEF IInv, CallbacksOK
<1>5. SeesAll'
  BY <1>2, <1>3 DEF SeesAll, Asked
<1>6. Old' = Old
  BY <1>1, <1>2, <1>3 DEF Old, Fresh
<1>7. Limited'
  <2>1. \A X : Fits(X)' = Fits(X)
    BY DEF Fits
  <2>2. \A q \in Peers : Asked(q) \/ callback[q].pc = "evict" => q # p
    BY <1>1 DEF Asked
  <2> QED BY <1>3, <1>6, <2>1, <2>2 DEF IInv, Limited, Asked
<1> QED BY <1>4, <1>5, <1>7 DEF IInv

\* The callback of a denied peer closes the connection.
LEMMA CloseDeniedStep ==
  ASSUME IInv, NEW p \in Peers, CloseDenied(p)
  PROVE  IInv'
<1>1. /\ callback[p].pc = "denied?" /\ connected' = connected \ {p}
      /\ callback' = [callback EXCEPT ![p] = Done]
      /\ UNCHANGED <<sharder, kind, preferred, settled>>
  BY DEF CloseDenied, holderVars
<1>2. callback'[p] = Done /\ Done \in Callbacks /\ Done.pc = "done"
  BY <1>1 DEF IInv, CallbacksOK, Done, Callbacks
<1>3. \A q \in Peers : q # p => callback'[q] = callback[q]
  BY <1>1 DEF IInv, CallbacksOK
<1>4. CallbacksOK'
  BY <1>1, <1>2 DEF IInv, CallbacksOK
<1>5. SeesAll'
  BY <1>1, <1>2, <1>3 DEF IInv, SeesAll, Asked
<1>6. Old' = Old
  BY <1>1, <1>2, <1>3 DEF Old, Fresh
<1>7. Limited'
  <2>1. \A X : Fits(X)' = Fits(X)
    BY <1>1 DEF Fits
  <2>2. \A q \in Peers : Asked(q) \/ callback[q].pc = "evict" => q # p
    BY <1>1 DEF Asked
  <2> QED BY <1>1, <1>3, <1>6, <2>1, <2>2 DEF IInv, Limited, Asked
<1> QED BY <1>4, <1>5, <1>7 DEF IInv

\* A callback asks for the peers and sees all of them.
LEMMA AskPeersStep ==
  ASSUME IInv, NEW p \in Peers, AskPeers(p)
  PROVE  IInv'
<1> DEFINE cb == [callback[p] EXCEPT !.pc = "put", !.peers = connected]
<1>1. /\ callback[p].pc = "denied?" /\ callback' = [callback EXCEPT ![p] = cb]
      /\ UNCHANGED <<sharder, connected, kind, preferred, settled>>
  BY DEF AskPeers, PeersSeen, holderVars
<1>2. cb \in Callbacks /\ cb.pc = "put" /\ cb.peers = connected
  <2>1. callback[p] \in Callbacks /\ connected \in SUBSET Peers
    BY DEF IInv, CallbacksOK
  <2> QED BY <2>1 DEF Callbacks
<1> HIDE DEF cb
<1>3. callback'[p] = cb /\ \A q \in Peers : q # p => callback'[q] = callback[q]
  BY <1>1 DEF IInv, CallbacksOK
<1>4. CallbacksOK'
  BY <1>1, <1>2 DEF IInv, CallbacksOK
<1>5. SeesAll'
  BY <1>1, <1>2, <1>3 DEF IInv, SeesAll, Asked
<1>6. Asked(p)' /\ Old' \subseteq callback'[p].peers
  BY <1>1, <1>2, <1>3 DEF Asked, Old
<1> QED BY <1>4, <1>5, <1>6 DEF IInv, Limited

\* The peer may come to wait for its shard, which the sharder does not read.
LEMMA PutConnectionAddressStep ==
  ASSUME IInv, NEW p \in Peers, PutConnectionAddress(p)
  PROVE  IInv'
<1> DEFINE cb == [callback[p] EXCEPT !.pc = "compute"]
<1>1. /\ callback[p].pc = "put" /\ callback' = [callback EXCEPT ![p] = cb]
      /\ UNCHANGED <<sharder, connected, kind, preferred, settled>>
  BY DEF PutConnectionAddress
<1>2. /\ cb \in Callbacks /\ cb.pc = "compute" /\ cb.peers = callback[p].peers
      /\ cb.late = callback[p].late
  BY DEF IInv, CallbacksOK, Callbacks
<1> HIDE DEF cb
<1>3. callback'[p] = cb /\ \A q \in Peers : q # p => callback'[q] = callback[q]
  BY <1>1 DEF IInv, CallbacksOK
<1>4. CallbacksOK'
  BY <1>1, <1>2 DEF IInv, CallbacksOK
<1>5. /\ \A q \in Peers : Asked(q)' <=> Asked(q)
      /\ \A q \in Peers : callback'[q].peers = callback[q].peers
      /\ \A q \in Peers : callback'[q].late = callback[q].late
      /\ \A q \in Peers : callback[q].pc = "evict" => callback'[q] = callback[q]
  BY <1>1, <1>2, <1>3 DEF Asked
<1>6. SeesAll'
  BY <1>1, <1>5 DEF IInv, SeesAll
<1>7. Old' = Old
  BY <1>1, <1>2, <1>3 DEF Old, Fresh
<1>8. \A S : Fits(S)' = Fits(S)
  BY <1>1 DEF Fits
<1>9. Limited'
  BY <1>1, <1>5, <1>7, <1>8 DEF IInv, Limited
<1> QED BY <1>4, <1>6, <1>9 DEF IInv

\* What is left to do after a list was made, or a peer of it closed.
LEMMA AfterFacts ==
  ASSUME NEW list \in SUBSET Peers
  PROVE  /\ After(list) \in Callbacks
         /\ list = {} => After(list).pc = "done"
         /\ list # {} => After(list).pc = "evict" /\ After(list).list = list
BY DEF After, Done, Callbacks

\* A callback makes its list: what is left of the peers it saw is within the limits.
LEMMA ComputeStep ==
  ASSUME IInv, NEW p \in Peers, Compute(p)
  PROVE  IInv'
<1> DEFINE S == callback[p].peers
<1>1. PICK e \in EvictionLists(sharder, S, kind, preferred) :
        callback' = [callback EXCEPT ![p] = After(e)]
  BY DEF Compute
<1>2. /\ callback[p].pc = "compute" /\ settled' = (settled \/ ~callback[p].late)
      /\ UNCHANGED <<sharder, connected, kind, preferred>>
  BY DEF Compute, holderVars
<1>3. callback[p] \in Callbacks /\ S \in SUBSET Peers /\ e \in SUBSET Peers
  <2>1. callback[p] \in Callbacks
    BY DEF IInv, CallbacksOK
  <2>2. S \in SUBSET Peers
    BY <2>1 DEF Callbacks
  <2> QED BY <1>1, <2>1, <2>2, EvictsSome
<1>4. callback'[p] = After(e) /\ \A q \in Peers : q # p => callback'[q] = callback[q]
  BY <1>1 DEF IInv, CallbacksOK
<1>5. /\ After(e) \in Callbacks
      /\ e = {} => After(e).pc = "done"
      /\ e # {} => After(e).pc = "evict" /\ After(e).list = e
  BY <1>3, AfterFacts
<1>6. CallbacksOK'
  <2>1. callback' \in [Peers -> Callbacks] /\ connected' \subseteq Peers
    BY <1>1, <1>2, <1>5 DEF IInv, CallbacksOK
  <2>2. settled' \in BOOLEAN
    BY <1>2, Zenon
  <2> QED BY <2>1, <2>2 DEF CallbacksOK
<1>7. ~Asked(p)' /\ \A q \in Peers : q # p => Asked(q)' = Asked(q)
  BY <1>4, <1>5 DEF Asked
<1>8. SeesAll'
  BY <1>2, <1>4, <1>7 DEF IInv, SeesAll
<1>9. Old' = Old /\ Old \in SUBSET Peers
  <2>1. Fresh' = Fresh
    BY <1>2, <1>4, <1>5 DEF Fresh
  <2> QED BY <1>2, <2>1 DEF Old, IInv, CallbacksOK
<1>10. \A X : Fits(X)' = Fits(X)
  BY <1>2 DEF Fits
<1>11. CASE Old \subseteq S
  <2>1. Fits(Old \ e)
    <3>1. S \ e \in SUBSET Peers /\ Old \ e \in SUBSET (S \ e)
      BY <1>3, <1>11
    <3>2. {} \in EvictionLists(sharder, S \ e, kind, preferred)
      BY <1>1, <1>3, RestFits
    <3> QED BY <3>1, <3>2, FewerFit DEF Fits
  <2>2. CASE e = {}
    <3>1. Old \ e = Old
      BY <2>2
    <3> QED BY <1>6, <1>8, <1>9, <1>10, <2>1, <3>1 DEF IInv, Limited
  <2>3. CASE e # {}
    <3>1. callback'[p].pc = "evict" /\ callback'[p].list = e
      BY <1>4, <1>5, <2>3
    <3>2. Fits(Old \ callback[p].list)'
      BY <1>9, <1>10, <2>1, <3>1
    <3> QED BY <1>6, <1>8, <3>1, <3>2 DEF IInv, Limited
  <2> QED BY <2>2, <2>3
<1>12. CASE ~(Old \subseteq S)
  <2>1. callback[p].late
    <3>1. Asked(p)
      BY <1>2 DEF Asked
    <3> QED BY <1>12, <3>1 DEF IInv, SeesAll, Old
  <2>2. settled' = settled
    BY <1>2, <2>1 DEF IInv, CallbacksOK
  <2>3. callback[p].pc # "evict"
    BY <1>2
  <2>4. Limited'
    BY <1>4, <1>7, <1>9, <1>10, <1>12, <2>2, <2>3 DEF IInv, Limited
  <2> QED BY <1>6, <1>8, <2>4 DEF IInv
<1> QED BY <1>11, <1>12

\* A callback closes a peer of its list: what is left without the rest of the list is as
\* before.
LEMMA ClosePeerStep ==
  ASSUME IInv, NEW p \in Peers, NEW q \in Peers, ClosePeer(p, q)
  PROVE  IInv'
<1> DEFINE rest == callback[p].list \ {q}
<1>1. /\ callback[p].pc = "evict" /\ q \in callback[p].list /\ connected' = connected \ {q}
      /\ callback' = [callback EXCEPT ![p] = After(rest)]
      /\ UNCHANGED <<sharder, kind, preferred, settled>>
  BY DEF ClosePeer, holderVars
<1>2. callback[p] \in Callbacks
  BY DEF IInv, CallbacksOK
<1>3. rest \in SUBSET Peers
  BY <1>2 DEF Callbacks
<1>4. /\ After(rest) \in Callbacks
      /\ rest = {} => After(rest).pc = "done"
      /\ rest # {} => After(rest).pc = "evict" /\ After(rest).list = rest
  BY <1>3, AfterFacts
<1>5. callback'[p] = After(rest) /\ \A r \in Peers : r # p => callback'[r] = callback[r]
  BY <1>1 DEF IInv, CallbacksOK
<1>6. CallbacksOK'
  BY <1>1, <1>4 DEF IInv, CallbacksOK
<1>7. ~Asked(p)' /\ ~Asked(p) /\ \A r \in Peers : r # p => Asked(r)' = Asked(r)
  BY <1>1, <1>4, <1>5 DEF Asked
<1>8. SeesAll'
  BY <1>1, <1>5, <1>7 DEF IInv, SeesAll
<1>9. Old' = Old \ {q} /\ Old \in SUBSET Peers
  <2>1. Fresh' = Fresh
    BY <1>1, <1>4, <1>5 DEF Fresh
  <2> QED BY <1>1, <2>1 DEF Old, IInv, CallbacksOK
<1>10. \A X : Fits(X)' = Fits(X)
  BY <1>1 DEF Fits
<1>11. ASSUME NEW S \in SUBSET Peers, NEW T \in SUBSET S, Fits(S) PROVE Fits(T)
  BY <1>11, FewerFit DEF Fits
<1>12. Limited'
  <2> SUFFICES ASSUME settled
               PROVE  \/ Fits(Old')
                      \/ \E r \in Peers : Asked(r)' /\ Old' \subseteq callback'[r].peers
                      \/ \E r \in Peers : callback'[r].pc = "evict" /\ Fits(Old' \ callback'[r].list)
    BY <1>1, <1>10 DEF Limited, Fits
  <2>1. CASE Fits(Old)
    BY <1>9, <1>11, <2>1
  <2>2. CASE \E r \in Peers : Asked(r) /\ Old \subseteq callback[r].peers
    BY <1>5, <1>7, <1>9, <2>2
  <2>3. CASE Fits(Old \ callback[p].list)
    <3>1. Old' \ rest = Old \ callback[p].list
      BY <1>1, <1>9
    <3>2. CASE rest = {}
      <4>1. Old' = Old \ callback[p].list
        BY <3>1, <3>2
      <4> QED BY <2>3, <4>1
    <3>3. CASE rest # {}
      BY <1>4, <1>5, <2>3, <3>1, <3>3
    <3> QED BY <3>2, <3>3
  <2>4. ASSUME NEW r \in Peers, r # p, callback[r].pc = "evict", Fits(Old \ callback[r].list)
        PROVE  Fits(Old' \ callback'[r].list) /\ callback'[r].pc = "evict"
    <3>1. /\ Old \ callback[r].list \in SUBSET Peers
          /\ Old' \ callback'[r].list \in SUBSET (Old \ callback[r].list)
      BY <1>5, <1>9, <2>4
    <3> QED BY <1>5, <1>11, <2>4, <3>1
  <2> QED BY <2>1, <2>2, <2>3, <2>4 DEF IInv, Limited
<1> QED BY <1>6, <1>8, <1>12 DEF IInv

\* Whatever is learned of the peers, a list must be made again.
LEMMA SetPeerShardResolverStep ==
  ASSUME IInv, NEW k, SetPeerShardResolver(k)
  PROVE  IInv'
BY DEF SetPeerShardResolver, holderVars, IInv, CallbacksOK, SeesAll, Limited, Asked

\* A peer whose shard the application puts becomes preferred: the others have more room.
LEMMA PutShardIDStep ==
  ASSUME IInv, NEW p, PutShardID(p)
  PROVE  IInv'
<1>1. preferred \subseteq preferred' /\ UNCHANGED <<sharder, connected, callback, kind, settled>>
  BY DEF PutShardID
<1>2. CallbacksOK' /\ SeesAll'
  BY <1>1 DEF IInv, CallbacksOK, SeesAll, Asked
<1>3. Old' = Old /\ Old \in SUBSET Peers
  BY <1>1 DEF Old, Fresh, IInv, CallbacksOK
<1>4. ASSUME NEW S \in SUBSET Peers, Fits(S) PROVE Fits(S)'
  BY <1>1, <1>4, FewerFit DEF Fits
<1>5. Limited'
  <2>1. \A X : Old \ X \in SUBSET Peers
    BY <1>3
  <2> QED BY <1>1, <1>3, <1>4, <2>1 DEF IInv, Limited, Asked
<1> QED BY <1>2, <1>5 DEF IInv

\* When peers cease to be preferred, a list must be made again.
LEMMA ForgetStep ==
  ASSUME IInv, (\E p \in PreferredPeers : Remove(p)) \/ Clear
  PROVE  IInv'
BY DEF Remove, Clear, IInv, CallbacksOK, SeesAll, Limited, Asked

\* However the callbacks are interleaved with new connections, lost ones, denied peers and
\* each other, the old peers are within the limits or some callback will see to it.
THEOREM InvariantHolds == Spec => []IInv
<1>1. ASSUME IInv, [Next]_vars PROVE IInv'
  <2>1. CASE UNCHANGED vars
    BY <1>1, <2>1, FewerConnected DEF vars, holderVars
  <2>2. ASSUME NEW p \in Peers, Arrive(p) \/ DialSucceeds(p) PROVE IInv'
    BY <1>1, <2>2, OpenedStep DEF Arrive, DialSucceeds, holderVars
  <2>3. ASSUME NEW p \in Peers, Connect(p) \/ ConnectToPeer(p) \/ DialFails(p) \/ Disconnected(p)
        PROVE  IInv'
    BY <1>1, <2>3, FewerConnected
       DEF Connect, ConnectToPeer, DialFails, Disconnected, holderVars
  <2>4. ASSUME NEW p \in Peers, CallbackStep(p) PROVE IInv'
    BY <1>1, <2>4, CloseDeniedStep, AskPeersStep, PutConnectionAddressStep, ComputeStep,
       ClosePeerStep DEF CallbackStep
  <2>5. ASSUME NEW p \in Deniable, Deny(p) \/ Allow(p) \/ Sweep(p) PROVE IInv'
    BY <1>1, <2>5, FewerConnected DEF Deny, Allow, Sweep, holderVars
  <2>6. ASSUME NEW k \in Resolvers, SetPeerShardResolver(k) PROVE IInv'
    BY <1>1, <2>6, SetPeerShardResolverStep
  <2>7. CASE HolderStep
    BY <1>1, <2>7, PutShardIDStep, ForgetStep DEF HolderStep
  <2> QED BY <1>1, <2>1, <2>2, <2>3, <2>4, <2>5, <2>6, <2>7 DEF Next
<1> QED BY <1>1, InitIInv, PTL DEF Spec

\* When every callback has ended and nothing new was learned of the peers, the node is
\* within its limits, for any number of peers and callbacks: the last callback to ask for
\* the peers evicts what is too much (libp2pConnectionMonitorSimple.go:134-144).
THEOREM LimitsKept == Spec => []WithinLimits
<1>1. IInv => WithinLimits
  <2> SUFFICES ASSUME IInv, settled, \A p \in Peers : callback[p].pc = "done"
               PROVE  {} \in EvictionLists(sharder, connected, kind, preferred)
    BY DEF WithinLimits
  <2>1. Old = connected
    BY DEF Old, Fresh
  <2>2. Fits(Old)
    BY DEF IInv, Limited, Asked
  <2> QED BY <2>1, <2>2 DEF Fits
<1> QED BY <1>1, InvariantHolds, PTL

-----------------------------------------------------------------------------
(* The list a callback computes is the reference's. *)

\* The least of two numbers.
LEMMA MinOfTwo ==
  ASSUME NEW x \in Int, NEW y \in Int
  PROVE  Min({x, y}) = IF x =< y THEN x ELSE y
<1>1. \E m \in {x, y} : \A z \in {x, y} : m =< z
  OBVIOUS
<1>2. Min({x, y}) \in {x, y} /\ \A z \in {x, y} : Min({x, y}) =< z
  BY <1>1 DEF Min
<1> QED BY <1>2

\* evict keeps numKeep peers, or all of a shorter list.
LEMMA EvictsKeeps ==
  ASSUME NEW list, IsFiniteSet(list), NEW e \in SUBSET list, NEW n \in Nat, Evicts(e, list, n)
  PROVE  /\ Cardinality(list) \in Nat
         /\ Cardinality(list \ e) = Min({n, Cardinality(list)})
<1>1. Cardinality(list) \in Nat /\ Cardinality(e) \in Nat
  BY FS_Subset, FS_CardinalityType
<1>2. Cardinality(list \ e) = Cardinality(list) - Cardinality(e)
  <2>1. list \cap e = e
    OBVIOUS
  <2> QED BY <2>1, FS_Difference
<1>3. \A x \in Int : Max({0, x}) = IF x >= 0 THEN x ELSE 0
  <2> SUFFICES ASSUME NEW x \in Int PROVE Max({0, x}) = IF x >= 0 THEN x ELSE 0
    OBVIOUS
  <2>1. \E y \in {0, x} : \A z \in {0, x} : y >= z
    OBVIOUS
  <2>2. Max({0, x}) \in {0, x} /\ \A z \in {0, x} : Max({0, x}) >= z
    BY <2>1 DEF Max
  <2> QED BY <2>2
<1>4. Min({n, Cardinality(list)}) = IF n =< Cardinality(list) THEN n ELSE Cardinality(list)
  BY <1>1, MinOfTwo
<1>5. Cardinality(e) = IF Cardinality(list) - n >= 0 THEN Cardinality(list) - n ELSE 0
  BY <1>1, <1>3 DEF Evicts
<1> QED BY <1>1, <1>2, <1>4, <1>5

\* Sums over the first kinds of the chain grow by one kind at a time.
LEMMA SumFacts ==
  ASSUME NEW f, \A i \in 1..5 : f[Chain[i]] \in Int
  PROVE  /\ SumOfFirst(f, 0) = 0
         /\ \A i \in 0..5 : SumOfFirst(f, i) \in Int
         /\ \A i \in 0..4 : SumOfFirst(f, i + 1) = SumOfFirst(f, i) + f[Chain[i + 1]]
<1> DEFINE a == f[Chain[1]]
           b == f[Chain[2]]
           c == f[Chain[3]]
           d == f[Chain[4]]
           g == f[Chain[5]]
<1>1. a \in Int /\ b \in Int /\ c \in Int /\ d \in Int /\ g \in Int
  OBVIOUS
<1>2. \A i \in 0..5 :
        SumOfFirst(f, i) = (IF 1 =< i THEN a ELSE 0) + (IF 2 =< i THEN b ELSE 0)
          + (IF 3 =< i THEN c ELSE 0) + (IF 4 =< i THEN d ELSE 0) + (IF 5 =< i THEN g ELSE 0)
  BY DEF SumOfFirst
<1>3. \A i \in 0..4 : f[Chain[i + 1]] =
        IF i = 0 THEN a ELSE IF i = 1 THEN b ELSE IF i = 2 THEN c ELSE IF i = 3 THEN d ELSE g
  <2> SUFFICES ASSUME NEW i \in 0..4
               PROVE  f[Chain[i + 1]] = IF i = 0 THEN a ELSE IF i = 1 THEN b
                        ELSE IF i = 2 THEN c ELSE IF i = 3 THEN d ELSE g
    OBVIOUS
  <2>1. i = 0 \/ i = 1 \/ i = 2 \/ i = 3 \/ i = 4
    OBVIOUS
  <2> QED BY <2>1
<1> HIDE DEF a, b, c, d, g
<1> QED BY <1>1, <1>2, <1>3

\* Passing on what is spare, the first i kinds use as much as the maxima allow them
\* wherever the chain is cut, and what the last of them has to spare is what their maxima
\* leave.
LEMMA UsedIsMost ==
  ASSUME NEW lists, \A k \in ChainKinds : IsFiniteSet(lists[k]),
         NEW used, \A i \in 1..5 : used[Chain[i]] = UsedAndSpare(lists)[i][1]
  PROVE  \A i \in 1..5 : SumOfFirst(used, i) = MostOfFirst(lists, i)
<1> DEFINE us == UsedAndSpare(lists)
           size == [k \in ChainKinds |-> Cardinality(lists[k])]
           U(i) == SumOfFirst(used, i)
           N(i) == SumOfFirst(size, i)
           M(i) == SumOfFirst(Maximum, i)
<1>1. \A i \in 1..5 :
        /\ us[i] = ComputeUsedAndSpare(Size(lists, i), Maximum[Chain[i]] + Before(us, i))
        /\ Size(lists, i) \in Nat /\ us[i][1] \in Nat /\ us[i][2] \in Nat
        /\ us[i][1] =< Size(lists, i) /\ Before(us, i) \in Nat
  BY UsedChain
<1>2. \A i \in 1..5 : /\ used[Chain[i]] = us[i][1] /\ used[Chain[i]] \in Int
                      /\ size[Chain[i]] = Size(lists, i) /\ size[Chain[i]] \in Int
                      /\ Maximum[Chain[i]] \in Nat /\ Maximum[Chain[i]] \in Int
  BY <1>1, ChainFacts DEF Size
<1> HIDE DEF us, size
<1>3. /\ U(0) = 0 /\ \A i \in 0..5 : U(i) \in Int
      /\ \A i \in 0..4 : U(i + 1) = U(i) + us[i + 1][1]
  <2>1. \A i \in 0..4 : used[Chain[i + 1]] = us[i + 1][1]
    BY <1>2
  <2> QED BY <1>2, <2>1, SumFacts
<1>4. /\ N(0) = 0 /\ \A i \in 0..5 : N(i) \in Int
      /\ \A i \in 0..4 : N(i + 1) = N(i) + Size(lists, i + 1)
  <2>1. \A i \in 0..4 : size[Chain[i + 1]] = Size(lists, i + 1)
    BY <1>2
  <2> QED BY <1>2, <2>1, SumFacts
<1>5. /\ M(0) = 0 /\ \A i \in 0..5 : M(i) \in Int
      /\ \A i \in 0..4 : M(i + 1) = M(i) + Maximum[Chain[i + 1]]
  BY <1>2, SumFacts
<1> HIDE DEF U, N, M
<1> DEFINE Most(i) == /\ \E j \in 0..i : U(i) = M(j) + (N(i) - N(j))
                      /\ \A j \in 0..i : U(i) =< M(j) + (N(i) - N(j))
                      /\ Before(us, i + 1) = M(i) - U(i)
<1>6. Most(0)
  <2>1. Before(us, 0 + 1) = 0
    BY DEF Before
  <2>2. \A j \in 0..0 : j = 0
    OBVIOUS
  <2> QED BY <1>3, <1>4, <1>5, <2>1, <2>2
<1>7. ASSUME NEW i \in 0..4, Most(i) PROVE Most(i + 1)
  <2> DEFINE n == Size(lists, i + 1)
             m == Maximum[Chain[i + 1]]
             s == Before(us, i + 1)
             u == us[i + 1]
  <2>1. i + 1 \in 1..5 /\ i \in 0..5 /\ i + 1 \in 0..5
    OBVIOUS
  <2>2. n \in Nat /\ m \in Nat /\ s \in Nat /\ u = ComputeUsedAndSpare(n, m + s)
    BY <1>1, <1>2, <2>1
  <2>3. /\ U(i + 1) = U(i) + u[1] /\ N(i + 1) = N(i) + n /\ M(i + 1) = M(i) + m
        /\ s = M(i) - U(i) /\ U(i) \in Int /\ N(i) \in Int /\ M(i) \in Int
    BY <1>3, <1>4, <1>5, <1>7, <2>1
  <2>4. Before(us, (i + 1) + 1) = u[2]
    BY DEF Before
  <2>5. /\ u[1] = IF n < m + s THEN n ELSE m + s
        /\ u[2] = IF n < m + s THEN (m + s) - n ELSE 0
    BY <2>2 DEF ComputeUsedAndSpare
  <2> HIDE DEF n, m, s, u
  <2>6. Before(us, (i + 1) + 1) = M(i + 1) - U(i + 1)
    BY <2>2, <2>3, <2>4, <2>5
  <2>7. U(i + 1) = IF n < m + s THEN U(i) + n ELSE M(i + 1)
    BY <2>2, <2>3, <2>5
  <2>8. U(i + 1) =< U(i) + n /\ U(i + 1) =< M(i + 1)
    BY <2>2, <2>3, <2>7
  <2>9. \A j \in 0..(i + 1) : j \in 0..i \/ j = i + 1
    OBVIOUS
  <2>10. \A j \in 0..i : M(j) \in Int /\ N(j) \in Int
    BY <1>4, <1>5
  <2>11. \A j \in 0..(i + 1) : U(i + 1) =< M(j) + (N(i + 1) - N(j))
    <3> SUFFICES ASSUME NEW j \in 0..(i + 1) PROVE U(i + 1) =< M(j) + (N(i + 1) - N(j))
      OBVIOUS
    <3>1. CASE j \in 0..i
      <4>1. U(i) =< M(j) + (N(i) - N(j))
        BY <1>7, <3>1
      <4> QED BY <2>2, <2>3, <2>8, <2>10, <3>1, <4>1, <1>3, <2>1
    <3>2. CASE j = i + 1
      BY <2>2, <2>3, <2>8, <3>2, <1>3, <2>1
    <3> QED BY <2>9, <3>1, <3>2
  <2>12. \E j \in 0..(i + 1) : U(i + 1) = M(j) + (N(i + 1) - N(j))
    <3>1. CASE n < m + s
      <4>1. PICK j \in 0..i : U(i) = M(j) + (N(i) - N(j))
        BY <1>7
      <4>2. j \in 0..(i + 1) /\ U(i + 1) = M(j) + (N(i + 1) - N(j))
        BY <2>2, <2>3, <2>7, <2>10, <3>1, <4>1
      <4> QED BY <4>2
    <3>2. CASE ~(n < m + s)
      <4>1. i + 1 \in 0..(i + 1) /\ U(i + 1) = M(i + 1) + (N(i + 1) - N(i + 1))
        BY <2>2, <2>3, <2>7, <3>2
      <4> QED BY <4>1
    <3> QED BY <3>1, <3>2
  <2> QED BY <2>6, <2>11, <2>12
<1>8. Most(1) /\ Most(2) /\ Most(3) /\ Most(4) /\ Most(5)
  <2> HIDE DEF Most
  <2>1. Most(0 + 1)
    BY <1>6, <1>7
  <2>2. Most(1 + 1)
    BY <1>7, <2>1
  <2>3. Most(2 + 1)
    BY <1>7, <2>2
  <2>4. Most(3 + 1)
    BY <1>7, <2>3
  <2>5. Most(4 + 1)
    BY <1>7, <2>4
  <2> QED BY <2>1, <2>2, <2>3, <2>4, <2>5
<1>9. ASSUME NEW i \in 1..5 PROVE U(i) = MostOfFirst(lists, i)
  <2> DEFINE A == {M(j) + (N(i) - N(j)) : j \in 0..i}
  <2>1. MostOfFirst(lists, i) = Min(A)
    BY DEF MostOfFirst, M, N, size
  <2>2. U(i) \in A /\ \A x \in A : U(i) =< x
    <3>1. Most(i)
      <4> HIDE DEF Most
      <4>1. i = 1 \/ i = 2 \/ i = 3 \/ i = 4 \/ i = 5
        OBVIOUS
      <4> QED BY <1>8, <4>1
    <3> QED BY <3>1
  <2>3. U(i) \in Int /\ \A x \in A : x \in Int
    BY <1>3, <1>4, <1>5
  <2> HIDE DEF A
  <2>4. Min(A) \in A /\ \A x \in A : Min(A) =< x
    BY <2>2 DEF Min
  <2> QED BY <2>1, <2>2, <2>3, <2>4
<1> QED BY <1>9 DEF U

\* Whatever peers, kinds, preferred peers, distances and limits there are, the lists sharder
\* keeps what the reference keeps (listsSharder.go:185-219).
LEMMA ListsKeepTheReference ==
  ASSUME NEW S \in SUBSET Peers, NEW k, NEW pf, NEW e \in ComputeEvictionList(S, k, pf)
  PROVE  KeepsTheReference(e, S, k, pf)
<1> DEFINE lists == OfKind(S, k, pf)
           us == UsedAndSpare(lists)
           kept == [x \in ChainKinds |-> Cardinality(lists[x] \ e)]
<1>1. /\ e \in SUBSET S
      /\ \A i \in 1..5 : Evicts(e \cap lists[Chain[i]], lists[Chain[i]], us[i][1])
      /\ Evicts(e \cap SeedersOf(S), SeedersOf(S), UsedSeeders(S))
      /\ e \subseteq SeedersOf(S) \cup UNION Range(lists)
  BY ChainFacts DEF ComputeEvictionList, UsedSeeders
<1>2. /\ \A x \in ChainKinds : IsFiniteSet(lists[x])
      /\ IsFiniteSet(SeedersOf(S)) /\ Cardinality(SeedersOf(S)) \in Nat
  BY ListsFinite
<1>3. e \cap pf \subseteq Seeders
  <2>1. \A p \in UNION Range(lists) : p \notin pf
    BY DEF OfKind, Range
  <2> QED BY <1>1, <2>1 DEF SeedersOf
<1>4. \A x \in ChainKinds : lists[x] \ e = lists[x] \ (e \cap lists[x])
  OBVIOUS
<1> HIDE DEF lists
<1>5. \A i \in 1..5 : /\ Size(lists, i) \in Nat /\ us[i][1] \in Nat /\ us[i][1] =< Size(lists, i)
                      /\ Chain[i] \in ChainKinds
  BY <1>2, UsedChain, ChainFacts
<1> HIDE DEF us
<1>6. ASSUME NEW i \in 1..5 PROVE kept[Chain[i]] = us[i][1]
  <2> DEFINE L == lists[Chain[i]]
  <2>1. IsFiniteSet(L) /\ e \cap L \in SUBSET L /\ Evicts(e \cap L, L, us[i][1])
    BY <1>1, <1>2, <1>5
  <2>2. Cardinality(L \ (e \cap L)) = Min({us[i][1], Cardinality(L)})
    BY <1>5, <2>1, EvictsKeeps
  <2>3. Cardinality(L) \in Nat /\ us[i][1] \in Nat /\ us[i][1] =< Cardinality(L)
    BY <1>5 DEF Size
  <2>4. Min({us[i][1], Cardinality(L)}) = us[i][1]
    BY <2>3, MinOfTwo
  <2> QED BY <1>4, <1>5, <2>2, <2>4
<1> HIDE DEF kept
<1>7. \A i \in 1..5 : SumOfFirst(kept, i) = MostOfFirst(lists, i)
  BY <1>2, <1>6, UsedIsMost DEF us
<1>8. Cardinality(SeedersOf(S) \ e) = Min({MaxSeeders, Cardinality(SeedersOf(S))})
  <2> DEFINE L == SeedersOf(S)
  <2>1. Cardinality(L) \in Nat /\ MaxSeeders \in Nat
    BY <1>2, SharderAssumption
  <2>2. UsedSeeders(S) = IF Cardinality(L) < MaxSeeders THEN Cardinality(L) ELSE MaxSeeders
    BY DEF UsedSeeders, ComputeUsedAndSpare
  <2>3. L \ e = L \ (e \cap L) /\ e \cap L \in SUBSET L
    OBVIOUS
  <2>4. UsedSeeders(S) \in Nat
    BY <2>1, <2>2
  <2>5. Cardinality(L \ e) = Min({UsedSeeders(S), Cardinality(L)})
    BY <1>1, <1>2, <2>3, <2>4, EvictsKeeps
  <2> HIDE DEF L
  <2>6. Min({UsedSeeders(S), Cardinality(L)}) = Min({MaxSeeders, Cardinality(L)})
    BY <2>1, <2>2, <2>4, MinOfTwo
  <2> QED BY <2>5, <2>6 DEF L
<1>9. \A x \in ChainKinds : \A p \in lists[x] \cap e, q \in lists[x] \ e : Distance[q] =< Distance[p]
  <2> SUFFICES ASSUME NEW x \in ChainKinds, NEW p \in lists[x] \cap e, NEW q \in lists[x] \ e
               PROVE  Distance[q] =< Distance[p]
    OBVIOUS
  <2>1. PICK i \in 1..5 : Chain[i] = x
    BY ChainFacts
  <2> QED BY <1>1, <2>1 DEF Evicts
<1> QED BY <1>3, <1>7, <1>8, <1>9, ChainFacts DEF KeepsTheReference, lists, kept

\* The one list sharder keeps the closest of all (oneListSharder.go:40).
LEMMA OneListKeepsTheClosest ==
  ASSUME NEW S \in SUBSET Peers, NEW e \in OneListEvictionList(S)
  PROVE  KeepsTheClosest(e, S)
<1>1. e \in SUBSET S /\ Evicts(e, S, OneListPeerCount)
  BY DEF OneListEvictionList
<1>2. IsFiniteSet(S) /\ OneListPeerCount \in Nat
  BY SharderAssumption, FS_Subset
<1> QED BY <1>1, <1>2, EvictsKeeps DEF KeepsTheClosest, Evicts

\* Only the computation of its list ends the waiting of a callback for it.
LEMMA OthersWait ==
  ASSUME IInv, [Next]_vars, NEW p \in Peers, callback[p].pc = "compute", ~Compute(p)
  PROVE  callback'[p].pc = "compute"
<1>1. callback \in [Peers -> Callbacks]
  BY DEF IInv, CallbacksOK
<1>2. ASSUME NEW q \in Peers, Opened(q) PROVE callback'[p].pc = "compute"
  <2>1. q # p /\ callback[p] \in Callbacks
    BY <1>1, <1>2 DEF Opened
  <2>2. callback'[p] = [callback[p] EXCEPT !.late = callback[p].pc \in {"put", "compute"}]
    BY <1>2, <2>1 DEF Opened
  <2> QED BY <2>1, <2>2 DEF Callbacks
<1>3. ASSUME NEW q \in Peers, q # p, CallbackStep(q) PROVE callback'[p] = callback[p]
  <2>1. CASE CloseDenied(q)
    BY <1>1, <1>3, <2>1 DEF CloseDenied
  <2>2. CASE AskPeers(q)
    BY <1>1, <1>3, <2>2 DEF AskPeers
  <2>3. CASE PutConnectionAddress(q)
    BY <1>1, <1>3, <2>3 DEF PutConnectionAddress
  <2>4. CASE Compute(q)
    BY <1>1, <1>3, <2>4 DEF Compute
  <2>5. ASSUME NEW r \in Peers, ClosePeer(q, r) PROVE callback'[p] = callback[p]
    BY <1>1, <1>3, <2>5 DEF ClosePeer
  <2> QED BY <1>3, <2>1, <2>2, <2>3, <2>4, <2>5 DEF CallbackStep
<1>4. ASSUME NEW q \in Peers, CallbackStep(q) PROVE callback'[p].pc = "compute"
  <2>1. CASE q # p
    BY <1>3, <1>4, <2>1
  <2>2. CASE q = p
    BY <1>4, <2>2 DEF CallbackStep, CloseDenied, AskPeers, PutConnectionAddress, ClosePeer
  <2> QED BY <2>1, <2>2
<1>5. CASE UNCHANGED callback
  BY <1>5
<1>6. CASE \/ UNCHANGED vars \/ HolderStep
           \/ \E q \in Peers : Connect(q) \/ ConnectToPeer(q) \/ DialFails(q) \/ Disconnected(q)
           \/ \E q \in Deniable : Deny(q) \/ Allow(q) \/ Sweep(q)
           \/ \E x \in Resolvers : SetPeerShardResolver(x)
  BY <1>5, <1>6 DEF vars, HolderStep, PutShardID, Remove, Clear, Connect, ConnectToPeer,
                    DialFails, Disconnected, Deny, Allow, Sweep, SetPeerShardResolver
<1>7. CASE \E q \in Peers : Arrive(q) \/ DialSucceeds(q)
  BY <1>2, <1>7 DEF Arrive, DialSucceeds
<1> QED BY <1>4, <1>6, <1>7 DEF Next

\* The list that any callback computes, whatever it saw and whatever is known by then, is
\* the one of the reference: no kind gives up a peer for which the maxima leave room, the
\* farthest go first, and a preferred peer goes only as a seeder (listsSharder.go:185-219,
\* oneListSharder.go:40).
THEOREM ListIsTheReference == Spec => ComputesTheReference
<1> DEFINE Step == \A p \in Peers :
               callback[p].pc = "compute" /\ callback'[p].pc # "compute" =>
                 LET list == callback'[p].list
                     peers == callback[p].peers
                 IN  IF sharder = "lists" THEN KeepsTheReference(list, peers, kind, preferred)
                     ELSE KeepsTheClosest(list, peers)
<1>1. ASSUME IInv, [Next]_vars PROVE Step
  <2> SUFFICES ASSUME NEW p \in Peers, callback[p].pc = "compute", callback'[p].pc # "compute"
               PROVE  IF sharder = "lists"
                      THEN KeepsTheReference(callback'[p].list, callback[p].peers, kind, preferred)
                      ELSE KeepsTheClosest(callback'[p].list, callback[p].peers)
    OBVIOUS
  <2>1. Compute(p)
    BY <1>1, OthersWait
  <2>2. PICK e \in EvictionLists(sharder, callback[p].peers, kind, preferred) :
          callback' = [callback EXCEPT ![p] = After(e)]
    BY <2>1 DEF Compute
  <2>3. callback \in [Peers -> Callbacks]
    BY <1>1 DEF IInv, CallbacksOK
  <2>4. callback[p].peers \in SUBSET Peers
    BY <2>3 DEF Callbacks
  <2>5. callback'[p].list = e
    <3>1. callback'[p] = After(e)
      BY <2>2, <2>3
    <3> QED BY <3>1 DEF After, Done
  <2>6. CASE sharder = "lists"
    BY <2>2, <2>4, <2>5, <2>6, ListsKeepTheReference DEF EvictionLists
  <2>7. CASE sharder # "lists"
    BY <2>2, <2>4, <2>5, <2>7, OneListKeepsTheClosest DEF EvictionLists
  <2> QED BY <2>6, <2>7
<1>2. IInv /\ [Next]_vars => [Step]_vars
  BY <1>1
<1> QED BY <1>2, InvariantHolds, PTL DEF Spec, ComputesTheReference

-----------------------------------------------------------------------------
(***************************************************************************)
(* The loop of the monitor and the discoverers (Discovery, as the instance *)
(* Disc), for any number of seeders and of callers of Bootstrap.           *)
(***************************************************************************)
CONSTANTS Types, SeederList, Callers, None
VARIABLES type, steady, linked, closed, monitorClosed, peer, seen, monitor, canReconnect, call,
          dhts, loop, boot, try

Disc == INSTANCE Discovery

\* Exactly one caller waits on errChanInit while the loop is in processInit, and none at
\* any other time; the dht is made once at most.
OneWaits ==
    /\ \A c \in Callers : call[c] = "wait" => loop.pc = "init"
    /\ \A c, d \in Callers : call[c] = "wait" /\ call[d] = "wait" => c = d
    /\ loop.pc = "init" => \E c \in Callers : call[c] = "wait"
    /\ dhts \in {0, 1}

CallsInv ==
    /\ OneWaits
    /\ call \in [Callers -> {"none", "send", "wait", "done"}]
    /\ loop \in [pc : {"select", "init", "seeders", "ended"}, at : Nat]

\* The steps that change where a caller of Bootstrap or the loop is.
LEMMA CallKinds ==
  ASSUME [Disc!Next]_(Disc!vars)
  PROVE  \/ UNCHANGED <<call, dhts, loop>>
         \/ Disc!AskLoop \/ Disc!LoopEnds \/ Disc!LoopStep
         \/ \E c \in Callers : Disc!Bootstrap(c) \/ Disc!ReceiveInit(c) \/ Disc!StartDHT(c)
<1>1. \/ Disc!Disconnected \/ Disc!OtherDisconnected \/ Disc!PeerChanges \/ Disc!Close
      \/ Disc!StartSweep
      \/ Disc!MayReconnect \/ Disc!MonitorEnds \/ Disc!EndSweep \/ Disc!StartReconnect
      \/ Disc!EndReconnect \/ UNCHANGED Disc!vars
      => UNCHANGED <<call, dhts, loop>>
  BY DEF Disc!Disconnected, Disc!OtherDisconnected, Disc!PeerChanges, Disc!Close, Disc!StartSweep, Disc!MayReconnect,
         Disc!MonitorEnds, Disc!EndSweep, Disc!StartReconnect, Disc!EndReconnect, Disc!vars
<1>2. ASSUME NEW o \in Disc!Owners, Disc!TryStep(o) PROVE UNCHANGED <<call, dhts, loop>>
  BY <1>2 DEF Disc!TryStep, Disc!TryConnect, Disc!TryAgain, Disc!TryEnds
<1>3. Disc!BootStep => UNCHANGED <<call, dhts, loop>>
  BY DEF Disc!BootStep, Disc!BootStarts, Disc!FindsPeers, Disc!LookupFails, Disc!BootReconnected,
         Disc!BootAgain, Disc!BootEnds, Disc!BootMoves
<1> QED BY <1>1, <1>2, <1>3 DEF Disc!Next, Disc!MonitorStep

\* Each of these steps keeps one caller at errChanInit while the loop is about to answer.
LEMMA CallsStep ==
  ASSUME CallsInv, [Disc!Next]_(Disc!vars)
  PROVE  CallsInv'
<1>t. /\ call \in [Callers -> {"none", "send", "wait", "done"}]
      /\ loop \in [pc : {"select", "init", "seeders", "ended"}, at : Nat] /\ OneWaits
  BY DEF CallsInv
<1>1. CASE UNCHANGED <<call, dhts, loop>>
  BY <1>1 DEF CallsInv, OneWaits
<1>2. ASSUME UNCHANGED <<call, dhts>>, loop.pc # "init", loop'.pc # "init",
             loop' \in [pc : {"select", "init", "seeders", "ended"}, at : Nat]
      PROVE  CallsInv'
  BY <1>2, <1>t DEF CallsInv, OneWaits
<1>3. CASE Disc!AskLoop
  BY <1>1, <1>2, <1>3, <1>t DEF Disc!AskLoop
<1>4. CASE Disc!SeedersTimer \/ Disc!NothingToTry
  BY <1>2, <1>4, <1>t DEF Disc!SeedersTimer, Disc!NothingToTry, Disc!Waiting
<1>5. CASE Disc!TrySeeder
  BY <1>2, <1>5, <1>t DEF Disc!TrySeeder, Disc!NextSeeder, Disc!Waiting
<1>6. CASE Disc!LoopEnds
  <2>1. \A c \in Callers : call[c] # "wait"
    BY <1>6, <1>t DEF Disc!LoopEnds, OneWaits
  <2>2. UNCHANGED <<call, dhts>>
    BY <1>6, <1>t, <2>1 DEF Disc!LoopEnds, Disc!Answered
  <2>3. loop.pc # "init" /\ loop' = [loop EXCEPT !.pc = "ended"]
    BY <1>6 DEF Disc!LoopEnds
  <2> QED BY <1>2, <1>t, <2>2, <2>3
<1>7. CASE Disc!ProcessInit
  <2>0. dhts \in {0, 1} /\ dhts' \in {dhts, dhts + 1} /\ (dhts' # dhts => dhts = 0)
    BY <1>7, <1>t DEF Disc!ProcessInit, Disc!NotStarted, OneWaits
  <2>1. /\ call' = [c \in Callers |-> IF call[c] = "wait" THEN "done" ELSE call[c]]
        /\ dhts' \in {0, 1}
    BY <1>7, <2>0 DEF Disc!ProcessInit, Disc!Answered
  <2>2. loop'.pc # "init" /\ loop' \in [pc : {"select", "init", "seeders", "ended"}, at : Nat]
    <3>1. loop' = [loop EXCEPT !.pc = "seeders"] \/ loop' = [pc |-> "select", at |-> 1]
      BY <1>7 DEF Disc!ProcessInit, Disc!Waiting
    <3> QED BY <1>t, <3>1
  <2>3. /\ call' \in [Callers -> {"none", "send", "wait", "done"}]
        /\ \A c \in Callers : call'[c] # "wait"
    BY <1>t, <2>1
  <2> QED BY <2>1, <2>2, <2>3 DEF CallsInv, OneWaits
<1>8. ASSUME NEW c \in Callers, Disc!Bootstrap(c) PROVE CallsInv'
  BY <1>8, <1>t DEF Disc!Bootstrap, CallsInv, OneWaits
<1>9. ASSUME NEW c \in Callers, Disc!StartDHT(c) PROVE CallsInv'
  <2>1. /\ call[c] = "send" /\ call' = [call EXCEPT ![c] = "done"] /\ UNCHANGED loop
        /\ dhts' \in {0, 1}
    BY <1>9, <1>t DEF Disc!StartDHT, Disc!NotStarted, OneWaits
  <2> QED BY <1>t, <2>1 DEF CallsInv, OneWaits
<1>10. ASSUME NEW c \in Callers, Disc!ReceiveInit(c) PROVE CallsInv'
  <2>1. /\ call' = [call EXCEPT ![c] = "wait"] /\ loop.pc = "select"
        /\ loop' = [loop EXCEPT !.pc = "init"] /\ UNCHANGED dhts
    BY <1>10 DEF Disc!ReceiveInit
  <2>2. \A d \in Callers : call[d] # "wait"
    BY <1>t, <2>1 DEF OneWaits
  <2>3. \A d \in Callers : call'[d] = "wait" <=> d = c
    BY <1>t, <2>1, <2>2
  <2>4. loop'.pc = "init" /\ loop' \in [pc : {"select", "init", "seeders", "ended"}, at : Nat]
    BY <1>t, <2>1
  <2> QED BY <1>t, <2>1, <2>3, <2>4 DEF CallsInv, OneWaits
<1> QED BY <1>1, <1>3, <1>4, <1>5, <1>6, <1>7, <1>8, <1>9, <1>10, CallKinds DEF Disc!LoopStep

\* The send on errChanInit, which nothing can interrupt, always has a caller to receive it
\* and never a second one; Bootstrap called many times makes one dht.
THEOREM BootstrapAnswersOne == Disc!Spec => []OneWaits
<1>1. Disc!Init => CallsInv
  BY DEF Disc!Init, Disc!Waiting, CallsInv, OneWaits
<1>2. CallsInv /\ [Disc!Next]_(Disc!vars) => CallsInv'
  BY CallsStep
<1>3. CallsInv => OneWaits
  BY DEF CallsInv
<1> QED BY <1>1, <1>2, <1>3, PTL DEF Disc!Spec

\* The goroutine tryConnectToSeeder that o waits for still tries, or has signalled.
Goes(o) == try[o].pc \in {"connect", "pause", "done"}

NoVainWait ==
    /\ monitor = "reconnect" => Goes("monitor") \/ monitorClosed
    /\ boot = "reconnect" => Goes("bootstrap") \/ closed
    /\ boot = "start" => Goes("start") \/ closed

WaitsInv ==
    /\ NoVainWait
    /\ closed => monitorClosed
    /\ DOMAIN try = Disc!Owners
    /\ \A o \in Disc!Owners : DOMAIN try[o] = {"pc", "at"}
    /\ \A o \in Disc!Owners : try[o].pc = "ended" => closed

\* A step starts a goroutine for whom will wait for it, lets one go on, or changes none.
LEMMA TryKinds ==
  ASSUME [Disc!Next]_(Disc!vars)
  PROVE  \/ UNCHANGED try
         \/ \E o \in Disc!Owners : Disc!StartTry(o) \/ Disc!TryStep(o)
<1>1. \/ Disc!Disconnected \/ Disc!OtherDisconnected \/ Disc!PeerChanges \/ Disc!Close
      \/ Disc!StartSweep
      \/ Disc!MayReconnect \/ Disc!MonitorEnds \/ Disc!EndSweep \/ Disc!AskLoop
      \/ Disc!EndReconnect \/ Disc!LoopEnds \/ UNCHANGED Disc!vars
      => UNCHANGED try
  BY DEF Disc!Disconnected, Disc!OtherDisconnected, Disc!PeerChanges, Disc!Close, Disc!StartSweep, Disc!MayReconnect,
         Disc!MonitorEnds, Disc!EndSweep, Disc!AskLoop, Disc!EndReconnect, Disc!LoopEnds, Disc!vars
<1>2. Disc!LoopStep => UNCHANGED try
  BY DEF Disc!LoopStep, Disc!SeedersTimer, Disc!ProcessInit, Disc!TrySeeder, Disc!NothingToTry
<1>3. ASSUME NEW c \in Callers, Disc!Bootstrap(c) \/ Disc!ReceiveInit(c) \/ Disc!StartDHT(c)
      PROVE  UNCHANGED try \/ Disc!StartTry("start")
  BY <1>3 DEF Disc!Bootstrap, Disc!ReceiveInit, Disc!StartDHT
<1>4. Disc!StartReconnect => Disc!StartTry("monitor")
  BY DEF Disc!StartReconnect
<1>5. Disc!BootStep => UNCHANGED try \/ Disc!StartTry("bootstrap")
  BY DEF Disc!BootStep, Disc!BootStarts, Disc!FindsPeers, Disc!LookupFails, Disc!BootReconnected,
         Disc!BootAgain, Disc!BootEnds
<1>6. {"start", "bootstrap", "monitor"} \subseteq Disc!Owners
  BY DEF Disc!Owners
<1> QED BY <1>1, <1>2, <1>3, <1>4, <1>5, <1>6 DEF Disc!Next, Disc!MonitorStep

\* Whoever comes to wait started the goroutine it waits for in the same step.
LEMMA WaitKinds ==
  ASSUME [Disc!Next]_(Disc!vars)
  PROVE  /\ monitor' = "reconnect" => monitor = "reconnect" \/ Disc!StartTry("monitor")
         /\ boot' = "reconnect" => boot = "reconnect" \/ Disc!StartTry("bootstrap")
         /\ boot' = "start" => boot = "start" \/ Disc!StartTry("start")
<1> DEFINE Waits ==
      /\ monitor' = "reconnect" => monitor = "reconnect" \/ Disc!StartTry("monitor")
      /\ boot' = "reconnect" => boot = "reconnect" \/ Disc!StartTry("bootstrap")
      /\ boot' = "start" => boot = "start" \/ Disc!StartTry("start")
<1>1. \/ Disc!Disconnected \/ Disc!OtherDisconnected \/ Disc!PeerChanges \/ Disc!Close
      \/ Disc!StartSweep
      \/ Disc!MayReconnect \/ Disc!MonitorEnds \/ Disc!LoopEnds \/ UNCHANGED Disc!vars
      => Waits
  BY DEF Disc!Disconnected, Disc!OtherDisconnected, Disc!PeerChanges, Disc!Request, Disc!Close, Disc!StartSweep,
         Disc!MayReconnect, Disc!MonitorEnds, Disc!LoopEnds, Disc!vars, Disc!monitorVars
<1>2. Disc!MonitorStep => Waits
  BY DEF Disc!MonitorStep, Disc!EndSweep, Disc!AskLoop, Disc!StartReconnect, Disc!EndReconnect
<1>3. Disc!LoopStep => Waits
  BY DEF Disc!LoopStep, Disc!SeedersTimer, Disc!ProcessInit, Disc!TrySeeder, Disc!NothingToTry,
         Disc!monitorVars
<1>4. ASSUME NEW c \in Callers, Disc!Bootstrap(c) \/ Disc!ReceiveInit(c) \/ Disc!StartDHT(c)
      PROVE  Waits
  BY <1>4 DEF Disc!Bootstrap, Disc!ReceiveInit, Disc!StartDHT, Disc!monitorVars
<1>5. ASSUME NEW o \in Disc!Owners, Disc!TryStep(o) PROVE Waits
  BY <1>5 DEF Disc!TryStep, Disc!TryConnect, Disc!TryAgain, Disc!TryEnds, Disc!monitorVars
<1>6. Disc!BootStep => Waits
  BY DEF Disc!BootStep, Disc!BootStarts, Disc!FindsPeers, Disc!LookupFails, Disc!BootReconnected,
         Disc!BootAgain, Disc!BootEnds, Disc!BootMoves, Disc!monitorVars
<1> QED BY <1>1, <1>2, <1>3, <1>4, <1>5, <1>6 DEF Disc!Next

\* Contexts that are done stay done, the monitor's first.
LEMMA CloseKinds ==
  ASSUME [Disc!Next]_(Disc!vars)
  PROVE  \/ closed' = closed /\ monitorClosed' = monitorClosed
         \/ closed' = closed /\ monitorClosed' = TRUE
         \/ closed' = TRUE /\ monitorClosed' = monitorClosed /\ monitorClosed
<1> DEFINE Same == closed' = closed /\ monitorClosed' = monitorClosed
<1>1. \/ Disc!Disconnected \/ Disc!OtherDisconnected \/ Disc!PeerChanges \/ Disc!StartSweep
      \/ Disc!MayReconnect \/ Disc!MonitorEnds \/ Disc!LoopEnds \/ UNCHANGED Disc!vars
      => Same
  BY DEF Disc!Disconnected, Disc!OtherDisconnected, Disc!PeerChanges, Disc!StartSweep,
         Disc!MayReconnect, Disc!MonitorEnds, Disc!LoopEnds, Disc!vars, Disc!closeVars
<1>2. Disc!Close => \/ closed' = closed /\ monitorClosed' = TRUE
                    \/ closed' = TRUE /\ monitorClosed' = monitorClosed /\ monitorClosed
  BY DEF Disc!Close
<1>3. Disc!MonitorStep => Same
  BY DEF Disc!MonitorStep, Disc!EndSweep, Disc!AskLoop, Disc!StartReconnect, Disc!EndReconnect,
         Disc!closeVars
<1>4. Disc!LoopStep => Same
  BY DEF Disc!LoopStep, Disc!SeedersTimer, Disc!ProcessInit, Disc!TrySeeder, Disc!NothingToTry,
         Disc!closeVars
<1>5. ASSUME NEW c \in Callers, Disc!Bootstrap(c) \/ Disc!ReceiveInit(c) \/ Disc!StartDHT(c)
      PROVE  Same
  BY <1>5 DEF Disc!Bootstrap, Disc!ReceiveInit, Disc!StartDHT, Disc!closeVars
<1>6. ASSUME NEW o \in Disc!Owners, Disc!TryStep(o) PROVE Same
  BY <1>6 DEF Disc!TryStep, Disc!TryConnect, Disc!TryAgain, Disc!TryEnds, Disc!closeVars
<1>7. Disc!BootStep => Same
  BY DEF Disc!BootStep, Disc!BootStarts, Disc!FindsPeers, Disc!LookupFails, Disc!BootReconnected,
         Disc!BootAgain, Disc!BootEnds, Disc!BootMoves, Disc!closeVars
<1> QED BY <1>1, <1>2, <1>3, <1>4, <1>5, <1>6, <1>7 DEF Disc!Next

\* A goroutine goes on until it signals; without a signal it ends only with the context.
LEMMA GoesOn ==
  ASSUME WaitsInv, [Disc!Next]_(Disc!vars)
  PROVE  /\ DOMAIN try' = Disc!Owners
         /\ \A o \in Disc!Owners : DOMAIN try'[o] = {"pc", "at"}
         /\ \A o \in Disc!Owners : try'[o].pc = "ended" => closed
         /\ \A o \in Disc!Owners : Goes(o) => Goes(o)' \/ closed
<1>t. /\ DOMAIN try = Disc!Owners
      /\ \A o \in Disc!Owners : DOMAIN try[o] = {"pc", "at"}
      /\ \A o \in Disc!Owners : try[o].pc = "ended" => closed
  BY DEF WaitsInv
<1> DEFINE Kept(q) == /\ DOMAIN try'[q] = {"pc", "at"}
                      /\ try'[q].pc = "ended" => closed
                      /\ Goes(q) => Goes(q)' \/ closed
<1>1. CASE UNCHANGED try
  BY <1>1, <1>t DEF Goes
<1>2. ASSUME NEW o \in Disc!Owners, NEW r, try' = [try EXCEPT ![o] = r], DOMAIN r = {"pc", "at"},
             \/ r.pc \in {"connect", "pause", "done"}
             \/ r.pc = "ended" /\ closed
      PROVE  DOMAIN try' = Disc!Owners /\ \A q \in Disc!Owners : Kept(q)
  <2>1. DOMAIN try' = Disc!Owners /\ try'[o] = r
    BY <1>2, <1>t
  <2>2. Kept(o)
    BY <1>2, <2>1 DEF Goes
  <2>3. ASSUME NEW q \in Disc!Owners, q # o PROVE Kept(q)
    <3>1. try'[q] = try[q]
      BY <1>2, <1>t, <2>3
    <3> QED BY <1>t, <3>1 DEF Goes
  <2> QED BY <2>1, <2>2, <2>3
<1>3. ASSUME NEW o \in Disc!Owners, Disc!StartTry(o) \/ Disc!TryStep(o)
      PROVE  DOMAIN try' = Disc!Owners /\ \A q \in Disc!Owners : Kept(q)
  <2>1. ASSUME NEW pc, NEW i
        PROVE  DOMAIN [pc |-> pc, at |-> i] = {"pc", "at"} /\ [pc |-> pc, at |-> i].pc = pc
    OBVIOUS
  <2>2. ASSUME NEW pc \in {"connect", "done", "ended"}
        PROVE  [Disc!NoTry EXCEPT !.pc = pc] = [pc |-> pc, at |-> 1]
    BY DEF Disc!NoTry
  <2>3. CASE Disc!StartTry(o)
    <3>1. \/ try' = [try EXCEPT ![o] = [pc |-> "connect", at |-> 1]]
          \/ try' = [try EXCEPT ![o] = [pc |-> "done", at |-> 1]]
      BY <2>2, <2>3 DEF Disc!StartTry
    <3> QED BY <1>2, <2>1, <3>1
  <2>4. CASE Disc!TryConnect(o)
    <3>1. \/ try' = [try EXCEPT ![o] = [pc |-> "done", at |-> 1]]
          \/ try' = [try EXCEPT ![o] = [pc |-> "pause", at |-> Disc!OtherSeeder(try[o].at)]]
      BY <1>t, <2>2, <2>4 DEF Disc!TryConnect
    <3> QED BY <1>2, <2>1, <3>1
  <2>5. CASE Disc!TryAgain(o)
    <3>1. try' = [try EXCEPT ![o] = [try[o] EXCEPT !.pc = "connect"]]
      BY <1>t, <2>5 DEF Disc!TryAgain
    <3>2. /\ DOMAIN [try[o] EXCEPT !.pc = "connect"] = {"pc", "at"}
          /\ [try[o] EXCEPT !.pc = "connect"].pc = "connect"
      BY <1>t
    <3> QED BY <1>2, <3>1, <3>2
  <2>6. CASE Disc!TryEnds(o)
    <3>1. try' = [try EXCEPT ![o] = [pc |-> "ended", at |-> 1]] /\ closed
      BY <2>2, <2>6 DEF Disc!TryEnds
    <3> QED BY <1>2, <2>1, <3>1
  <2> QED BY <1>3, <2>3, <2>4, <2>5, <2>6 DEF Disc!TryStep
<1> QED BY <1>1, <1>3, TryKinds

\* Who waits keeps waiting for a goroutine that goes on.
LEMMA WaitsStep ==
  ASSUME WaitsInv, [Disc!Next]_(Disc!vars)
  PROVE  WaitsInv'
<1>t. NoVainWait /\ (closed => monitorClosed) /\ DOMAIN try = Disc!Owners
  BY DEF WaitsInv
<1>1. (closed => closed') /\ (monitorClosed => monitorClosed') /\ (closed' => monitorClosed')
  <2>1. CASE closed' = closed /\ monitorClosed' = monitorClosed
    BY <1>t, <2>1
  <2>2. CASE closed' = closed /\ monitorClosed' = TRUE
    BY <1>t, <2>2
  <2>3. CASE closed' = TRUE /\ monitorClosed' = monitorClosed /\ monitorClosed
    BY <1>t, <2>3
  <2> QED BY <2>1, <2>2, <2>3, CloseKinds, Zenon
<1>2. ASSUME NEW o \in Disc!Owners, Disc!StartTry(o) PROVE Goes(o)'
  BY <1>2, <1>t DEF Disc!StartTry, Disc!NoTry, Goes
<1>3. {"start", "bootstrap", "monitor"} \subseteq Disc!Owners
  BY DEF Disc!Owners
<1>4. \A o \in Disc!Owners : Goes(o) => Goes(o)' \/ closed
  BY GoesOn
<1>5. monitor' = "reconnect" => Goes("monitor")' \/ monitorClosed'
  BY <1>t, <1>1, <1>2, <1>3, <1>4, WaitKinds DEF NoVainWait
<1>6. boot' = "reconnect" => Goes("bootstrap")' \/ closed'
  BY <1>t, <1>1, <1>2, <1>3, <1>4, WaitKinds DEF NoVainWait
<1>7. boot' = "start" => Goes("start")' \/ closed'
  BY <1>t, <1>1, <1>2, <1>3, <1>4, WaitKinds DEF NoVainWait
<1>8. /\ DOMAIN try' = Disc!Owners
      /\ \A o \in Disc!Owners : DOMAIN try'[o] = {"pc", "at"}
      /\ \A o \in Disc!Owners : try'[o].pc = "ended" => closed'
  BY <1>1, GoesOn
<1> QED BY <1>1, <1>5, <1>6, <1>7, <1>8 DEF WaitsInv, NoVainWait

\* ReconnectToNetwork of the continuous discoverer, called by the monitor or by bootstrap,
\* and the start of bootstrap never wait for a goroutine that ended without a signal, unless
\* the context that ends the wait is done too: the two Close steps come in that order.
THEOREM NobodyWaitsInVain == Disc!Spec => []NoVainWait
<1>1. Disc!Init => WaitsInv
  BY DEF Disc!Init, Disc!NoTry, WaitsInv, NoVainWait
<1>2. WaitsInv /\ [Disc!Next]_(Disc!vars) => WaitsInv'
  BY WaitsStep
<1>3. WaitsInv => NoVainWait
  BY DEF WaitsInv
<1> QED BY <1>1, <1>2, <1>3, PTL DEF Disc!Spec
============================================================================
