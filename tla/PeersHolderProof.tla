-------------------------- MODULE PeersHolderProof --------------------------
(***************************************************************************)
(* For every set of peers, shards and addresses: the maps of the holder    *)
(* name only addresses that know the peer, and the list of a shard is      *)
(* never shorter than the number of peers whose entry names the shard.     *)
(***************************************************************************)
EXTENDS PeersHolder, SequenceTheorems, FiniteSetTheorems, WellFoundedInduction, TLAPS

\* The peers whose entry names the shard s.
EntriesOf(s) == {p \in DOMAIN entries : entries[p].shard = s}

\* Only finitely many peers have an entry, for each was put there by a call.
EntriesFinite == IsFiniteSet(DOMAIN entries)

IInv == TypeOK /\ EntriesFinite /\ KnownAtAddress /\ ListsLongEnough

\* What taking the element at k out of a list leaves.
LEMMA RemoveAtElements ==
  ASSUME NEW S, NEW s \in Seq(S), NEW k \in 1..Len(s)
  PROVE  /\ RemoveAt(s, k) \in Seq(S)
         /\ Len(RemoveAt(s, k)) = Len(s) - 1
         /\ \A x : Contains(s, x) /\ x # s[k] => Contains(RemoveAt(s, k), x)
<1> DEFINE a == SubSeq(s, 1, k - 1)
           b == SubSeq(s, k + 1, Len(s))
<1>1. Len(s) \in Nat /\ \A i \in 1..Len(s) : s[i] \in S
  OBVIOUS
<1>2. /\ a \in Seq(S) /\ Len(a) = k - 1
      /\ \A i \in 1..(k - 1) : a[i] = s[i]
  BY <1>1, SubSeqProperties
<1>3. /\ b \in Seq(S) /\ Len(b) = Len(s) - k
      /\ \A i \in 1..(Len(s) - k) : b[i] = s[k + i]
  BY <1>1, SubSeqProperties
<1> HIDE DEF a, b
<1>4. /\ a \o b \in Seq(S)
      /\ Len(a \o b) = Len(a) + Len(b)
      /\ \A i \in 1..(Len(a) + Len(b)) : (a \o b)[i] = IF i <= Len(a) THEN a[i] ELSE b[i - Len(a)]
  BY <1>2, <1>3, ConcatProperties
<1>5. RemoveAt(s, k) = a \o b
  BY DEF RemoveAt, a, b
<1>6. Len(a \o b) = Len(s) - 1
  BY <1>1, <1>2, <1>3, <1>4
<1>7. ASSUME NEW x, NEW i \in 1..Len(s), s[i] = x, x # s[k]
      PROVE  \E j \in 1..Len(a \o b) : (a \o b)[j] = x
  <2>1. CASE i < k
    <3>1. i \in 1..(k - 1) /\ i \in 1..(Len(a) + Len(b)) /\ i <= Len(a)
      BY <1>1, <1>2, <1>3, <2>1
    <3> QED BY <1>2, <1>4, <1>7, <3>1
  <2>2. CASE i > k
    <3>1. /\ i - k \in 1..(Len(s) - k) /\ k + (i - k) = i
          /\ i - 1 \in 1..(Len(a) + Len(b)) /\ ~(i - 1 <= Len(a)) /\ (i - 1) - Len(a) = i - k
      BY <1>1, <1>2, <1>3, <2>2
    <3> QED BY <1>3, <1>4, <1>7, <3>1
  <2> QED BY <1>1, <1>7, <2>1, <2>2
<1> QED BY <1>4, <1>5, <1>6, <1>7 DEF Contains

\* A set of naturals that is not empty has a smallest member.
LEMMA MinInSet ==
  ASSUME NEW I, I \subseteq Nat, I # {}
  PROVE  Min(I) \in I
<1> DEFINE R == OpToRel(<, Nat)
<1>1. \E x \in I : \A y \in I : ~(<<y, x>> \in R)
  <2>1. IsWellFoundedOn(R, Nat)
    BY NatLessThanWellFounded
  <2> HIDE DEF R
  <2> QED BY <2>1, WFMin
<1>2. \A x, y \in Nat : y < x => <<y, x>> \in R
  BY DEF OpToRel
<1> HIDE DEF R
<1>3. \E x \in I : \A y \in I : x =< y
  <2>1. PICK x \in I : \A y \in I : ~(<<y, x>> \in R)
    BY <1>1
  <2>2. ASSUME NEW y \in I PROVE x =< y
    <3>1. x \in Nat /\ y \in Nat
      OBVIOUS
    <3>2. ~(y < x)
      BY <1>2, <2>1, <3>1, Zenon
    <3> QED BY <3>1, <3>2
  <2> QED BY <2>2
<1> QED BY <1>3 DEF Min

\* Taking the first e out of a list leaves the other elements.
LEMMA RemoveFirstElements ==
  ASSUME NEW S, NEW s \in Seq(S), NEW e
  PROVE  /\ RemoveFirst(s, e) \in Seq(S)
         /\ \A x : Contains(s, x) /\ x # e => Contains(RemoveFirst(s, e), x)
<1> DEFINE I == {i \in 1..Len(s) : s[i] = e}
<1>1. CASE I # {}
  <2>1. RemoveFirst(s, e) = RemoveAt(s, Min(I))
    BY <1>1 DEF RemoveFirst, SelectInSeq
  <2>2. Min(I) \in I
    <3>1. I \subseteq Nat
      OBVIOUS
    <3> HIDE DEF I
    <3> QED BY <1>1, <3>1, MinInSet
  <2> QED BY <2>1, <2>2, RemoveAtElements
<1>2. CASE I = {}
  BY <1>2 DEF RemoveFirst
<1> QED BY <1>1, <1>2

\* Appending a peer to a list keeps its elements.
LEMMA AppendElements ==
  ASSUME NEW S, NEW s \in Seq(S), NEW e \in S
  PROVE  /\ Append(s, e) \in Seq(S) /\ Len(Append(s, e)) = Len(s) + 1
         /\ Contains(Append(s, e), e)
         /\ \A x : Contains(s, x) => Contains(Append(s, e), x)
<1>1. Len(s) \in Nat
  OBVIOUS
<1>2. /\ Append(s, e) \in Seq(S) /\ Len(Append(s, e)) = Len(s) + 1
      /\ \A i \in 1..Len(s) : Append(s, e)[i] = s[i]
      /\ Append(s, e)[Len(s) + 1] = e
  BY AppendProperties
<1>3. Contains(Append(s, e), e)
  <2>1. Len(s) + 1 \in 1..Len(Append(s, e))
    BY <1>1, <1>2
  <2> QED BY <1>2, <2>1 DEF Contains
<1>4. ASSUME NEW x, Contains(s, x) PROVE Contains(Append(s, e), x)
  <2>1. PICK i \in 1..Len(s) : s[i] = x
    BY <1>4 DEF Contains
  <2>2. i \in 1..Len(Append(s, e))
    BY <1>1, <1>2
  <2> QED BY <1>2, <2>1, <2>2 DEF Contains
<1> QED BY <1>2, <1>3, <1>4

\* Only finitely many entries name a shard.
LEMMA CountEntries ==
  ASSUME EntriesFinite, NEW s
  PROVE  IsFiniteSet(EntriesOf(s)) /\ Cardinality(EntriesOf(s)) \in Nat
<1>1. EntriesOf(s) \in SUBSET DOMAIN entries
  BY DEF EntriesOf
<1> QED BY <1>1, FS_Subset, FS_CardinalityType DEF EntriesFinite

\* The initial state satisfies the inductive invariant.
LEMMA InitIInv == Init => IInv
<1> SUFFICES ASSUME Init PROVE IInv
  OBVIOUS
<1>1. DOMAIN waiting = {} /\ DOMAIN entries = {}
  BY DEF Init, Nothing
<1>2. TypeOK
  <2>1. waiting \in [DOMAIN waiting -> Addresses] /\ entries \in [DOMAIN entries -> EntryData]
    BY <1>1 DEF Init, Nothing
  <2>2. infos \in [Addresses -> Seq(Peers)] /\ listed \in [Shards -> Seq(Peers)]
    BY DEF Init
  <2>3. panicked \in BOOLEAN
    BY DEF Init
  <2> QED BY <1>1, <2>1, <2>2, <2>3 DEF TypeOK
<1>3. EntriesFinite /\ KnownAtAddress
  BY <1>1, FS_EmptySet DEF EntriesFinite, KnownAtAddress
<1>4. ListsLongEnough
  <2> SUFFICES ASSUME NEW s \in Shards
               PROVE  Cardinality({p \in DOMAIN entries : entries[p].shard = s}) <= Len(listed[s])
    BY DEF ListsLongEnough
  <2>1. {p \in DOMAIN entries : entries[p].shard = s} = {}
    BY <1>1
  <2>2. listed[s] = <<>>
    BY DEF Init
  <2> QED BY <2>1, <2>2, FS_EmptySet
<1> QED BY <1>2, <1>3, <1>4 DEF IInv

\* A peer that connects from a preferred address waits there.
LEMMA PutConnectionAddressStep ==
  ASSUME IInv, NEW p \in Peers, NEW c \in Connections, PutConnectionAddress(p, c)
  PROVE  IInv'
<1>1. PICK a \in Addresses : /\ AddNewPeerInfo(p, a)
                             /\ UNCHANGED <<listed, entries, panicked>>
  BY DEF PutConnectionAddress
<1>2. /\ TypeOK /\ infos[a] \in Seq(Peers)
      /\ infos' = [infos EXCEPT ![a] = Append(@, p)] /\ waiting' = With(waiting, p, a)
  BY <1>1 DEF IInv, TypeOK, AddNewPeerInfo
<1>3. DOMAIN waiting' = DOMAIN waiting \cup {p} /\ waiting'[p] = a
      /\ \A q \in DOMAIN waiting : q # p => waiting'[q] = waiting[q]
  BY <1>2 DEF With
<1>4. /\ Append(infos[a], p) \in Seq(Peers) /\ Contains(Append(infos[a], p), p)
      /\ \A x : Contains(infos[a], x) => Contains(Append(infos[a], p), x)
  BY <1>2, AppendElements
<1>5. /\ infos' \in [Addresses -> Seq(Peers)]
      /\ \A b \in Addresses : \A x : Contains(infos[b], x) => Contains(infos'[b], x)
      /\ Contains(infos'[a], p)
  BY <1>2, <1>4 DEF TypeOK
<1>6. TypeOK'
  BY <1>1, <1>2, <1>5 DEF TypeOK, With
<1>7. KnownAtAddress'
  <2>1. ASSUME NEW q \in DOMAIN waiting' PROVE Contains(infos'[waiting'[q]], q)
    <3>1. CASE q = p
      BY <1>3, <1>5, <3>1
    <3>2. CASE q # p
      <4>1. q \in DOMAIN waiting /\ waiting'[q] = waiting[q] /\ waiting[q] \in Addresses
        BY <1>2, <1>3, <3>2 DEF TypeOK
      <4> QED BY <1>5, <4>1 DEF IInv, KnownAtAddress
    <3> QED BY <3>1, <3>2
  <2>2. ASSUME NEW q \in DOMAIN entries PROVE Contains(infos'[entries[q].addr], q)
    <3>1. entries[q].addr \in Addresses
      BY <1>2 DEF TypeOK, EntryData
    <3> QED BY <1>5, <3>1 DEF IInv, KnownAtAddress
  <2> QED BY <1>1, <2>1, <2>2 DEF KnownAtAddress
<1>8. EntriesFinite' /\ ListsLongEnough'
  BY <1>1 DEF IInv, EntriesFinite, ListsLongEnough
<1> QED BY <1>6, <1>7, <1>8 DEF IInv

\* A peer that waits gets its shard, its entry and a place in the list.
LEMMA PutShardIDStep ==
  ASSUME IInv, NEW p \in Peers, NEW s \in Shards, PutShardID(p, s)
  PROVE  IInv'
<1> DEFINE entry == [addr |-> waiting[p], shard |-> s,
                     index |-> Place(listed[s], Append(listed[s], p))]
<1>1. /\ p \in DOMAIN waiting /\ Contains(infos[waiting[p]], p)
      /\ listed' = [listed EXCEPT ![s] = Append(@, p)]
      /\ entries' = With(entries, p, entry)
      /\ waiting' = Without(waiting, p)
      /\ UNCHANGED <<infos, panicked>>
  BY DEF PutShardID, KnownAt
<1>2. TypeOK /\ listed[s] \in Seq(Peers) /\ Len(listed[s]) \in Nat /\ waiting[p] \in Addresses
  BY <1>1 DEF IInv, TypeOK
<1>3. Append(listed[s], p) \in Seq(Peers) /\ Len(Append(listed[s], p)) = Len(listed[s]) + 1
  BY <1>2, AppendElements
<1>4. entry \in EntryData /\ entry.addr = waiting[p] /\ entry.shard = s
  BY <1>2, <1>3 DEF EntryData, Place
<1> HIDE DEF entry
<1>5. /\ DOMAIN entries' = DOMAIN entries \cup {p} /\ entries'[p] = entry
      /\ \A q \in DOMAIN entries : q # p => entries'[q] = entries[q]
  BY <1>1 DEF With
<1>6. /\ DOMAIN waiting' = DOMAIN waiting \ {p}
      /\ \A q \in DOMAIN waiting : q # p => waiting'[q] = waiting[q]
  BY <1>1 DEF Without
<1>7. TypeOK'
  <2>1. listed' \in [Shards -> Seq(Peers)]
    BY <1>1, <1>2, <1>3 DEF TypeOK
  <2>2. DOMAIN waiting' \subseteq Peers /\ waiting' \in [DOMAIN waiting' -> Addresses]
    BY <1>1, <1>2 DEF TypeOK, Without
  <2>3. DOMAIN entries' \subseteq Peers /\ entries' \in [DOMAIN entries' -> EntryData]
    BY <1>1, <1>2, <1>4 DEF TypeOK, With
  <2> QED BY <1>1, <1>2, <2>1, <2>2, <2>3 DEF TypeOK
<1>8. EntriesFinite'
  BY <1>5, FS_AddElement DEF IInv, EntriesFinite
<1>9. KnownAtAddress'
  BY <1>1, <1>4, <1>5, <1>6 DEF IInv, KnownAtAddress
<1>10. ListsLongEnough'
  <2> SUFFICES ASSUME NEW t \in Shards
               PROVE  Cardinality(EntriesOf(t)') <= Len(listed'[t])
    BY DEF ListsLongEnough, EntriesOf
  <2>1. Cardinality(EntriesOf(t)) <= Len(listed[t])
    BY DEF IInv, ListsLongEnough, EntriesOf
  <2>2. IsFiniteSet(EntriesOf(t)) /\ Cardinality(EntriesOf(t)) \in Nat
    BY CountEntries DEF IInv
  <2>3. CASE t = s
    <3>1. EntriesOf(t)' = EntriesOf(t) \cup {p}
      BY <1>4, <1>5, <2>3 DEF EntriesOf
    <3>2. Len(listed'[t]) = Len(listed[t]) + 1
      BY <1>1, <1>2, <1>3, <2>3 DEF TypeOK
    <3>3. Cardinality(EntriesOf(t) \cup {p})
            = IF p \in EntriesOf(t) THEN Cardinality(EntriesOf(t)) ELSE Cardinality(EntriesOf(t)) + 1
      BY <2>2, FS_AddElement, Zenon
    <3> QED BY <1>2, <2>1, <2>2, <2>3, <3>1, <3>2, <3>3
  <2>4. CASE t # s
    <3>1. EntriesOf(t)' = EntriesOf(t) \ {p}
      BY <1>4, <1>5, <2>4 DEF EntriesOf
    <3>2. listed'[t] = listed[t] /\ Len(listed[t]) \in Nat
      BY <1>1, <1>2, <2>4 DEF TypeOK
    <3>3. Cardinality(EntriesOf(t) \ {p})
            = IF p \in EntriesOf(t) THEN Cardinality(EntriesOf(t)) - 1 ELSE Cardinality(EntriesOf(t))
      BY <2>2, FS_RemoveElement, Zenon
    <3> QED BY <2>1, <2>2, <3>1, <3>2, <3>3
  <2> QED BY <2>3, <2>4
<1> QED BY <1>7, <1>8, <1>9, <1>10 DEF IInv

\* Remove takes a peer off its list, its address and the maps, or panics and changes none.
LEMMA RemovePeerStep ==
  ASSUME IInv, NEW p \in Peers, RemovePeer(p)
  PROVE  IInv'
<1> DEFINE entry == entries[p]
<1>1. TypeOK /\ p \in DOMAIN entries /\ entry \in EntryData
  BY DEF IInv, TypeOK, RemovePeer
<1>2. entry.addr \in Addresses /\ entry.shard \in Shards /\ entry.index \in Nat
  BY <1>1 DEF EntryData
<1>3. /\ infos[entry.addr] \in Seq(Peers) /\ listed[entry.shard] \in Seq(Peers)
      /\ Len(listed[entry.shard]) \in Nat
  BY <1>1, <1>2 DEF TypeOK
<1>4. CASE entry.index >= Len(listed[entry.shard])
  <2>1. ~(entry.index < Len(listed[entry.shard]))
    BY <1>2, <1>3, <1>4
  <2>2. UNCHANGED <<infos, waiting, listed, entries>> /\ panicked' = TRUE
    BY <2>1, Zenon DEF RemovePeer
  <2> QED BY <2>2 DEF IInv, TypeOK, EntriesFinite, KnownAtAddress, ListsLongEnough
<1>5. CASE entry.index < Len(listed[entry.shard])
  <2>1. /\ listed' = [listed EXCEPT ![entry.shard] = RemoveAt(@, entry.index + 1)]
        /\ entries' = Without(entries, p)
        /\ infos' = [infos EXCEPT ![entry.addr] = RemoveFirst(@, p)]
        /\ waiting' = Without(waiting, p) /\ UNCHANGED panicked
    BY <1>2, <1>3, <1>5 DEF RemovePeer, EntryDeleted
  <2> DEFINE list == RemoveAt(listed[entry.shard], entry.index + 1)
             known == RemoveFirst(infos[entry.addr], p)
  <2>2. list \in Seq(Peers) /\ Len(list) = Len(listed[entry.shard]) - 1
    <3>1. entry.index + 1 \in 1..Len(listed[entry.shard])
      BY <1>2, <1>3, <1>5
    <3> QED BY <1>3, <3>1, RemoveAtElements
  <2>3. /\ known \in Seq(Peers)
        /\ \A x : Contains(infos[entry.addr], x) /\ x # p => Contains(known, x)
    BY <1>3, RemoveFirstElements
  <2> HIDE DEF list, known
  <2>4. /\ listed' = [listed EXCEPT ![entry.shard] = list]
        /\ infos' = [infos EXCEPT ![entry.addr] = known]
    BY <2>1 DEF list, known
  <2>5. /\ DOMAIN entries' = DOMAIN entries \ {p} /\ DOMAIN waiting' = DOMAIN waiting \ {p}
        /\ \A q \in DOMAIN entries : q # p => entries'[q] = entries[q]
        /\ \A q \in DOMAIN waiting : q # p => waiting'[q] = waiting[q]
    BY <2>1 DEF Without
  <2>6. TypeOK'
    <3>1. infos' \in [Addresses -> Seq(Peers)] /\ listed' \in [Shards -> Seq(Peers)]
      BY <1>1, <1>2, <2>2, <2>3, <2>4 DEF TypeOK
    <3>2. DOMAIN waiting' \subseteq Peers /\ waiting' \in [DOMAIN waiting' -> Addresses]
      BY <1>1, <2>1 DEF TypeOK, Without
    <3>3. DOMAIN entries' \subseteq Peers /\ entries' \in [DOMAIN entries' -> EntryData]
      BY <1>1, <2>1 DEF TypeOK, Without
    <3> QED BY <1>1, <2>1, <3>1, <3>2, <3>3 DEF TypeOK
  <2>7. EntriesFinite'
    BY <2>5, FS_RemoveElement DEF IInv, EntriesFinite
  <2>8. KnownAtAddress'
    <3>1. ASSUME NEW a \in Addresses, NEW q, q # p, Contains(infos[a], q)
          PROVE  Contains(infos'[a], q)
      BY <1>1, <1>2, <2>3, <2>4, <3>1 DEF TypeOK
    <3>2. /\ \A q \in DOMAIN waiting : waiting[q] \in Addresses
          /\ \A q \in DOMAIN entries : entries[q].addr \in Addresses
      BY <1>1 DEF TypeOK, EntryData
    <3> QED BY <2>5, <3>1, <3>2 DEF IInv, KnownAtAddress
  <2>9. ListsLongEnough'
    <3> SUFFICES ASSUME NEW t \in Shards
                 PROVE  Cardinality(EntriesOf(t)') <= Len(listed'[t])
      BY DEF ListsLongEnough, EntriesOf
    <3>1. Cardinality(EntriesOf(t)) <= Len(listed[t])
      BY DEF IInv, ListsLongEnough, EntriesOf
    <3>2. IsFiniteSet(EntriesOf(t)) /\ Cardinality(EntriesOf(t)) \in Nat
      BY CountEntries DEF IInv
    <3>3. EntriesOf(t)' = EntriesOf(t) \ {p}
      BY <2>5 DEF EntriesOf
    <3>4. Cardinality(EntriesOf(t) \ {p})
            = IF p \in EntriesOf(t) THEN Cardinality(EntriesOf(t)) - 1 ELSE Cardinality(EntriesOf(t))
      BY <3>2, FS_RemoveElement
    <3>5. CASE t = entry.shard
      <4>1. p \in EntriesOf(t)
        BY <1>1, <3>5 DEF EntriesOf
      <4>2. listed'[t] = list
        BY <1>1, <2>4, <3>5 DEF TypeOK
      <4> QED BY <1>3, <2>2, <3>1, <3>2, <3>3, <3>4, <3>5, <4>1, <4>2
    <3>6. CASE t # entry.shard
      <4>1. listed'[t] = listed[t] /\ Len(listed[t]) \in Nat
        BY <1>1, <2>4, <3>6 DEF TypeOK
      <4>2. p \notin EntriesOf(t)
        BY <3>6 DEF EntriesOf
      <4> QED BY <3>1, <3>2, <3>3, <3>4, <4>1, <4>2
    <3> QED BY <3>5, <3>6
  <2> QED BY <2>6, <2>7, <2>8, <2>9 DEF IInv
<1> QED BY <1>2, <1>3, <1>4, <1>5

\* Clear empties the maps and the lists.
LEMMA ClearStep ==
  ASSUME IInv, Clear
  PROVE  IInv'
<1>1. DOMAIN waiting' = {} /\ DOMAIN entries' = {}
  BY DEF Clear, Nothing
<1>2. TypeOK'
  <2>1. waiting' \in [DOMAIN waiting' -> Addresses] /\ entries' \in [DOMAIN entries' -> EntryData]
    BY <1>1 DEF Clear, Nothing
  <2> QED BY <1>1, <2>1 DEF Clear, IInv, TypeOK
<1>3. EntriesFinite' /\ KnownAtAddress'
  BY <1>1, FS_EmptySet DEF EntriesFinite, KnownAtAddress
<1>4. ListsLongEnough'
  <2> SUFFICES ASSUME NEW s \in Shards
               PROVE  Cardinality({p \in DOMAIN entries' : entries'[p].shard = s}) <= Len(listed'[s])
    BY DEF ListsLongEnough
  <2>1. {p \in DOMAIN entries' : entries'[p].shard = s} = {}
    BY <1>1
  <2>2. listed'[s] = <<>>
    BY DEF Clear
  <2> QED BY <2>1, <2>2, FS_EmptySet
<1> QED BY <1>2, <1>3, <1>4 DEF IInv

\* The maps agree and the lists are long enough in every state: the inductive invariant of
\* the holder, whose operations each run under its mutex (peersHolder.go:59-250).
THEOREM InvariantHolds == Spec => []IInv
<1>1. ASSUME IInv, [Next]_vars PROVE IInv'
  <2>1. CASE UNCHANGED vars
    BY <1>1, <2>1 DEF vars, IInv, TypeOK, EntriesFinite, KnownAtAddress, ListsLongEnough
  <2> QED BY <1>1, <2>1, PutConnectionAddressStep, PutShardIDStep, RemovePeerStep, ClearStep
          DEF Next
<1> QED BY <1>1, InitIInv, PTL DEF Spec

\* A peer that waits for its shard, and one that has an entry, is known at the address the
\* maps give for it, whatever was put, removed or cleared in between: Remove always finds
\* the peer at the address (removePeerInfoAtConnectionAddress).
THEOREM AddressesKnown == Spec => []KnownAtAddress
<1>1. IInv => KnownAtAddress
  BY DEF IInv
<1> QED BY <1>1, InvariantHolds, PTL

\* However stale the indices are that Remove uses, a shard's list has a place for every
\* peer whose entry names the shard: Remove takes one element off for one entry deleted.
THEOREM ListsHavePlaces == Spec => []ListsLongEnough
<1>1. IInv => ListsLongEnough
  BY DEF IInv
<1> QED BY <1>1, InvariantHolds, PTL
============================================================================
