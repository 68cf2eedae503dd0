------------------------ MODULE RetentionLoopProofs ------------------------
(* What applyRetention's loops do with a listing of any length and any         *)
(* retention count.                                                           *)
EXTENDS RetentionLoop, TLAPS, FiniteSetTheorems, SequenceTheorems

-----------------------------------------------------------------------------
(* The inductive invariant, loop by loop.                                     *)

TypeOK ==
    /\ statusOf \in [Ids -> {"none", "ready", "deleting"}]
    /\ createdAt \in [Ids -> Nat \ {0}]
    /\ \A p, q \in Ids : createdAt[p] = createdAt[q] => p = q
    /\ count \in Nat
    /\ listing \in Seq(Ids) /\ deleting \in Seq(Ids) /\ ready \in Seq(Ids)
    /\ pc \in {"split", "search", "hide", "failed", "delete", "panicked"}
    /\ index \in Nat \ {0}
    /\ latest \in Nat

\* A list from the newest to the oldest.
NewestFirst(seq) == \A i, j \in 1..Len(seq) : i < j => createdAt[seq[i]] > createdAt[seq[j]]

ListingInv ==
    /\ NewestFirst(listing)
    /\ \A i \in 1..Len(listing) : statusOf[listing[i]] # "none"
    /\ \A id \in Manifests : \E i \in 1..Len(listing) : listing[i] = id

\* The first n manifests of the listing are split, in order.
SplitUpTo(n) ==
    /\ NewestFirst(ready)
    /\ \A i \in 1..Len(ready) : statusOf[ready[i]] = "ready"
    /\ \A i \in 1..Len(deleting) : statusOf[deleting[i]] # "none"
    /\ \A i \in 1..Len(ready), k \in 1..Len(listing) :
         k > n => createdAt[ready[i]] > createdAt[listing[k]]
    /\ \A k \in 1..Len(listing) : k <= n =>
         \/ \E i \in 1..Len(ready) : ready[i] = listing[k]
         \/ \E i \in 1..Len(deleting) : deleting[i] = listing[k]

SplitInv ==
    IF pc = "split"
    THEN /\ index <= Len(listing) + 1
         /\ SplitUpTo(index - 1)
    ELSE SplitUpTo(Len(listing))

\* The newest ready manifest is the first.
SearchInv ==
    /\ pc = "split" => latest = 0
    /\ pc = "search" =>
         /\ index <= Len(ready) + 1
         /\ latest = IF index = 1 THEN 0 ELSE createdAt[ready[1]]
    /\ pc \notin {"split", "search"} /\ Len(ready) > 0 => latest = createdAt[ready[1]]

\* What is hidden starts at the place that the count leaves to the new manifest and
\* ends before the index, or before the end of the list when nothing is left to hide.
HideInv ==
    /\ pc \in {"split", "search", "panicked"} => Hidden = {}
    /\ pc = "panicked" => count = 0
    /\ pc \in {"hide", "failed", "delete"} => count > 0
    /\ pc \in {"hide", "failed"} =>
         /\ count <= index /\ index <= Len(ready) + 1
         /\ Hidden = {ready[i] : i \in count..index - 1}
    /\ pc = "delete" => Hidden = {ready[i] : i \in count..Len(ready)}

LoopInv ==
    /\ TypeOK
    /\ ListingInv
    /\ SplitInv
    /\ SearchInv
    /\ HideInv

-----------------------------------------------------------------------------
(* Initially.                                                                 *)

LEMMA InitLoopInv == Init => LoopInv
<1> SUFFICES ASSUME Init PROVE LoopInv
  OBVIOUS
<1>1. Cardinality(Manifests) \in Nat
  <2>1. Manifests \subseteq Ids
    BY DEF Manifests
  <2>2. IsFiniteSet(Manifests)
    BY <2>1, LoopAssumption, FS_Subset
  <2> QED  BY <2>2, FS_CardinalityType
<1>2. listing \in [1..Cardinality(Manifests) -> Manifests] /\ Range(listing) = Manifests
  BY DEF Init, Sorted
<1>3. listing \in Seq(Ids) /\ Len(listing) = Cardinality(Manifests)
  <2>1. listing \in [1..Cardinality(Manifests) -> Ids]
    BY <1>2 DEF Manifests
  <2> QED  BY <1>1, <2>1
<1>4. TypeOK
  <2>1. createdAt \in [Ids -> 1..Cardinality(Ids)] /\ IsInjective(createdAt)
    BY DEF Init
  <2>2. Cardinality(Ids) \in Nat
    BY LoopAssumption, FS_CardinalityType
  <2>3. createdAt \in [Ids -> Nat \ {0}]
    BY <2>1, <2>2
  <2>4. \A p, q \in Ids : createdAt[p] = createdAt[q] => p = q
    BY <2>1 DEF IsInjective
  <2>5. count \in Nat
    BY LoopAssumption DEF Init
  <2> QED  BY <1>3, <2>3, <2>4, <2>5 DEF TypeOK, Init
<1>5. ListingInv
  <2>1. \A i, j \in 1..Len(listing) : i < j => Newer(listing[i], listing[j])
    BY <1>1, <1>2, <1>3 DEF Init, Sorted
  <2>2. \A i \in 1..Len(listing) : statusOf[listing[i]] # "none"
    BY <1>2, <1>3 DEF Manifests
  <2>3. \A id \in Manifests : \E i \in 1..Len(listing) : listing[i] = id
    BY <1>2, <1>3 DEF Range
  <2> QED  BY <2>1, <2>2, <2>3 DEF ListingInv, NewestFirst, Newer
<1>6. Len(ready) = 0 /\ Len(deleting) = 0 /\ Range(deleting) = {}
  BY DEF Init, Range
<1>7. SplitInv
  BY <1>1, <1>3, <1>6 DEF SplitInv, SplitUpTo, NewestFirst, Init
<1>8. SearchInv /\ HideInv
  BY <1>6 DEF SearchInv, HideInv, Hidden, Init
<1> QED  BY <1>4, <1>5, <1>7, <1>8 DEF LoopInv

-----------------------------------------------------------------------------
(* Step by step.                                                              *)

LEMMA StepType == TypeOK /\ [Next]_vars => TypeOK'
<1> SUFFICES ASSUME TypeOK, [Next]_vars PROVE TypeOK'
  OBVIOUS
<1> USE DEF TypeOK
<1>1. CASE Split
  <2>1. listing[index] \in Ids
    BY <1>1, ElementOfSeq DEF Split
  <2>2. deleting' \in Seq(Ids) /\ ready' \in Seq(Ids)
    <3>1. Append(deleting, listing[index]) \in Seq(Ids) /\ Append(ready, listing[index]) \in Seq(Ids)
      BY <2>1, AppendProperties
    <3> QED  BY <1>1, <3>1 DEF Split
  <2> QED  BY <1>1, <2>2 DEF Split, inputs
<1>2. CASE StartSearch
  BY <1>2 DEF StartSearch, inputs
<1>3. CASE Search
  <2>1. ready[index] \in Ids
    BY <1>3, ElementOfSeq DEF Search
  <2> QED  BY <1>3, <2>1 DEF Search, inputs
<1>4. CASE StartHiding
  BY <1>4 DEF StartHiding, RemoveCount, inputs
<1>5. CASE Hide
  <2>1. ready[index] \in Ids
    BY <1>5, ElementOfSeq DEF Hide
  <2>2. deleting' \in Seq(Ids)
    BY <1>5, <2>1, AppendProperties DEF Hide
  <2> QED  BY <1>5, <2>2 DEF Hide, inputs
<1>6. CASE HideFails
  BY <1>6 DEF HideFails, inputs
<1>7. CASE StartDeleting
  BY <1>7 DEF StartDeleting, inputs
<1>8. CASE UNCHANGED vars
  BY <1>8 DEF vars, inputs
<1> QED  BY <1>1, <1>2, <1>3, <1>4, <1>5, <1>6, <1>7, <1>8 DEF Next

\* No step touches the listing.
LEMMA StepListing ==
    ASSUME ListingInv, [Next]_vars
    PROVE  ListingInv' /\ UNCHANGED inputs
<1>1. UNCHANGED inputs
  BY DEF Next, vars, Split, StartSearch, Search, StartHiding, Hide, HideFails, StartDeleting
<1>2. Manifests' = Manifests
  BY <1>1 DEF Manifests, inputs
<1>3. ListingInv'
  BY <1>1, <1>2 DEF ListingInv, NewestFirst, inputs
<1> QED  BY <1>1, <1>3

\* Nothing that was ready is hidden by splitting the list.
LEMMA SplitMoves ==
    ASSUME LoopInv, Split
    PROVE  SplitInv' /\ SearchInv' /\ HideInv'
<1>0. /\ listing \in Seq(Ids) /\ deleting \in Seq(Ids) /\ ready \in Seq(Ids)
      /\ Len(listing) \in Nat /\ Len(deleting) \in Nat /\ Len(ready) \in Nat
      /\ index \in Nat \ {0}
      /\ createdAt \in [Ids -> Nat \ {0}]
      /\ statusOf \in [Ids -> {"none", "ready", "deleting"}]
  BY DEF LoopInv, TypeOK
<1>1. /\ UNCHANGED <<statusOf, createdAt, count, listing, pc, latest>>
      /\ pc = "split" /\ index \in 1..Len(listing) /\ index' = index + 1
  BY <1>0 DEF Split, inputs
<1> DEFINE next == listing[index]
<1>2. next \in Ids /\ statusOf[next] \in {"ready", "deleting"}
  <2>1. next \in Ids
    BY <1>0, <1>1, ElementOfSeq
  <2> QED  BY <1>0, <1>1, <2>1 DEF LoopInv, ListingInv
<1>3. \A k \in 1..Len(listing) : k > index => createdAt[next] > createdAt[listing[k]]
  BY <1>0, <1>1 DEF LoopInv, ListingInv, NewestFirst
<1>4. SplitUpTo(index - 1)
  BY <1>1 DEF LoopInv, SplitInv
<1> PICK n \in Nat : n = index
  BY <1>0
<1> HIDE DEF next
<1>5. SplitUpTo(n)' /\ Hidden' = {}
  <2>1. CASE deleting' = Append(deleting, next) /\ ready' = ready /\ statusOf[next] = "deleting"
    <3>1. /\ deleting' \in Seq(Ids) /\ Len(deleting') = Len(deleting) + 1
          /\ \A i \in 1..Len(deleting) : deleting'[i] = deleting[i]
          /\ deleting'[Len(deleting) + 1] = next
      BY <1>2, <2>1, AppendProperties, <1>0
    <3>2. \A i \in 1..Len(deleting') : i \in 1..Len(deleting) \/ i = Len(deleting) + 1
      BY <1>0, <3>1
    <3>3. \A i \in 1..Len(deleting') : statusOf'[deleting'[i]] # "none"
      BY <1>1, <1>2, <1>4, <2>1, <3>1, <3>2 DEF SplitUpTo
    <3>4. \A k \in 1..Len(listing) : k <= index =>
            \/ \E i \in 1..Len(ready) : ready[i] = listing[k]
            \/ \E i \in 1..Len(deleting') : deleting'[i] = listing[k]
      <4> SUFFICES ASSUME NEW k \in 1..Len(listing), k <= index
                   PROVE  \/ \E i \in 1..Len(ready) : ready[i] = listing[k]
                          \/ \E i \in 1..Len(deleting') : deleting'[i] = listing[k]
        OBVIOUS
      <4>1. CASE k = index
        <5>1. Len(deleting) + 1 \in 1..Len(deleting') /\ deleting'[Len(deleting) + 1] = listing[k]
          BY <1>0, <3>1, <4>1 DEF next
        <5> QED  BY <5>1
      <4>2. CASE k <= index - 1
        <5>1. CASE \E i \in 1..Len(ready) : ready[i] = listing[k]
          BY <5>1
        <5>2. CASE \E i \in 1..Len(deleting) : deleting[i] = listing[k]
          <6>1. PICK i \in 1..Len(deleting) : deleting[i] = listing[k]
            BY <5>2
          <6>2. i \in 1..Len(deleting') /\ deleting'[i] = listing[k]
            BY <1>0, <3>1, <6>1
          <6> QED  BY <6>2
        <5> QED  BY <1>4, <4>2, <5>1, <5>2 DEF SplitUpTo
      <4>3. k = index \/ k <= index - 1
        BY <1>0
      <4> QED  BY <4>1, <4>2, <4>3
    <3>5. Range(deleting') = Range(deleting) \union {next}
      <4>1. DOMAIN deleting = 1..Len(deleting) /\ DOMAIN deleting' = 1..Len(deleting')
        BY <3>1, LenProperties, <1>0
      <4> QED  BY <3>1, <3>2, <4>1 DEF Range
    <3>6. Hidden' = {}
      BY <1>1, <1>2, <2>1, <3>5 DEF Hidden, Listed, LoopInv, HideInv
    <3>7. \A i \in 1..Len(ready), k \in 1..Len(listing) :
            k > index => createdAt[ready[i]] > createdAt[listing[k]]
      BY <1>0, <1>4 DEF SplitUpTo
    <3>8. NewestFirst(ready) /\ \A i \in 1..Len(ready) : statusOf[ready[i]] = "ready"
      BY <1>4 DEF SplitUpTo
    <3> QED  BY <1>1, <2>1, <3>3, <3>4, <3>6, <3>7, <3>8 DEF SplitUpTo, NewestFirst
  <2>2. CASE ready' = Append(ready, next) /\ deleting' = deleting /\ statusOf[next] = "ready"
    <3>1. /\ ready' \in Seq(Ids) /\ Len(ready') = Len(ready) + 1
          /\ \A i \in 1..Len(ready) : ready'[i] = ready[i]
          /\ ready'[Len(ready) + 1] = next
      BY <1>2, <2>2, AppendProperties, <1>0
    <3>2. \A i \in 1..Len(ready') : i \in 1..Len(ready) \/ i = Len(ready) + 1
      BY <1>0, <3>1
    <3>3. \A i \in 1..Len(ready) : createdAt[ready[i]] > createdAt[next]
      <4>1. index \in 1..Len(listing) /\ index > index - 1
        BY <1>0, <1>1
      <4>2. \A i \in 1..Len(ready) : createdAt[ready[i]] > createdAt[listing[index]]
        BY <1>4, <4>1 DEF SplitUpTo
      <4> QED  BY <4>2 DEF next
    <3>4. NewestFirst(ready)'
      BY <1>1, <1>4, <3>1, <3>2, <3>3 DEF SplitUpTo, NewestFirst
    <3>5. \A i \in 1..Len(ready') : statusOf'[ready'[i]] = "ready"
      BY <1>1, <1>4, <2>2, <3>1, <3>2 DEF SplitUpTo
    <3>6. \A i \in 1..Len(ready'), k \in 1..Len(listing) :
            k > index => createdAt[ready'[i]] > createdAt[listing[k]]
      <4> SUFFICES ASSUME NEW i \in 1..Len(ready'), NEW k \in 1..Len(listing), k > index
                   PROVE  createdAt[ready'[i]] > createdAt[listing[k]]
        OBVIOUS
      <4>1. CASE i = Len(ready) + 1
        BY <1>3, <3>1, <4>1
      <4>2. CASE i \in 1..Len(ready)
        BY <1>1, <1>4, <3>1, <4>2 DEF SplitUpTo
      <4> QED  BY <3>2, <4>1, <4>2
    <3>7. \A k \in 1..Len(listing) : k <= index =>
            \/ \E i \in 1..Len(ready') : ready'[i] = listing[k]
            \/ \E i \in 1..Len(deleting) : deleting[i] = listing[k]
      <4> SUFFICES ASSUME NEW k \in 1..Len(listing), k <= index
                   PROVE  \/ \E i \in 1..Len(ready') : ready'[i] = listing[k]
                          \/ \E i \in 1..Len(deleting) : deleting[i] = listing[k]
        OBVIOUS
      <4>1. CASE k = index
        <5>1. Len(ready) + 1 \in 1..Len(ready') /\ ready'[Len(ready) + 1] = listing[k]
          BY <1>0, <3>1, <4>1 DEF next
        <5> QED  BY <5>1
      <4>2. CASE k <= index - 1
        <5>1. CASE \E i \in 1..Len(deleting) : deleting[i] = listing[k]
          BY <5>1
        <5>2. CASE \E i \in 1..Len(ready) : ready[i] = listing[k]
          <6>1. PICK i \in 1..Len(ready) : ready[i] = listing[k]
            BY <5>2
          <6>2. i \in 1..Len(ready') /\ ready'[i] = listing[k]
            BY <1>0, <3>1, <6>1
          <6> QED  BY <6>2
        <5> QED  BY <1>4, <4>2, <5>1, <5>2 DEF SplitUpTo
      <4>3. k = index \/ k <= index - 1
        BY <1>0
      <4> QED  BY <4>1, <4>2, <4>3
    <3>8. Hidden' = {}
      BY <1>1, <2>2 DEF Hidden, Listed, LoopInv, HideInv
    <3> QED  BY <1>1, <1>4, <2>2, <3>4, <3>5, <3>6, <3>7, <3>8 DEF SplitUpTo
  <2> QED  BY <1>2, <2>1, <2>2 DEF Split, next
<1>6. SplitInv'
  <2>1. index' - 1 = index /\ index' <= Len(listing') + 1 /\ pc' = "split"
    BY <1>0, <1>1 DEF LoopInv, SplitInv
  <2>2. (SplitUpTo(index - 1))'
    BY <1>5, <2>1
  <2> QED  BY <2>1, <2>2 DEF SplitInv
<1>7. SearchInv' /\ HideInv'
  BY <1>1, <1>5 DEF LoopInv, SearchInv, HideInv
<1> QED  BY <1>6, <1>7

\* Once the list is split, only Hide touches one of its parts.
LEMMA SplitStays ==
    ASSUME SplitUpTo(Len(listing)), UNCHANGED inputs, UNCHANGED ready, UNCHANGED deleting
    PROVE  SplitUpTo(Len(listing))' /\ Hidden' = Hidden
<1>1. UNCHANGED <<statusOf, createdAt, listing>>
  BY DEF inputs
<1>2. SplitUpTo(Len(listing))'
  BY <1>1 DEF SplitUpTo, NewestFirst
<1>3. Hidden' = Hidden
  BY <1>1 DEF Hidden, Listed
<1> QED  BY <1>2, <1>3

LEMMA StartSearchMoves ==
    ASSUME LoopInv, StartSearch
    PROVE  SplitInv' /\ SearchInv' /\ HideInv'
<1>1. pc = "split" /\ pc' = "search" /\ index' = 1 /\ UNCHANGED <<inputs, deleting, ready, latest>>
  BY DEF StartSearch
<1>2. Len(listing) \in Nat /\ Len(ready) \in Nat /\ index \in Nat
  BY DEF LoopInv, TypeOK
<1>3. index - 1 = Len(listing)
  BY <1>1, <1>2 DEF StartSearch, LoopInv, SplitInv
<1>4. SplitUpTo(Len(listing))
  BY <1>1, <1>3 DEF LoopInv, SplitInv
<1>5. SplitUpTo(Len(listing))' /\ Hidden' = Hidden
  BY <1>1, <1>4, SplitStays
<1>6. SplitInv'
  BY <1>1, <1>5 DEF SplitInv
<1>7. SearchInv'
  BY <1>1, <1>2 DEF LoopInv, SearchInv
<1>8. HideInv'
  BY <1>1, <1>5 DEF LoopInv, HideInv
<1> QED  BY <1>6, <1>7, <1>8

\* The first comparison finds the newest, the others do not replace it.
LEMMA SearchMoves ==
    ASSUME LoopInv, Search
    PROVE  SplitInv' /\ SearchInv' /\ HideInv'
<1>1. /\ pc = "search" /\ pc' = "search" /\ index \in 1..Len(ready) /\ index' = index + 1
      /\ UNCHANGED <<inputs, deleting, ready>>
      /\ latest' = IF createdAt[ready[index]] > latest THEN createdAt[ready[index]] ELSE latest
  BY DEF Search, LoopInv, TypeOK
<1>2. Len(ready) \in Nat /\ latest \in Nat
  BY DEF LoopInv, TypeOK
<1>3. SplitUpTo(Len(listing))
  BY <1>1 DEF LoopInv, SplitInv
<1>4. SplitUpTo(Len(listing))' /\ Hidden' = Hidden
  BY <1>1, <1>3, SplitStays
<1>5. \A i \in 1..Len(ready) : createdAt[ready[i]] \in Nat \ {0}
  <2>1. \A i \in 1..Len(ready) : ready[i] \in Ids
    BY ElementOfSeq DEF LoopInv, TypeOK
  <2> QED  BY <2>1 DEF LoopInv, TypeOK
<1>6. latest' = createdAt[ready[1]]
  <2>1. CASE index = 1
    <3>1. latest = 0
      BY <1>1, <2>1 DEF LoopInv, SearchInv
    <3> QED  BY <1>1, <1>5, <2>1, <3>1
  <2>2. CASE index > 1
    <3>1. latest = createdAt[ready[1]]
      BY <1>1, <2>2 DEF LoopInv, SearchInv
    <3>2. createdAt[ready[1]] > createdAt[ready[index]]
      BY <1>1, <1>3, <2>2 DEF SplitUpTo, NewestFirst
    <3>3. createdAt[ready[1]] \in Nat /\ createdAt[ready[index]] \in Nat
      BY <1>1, <1>2, <1>5
    <3> QED  BY <1>1, <3>1, <3>2, <3>3
  <2> QED  BY <1>1, <2>1, <2>2
<1>7. SplitInv'
  BY <1>1, <1>4 DEF SplitInv
<1>8. SearchInv'
  BY <1>1, <1>2, <1>6 DEF SearchInv, inputs
<1>9. HideInv'
  BY <1>1, <1>4 DEF LoopInv, HideInv
<1> QED  BY <1>7, <1>8, <1>9

\* The first index to hide is the retention count.
LEMMA StartHidingMoves ==
    ASSUME LoopInv, StartHiding
    PROVE  SplitInv' /\ SearchInv' /\ HideInv'
<1>1. /\ pc = "search" /\ index = Len(ready) + 1
      /\ UNCHANGED <<inputs, deleting, ready, latest>>
      /\ pc' \in {"delete", "hide", "panicked"}
  BY DEF StartHiding, LoopInv, TypeOK, SearchInv
<1>2. Len(ready) \in Nat /\ count \in Nat /\ count' = count
  BY <1>1 DEF LoopInv, TypeOK, inputs
<1>3. SplitUpTo(Len(listing))
  BY <1>1 DEF LoopInv, SplitInv
<1>4. SplitUpTo(Len(listing))' /\ Hidden' = Hidden
  BY <1>1, <1>3, SplitStays
<1>5. Hidden = {}
  BY <1>1 DEF LoopInv, HideInv
<1>6. SplitInv'
  BY <1>1, <1>4 DEF SplitInv
<1>7. SearchInv'
  BY <1>1, <1>2 DEF LoopInv, SearchInv, inputs
<1>8. HideInv'
  <2>1. CASE RemoveCount <= 0 /\ pc' = "delete"
    BY <1>1, <1>2, <1>4, <1>5, <2>1 DEF HideInv, RemoveCount
  <2>2. CASE RemoveCount \in 1..Len(ready) /\ pc' = "hide" /\ index' = Len(ready) - RemoveCount + 1
    <3>1. index' = count /\ count > 0 /\ count <= Len(ready)
      BY <1>2, <2>2 DEF RemoveCount
    <3>2. index' - 1 < count'
      BY <1>2, <3>1
    <3> QED  BY <1>1, <1>2, <1>4, <1>5, <2>2, <3>1, <3>2 DEF HideInv
  <2>3. CASE RemoveCount > Len(ready) /\ pc' = "panicked"
    BY <1>1, <1>2, <1>4, <1>5, <2>3 DEF HideInv, RemoveCount
  <2> QED  BY <2>1, <2>2, <2>3 DEF StartHiding
<1> QED  BY <1>6, <1>7, <1>8

LEMMA HideMoves ==
    ASSUME LoopInv, Hide
    PROVE  SplitInv' /\ SearchInv' /\ HideInv'
<1>1. /\ pc = "hide" /\ pc' = "hide" /\ index \in 1..Len(ready) /\ index' = index + 1
      /\ UNCHANGED <<statusOf, createdAt, count, listing, ready, latest>>
      /\ deleting' = Append(deleting, ready[index])
  BY DEF Hide, LoopInv, TypeOK, inputs
<1>2. /\ deleting \in Seq(Ids) /\ ready \in Seq(Ids) /\ ready[index] \in Ids
      /\ Len(deleting) \in Nat /\ Len(ready) \in Nat /\ count \in Nat
  BY <1>1, ElementOfSeq DEF LoopInv, TypeOK
<1>3. SplitUpTo(Len(listing))
  BY <1>1 DEF LoopInv, SplitInv
<1>4. /\ deleting' \in Seq(Ids) /\ Len(deleting') = Len(deleting) + 1
      /\ \A i \in 1..Len(deleting) : deleting'[i] = deleting[i]
      /\ deleting'[Len(deleting) + 1] = ready[index]
  BY <1>1, <1>2, AppendProperties
<1>5. \A i \in 1..Len(deleting') : i \in 1..Len(deleting) \/ i = Len(deleting) + 1
  BY <1>2, <1>4
<1>6. Range(deleting') = Range(deleting) \union {ready[index]}
  <2>1. DOMAIN deleting = 1..Len(deleting) /\ DOMAIN deleting' = 1..Len(deleting')
    BY <1>2, <1>4, LenProperties
  <2>2. Len(deleting) + 1 \in 1..Len(deleting') /\ 1..Len(deleting) \subseteq 1..Len(deleting')
    BY <1>2, <1>4
  <2> QED  BY <1>4, <1>5, <2>1, <2>2 DEF Range
<1>7. statusOf[ready[index]] = "ready"
  BY <1>1, <1>3 DEF SplitUpTo
<1>8. SplitUpTo(Len(listing))'
  <2>1. \A i \in 1..Len(deleting') : statusOf[deleting'[i]] # "none"
    BY <1>3, <1>4, <1>5, <1>7 DEF SplitUpTo
  <2>2. \A k \in 1..Len(listing) : (\E i \in 1..Len(deleting) : deleting[i] = listing[k])
            => \E i \in 1..Len(deleting') : deleting'[i] = listing[k]
    <3>1. \A i \in 1..Len(deleting) : i \in 1..Len(deleting')
      BY <1>2, <1>4
    <3> QED  BY <1>4, <3>1
  <2> QED  BY <1>1, <1>3, <2>1, <2>2 DEF SplitUpTo, NewestFirst
<1>9. SplitInv'
  BY <1>1, <1>8 DEF SplitInv
<1>10. SearchInv'
  BY <1>1 DEF LoopInv, SearchInv
<1>11. HideInv'
  <2>1. /\ count > 0 /\ count <= index /\ index <= Len(ready)
        /\ Hidden = {ready[i] : i \in count..index - 1}
    BY <1>1 DEF LoopInv, HideInv
  <2>2. Hidden' = Hidden \union {ready[index]}
    BY <1>1, <1>6, <1>7 DEF Hidden, Listed, LoopInv, TypeOK
  <2>3. count..index = (count..index - 1) \union {index}
    BY <1>1, <1>2, <2>1
  <2>4. Hidden' = {ready[i] : i \in count..index}
    BY <2>1, <2>2, <2>3
  <2>5. index' - 1 = index /\ index' <= Len(ready) + 1 /\ count <= index'
    BY <1>1, <1>2, <2>1
  <2> QED  BY <1>1, <2>1, <2>4, <2>5 DEF HideInv
<1> QED  BY <1>9, <1>10, <1>11

\* The loop's end, by a failure or not.
LEMMA HidingEnds ==
    ASSUME LoopInv, HideFails \/ StartDeleting
    PROVE  SplitInv' /\ SearchInv' /\ HideInv'
<1>1. /\ pc = "hide" /\ UNCHANGED <<inputs, index, deleting, ready, latest>>
      /\ \/ pc' = "failed"
         \/ pc' = "delete" /\ index > Len(ready)
  BY DEF HideFails, StartDeleting
<1>2. SplitUpTo(Len(listing))
  BY <1>1 DEF LoopInv, SplitInv
<1>3. SplitUpTo(Len(listing))' /\ Hidden' = Hidden
  BY <1>1, <1>2, SplitStays
<1>4. SplitInv'
  BY <1>1, <1>3 DEF SplitInv
<1>5. SearchInv'
  BY <1>1 DEF LoopInv, SearchInv, inputs
<1>6. HideInv'
  <2>1. /\ count > 0 /\ count <= index /\ index <= Len(ready) + 1 /\ count' = count
        /\ Hidden = {ready[i] : i \in count..index - 1}
    BY <1>1 DEF LoopInv, HideInv, inputs
  <2>2. pc' = "delete" => index - 1 = Len(ready)
    BY <1>1, <2>1 DEF LoopInv, TypeOK
  <2> QED  BY <1>1, <1>3, <2>1, <2>2 DEF HideInv
<1> QED  BY <1>4, <1>5, <1>6

LEMMA StepLoopInv == LoopInv /\ [Next]_vars => LoopInv'
<1> SUFFICES ASSUME LoopInv, [Next]_vars PROVE LoopInv'
  OBVIOUS
<1>1. TypeOK' /\ ListingInv'
  BY StepType, StepListing DEF LoopInv
<1>2. CASE UNCHANGED vars
  <2>1. Hidden' = Hidden
    BY <1>2 DEF Hidden, Listed, vars, inputs
  <2> QED  BY <1>1, <1>2, <2>1 DEF LoopInv, SplitInv, SplitUpTo, NewestFirst, SearchInv, HideInv, vars, inputs
<1>3. CASE Next
  BY <1>1, <1>3, SplitMoves, StartSearchMoves, SearchMoves, StartHidingMoves, HideMoves, HidingEnds
     DEF Next, LoopInv
<1> QED  BY <1>2, <1>3

-----------------------------------------------------------------------------
(* Places in the list and the set Expired.                                    *)

LEMMA ReadyListed ==
    ASSUME LoopInv, pc # "split"
    PROVE  Listed("ready") = {ready[i] : i \in 1..Len(ready)}
<1>1. SplitUpTo(Len(listing)) /\ Len(ready) \in Nat /\ Len(listing) \in Nat
  BY DEF LoopInv, TypeOK, SplitInv
<1>2. Hidden \subseteq {ready[i] : i \in 1..Len(ready)}
  <2>1. CASE pc \in {"split", "search", "panicked"}
    BY <2>1 DEF LoopInv, HideInv
  <2>2. CASE pc \in {"hide", "failed"}
    BY <1>1, <2>2 DEF LoopInv, TypeOK, HideInv
  <2>3. CASE pc = "delete"
    BY <1>1, <2>3 DEF LoopInv, TypeOK, HideInv
  <2> QED  BY <2>1, <2>2, <2>3 DEF LoopInv, TypeOK
<1>3. ASSUME NEW id \in Listed("ready") PROVE \E i \in 1..Len(ready) : ready[i] = id
  <2>1. id \in Manifests
    BY <1>3 DEF Listed, Manifests
  <2>2. PICK k \in 1..Len(listing) : listing[k] = id
    BY <2>1 DEF LoopInv, ListingInv
  <2>3. CASE \E i \in 1..Len(deleting) : deleting[i] = id
    <3>1. id \in Range(deleting)
      BY <2>3, LenProperties DEF Range, LoopInv, TypeOK
    <3> QED  BY <1>2, <1>3, <3>1 DEF Hidden
  <2>4. (\E i \in 1..Len(ready) : ready[i] = id) \/ (\E i \in 1..Len(deleting) : deleting[i] = id)
    <3>1. k <= Len(listing)
      BY <1>1
    <3> QED  BY <1>1, <2>2, <3>1 DEF SplitUpTo
  <2> QED  BY <2>3, <2>4
<1>4. ASSUME NEW i \in 1..Len(ready) PROVE ready[i] \in Listed("ready")
  <2>1. ready[i] \in Ids
    BY ElementOfSeq DEF LoopInv, TypeOK
  <2> QED  BY <1>1, <2>1 DEF SplitUpTo, Listed
<1> QED  BY <1>3, <1>4

\* Ahead of the manifest at place j are j - 1 newer ones.
LEMMA PlaceCounts ==
    ASSUME LoopInv, pc # "split", NEW j \in 1..Len(ready)
    PROVE  Cardinality({q \in Listed("ready") : createdAt[q] > createdAt[ready[j]]}) = j - 1
<1> DEFINE ahead == {q \in Listed("ready") : createdAt[q] > createdAt[ready[j]]}
           places == [i \in 1..j - 1 |-> ready[i]]
<1>1. /\ NewestFirst(ready) /\ Len(ready) \in Nat
      /\ \A i \in 1..Len(ready) : createdAt[ready[i]] \in Nat
  <2>1. \A i \in 1..Len(ready) : ready[i] \in Ids
    BY ElementOfSeq DEF LoopInv, TypeOK
  <2> QED  BY <2>1 DEF LoopInv, TypeOK, SplitInv, SplitUpTo
<1>2. \A i \in 1..Len(ready) : createdAt[ready[i]] > createdAt[ready[j]] <=> i \in 1..j - 1
  <2> SUFFICES ASSUME NEW i \in 1..Len(ready)
               PROVE  createdAt[ready[i]] > createdAt[ready[j]] <=> i \in 1..j - 1
    OBVIOUS
  <2>1. i < j => createdAt[ready[i]] > createdAt[ready[j]]
    BY <1>1 DEF NewestFirst
  <2>2. j < i => createdAt[ready[j]] > createdAt[ready[i]]
    BY <1>1 DEF NewestFirst
  <2>3. createdAt[ready[i]] \in Nat /\ createdAt[ready[j]] \in Nat
    BY <1>1
  <2>4. i < j <=> i \in 1..j - 1
    BY <1>1
  <2>5. i = j => ~(createdAt[ready[i]] > createdAt[ready[j]])
    BY <2>3
  <2>6. j < i => ~(createdAt[ready[i]] > createdAt[ready[j]])
    BY <2>2, <2>3
  <2>7. i < j \/ i = j \/ j < i
    BY <1>1
  <2> QED  BY <2>1, <2>4, <2>5, <2>6, <2>7
<1>3. ahead = {ready[i] : i \in 1..j - 1}
  <2>1. 1..j - 1 \subseteq 1..Len(ready)
    BY <1>1
  <2> QED  BY <1>2, <2>1, ReadyListed
<1>4. places \in Bijection(1..j - 1, ahead)
  <2>1. places \in [1..j - 1 -> ahead]
    BY <1>3
  <2>2. \A a, b \in 1..j - 1 : places[a] = places[b] => a = b
    <3> SUFFICES ASSUME NEW a \in 1..j - 1, NEW b \in 1..j - 1, ready[a] = ready[b] PROVE a = b
      OBVIOUS
    <3>1. a \in 1..Len(ready) /\ b \in 1..Len(ready)
      BY <1>1
    <3>2. ~(a < b) /\ ~(b < a)
      <4>1. createdAt[ready[a]] \in Nat /\ createdAt[ready[a]] = createdAt[ready[b]]
        BY <1>1, <3>1
      <4>2. ~(createdAt[ready[a]] > createdAt[ready[b]]) /\ ~(createdAt[ready[b]] > createdAt[ready[a]])
        BY <4>1
      <4> QED  BY <1>1, <3>1, <4>2 DEF NewestFirst
    <3> QED  BY <1>1, <3>1, <3>2
  <2>3. \A t \in ahead : \E i \in 1..j - 1 : places[i] = t
    BY <1>3
  <2> QED  BY <2>1, <2>2, <2>3 DEF Bijection, Injection, Surjection, IsInjective
<1>5. Cardinality(ahead) = Cardinality(1..j - 1)
  <2>1. ExistsBijection(1..j - 1, ahead)
    BY <1>4 DEF ExistsBijection
  <2>2. IsFiniteSet(1..j - 1)
    BY <1>1, FS_Interval
  <2> QED  BY <2>1, <2>2, FS_Bijection
<1>6. Cardinality(1..j - 1) = j - 1
  BY <1>1, FS_Interval
<1> QED  BY <1>5, <1>6

LEMMA ExpiredSuffix ==
    ASSUME LoopInv, pc # "split", count > 0
    PROVE  Expired(Listed("ready"), createdAt, count) = {ready[i] : i \in count..Len(ready)}
<1>1. Len(ready) \in Nat /\ count \in Nat
  BY DEF LoopInv, TypeOK
<1>2. ASSUME NEW j \in 1..Len(ready)
      PROVE  Cardinality({q \in Listed("ready") : createdAt[q] > createdAt[ready[j]]}) >= count - 1
               <=> j \in count..Len(ready)
  BY <1>1, <1>2, PlaceCounts
<1>3. count..Len(ready) \subseteq 1..Len(ready)
  BY <1>1
<1> QED  BY <1>2, <1>3, ReadyListed DEF Expired

\* The same list in terms the theorems use: in order, and every place its own.
LEMMA InOrder ==
    ASSUME LoopInv, pc # "split"
    PROVE  /\ Len(ready) \in Nat /\ count \in Nat
           /\ \A i \in 1..Len(ready) : ready[i] \in Ids /\ createdAt[ready[i]] \in Nat
           /\ \A i, j \in 1..Len(ready) : i < j => createdAt[ready[i]] > createdAt[ready[j]]
           /\ \A i, j \in 1..Len(ready) : ready[i] = ready[j] => i = j
<1>1. Len(ready) \in Nat /\ count \in Nat
  BY DEF LoopInv, TypeOK
<1>2. \A i \in 1..Len(ready) : ready[i] \in Ids
  BY ElementOfSeq DEF LoopInv, TypeOK
<1>3. \A i \in 1..Len(ready) : createdAt[ready[i]] \in Nat
  BY <1>2 DEF LoopInv, TypeOK
<1>4. \A i, j \in 1..Len(ready) : i < j => createdAt[ready[i]] > createdAt[ready[j]]
  BY DEF LoopInv, SplitInv, SplitUpTo, NewestFirst
<1>5. ASSUME NEW i \in 1..Len(ready), NEW j \in 1..Len(ready), ready[i] = ready[j]
      PROVE  i = j
  <2>1. ~(createdAt[ready[i]] > createdAt[ready[j]]) /\ ~(createdAt[ready[j]] > createdAt[ready[i]])
    BY <1>3, <1>5
  <2>2. ~(i < j) /\ ~(j < i)
    BY <1>4, <2>1
  <2> QED  BY <1>1, <2>2
<1> QED  BY <1>1, <1>2, <1>3, <1>4, <1>5

LEMMA HidesSuffix == LoopInv => SuffixIsExpired
<1> SUFFICES ASSUME LoopInv, count > 0 PROVE SuffixIsExpired
  BY DEF SuffixIsExpired
<1> DEFINE expired == Expired(Listed("ready"), createdAt, count)
<1>1. CASE pc = "split"
  BY <1>1 DEF SuffixIsExpired, LoopInv, HideInv
<1>2. CASE pc # "split"
  <2>1. expired = {ready[i] : i \in count..Len(ready)}
    BY <1>2, ExpiredSuffix
  <2>2. CASE pc \in {"search", "panicked"}
    BY <2>2 DEF SuffixIsExpired, LoopInv, HideInv
  <2>3. CASE pc \in {"hide", "failed"}
    <3>1. Hidden = {ready[i] : i \in count..index - 1} /\ count <= index /\ index <= Len(ready) + 1
      BY <2>3 DEF LoopInv, HideInv
    <3>2. index \in Nat
      BY DEF LoopInv, TypeOK
    <3>3. Hidden \subseteq expired
      <4>1. count..index - 1 \subseteq count..Len(ready)
        BY <1>2, <3>1, <3>2, InOrder
      <4> QED  BY <2>1, <3>1, <4>1
    <3>4. ASSUME NEW id \in Hidden, NEW e \in expired \ Hidden
          PROVE  createdAt[id] > createdAt[e]
      <4>1. PICK i \in count..index - 1 : id = ready[i]
        BY <3>1
      <4>2. PICK j \in count..Len(ready) : e = ready[j]
        BY <2>1
      <4>3. j \notin count..index - 1
        BY <3>1, <4>2
      <4>4. i < j /\ i \in 1..Len(ready) /\ j \in 1..Len(ready)
        BY <1>2, <3>1, <3>2, <4>3, InOrder
      <4> QED  BY <1>2, <4>1, <4>2, <4>4, InOrder
    <3> QED  BY <2>3, <3>3, <3>4 DEF SuffixIsExpired
  <2>4. CASE pc = "delete"
    <3>1. Hidden = expired
      BY <2>1, <2>4 DEF LoopInv, HideInv
    <3>2. /\ SplitUpTo(Len(listing))
          /\ deleting \in Seq(Ids) /\ Len(listing) \in Nat
          /\ statusOf \in [Ids -> {"none", "ready", "deleting"}]
      BY <1>2 DEF LoopInv, TypeOK, SplitInv
    <3>3. Range(deleting) = {deleting[i] : i \in 1..Len(deleting)}
      BY <3>2, LenProperties DEF Range
    <3>4. ASSUME NEW id \in Range(deleting) PROVE id \in Hidden \union Listed("deleting")
      <4>1. PICK i \in 1..Len(deleting) : id = deleting[i]
        BY <3>3
      <4>2. id \in Ids /\ statusOf[id] # "none"
        BY <3>2, <4>1, ElementOfSeq DEF SplitUpTo
      <4> QED  BY <3>2, <4>2 DEF Hidden, Listed
    <3>5. ASSUME NEW id \in Listed("deleting") PROVE id \in Range(deleting)
      <4>1. id \in Manifests
        BY DEF Listed, Manifests
      <4>2. PICK k \in 1..Len(listing) : listing[k] = id
        BY <4>1 DEF LoopInv, ListingInv
      <4>3. k <= Len(listing)
        BY <3>2
      <4>4. \A i \in 1..Len(ready) : ready[i] # id
        BY <3>2 DEF SplitUpTo, Listed
      <4>5. \E i \in 1..Len(deleting) : deleting[i] = id
        BY <3>2, <4>2, <4>3, <4>4 DEF SplitUpTo
      <4> QED  BY <3>3, <4>5
    <3>6. Hidden \subseteq Range(deleting)
      BY DEF Hidden
    <3>7. Range(deleting) = expired \union Listed("deleting")
      BY <3>1, <3>4, <3>5, <3>6
    <3> QED  BY <3>1, <3>7 DEF SuffixIsExpired
  <2> QED  BY <1>2, <2>2, <2>3, <2>4 DEF LoopInv, TypeOK
<1> QED  BY <1>1, <1>2

LEMMA KeepsWhatFits == LoopInv => RetentionFits
<1> SUFFICES ASSUME LoopInv, pc = "delete" PROVE RetentionFits
  BY DEF RetentionFits
<1> DEFINE kept == Listed("ready") \ Hidden
<1>1. Hidden = {ready[i] : i \in count..Len(ready)} /\ count > 0
  BY DEF LoopInv, HideInv
<1>2. Listed("ready") = {ready[i] : i \in 1..Len(ready)}
  BY ReadyListed
<1>3. ASSUME NEW i \in 1..Len(ready) PROVE ready[i] \in Hidden <=> i >= count
  <2>1. i >= count => i \in count..Len(ready)
    BY InOrder
  <2>2. ready[i] \in Hidden => i >= count
    <3> SUFFICES ASSUME ready[i] \in Hidden PROVE i >= count
      OBVIOUS
    <3>1. PICK j \in count..Len(ready) : ready[i] = ready[j]
      BY <1>1
    <3>2. j \in 1..Len(ready)
      BY <1>1, InOrder
    <3>3. i = j
      BY <3>1, <3>2, InOrder
    <3> QED  BY <3>3, InOrder
  <2> QED  BY <1>1, <2>1, <2>2
<1>4. Cardinality(kept) + 1 <= count /\ (Hidden # {} => Cardinality(kept) + 1 = count)
  <2>1. CASE count <= Len(ready)
    <3>1. count \in 1..Len(ready)
      BY <1>1, <2>1, InOrder
    <3>2. kept = {q \in Listed("ready") : createdAt[q] > createdAt[ready[count]]}
      <4>1. ASSUME NEW i \in 1..Len(ready)
            PROVE  i < count <=> createdAt[ready[i]] > createdAt[ready[count]]
        <5>1. i < count => createdAt[ready[i]] > createdAt[ready[count]]
          BY <3>1, InOrder
        <5>2. count < i => createdAt[ready[count]] > createdAt[ready[i]]
          BY <3>1, InOrder
        <5>3. createdAt[ready[i]] \in Nat /\ createdAt[ready[count]] \in Nat
          BY <3>1, InOrder
        <5>4. count < i => ~(createdAt[ready[i]] > createdAt[ready[count]])
          BY <5>2, <5>3
        <5>5. i = count => ~(createdAt[ready[i]] > createdAt[ready[count]])
          BY <5>3
        <5>6. i < count \/ i = count \/ count < i
          BY InOrder
        <5> QED  BY <5>1, <5>4, <5>5, <5>6
      <4>2. \A i \in 1..Len(ready) : i < count <=> ~(i >= count)
        BY InOrder
      <4> QED  BY <1>2, <1>3, <4>1, <4>2
    <3>3. Cardinality(kept) = count - 1
      BY <3>1, <3>2, PlaceCounts
    <3> QED  BY <3>3, InOrder
  <2>2. CASE count > Len(ready) /\ Len(ready) = 0
    <3>1. kept = {} /\ Hidden = {}
      BY <1>1, <1>2, <2>2, InOrder
    <3>2. Cardinality({}) = 0
      BY FS_EmptySet
    <3>3. Cardinality(kept) = 0
      BY <3>1, <3>2
    <3>4. count \in Nat \ {0}
      BY <1>1 DEF LoopInv, TypeOK
    <3> HIDE DEF kept
    <3> QED  BY <3>1, <3>3, <3>4
  <2>3. CASE count > Len(ready) /\ Len(ready) > 0
    <3> DEFINE last == Len(ready)
               ahead == {q \in Listed("ready") : createdAt[q] > createdAt[ready[last]]}
    <3>1. last \in 1..Len(ready)
      BY <2>3, InOrder
    <3>2. Hidden = {}
      BY <1>1, <2>3, InOrder
    <3>3. kept = ahead \union {ready[last]}
      <4>1. ready[last] \in Listed("ready")
        BY <1>2, <3>1
      <4>2. \A i \in 1..Len(ready) : i = last \/ createdAt[ready[i]] > createdAt[ready[last]]
        <5>1. \A i \in 1..Len(ready) : i = last \/ i < last
          BY InOrder
        <5> QED  BY <3>1, <5>1, InOrder
      <4> QED  BY <1>2, <3>2, <4>1, <4>2
    <3>4. ready[last] \notin ahead
      BY <3>1, InOrder
    <3>5. IsFiniteSet(ahead)
      <4>1. ahead \subseteq Ids
        BY DEF Listed
      <4> QED  BY <4>1, LoopAssumption, FS_Subset
    <3>6. Cardinality(ahead) = last - 1
      BY <3>1, PlaceCounts
    <3>7. Cardinality(kept) = Cardinality(ahead) + 1
      <4>1. Cardinality(ahead \union {ready[last]}) = Cardinality(ahead) + 1
        BY <3>4, <3>5, FS_AddElement
      <4> QED  BY <3>3, <4>1
    <3> QED  BY <2>3, <3>2, <3>6, <3>7, InOrder
  <2> QED  BY <2>1, <2>2, <2>3, InOrder
<1>5. ASSUME NEW k \in kept, NEW id \in Hidden PROVE createdAt[k] > createdAt[id]
  <2>1. PICK i \in 1..Len(ready) : k = ready[i]
    BY <1>2
  <2>2. PICK j \in count..Len(ready) : id = ready[j]
    BY <1>1
  <2>3. j \in 1..Len(ready) /\ i < j
    BY <1>1, <1>3, <2>1, InOrder
  <2> QED  BY <2>1, <2>2, <2>3, InOrder
<1> QED  BY <1>4, <1>5 DEF RetentionFits

LEMMA NewestIsKept == LoopInv => ScheduleKeepsItsPlace
<1> SUFFICES ASSUME LoopInv, count > 1, pc \notin {"split", "search"}, Listed("ready") # {}
             PROVE  \E id \in Listed("ready") \ Hidden : createdAt[id] = latest
  BY DEF ScheduleKeepsItsPlace
<1>1. 1 \in 1..Len(ready)
  BY ReadyListed, InOrder
<1>2. ready[1] \in Listed("ready")
  BY <1>1, ReadyListed
<1>3. createdAt[ready[1]] = latest
  BY <1>1, InOrder DEF LoopInv, SearchInv
<1>4. \A i \in 1..Len(ready) : i >= count => ready[i] # ready[1]
  BY <1>1, InOrder
<1>5. ready[1] \notin Hidden
  <2>1. CASE pc = "panicked"
    BY <2>1 DEF LoopInv, HideInv
  <2>2. CASE pc \in {"hide", "failed"}
    <3>1. Hidden = {ready[i] : i \in count..index - 1} /\ index <= Len(ready) + 1 /\ index \in Nat
      BY <2>2 DEF LoopInv, HideInv, TypeOK
    <3>2. \A i \in count..index - 1 : i \in 1..Len(ready) /\ i >= count
      BY <3>1, InOrder
    <3> QED  BY <1>4, <3>1, <3>2
  <2>3. CASE pc = "delete"
    <3>1. Hidden = {ready[i] : i \in count..Len(ready)}
      BY <2>3 DEF LoopInv, HideInv
    <3>2. \A i \in count..Len(ready) : i \in 1..Len(ready) /\ i >= count
      BY InOrder
    <3> QED  BY <1>4, <3>1, <3>2
  <2> QED  BY <2>1, <2>2, <2>3 DEF LoopInv, TypeOK
<1> QED  BY <1>2, <1>3, <1>5

-----------------------------------------------------------------------------
(* Theorems.                                                                  *)

LEMMA LoopInvariant == Spec => []LoopInv
  BY InitLoopInv, StepLoopInv, PTL DEF Spec

\* The suffix of the list that applyRetention hides by index is what retention expires
\* (executor.go:243-253), from the newest to the oldest, for every listing and count.
THEOREM HiddenSuffix == Spec => []SuffixIsExpired
  BY LoopInvariant, HidesSuffix, PTL

\* With the manifest about to be published the ready ones number at most the retention
\* count, and no more are expired than that takes (executor.go:243).
THEOREM KeptFit == Spec => []RetentionFits
  BY LoopInvariant, KeepsWhatFits, PTL

\* ready[len(ready)-removeCount] is inside the list for every count but zero
\* (executor.go:245).
THEOREM IndexInList == Spec => []PanicsOnlyOnZero
<1>1. LoopInv => PanicsOnlyOnZero
  BY DEF LoopInv, HideInv, PanicsOnlyOnZero
<1> QED  BY <1>1, LoopInvariant, PTL

\* Retention leaves the manifest from which BackupSchedule derives the next operation ID
\* (executor.go:162-178).
THEOREM NewestKept == Spec => []ScheduleKeepsItsPlace
  BY LoopInvariant, NewestIsKept, PTL
=============================================================================
