------------------------- MODULE DeliveryRaceProofs -------------------------
(***************************************************************************)
(* Proofs about the message delivery race, for every number of messages,   *)
(* source blocks, faults and transactions, and all limits of the lane.     *)
(***************************************************************************)
EXTENDS DeliveryRace, LaneTheorems

-----------------------------------------------------------------------------
(***************************************************************************)
(* Largest and least elements.                                             *)
(***************************************************************************)
LEMMA LargerOf ==
    ASSUME NEW x \in Int, NEW y \in Int
    PROVE  Max({x, y}) = IF x >= y THEN x ELSE y
<1>1. \E z \in {x, y} : \A v \in {x, y} : z >= v
  OBVIOUS
<1>2. Max({x, y}) \in {x, y} /\ \A v \in {x, y} : Max({x, y}) >= v
  BY <1>1 DEF Max
<1> QED
  BY <1>2

LEMMA SmallerOf ==
    ASSUME NEW x \in Int, NEW y \in Int
    PROVE  Min({x, y}) = IF x <= y THEN x ELSE y
<1>1. \E z \in {x, y} : \A v \in {x, y} : z <= v
  OBVIOUS
<1>2. Min({x, y}) \in {x, y} /\ \A v \in {x, y} : Min({x, y}) <= v
  BY <1>1 DEF Min
<1> QED
  BY <1>2

LEMMA LeastIndex ==
    ASSUME NEW T \in SUBSET Nat, T # {}
    PROVE  Min(T) \in T /\ \A x \in T : Min(T) <= x
  BY LeastElement DEF Min

LEMMA GreatestIndex ==
    ASSUME NEW n \in Nat, NEW T \in SUBSET (1 .. n), T # {}
    PROVE  Max(T) \in T /\ \A x \in T : Max(T) >= x
<1> DEFINE D == {n - i : i \in T}
<1>1. D \in SUBSET Nat /\ D # {}
  <2>1. \A i \in T : i \in 1 .. n
    OBVIOUS
  <2>2. \A i \in T : n - i \in Nat
    BY <2>1
  <2> QED
    BY <2>2
<1>2. PICK d \in D : \A y \in D : d <= y
  BY <1>1, LeastElement
<1>3. PICK m \in T : d = n - m
  BY <1>2
<1>4. \A x \in T : m >= x
  <2> SUFFICES ASSUME NEW x \in T
               PROVE  m >= x
    OBVIOUS
  <2>1. n - m <= n - x
    BY <1>2, <1>3
  <2> QED
    BY <2>1
<1> QED
  BY <1>4 DEF Max

-----------------------------------------------------------------------------
(***************************************************************************)
(* The parts of the invariant, as the chains go on.                        *)
(***************************************************************************)
LEMMA Fields ==
    DOMAIN FreshRace =
      {"sourceRequest", "targetRequest", "requiredHeader", "peer", "batch", "toSubmit",
       "submitted", "queue", "confirmedQueue", "targetNonces", "bestTargetNonce"}
  BY DEF FreshRace

IsExtended(blocks, blocks2) ==
    /\ DOMAIN blocks \subseteq DOMAIN blocks2
    /\ \A i \in DOMAIN blocks : blocks2[i] = blocks[i]

LEMMA SourceTypes ==
    ASSUME NEW blocks, NEW d, SourceOK(blocks, d)
    PROVE  /\ Len(blocks) \in Nat \ {0} /\ DOMAIN blocks = 1 .. Len(blocks)
           /\ Len(blocks) \in DOMAIN blocks
           /\ \A i \in DOMAIN blocks :
                i \in Nat /\ blocks[i].generated \in Nat /\ blocks[i].confirmed \in Nat
<1>1. blocks \in Seq(SourceBlocks) /\ blocks # <<>>
  BY DEF SourceOK
<1>2. Len(blocks) \in Nat /\ DOMAIN blocks = 1 .. Len(blocks) /\ Len(blocks) # 0
      /\ \A i \in DOMAIN blocks : blocks[i] \in SourceBlocks
  BY <1>1, LenProperties, EmptySeq
<1> QED
  BY <1>2 DEF SourceBlocks

LEMMA QueueTypes ==
    ASSUME NEW queue, NEW blocks, NEW d, QueueOK(queue, blocks, d)
    PROVE  /\ Len(queue) \in Nat /\ DOMAIN queue = 1 .. Len(queue)
           /\ queue = <<>> <=> Len(queue) = 0
           /\ \A i \in DOMAIN queue :
                /\ queue[i] \in [at : Nat, first : Nat, last : Nat]
                /\ queue[i].at \in Nat /\ queue[i].first \in Nat /\ queue[i].last \in Nat
<1>1. queue \in Seq([at : Nat, first : Nat, last : Nat])
  BY DEF QueueOK
<1>2. Len(queue) \in Nat /\ DOMAIN queue = 1 .. Len(queue) /\ (queue = <<>> <=> Len(queue) = 0)
      /\ \A i \in DOMAIN queue : queue[i] \in [at : Nat, first : Nat, last : Nat]
  BY <1>1, LenProperties, EmptySeq
<1> QED
  BY <1>2

LEMMA SelectionStays ==
    ASSUME NEW s, NEW blocks, NEW d \in Nat, NEW blocks2, NEW d2 \in Nat, d <= d2,
           SelectionOK(s, blocks, d), IsExtended(blocks, blocks2)
    PROVE  SelectionOK(s, blocks2, d2)
  BY DEF SelectionOK, IsExtended

LEMMA QueueStays ==
    ASSUME NEW queue, NEW blocks, NEW d \in Nat, NEW blocks2, NEW d2 \in Nat, d <= d2,
           QueueOK(queue, blocks, d), IsExtended(blocks, blocks2)
    PROVE  QueueOK(queue, blocks2, d2)
<1>1. \A i \in DOMAIN queue :
         /\ queue[i].at \in DOMAIN blocks2
         /\ queue[i].last <= blocks2[queue[i].at].generated
  BY DEF QueueOK, IsExtended
<1>2. \A i \in DOMAIN queue : queue[i].first <= d + 1 => queue[i].first <= d2 + 1
  BY QueueTypes
<1> QED
  BY <1>1, <1>2 DEF QueueOK

LEMMA NoncesStay ==
    ASSUME NEW nonces, NEW d \in Nat, NEW d2 \in Nat, d <= d2, NoncesOK(nonces, d)
    PROVE  NoncesOK(nonces, d2)
  BY DEF NoncesOK

LEMMA RequestsStay ==
    ASSUME NEW r, NEW blocks, NEW d \in Nat, NEW blocks2, NEW d2 \in Nat, d <= d2,
           RaceOK(r, blocks, d), IsExtended(blocks, blocks2)
    PROVE  /\ SourceRequestOK(r.sourceRequest, r.queue, blocks2, d2)
           /\ TargetRequestOK(r.targetRequest, blocks2, d2)
<1>1. SourceRequestOK(r.sourceRequest, r.queue, blocks, d)
      /\ TargetRequestOK(r.targetRequest, blocks, d)
  BY DEF RaceOK
<1>2. SourceRequestOK(r.sourceRequest, r.queue, blocks2, d2)
  BY <1>1, SelectionStays DEF SourceRequestOK, IsExtended
<1>3. TargetRequestOK(r.targetRequest, blocks2, d2)
  BY <1>1, NoncesStay DEF TargetRequestOK, IsExtended
<1> QED
  BY <1>2, <1>3

LEMMA RaceStays ==
    ASSUME NEW r, NEW blocks, NEW d \in Nat, NEW blocks2, NEW d2 \in Nat, d <= d2,
           RaceOK(r, blocks, d), IsExtended(blocks, blocks2)
    PROVE  RaceOK(r, blocks2, d2)
<1>1. HeaderOK(r.peer, blocks2) /\ HeaderOK(r.batch, blocks2) /\ HeaderOK(r.requiredHeader, blocks2)
  BY DEF RaceOK, HeaderOK, IsExtended
<1>2. BestNonceOK(r.bestTargetNonce, r.targetNonces, d2)
  BY NoncesStay DEF RaceOK, BestNonceOK
<1>3. QueueOK(r.queue, blocks2, d2)
  BY QueueStays DEF RaceOK
<1>4. ConfirmedQueueOK(r.confirmedQueue, blocks2)
  BY DEF RaceOK, ConfirmedQueueOK, IsExtended
<1>5. r.toSubmit = None \/ SelectionOK(r.toSubmit, blocks2, d2)
  BY SelectionStays DEF RaceOK
<1>6. r.targetRequest.kind = "submit" => SelectionOK(r.toSubmit, blocks2, d2)
  BY SelectionStays DEF RaceOK
<1> QED
  BY <1>1, <1>2, <1>3, <1>4, <1>5, <1>6, RequestsStay DEF RaceOK

-----------------------------------------------------------------------------
(***************************************************************************)
(* What the strategy selects.                                              *)
(***************************************************************************)

\* The facts about a race that may select, at a header.
MaySelect(r, at, blocks, d) ==
    /\ d \in Nat /\ SourceOK(blocks, d) /\ at \in DOMAIN blocks
    /\ QueueOK(r.queue, blocks, d) /\ ConfirmedQueueOK(r.confirmedQueue, blocks)
    /\ r.bestTargetNonce \in 0 .. d
    /\ NoncesOK(r.targetNonces, d) /\ r.bestTargetNonce = r.targetNonces.latest

LEMMA AvailableFacts ==
    ASSUME NEW r, NEW at, NEW blocks, NEW d, MaySelect(r, at, blocks, d)
    PROVE  LET indices == AvailableIndices(r, at)
           IN  /\ indices \in SUBSET (1 .. Len(r.queue)) /\ Len(r.queue) \in Nat
               /\ \A i \in indices : /\ r.queue[i].first \in Nat /\ r.queue[i].last \in Nat
                                     /\ r.queue[i].last <= blocks[at].generated
               /\ indices # {} => /\ Min(indices) \in indices
                                  /\ r.queue[Min(indices)].first <= d + 1
<1> DEFINE indices == AvailableIndices(r, at)
           queue == r.queue
           undelivered == {i \in DOMAIN queue : queue[i].last > r.bestTargetNonce}
<1>0. /\ d \in Nat /\ SourceOK(blocks, d) /\ at \in DOMAIN blocks /\ QueueOK(queue, blocks, d)
      /\ r.bestTargetNonce \in 0 .. d
  BY DEF MaySelect
<1>1. /\ Len(queue) \in Nat /\ DOMAIN queue = 1 .. Len(queue)
      /\ \A i \in DOMAIN queue :
           queue[i].at \in Nat /\ queue[i].first \in Nat /\ queue[i].last \in Nat
  BY <1>0, QueueTypes
<1>2. indices = {i \in undelivered : \A j \in undelivered : j <= i => queue[j].at <= at}
  BY DEF AvailableIndices
<1> HIDE DEF indices
<1>3. indices \in SUBSET (1 .. Len(queue)) /\ indices \in SUBSET Nat
  BY <1>1, <1>2
<1>4. ASSUME NEW i \in indices
      PROVE  queue[i].last <= blocks[at].generated
  <2>1. i \in DOMAIN queue /\ queue[i].at <= at
    BY <1>1, <1>2
  <2>2. queue[i].at \in DOMAIN blocks /\ queue[i].last <= blocks[queue[i].at].generated
    BY <1>0, <2>1 DEF QueueOK
  <2>3. blocks[queue[i].at].generated <= blocks[at].generated
    BY <1>0, <2>1, <2>2 DEF SourceOK
  <2>4. blocks[queue[i].at].generated \in Nat /\ blocks[at].generated \in Nat
    BY <1>0, <2>2, SourceTypes
  <2> QED
    BY <1>1, <2>1, <2>2, <2>3, <2>4
<1>5. ASSUME indices # {}
      PROVE  Min(indices) \in indices /\ queue[Min(indices)].first <= d + 1
  <2> DEFINE m == Min(indices)
  <2>1. m \in indices /\ \A i \in indices : m <= i
    BY <1>3, <1>5, LeastIndex
  <2> HIDE DEF m
  <2>2. m \in DOMAIN queue /\ m \in Nat
    BY <1>1, <1>2, <2>1
  <2>3. CASE queue[m].first <= d + 1
    BY <2>1, <2>3 DEF m
  <2>4. CASE m > 1 /\ queue[m].first <= queue[m - 1].last + 1
    <3>1. m - 1 \in DOMAIN queue
      BY <1>1, <2>2, <2>4
    <3>2. m - 1 \notin undelivered
      <4>1. ASSUME m - 1 \in undelivered
            PROVE  m - 1 \in indices
        <5>1. \A j \in undelivered : j \in Nat /\ (j <= m - 1 => j <= m)
          BY <1>1, <2>2
        <5>2. \A j \in undelivered : j <= m => queue[j].at <= at
          BY <1>2, <2>1
        <5> QED
          BY <1>2, <4>1, <5>1, <5>2
      <4> QED
        BY <2>1, <2>2, <4>1
    <3>3. queue[m - 1].last <= r.bestTargetNonce /\ queue[m - 1].last \in Nat
          /\ queue[m].first \in Nat
      BY <1>0, <1>1, <2>2, <3>1, <3>2
    <3> QED
      BY <1>0, <2>1, <2>4, <3>3 DEF m
  <2> QED
    BY <1>0, <2>2, <2>3, <2>4 DEF QueueOK
<1> QED
  BY <1>1, <1>3, <1>4, <1>5 DEF indices

\* A set of nonces from first to last has no more than there are.
LEMMA CountOfNonces ==
    ASSUME NEW first \in Nat, NEW last \in Nat, NEW ready, ready \subseteq first .. last
    PROVE  /\ IsFiniteSet(ready) /\ Cardinality(ready) \in Nat
           /\ Cardinality(ready) > 0 => first + Cardinality(ready) - 1 <= last
           /\ ready # {} => Cardinality(ready) > 0
<1>1. /\ IsFiniteSet(first .. last)
      /\ Cardinality(first .. last) = IF first > last THEN 0 ELSE last - first + 1
  BY FS_Interval
<1>2. IsFiniteSet(ready) /\ Cardinality(ready) <= Cardinality(first .. last)
  BY <1>1, FS_Subset
<1>3. Cardinality(ready) \in Nat
  BY <1>2, FS_CardinalityType
<1>4. ready # {} => Cardinality(ready) # 0
  BY <1>2, FS_EmptySet
<1> QED
  BY <1>1, <1>2, <1>3, <1>4

\* The ranges that decide() may return.
IsRange(range, known, d, generated) ==
    /\ range.first \in Nat /\ range.last \in Nat
    /\ known + 1 <= range.first /\ range.first <= d + 1
    /\ range.first <= range.last /\ range.last <= generated

LEMMA DecideFacts ==
    ASSUME NEW r, NEW at, NEW blocks, NEW d, MaySelect(r, at, blocks, d), NEW max \in Nat,
           NEW range \in Decide(r, AvailableIndices(r, at), max)
    PROVE  IsRange(range, r.bestTargetNonce, d, blocks[at].generated) /\ max # 0
<1> DEFINE indices == AvailableIndices(r, at)
           first == Max({r.bestTargetNonce + 1, r.queue[Min(indices)].first})
           ready == UNION {r.queue[i].first .. r.queue[i].last : i \in indices}
           nonces == {n \in ready : n >= first}
           count == Cardinality(nonces)
           last == blocks[at].generated
<1>1. /\ indices \in SUBSET (1 .. Len(r.queue)) /\ Len(r.queue) \in Nat
      /\ \A i \in indices : /\ r.queue[i].first \in Nat /\ r.queue[i].last \in Nat
                            /\ r.queue[i].last <= last
      /\ indices # {} => Min(indices) \in indices /\ r.queue[Min(indices)].first <= d + 1
  BY AvailableFacts
<1>2. d \in Nat /\ r.bestTargetNonce \in 0 .. d /\ last \in Nat
  BY SourceTypes DEF MaySelect
<1>3. /\ indices # {} /\ max # 0
      /\ range \in {[first |-> first, last |-> first + k - 1] : k \in 1 .. Min({count, max})}
  BY DEF Decide
<1> HIDE DEF indices, last
<1>4. r.queue[Min(indices)].first \in Nat /\ r.queue[Min(indices)].first <= d + 1
  BY <1>1, <1>3
<1>5. first \in Nat /\ r.bestTargetNonce + 1 <= first /\ first <= d + 1
  <2>1. r.bestTargetNonce + 1 \in Int /\ r.queue[Min(indices)].first \in Int
    BY <1>2, <1>4
  <2>2. first = IF r.bestTargetNonce + 1 >= r.queue[Min(indices)].first
                THEN r.bestTargetNonce + 1 ELSE r.queue[Min(indices)].first
    BY <2>1, LargerOf
  <2> QED
    BY <1>2, <1>4, <2>2
<1> HIDE DEF first
<1>6. nonces \subseteq first .. last
  <2> SUFFICES ASSUME NEW n \in nonces
               PROVE  n \in first .. last
    OBVIOUS
  <2>1. PICK i \in indices : n \in r.queue[i].first .. r.queue[i].last
    OBVIOUS
  <2>2. r.queue[i].first \in Nat /\ r.queue[i].last \in Nat /\ r.queue[i].last <= last
    BY <1>1
  <2>3. n >= first
    OBVIOUS
  <2> QED
    BY <1>2, <1>5, <2>1, <2>2, <2>3
<1> HIDE DEF nonces
<1>7. count \in Nat /\ (count > 0 => first + count - 1 <= last)
  BY <1>2, <1>5, <1>6, CountOfNonces
<1> HIDE DEF count
<1>8. Min({count, max}) \in Nat /\ Min({count, max}) <= count
  <2>1. Min({count, max}) = IF count <= max THEN count ELSE max
    BY <1>7, SmallerOf
  <2> QED
    BY <1>7, <2>1
<1>9. PICK k \in 1 .. Min({count, max}) : range = [first |-> first, last |-> first + k - 1]
  BY <1>3
<1>10. range.first = first /\ range.last = first + k - 1 /\ k \in Nat /\ k >= 1 /\ k <= count
  BY <1>7, <1>8, <1>9
<1>11. first + k - 1 \in Nat /\ first <= first + k - 1 /\ first + k - 1 <= last
  BY <1>2, <1>5, <1>7, <1>10
<1> QED
  BY <1>3, <1>5, <1>10, <1>11 DEF IsRange, last

\* A range is found if something is available.
LEMMA DecideFinds ==
    ASSUME NEW r, NEW at, NEW blocks, NEW d, MaySelect(r, at, blocks, d), NEW max \in Nat,
           max # 0, NEW i \in AvailableIndices(r, at), d + 1 <= r.queue[i].last
    PROVE  Decide(r, AvailableIndices(r, at), max) # {}
<1> DEFINE indices == AvailableIndices(r, at)
           first == Max({r.bestTargetNonce + 1, r.queue[Min(indices)].first})
           ready == UNION {r.queue[j].first .. r.queue[j].last : j \in indices}
           nonces == {n \in ready : n >= first}
           count == Cardinality(nonces)
           last == blocks[at].generated
<1>1. /\ indices \in SUBSET (1 .. Len(r.queue)) /\ Len(r.queue) \in Nat
      /\ \A j \in indices : /\ r.queue[j].first \in Nat /\ r.queue[j].last \in Nat
                            /\ r.queue[j].last <= last
      /\ indices # {} => Min(indices) \in indices /\ r.queue[Min(indices)].first <= d + 1
  BY AvailableFacts
<1>2. /\ d \in Nat /\ r.bestTargetNonce \in 0 .. d /\ last \in Nat
      /\ r.queue[i].first <= r.queue[i].last
  <2>1. i \in DOMAIN r.queue
    BY DEF AvailableIndices
  <2> QED
    BY <2>1, SourceTypes DEF MaySelect, QueueOK
<1>3. Decide(r, indices, max)
      = {[first |-> first, last |-> first + k - 1] : k \in 1 .. Min({count, max})}
  BY DEF Decide
<1>4. i \in indices
  OBVIOUS
<1> HIDE DEF indices, last
<1>5. r.queue[Min(indices)].first \in Nat /\ r.queue[Min(indices)].first <= d + 1
  BY <1>1, <1>4
<1>6. first \in Nat /\ first <= d + 1
  <2>1. r.bestTargetNonce + 1 \in Int /\ r.queue[Min(indices)].first \in Int
    BY <1>2, <1>5
  <2>2. first = IF r.bestTargetNonce + 1 >= r.queue[Min(indices)].first
                THEN r.bestTargetNonce + 1 ELSE r.queue[Min(indices)].first
    BY <2>1, LargerOf
  <2> QED
    BY <1>2, <1>5, <2>2
<1> HIDE DEF first
<1>7. nonces \subseteq first .. last
  <2> SUFFICES ASSUME NEW n \in nonces
               PROVE  n \in first .. last
    OBVIOUS
  <2>1. PICK j \in indices : n \in r.queue[j].first .. r.queue[j].last
    OBVIOUS
  <2>2. r.queue[j].first \in Nat /\ r.queue[j].last \in Nat /\ r.queue[j].last <= last
    BY <1>1
  <2>3. n >= first
    OBVIOUS
  <2> QED
    BY <1>2, <1>6, <2>1, <2>2, <2>3
<1>8. r.queue[i].last \in nonces
  <2>1. r.queue[i].first \in Nat /\ r.queue[i].last \in Nat
    BY <1>1, <1>4
  <2>2. r.queue[i].last \in r.queue[i].first .. r.queue[i].last /\ r.queue[i].last >= first
    BY <1>2, <1>6, <2>1
  <2> QED
    BY <1>4, <2>2
<1> HIDE DEF nonces
<1>9. count \in Nat /\ count > 0
  BY <1>2, <1>6, <1>7, <1>8, CountOfNonces
<1> HIDE DEF count
<1>10. 1 \in 1 .. Min({count, max})
  <2>1. Min({count, max}) = IF count <= max THEN count ELSE max
    BY <1>9, SmallerOf
  <2> QED
    BY <1>9, <2>1
<1> QED
  BY <1>3, <1>10 DEF indices

LEMMA LatestConfirmedFacts ==
    ASSUME NEW r, NEW at, NEW blocks, NEW d, MaySelect(r, at, blocks, d)
    PROVE  LET confirmed == LatestConfirmedNonceAtSource(r, at)
           IN  /\ confirmed \in Nat
               /\ confirmed = r.targetNonces.confirmed \/ confirmed <= blocks[at].confirmed
<1> DEFINE queue == r.confirmedQueue
           known == {i \in DOMAIN queue : queue[i].at <= at}
           confirmed == LatestConfirmedNonceAtSource(r, at)
<1>1. /\ queue \in Seq([at : Nat, nonce : Nat]) /\ SourceOK(blocks, d) /\ at \in DOMAIN blocks
      /\ r.targetNonces.confirmed \in Nat
      /\ \A i \in DOMAIN queue : /\ queue[i].at \in DOMAIN blocks
                                 /\ queue[i].nonce = blocks[queue[i].at].confirmed
  BY DEF MaySelect, ConfirmedQueueOK, NoncesOK
<1>2. confirmed = IF known = {} THEN r.targetNonces.confirmed ELSE queue[Max(known)].nonce
  BY DEF LatestConfirmedNonceAtSource
<1>3. CASE known = {}
  BY <1>1, <1>2, <1>3
<1>4. CASE known # {}
  <2>1. Len(queue) \in Nat /\ DOMAIN queue = 1 .. Len(queue)
    BY <1>1, LenProperties
  <2>2. known \in SUBSET (1 .. Len(queue))
    BY <2>1
  <2>3. Max(known) \in known
    BY <1>4, <2>1, <2>2, GreatestIndex
  <2> DEFINE m == Max(known)
  <2> HIDE DEF known, m
  <2>4. m \in DOMAIN queue /\ queue[m].at <= at
    BY <2>3 DEF known, m
  <2>5. /\ queue[m].at \in DOMAIN blocks /\ queue[m].nonce = blocks[queue[m].at].confirmed
        /\ blocks[queue[m].at].confirmed \in Nat
        /\ blocks[queue[m].at].confirmed <= blocks[at].confirmed
    BY <1>1, <2>4, SourceTypes DEF SourceOK
  <2> HIDE DEF confirmed
  <2> QED
    BY <1>2, <1>4, <2>5 DEF m, confirmed
<1> QED
  BY <1>3, <1>4

LEMMA MaxNoncesFacts ==
    ASSUME NEW r, NEW d \in Nat, NoncesOK(r.targetNonces, d), NEW confirmed \in Nat
    PROVE  LET max == MaxNoncesInBatch(r, confirmed)
               left == MaxUnconfirmedMessages - (r.targetNonces.latest - confirmed)
           IN  /\ max \in Nat
               /\ max # 0 => confirmed <= r.targetNonces.latest /\ left >= 1
               /\ confirmed <= r.targetNonces.latest /\ left >= 1 => max # 0
<1> DEFINE left == MaxUnconfirmedMessages - (r.targetNonces.latest - confirmed)
           max == MaxNoncesInBatch(r, confirmed)
<1>1. r.targetNonces.latest \in Nat /\ MaxUnconfirmedMessages \in Nat
      /\ MaxMessagesInSingleBatch \in Nat \ {0}
  BY LimitsAssumption, RaceAssumption DEF NoncesOK
<1>2. left \in Int
  BY <1>1
<1>3. max = IF r.targetNonces.latest < confirmed \/ left < 0 THEN 0
            ELSE Min({left, MaxMessagesInSingleBatch})
  BY DEF MaxNoncesInBatch
<1> HIDE DEF left, max
<1>4. Min({left, MaxMessagesInSingleBatch})
      = IF left <= MaxMessagesInSingleBatch THEN left ELSE MaxMessagesInSingleBatch
  BY <1>1, <1>2, SmallerOf
<1> QED
  BY <1>1, <1>2, <1>3, <1>4 DEF left, max

FutureConfirmed(r, at) == FutureConfirmedNonceAtTarget(r, LatestConfirmedNonceAtSource(r, at))

Ranges(r, at) ==
    Decide(r, AvailableIndices(r, at), MaxNoncesInBatch(r, FutureConfirmed(r, at)))

RewardsToProve(r, at) == r.targetNonces.confirmed < LatestConfirmedNonceAtSource(r, at)

EnoughRewards(r, at) ==
    Max({LatestConfirmedNonceAtSource(r, at) - r.targetNonces.confirmed, 0})
    >= r.targetNonces.oldest

SelectionOf(r, at, range) ==
    [first |-> range.first, last |-> range.last, withState |-> RewardsToProve(r, at), at |-> at]

CanSelect(r, at) ==
    /\ r.toSubmit = None /\ r.submitted = None
    /\ r.bestTargetNonce # None /\ at # None /\ r.targetNonces # None

LEMMA SelectedMeans ==
    ASSUME NEW r, NEW at, NEW a \in SelectRaceAction(r, at)
    PROVE  /\ CanSelect(r, at)
           /\ UnrewardedLimitReached(r) => EnoughRewards(r, at)
           /\ \/ \E range \in Ranges(r, at) : a = SelectionOf(r, at, range)
              \/ /\ UnrewardedLimitReached(r) /\ RewardsToProve(r, at)
                 /\ a = SelectionOf(r, at, [first |-> 1, last |-> 0])
<1>1. CanSelect(r, at)
  BY DEF SelectRaceAction, CanSelect
<1>2. UnrewardedLimitReached(r) => EnoughRewards(r, at)
  BY DEF SelectRaceAction, EnoughRewards
<1> DEFINE selected == IF Ranges(r, at) # {} THEN Ranges(r, at)
                       ELSE IF UnrewardedLimitReached(r) /\ RewardsToProve(r, at)
                       THEN {[first |-> 1, last |-> 0]} ELSE {}
<1>3. a \in {[first |-> s.first, last |-> s.last, withState |-> RewardsToProve(r, at), at |-> at] :
               s \in selected}
  BY DEF SelectRaceAction, Ranges, RewardsToProve, FutureConfirmed
<1>4. PICK s \in selected : a = SelectionOf(r, at, s)
  BY <1>3 DEF SelectionOf
<1> QED
  BY <1>1, <1>2, <1>4

LEMMA SomethingIsSelected ==
    ASSUME NEW r, NEW at, CanSelect(r, at),
           UnrewardedLimitReached(r) => EnoughRewards(r, at),
           \/ Ranges(r, at) # {}
           \/ UnrewardedLimitReached(r) /\ RewardsToProve(r, at)
    PROVE  SelectRaceAction(r, at) # {}
<1> DEFINE selected == IF Ranges(r, at) # {} THEN Ranges(r, at)
                       ELSE IF UnrewardedLimitReached(r) /\ RewardsToProve(r, at)
                       THEN {[first |-> 1, last |-> 0]} ELSE {}
<1>1. SelectRaceAction(r, at)
      = {[first |-> s.first, last |-> s.last, withState |-> RewardsToProve(r, at), at |-> at] :
           s \in selected}
  BY DEF SelectRaceAction, Ranges, RewardsToProve, FutureConfirmed, CanSelect, EnoughRewards
<1>2. selected # {}
  OBVIOUS
<1> HIDE DEF selected
<1> QED
  BY <1>1, <1>2

\* A race that can select knows the target as it has been.
LEMMA CanSelectMeans ==
    ASSUME NEW r, NEW at, NEW blocks, NEW d \in Nat, SourceOK(blocks, d), RaceOK(r, blocks, d),
           HeaderOK(at, blocks), CanSelect(r, at)
    PROVE  MaySelect(r, at, blocks, d)
  BY DEF CanSelect, MaySelect, RaceOK, BestNonceOK, HeaderOK

LEMMA FutureConfirmedFacts ==
    ASSUME NEW r, NEW at, NEW blocks, NEW d, MaySelect(r, at, blocks, d)
    PROVE  /\ FutureConfirmed(r, at) \in Nat
           /\ r.targetNonces.confirmed \in Nat
           /\ r.targetNonces.confirmed <= FutureConfirmed(r, at)
           /\ \/ ~RewardsToProve(r, at) /\ FutureConfirmed(r, at) = r.targetNonces.confirmed
              \/ RewardsToProve(r, at) /\ FutureConfirmed(r, at) <= blocks[at].confirmed
           /\ MaxNoncesInBatch(r, FutureConfirmed(r, at)) \in Nat
<1> DEFINE confirmed == LatestConfirmedNonceAtSource(r, at)
           known == r.targetNonces.confirmed
<1>1. confirmed \in Nat /\ (confirmed = known \/ confirmed <= blocks[at].confirmed)
  BY LatestConfirmedFacts
<1>2. known \in Nat /\ d \in Nat /\ NoncesOK(r.targetNonces, d)
  BY DEF MaySelect, NoncesOK
<1>3. FutureConfirmed(r, at) = IF known < confirmed THEN confirmed ELSE known
  BY DEF FutureConfirmed, FutureConfirmedNonceAtTarget
<1>4. RewardsToProve(r, at) <=> known < confirmed
  BY DEF RewardsToProve
<1> HIDE DEF confirmed, known
<1>5. FutureConfirmed(r, at) \in Nat
  BY <1>1, <1>2, <1>3
<1>6. MaxNoncesInBatch(r, FutureConfirmed(r, at)) \in Nat
  BY <1>2, <1>5, MaxNoncesFacts
<1> QED
  BY <1>1, <1>2, <1>3, <1>4, <1>6 DEF known

LEMMA SelectedIsOK ==
    ASSUME NEW r, NEW at, NEW blocks, NEW d \in Nat, SourceOK(blocks, d), RaceOK(r, blocks, d),
           HeaderOK(at, blocks), NEW a \in SelectRaceAction(r, at)
    PROVE  SelectionOK(a, blocks, d)
<1>1. CanSelect(r, at)
  BY SelectedMeans
<1>2. MaySelect(r, at, blocks, d)
  BY <1>1, CanSelectMeans
<1>3. at \in DOMAIN blocks /\ blocks[at].generated \in Nat
  BY <1>2, SourceTypes DEF MaySelect
<1>4. CASE \E range \in Ranges(r, at) : a = SelectionOf(r, at, range)
  <2>1. PICK range \in Ranges(r, at) : a = SelectionOf(r, at, range)
    BY <1>4
  <2>2. MaxNoncesInBatch(r, FutureConfirmed(r, at)) \in Nat
    BY <1>2, FutureConfirmedFacts
  <2>3. IsRange(range, r.bestTargetNonce, d, blocks[at].generated)
    BY <1>2, <2>2, DecideFacts DEF Ranges
  <2> QED
    BY <1>3, <2>1, <2>3 DEF IsRange, SelectionOf, SelectionOK
<1>5. CASE a = SelectionOf(r, at, [first |-> 1, last |-> 0])
  BY <1>3, <1>5 DEF SelectionOf, SelectionOK
<1> QED
  BY <1>4, <1>5, SelectedMeans

-----------------------------------------------------------------------------
(***************************************************************************)
(* The end of an iteration.                                                *)
(***************************************************************************)

\* The request that AskSource makes, if it makes one.
MakesRequest(r, s) ==
    \/ s.sourceRequest = r.sourceRequest
    \/ /\ r.sourceRequest = Idle
       /\ \E at \in {r.batch, r.peer} : \E a \in SelectRaceAction(r, at) :
            s.sourceRequest = [kind |-> "proof", nonces |-> a, batch |-> r.batch # None]

LEMMA AskSourceFacts ==
    ASSUME NEW r, DOMAIN r = DOMAIN FreshRace, NEW s \in AskSource(r)
    PROVE  /\ DOMAIN s = DOMAIN FreshRace /\ MakesRequest(r, s)
           /\ s.batch \in {r.batch, None}
           /\ s.targetRequest = r.targetRequest /\ s.requiredHeader = r.requiredHeader
           /\ s.peer = r.peer /\ s.toSubmit = r.toSubmit /\ s.submitted = r.submitted
           /\ s.queue = r.queue /\ s.confirmedQueue = r.confirmedQueue
           /\ s.targetNonces = r.targetNonces /\ s.bestTargetNonce = r.bestTargetNonce
<1> DEFINE at == IF r.batch # None THEN r.batch ELSE r.peer
           taken == [r EXCEPT !.batch = None]
           asked(a) == [taken EXCEPT !.sourceRequest =
                          [kind |-> "proof", nonces |-> a, batch |-> r.batch # None]]
<1>1. \/ s = r
      \/ s = taken
      \/ r.sourceRequest = Idle /\ \E a \in SelectRaceAction(r, at) : s = asked(a)
  BY DEF AskSource
<1>2. /\ DOMAIN taken = DOMAIN FreshRace /\ taken.batch = None
      /\ taken.sourceRequest = r.sourceRequest
      /\ taken.targetRequest = r.targetRequest /\ taken.requiredHeader = r.requiredHeader
      /\ taken.peer = r.peer /\ taken.toSubmit = r.toSubmit /\ taken.submitted = r.submitted
      /\ taken.queue = r.queue /\ taken.confirmedQueue = r.confirmedQueue
      /\ taken.targetNonces = r.targetNonces /\ taken.bestTargetNonce = r.bestTargetNonce
  BY Fields
<1> HIDE DEF taken
<1>3. CASE s = r
  BY <1>3 DEF MakesRequest
<1>4. CASE s = taken
  BY <1>2, <1>4 DEF MakesRequest
<1>5. CASE r.sourceRequest = Idle /\ \E a \in SelectRaceAction(r, at) : s = asked(a)
  <2>1. PICK a \in SelectRaceAction(r, at) : s = asked(a)
    BY <1>5
  <2>2. /\ DOMAIN s = DOMAIN FreshRace /\ s.batch = taken.batch
        /\ s.sourceRequest = [kind |-> "proof", nonces |-> a, batch |-> r.batch # None]
        /\ s.targetRequest = taken.targetRequest /\ s.requiredHeader = taken.requiredHeader
        /\ s.peer = taken.peer /\ s.toSubmit = taken.toSubmit /\ s.submitted = taken.submitted
        /\ s.queue = taken.queue /\ s.confirmedQueue = taken.confirmedQueue
        /\ s.targetNonces = taken.targetNonces /\ s.bestTargetNonce = taken.bestTargetNonce
    BY <1>2, <2>1, Fields
  <2>3. at \in {r.batch, r.peer}
    OBVIOUS
  <2> HIDE DEF at
  <2>4. MakesRequest(r, s)
    BY <1>5, <2>1, <2>2, <2>3 DEF MakesRequest
  <2> QED
    BY <1>2, <2>2, <2>4
<1> QED
  BY <1>1, <1>3, <1>4, <1>5

LEMMA AskTargetFacts ==
    ASSUME NEW r, DOMAIN r = DOMAIN FreshRace
    PROVE  LET s == AskTarget(r)
           IN  /\ DOMAIN s = DOMAIN FreshRace /\ s.sourceRequest = r.sourceRequest
               /\ s.batch = r.batch /\ s.requiredHeader = r.requiredHeader
               /\ s.peer = r.peer /\ s.toSubmit = r.toSubmit /\ s.submitted = r.submitted
               /\ s.queue = r.queue /\ s.confirmedQueue = r.confirmedQueue
               /\ s.targetNonces = r.targetNonces /\ s.bestTargetNonce = r.bestTargetNonce
               /\ \/ s.targetRequest = r.targetRequest
                  \/ r.toSubmit # None /\ s.targetRequest = [kind |-> "submit"]
                  \/ /\ r.requiredHeader # None
                     /\ s.targetRequest = [kind |-> "require", header |-> r.requiredHeader]
  BY Fields DEF AskTarget

LEMMA LoopEndOK ==
    ASSUME NEW r, NEW blocks, NEW d \in Nat, SourceOK(blocks, d), RaceOK(r, blocks, d),
           NEW t \in LoopEnd(r)
    PROVE  RaceOK(t, blocks, d) /\ MakesRequest(r, t) /\ t.targetNonces = r.targetNonces
<1>1. PICK s \in AskSource(r) : t = AskTarget(s)
  BY DEF LoopEnd
<1>2. DOMAIN r = DOMAIN FreshRace
  BY DEF RaceOK
<1>3. /\ DOMAIN s = DOMAIN FreshRace /\ MakesRequest(r, s)
      /\ s.batch \in {r.batch, None}
      /\ s.targetRequest = r.targetRequest /\ s.requiredHeader = r.requiredHeader
      /\ s.peer = r.peer /\ s.toSubmit = r.toSubmit /\ s.submitted = r.submitted
      /\ s.queue = r.queue /\ s.confirmedQueue = r.confirmedQueue
      /\ s.targetNonces = r.targetNonces /\ s.bestTargetNonce = r.bestTargetNonce
  BY <1>2, AskSourceFacts
<1>4. /\ DOMAIN t = DOMAIN FreshRace /\ t.sourceRequest = s.sourceRequest
      /\ t.batch = s.batch /\ t.requiredHeader = s.requiredHeader
      /\ t.peer = s.peer /\ t.toSubmit = s.toSubmit /\ t.submitted = s.submitted
      /\ t.queue = s.queue /\ t.confirmedQueue = s.confirmedQueue
      /\ t.targetNonces = s.targetNonces /\ t.bestTargetNonce = s.bestTargetNonce
      /\ \/ t.targetRequest = s.targetRequest
         \/ s.toSubmit # None /\ t.targetRequest = [kind |-> "submit"]
         \/ /\ s.requiredHeader # None
            /\ t.targetRequest = [kind |-> "require", header |-> s.requiredHeader]
  BY <1>1, <1>3, AskTargetFacts
<1>5. MakesRequest(r, t)
  BY <1>3, <1>4 DEF MakesRequest
<1>6. SourceRequestOK(t.sourceRequest, t.queue, blocks, d)
  <2>1. CASE t.sourceRequest = r.sourceRequest
    BY <1>3, <1>4, <2>1 DEF RaceOK
  <2>2. CASE \E at \in {r.batch, r.peer} : \E a \in SelectRaceAction(r, at) :
            t.sourceRequest = [kind |-> "proof", nonces |-> a, batch |-> r.batch # None]
    <3>1. PICK at \in {r.batch, r.peer} : \E a \in SelectRaceAction(r, at) :
            t.sourceRequest = [kind |-> "proof", nonces |-> a, batch |-> r.batch # None]
      BY <2>2
    <3>2. PICK a \in SelectRaceAction(r, at) :
            t.sourceRequest = [kind |-> "proof", nonces |-> a, batch |-> r.batch # None]
      BY <3>1
    <3>3. HeaderOK(at, blocks)
      BY DEF RaceOK
    <3>4. SelectionOK(a, blocks, d)
      BY <3>3, SelectedIsOK
    <3>5. t.sourceRequest.kind = "proof" /\ t.sourceRequest.nonces = a
      BY <3>2
    <3> QED
      BY <3>4, <3>5 DEF SourceRequestOK
  <2> QED
    BY <1>5, <2>1, <2>2 DEF MakesRequest
<1>7. TargetRequestOK(t.targetRequest, blocks, d)
  <2>1. CASE t.targetRequest = r.targetRequest
    BY <2>1 DEF RaceOK
  <2>2. CASE t.targetRequest = [kind |-> "submit"]
    BY <2>2 DEF TargetRequestOK
  <2>3. CASE /\ r.requiredHeader # None
             /\ t.targetRequest = [kind |-> "require", header |-> r.requiredHeader]
    BY <2>3 DEF TargetRequestOK, RaceOK, HeaderOK
  <2> QED
    BY <1>3, <1>4, <2>1, <2>2, <2>3
<1>8. HeaderOK(t.batch, blocks)
  BY <1>3, <1>4 DEF RaceOK, HeaderOK
<1>9. t.targetRequest.kind = "submit" => SelectionOK(t.toSubmit, blocks, d)
  <2>1. CASE t.targetRequest = r.targetRequest
    BY <1>3, <1>4, <2>1 DEF RaceOK
  <2>2. CASE t.targetRequest # r.targetRequest
    BY <1>3, <1>4, <2>2 DEF RaceOK
  <2> QED
    BY <2>1, <2>2
<1> QED
  BY <1>3, <1>4, <1>5, <1>6, <1>7, <1>8, <1>9 DEF RaceOK

\* The source has confirmed no more than was delivered, also later.
LEMMA SourceLater ==
    ASSUME NEW blocks, NEW d \in Nat, NEW d2 \in Nat, d <= d2, SourceOK(blocks, d)
    PROVE  SourceOK(blocks, d2)
<1>1. \A i \in DOMAIN blocks : blocks[i].confirmed \in Nat /\ blocks[i].confirmed <= d
  BY SourceTypes DEF SourceOK
<1> QED
  BY <1>1 DEF SourceOK

LEMMA NotProofs ==
    /\ Idle.kind # "proof" /\ Offline.kind # "proof" /\ Idle # Offline
    /\ Idle.kind # "submit" /\ Offline.kind # "submit"
    /\ Idle.kind # "nonces" /\ Offline.kind # "nonces"
  BY DEF Idle, Offline

LEMMA IdleRequests ==
    ASSUME NEW blocks, NEW d, NEW queue
    PROVE  /\ SourceRequestOK(Idle, queue, blocks, d) /\ SourceRequestOK(Offline, queue, blocks, d)
           /\ TargetRequestOK(Idle, blocks, d) /\ TargetRequestOK(Offline, blocks, d)
  BY DEF Idle, Offline, SourceRequestOK, TargetRequestOK

-----------------------------------------------------------------------------
(***************************************************************************)
(* News of the source.                                                     *)
(***************************************************************************)
LEMMA QueueGrows ==
    ASSUME NEW queue, NEW blocks, NEW d \in Nat, SourceOK(blocks, d), QueueOK(queue, blocks, d),
           NEW at \in DOMAIN blocks, \A i \in DOMAIN queue : queue[i].at <= at,
           NEW first \in Nat, NEW last \in Nat, first <= last, last <= blocks[at].generated,
           \/ first <= d + 1
           \/ queue # <<>> /\ first <= queue[Len(queue)].last + 1
    PROVE  QueueOK(Append(queue, [at |-> at, first |-> first, last |-> last]), blocks, d)
<1> DEFINE e == [at |-> at, first |-> first, last |-> last]
           new == Append(queue, e)
           n == Len(queue)
<1>0. n \in Nat
  BY QueueTypes
<1>1. /\ n \in Nat /\ DOMAIN queue = 1 .. n /\ (queue = <<>> <=> n = 0)
      /\ queue \in Seq([at : Nat, first : Nat, last : Nat]) /\ at \in Nat
      /\ \A i \in DOMAIN queue : queue[i].at \in Nat
  BY QueueTypes, SourceTypes DEF QueueOK
<1>2. e \in [at : Nat, first : Nat, last : Nat] /\ e.at = at /\ e.first = first /\ e.last = last
  BY <1>1
<1> HIDE DEF e
<1>3. /\ new \in Seq([at : Nat, first : Nat, last : Nat]) /\ Len(new) = n + 1
      /\ \A i \in 1 .. n : new[i] = queue[i]
      /\ new[n + 1] = e /\ DOMAIN new = 1 .. n + 1
  BY <1>1, <1>2, AppendProperties, LenProperties
<1> HIDE DEF new, n
<1>4. ASSUME NEW i \in DOMAIN new
      PROVE  /\ new[i].at \in DOMAIN blocks
             /\ new[i].first <= new[i].last
             /\ new[i].last <= blocks[new[i].at].generated
             /\ \/ new[i].first <= d + 1
                \/ i > 1 /\ new[i].first <= new[i - 1].last + 1
  <2>1. CASE i = n + 1
    <3>1. new[i] = e
      BY <1>3, <2>1
    <3>2. queue # <<>> => i > 1 /\ new[i - 1] = queue[n]
      <4>1. i - 1 = n /\ (queue # <<>> => n \in 1 .. n /\ i > 1)
        BY <1>1, <2>1
      <4> QED
        BY <1>3, <4>1
    <3> QED
      BY <1>2, <3>1, <3>2 DEF n
  <2>2. CASE i # n + 1
    <3>0. i \in 1 .. n
      BY <1>1, <1>3, <2>2
    <3>1. i \in 1 .. n /\ new[i] = queue[i]
      BY <1>3, <3>0
    <3>2. i > 1 => new[i - 1] = queue[i - 1]
      <4>1. i > 1 => i - 1 \in 1 .. n
        BY <1>0, <3>0
      <4> QED
        BY <1>3, <4>1
    <3> QED
      BY <1>1, <3>1, <3>2 DEF QueueOK
  <2> QED
    BY <2>1, <2>2
<1>5. ASSUME NEW i \in DOMAIN new, NEW j \in DOMAIN new, i <= j
      PROVE  new[i].at <= new[j].at
  <2>1. CASE j = n + 1 /\ i = n + 1
    BY <1>1, <1>2, <1>3, <2>1
  <2>2. CASE j = n + 1 /\ i # n + 1
    <3>0. i \in 1 .. n
      BY <1>1, <1>3, <2>2
    <3>1. i \in 1 .. n /\ new[i] = queue[i] /\ new[j] = e
      BY <1>3, <2>2, <3>0
    <3> QED
      BY <1>1, <1>2, <3>1
  <2>3. CASE j # n + 1
    <3>0. i \in 1 .. n /\ j \in 1 .. n
      <4>1. i \in 1 .. n + 1 /\ j \in 1 .. n + 1
        BY <1>3
      <4>2. i # n + 1
        BY <1>0, <1>5, <2>3, <4>1
      <4> QED
        BY <1>0, <2>3, <4>1, <4>2
    <3>1. i \in 1 .. n /\ j \in 1 .. n /\ new[i] = queue[i] /\ new[j] = queue[j]
      BY <1>3, <3>0
    <3> QED
      BY <1>1, <1>5, <3>1 DEF QueueOK
  <2> QED
    BY <2>1, <2>2, <2>3
<1> QED
  BY <1>3, <1>4, <1>5 DEF QueueOK, new, e

LEMMA ConfirmedQueueGrows ==
    ASSUME NEW queue, NEW blocks, NEW d, SourceOK(blocks, d), ConfirmedQueueOK(queue, blocks),
           NEW at \in DOMAIN blocks
    PROVE  ConfirmedQueueOK(Append(queue, [at |-> at, nonce |-> blocks[at].confirmed]), blocks)
<1> DEFINE e == [at |-> at, nonce |-> blocks[at].confirmed]
           new == Append(queue, e)
<1>1. /\ queue \in Seq([at : Nat, nonce : Nat]) /\ at \in Nat /\ blocks[at].confirmed \in Nat
  BY SourceTypes DEF ConfirmedQueueOK
<1>2. e \in [at : Nat, nonce : Nat] /\ e.at = at /\ e.nonce = blocks[at].confirmed
  BY <1>1
<1> HIDE DEF e
<1>3. /\ new \in Seq([at : Nat, nonce : Nat]) /\ Len(queue) \in Nat
      /\ DOMAIN queue = 1 .. Len(queue)
      /\ \A i \in 1 .. Len(queue) : new[i] = queue[i]
      /\ new[Len(queue) + 1] = e /\ DOMAIN new = 1 .. Len(queue) + 1
  BY <1>1, <1>2, AppendProperties, LenProperties
<1> HIDE DEF new
<1>4. ASSUME NEW i \in DOMAIN new
      PROVE  new[i].at \in DOMAIN blocks /\ new[i].nonce = blocks[new[i].at].confirmed
  <2>1. CASE i = Len(queue) + 1
    BY <1>2, <1>3, <2>1
  <2>2. CASE i # Len(queue) + 1
    <3>1. i \in DOMAIN queue /\ new[i] = queue[i]
      BY <1>3, <2>2
    <3> QED
      BY <3>1 DEF ConfirmedQueueOK
  <2> QED
    BY <2>1, <2>2
<1> QED
  BY <1>3, <1>4 DEF ConfirmedQueueOK, new, e

BestInQueue(r) ==
    IF r.queue # <<>> THEN r.queue[Len(r.queue)].last
    ELSE IF r.bestTargetNonce # None THEN r.bestTargetNonce
    ELSE 0

FirstNew(r, prev) == Max({prev, BestInQueue(r)}) + 1

LEMMA SourceNewsFields ==
    ASSUME NEW r, DOMAIN r = DOMAIN FreshRace, NEW at, NEW prev
    PROVE  LET s == SourceNoncesUpdated(r, at, prev)
               confirmed == source[at].confirmed
           IN  /\ DOMAIN s = DOMAIN FreshRace /\ s.sourceRequest = r.sourceRequest
               /\ s.targetRequest = r.targetRequest
               /\ s.batch = r.batch /\ s.requiredHeader = r.requiredHeader
               /\ s.peer = r.peer /\ s.toSubmit = r.toSubmit /\ s.submitted = r.submitted
               /\ s.targetNonces = r.targetNonces /\ s.bestTargetNonce = r.bestTargetNonce
               /\ s.queue = IF FirstNew(r, prev) <= source[at].generated
                            THEN Append(r.queue, [at |-> at, first |-> FirstNew(r, prev),
                                                  last |-> source[at].generated])
                            ELSE r.queue
               /\ s.confirmedQueue =
                    IF \/ r.confirmedQueue = <<>>
                       \/ r.confirmedQueue[Len(r.confirmedQueue)].nonce # confirmed
                    THEN Append(r.confirmedQueue, [at |-> at, nonce |-> confirmed])
                    ELSE r.confirmedQueue
  BY Fields DEF SourceNoncesUpdated, FirstNew, BestInQueue

\* The answer to a request that was made of the source after prev.
IsAnswer(r, at, prev, d) ==
    /\ at \in DOMAIN source /\ prev \in Nat
    /\ prev <= d \/ (r.queue # <<>> /\ prev <= r.queue[Len(r.queue)].last)
    /\ \A i \in DOMAIN r.queue : r.queue[i].at <= at

LEMMA FirstNewFacts ==
    ASSUME NEW r, NEW d \in Nat, SourceOK(source, d), RaceOK(r, source, d), NEW at, NEW prev,
           IsAnswer(r, at, prev, d)
    PROVE  /\ FirstNew(r, prev) \in Nat
           /\ \/ FirstNew(r, prev) <= d + 1
              \/ r.queue # <<>> /\ FirstNew(r, prev) <= r.queue[Len(r.queue)].last + 1
<1>1. QueueOK(r.queue, source, d) /\ BestNonceOK(r.bestTargetNonce, r.targetNonces, d)
  BY DEF RaceOK
<1>2. r.queue # <<>> => Len(r.queue) \in DOMAIN r.queue /\ r.queue[Len(r.queue)].last \in Nat
  BY <1>1, QueueTypes
<1>3. /\ BestInQueue(r) \in Nat
      /\ BestInQueue(r) <= d \/ (r.queue # <<>> /\ BestInQueue(r) = r.queue[Len(r.queue)].last)
  BY <1>1, <1>2 DEF BestInQueue, BestNonceOK
<1>4. prev \in Nat
  BY DEF IsAnswer
<1>5. Max({prev, BestInQueue(r)}) = IF prev >= BestInQueue(r) THEN prev ELSE BestInQueue(r)
  BY <1>3, <1>4, LargerOf
<1> QED
  BY <1>2, <1>3, <1>4, <1>5 DEF FirstNew, IsAnswer

LEMMA SourceNewsOK ==
    ASSUME NEW r, NEW d \in Nat, SourceOK(source, d), RaceOK(r, source, d), NEW at, NEW prev,
           IsAnswer(r, at, prev, d), r.sourceRequest = Idle
    PROVE  RaceOK(SourceNoncesUpdated(r, at, prev), source, d)
<1> DEFINE s == SourceNoncesUpdated(r, at, prev)
           first == FirstNew(r, prev)
           last == source[at].generated
<1>1. DOMAIN r = DOMAIN FreshRace /\ QueueOK(r.queue, source, d)
      /\ ConfirmedQueueOK(r.confirmedQueue, source)
  BY DEF RaceOK
<1>2. /\ DOMAIN s = DOMAIN FreshRace /\ s.sourceRequest = r.sourceRequest
      /\ s.targetRequest = r.targetRequest
      /\ s.batch = r.batch /\ s.requiredHeader = r.requiredHeader
      /\ s.peer = r.peer /\ s.toSubmit = r.toSubmit /\ s.submitted = r.submitted
      /\ s.targetNonces = r.targetNonces /\ s.bestTargetNonce = r.bestTargetNonce
      /\ s.queue = IF first <= last
                   THEN Append(r.queue, [at |-> at, first |-> first, last |-> last])
                   ELSE r.queue
      /\ s.confirmedQueue =
           IF \/ r.confirmedQueue = <<>>
              \/ r.confirmedQueue[Len(r.confirmedQueue)].nonce # source[at].confirmed
           THEN Append(r.confirmedQueue, [at |-> at, nonce |-> source[at].confirmed])
           ELSE r.confirmedQueue
  BY <1>1, SourceNewsFields
<1> HIDE DEF s
<1>3. at \in DOMAIN source /\ \A i \in DOMAIN r.queue : r.queue[i].at <= at
  BY DEF IsAnswer
<1>4. last \in Nat /\ last <= source[at].generated
  BY <1>3, SourceTypes
<1>5. /\ first \in Nat
      /\ first <= d + 1 \/ (r.queue # <<>> /\ first <= r.queue[Len(r.queue)].last + 1)
  BY FirstNewFacts
<1> HIDE DEF first, last
<1>6. QueueOK(s.queue, source, d)
  <2>1. CASE first <= last
    <3>1. QueueOK(Append(r.queue, [at |-> at, first |-> first, last |-> last]), source, d)
      BY <1>1, <1>3, <1>4, <1>5, <2>1, QueueGrows
    <3> QED
      BY <1>2, <2>1, <3>1
  <2> QED
    BY <1>1, <1>2, <2>1
<1>7. ConfirmedQueueOK(s.confirmedQueue, source)
  BY <1>1, <1>2, <1>3, ConfirmedQueueGrows
<1>8. SourceRequestOK(s.sourceRequest, s.queue, source, d)
  BY <1>2, IdleRequests
<1> QED
  BY <1>2, <1>6, <1>7, <1>8 DEF RaceOK, s

LEMMA RequiredHeaderOK ==
    ASSUME NEW r, NEW blocks, NEW d, RaceOK(r, blocks, d)
    PROVE  HeaderOK(RequiredSourceHeaderAtTarget(r), blocks)
<1> DEFINE forDelivery == IF r.queue = <<>> THEN None ELSE r.queue[Len(r.queue)].at
           forReward == IF r.confirmedQueue = <<>> THEN None
                        ELSE r.confirmedQueue[Len(r.confirmedQueue)].at
<1>1. HeaderOK(forDelivery, blocks)
  <2>1. QueueOK(r.queue, blocks, d)
    BY DEF RaceOK
  <2>2. r.queue # <<>> => Len(r.queue) \in DOMAIN r.queue
    BY <2>1, QueueTypes
  <2> QED
    BY <2>1, <2>2 DEF QueueOK, HeaderOK
<1>2. HeaderOK(forReward, blocks)
  <2>1. ConfirmedQueueOK(r.confirmedQueue, blocks)
    BY DEF RaceOK
  <2>2. r.confirmedQueue # <<>> => Len(r.confirmedQueue) \in DOMAIN r.confirmedQueue
    BY <2>1, LenProperties, EmptySeq DEF ConfirmedQueueOK
  <2> QED
    BY <2>1, <2>2 DEF ConfirmedQueueOK, HeaderOK
<1>3. RequiredSourceHeaderAtTarget(r) \in {None, forDelivery, forReward}
  BY DEF RequiredSourceHeaderAtTarget
<1>4. HeaderOK(None, blocks)
  BY DEF HeaderOK
<1> HIDE DEF forDelivery, forReward
<1> QED
  BY <1>1, <1>2, <1>3, <1>4

-----------------------------------------------------------------------------
(***************************************************************************)
(* News of the target.                                                     *)
(***************************************************************************)
LEMMA BestNewsOK ==
    ASSUME NEW r, NEW blocks, NEW d \in Nat, RaceOK(r, blocks, d), r.targetRequest = Idle,
           NEW nonces, NoncesOK(nonces, d)
    PROVE  RaceOK(BestTargetNoncesUpdated(r, nonces), blocks, d)
<1> DEFINE s == BestTargetNoncesUpdated(r, nonces)
<1>1. DOMAIN r = DOMAIN FreshRace
  BY DEF RaceOK
<1>2. /\ DOMAIN s = DOMAIN FreshRace /\ s.sourceRequest = r.sourceRequest
      /\ s.targetRequest = r.targetRequest
      /\ s.batch = r.batch /\ s.requiredHeader = r.requiredHeader /\ s.peer = r.peer
      /\ s.queue = r.queue /\ s.confirmedQueue = r.confirmedQueue
      /\ s.targetNonces = nonces /\ s.bestTargetNonce = nonces.latest
      /\ s.toSubmit = None \/ s.toSubmit = r.toSubmit
  BY <1>1, Fields DEF BestTargetNoncesUpdated
<1> HIDE DEF s
<1>3. BestNonceOK(s.bestTargetNonce, s.targetNonces, d)
  BY <1>2 DEF BestNonceOK, NoncesOK
<1> QED
  BY <1>2, <1>3 DEF RaceOK, Idle, s

\* What is left of a queue from place m.
IsRest(queue, kept, m, left) ==
    /\ \A k \in kept : m <= k
    /\ Len(left) = Len(queue) - m + 1 /\ Len(left) > 0
    /\ \A i \in 1 .. Len(left) : left[i] = queue[m + i - 1]

LEMMA FromFirstFacts ==
    ASSUME NEW S, NEW queue \in Seq(S), NEW kept \in SUBSET (DOMAIN queue)
    PROVE  LET left == FromFirst(queue, kept)
           IN  /\ left \in Seq(S)
               /\ \/ left = <<>> /\ kept = {}
                  \/ \E m \in kept : IsRest(queue, kept, m, left)
<1> DEFINE left == FromFirst(queue, kept)
           n == Len(queue)
<1>1. n \in Nat /\ DOMAIN queue = 1 .. n /\ \A i \in 1 .. n : queue[i] \in S
  BY LenProperties
<1>2. CASE kept = {}
  <2>1. left = <<>>
    BY <1>2 DEF FromFirst
  <2>2. <<>> \in Seq(S)
    BY EmptySeq
  <2> HIDE DEF left
  <2> QED
    BY <1>2, <2>1, <2>2 DEF left
<1>3. CASE kept # {}
  <2> DEFINE m == Min(kept)
  <2>1. kept \in SUBSET Nat
    BY <1>1
  <2>2. m \in kept /\ \A k \in kept : m <= k
    BY <1>3, <2>1, LeastIndex
  <2>3. left = SubSeq(queue, m, n)
    BY <1>3 DEF FromFirst
  <2> HIDE DEF m, n, left
  <2>4. m \in 1 .. n /\ m \in Int /\ n \in Int
    BY <1>1, <2>2
  <2>5. \A i \in m .. n : queue[i] \in S
    BY <1>1, <2>4
  <2>6. /\ left \in Seq(S) /\ Len(left) = IF m <= n THEN n - m + 1 ELSE 0
        /\ \A i \in 1 .. n - m + 1 : left[i] = queue[m + i - 1]
    BY <2>3, <2>4, <2>5, SubSeqProperties
  <2>7. Len(left) = n - m + 1 /\ Len(left) > 0
    BY <2>4, <2>6
  <2>8. IsRest(queue, kept, m, left)
    BY <2>2, <2>6, <2>7 DEF IsRest, n
  <2> QED
    BY <2>2, <2>6, <2>8 DEF left
<1> QED
  BY <1>2, <1>3

QueueEntries == [at : Nat, first : Nat, last : Nat]

\* new is the queue from place m on, without the nonces up to nonce.
IsCut(queue, nonce, m, new) ==
    /\ \A k \in DOMAIN queue : queue[k].last > nonce => m <= k
    /\ new \in Seq(QueueEntries) /\ Len(new) = Len(queue) - m + 1 /\ Len(new) > 0
    /\ \A i \in 1 .. Len(new) :
         /\ new[i].at = queue[m + i - 1].at /\ new[i].last = queue[m + i - 1].last
         /\ new[i].first = IF i = 1 /\ queue[m].first < nonce + 1 THEN nonce + 1
                           ELSE queue[m + i - 1].first

LEMMA RemoveLeFacts ==
    ASSUME NEW queue \in Seq(QueueEntries), NEW nonce \in Nat
    PROVE  LET new == RemoveLeNonces(queue, nonce)
           IN  \/ new = <<>> /\ \A i \in DOMAIN queue : queue[i].last <= nonce
               \/ \E m \in DOMAIN queue : /\ queue[m].last > nonce
                                          /\ IsCut(queue, nonce, m, new)
<1> DEFINE kept == {i \in DOMAIN queue : queue[i].last > nonce}
           left == FromFirst(queue, kept)
           entry(i) == [left[i] EXCEPT !.first =
                          IF i = 1 THEN Max({left[i].first, nonce + 1}) ELSE left[i].first]
           new == RemoveLeNonces(queue, nonce)
<1>0. /\ Len(queue) \in Nat /\ DOMAIN queue = 1 .. Len(queue)
      /\ \A i \in DOMAIN queue : queue[i] \in QueueEntries /\ queue[i].last \in Nat
  <2>1. /\ Len(queue) \in Nat /\ DOMAIN queue = 1 .. Len(queue)
        /\ \A i \in DOMAIN queue : queue[i] \in QueueEntries
    BY LenProperties
  <2> QED
    BY <2>1 DEF QueueEntries
<1>1. new = [i \in DOMAIN left |-> entry(i)]
  BY DEF RemoveLeNonces
<1>2. kept \in SUBSET (DOMAIN queue)
  OBVIOUS
<1> HIDE DEF kept
<1>3. /\ left \in Seq(QueueEntries)
      /\ \/ left = <<>> /\ kept = {}
         \/ \E m \in kept : IsRest(queue, kept, m, left)
  BY <1>2, FromFirstFacts
<1> HIDE DEF left
<1>4. /\ Len(left) \in Nat /\ DOMAIN left = 1 .. Len(left)
      /\ \A i \in DOMAIN left : /\ left[i] \in QueueEntries /\ left[i].at \in Nat
                                /\ left[i].first \in Nat /\ left[i].last \in Nat
  <2>1. /\ Len(left) \in Nat /\ DOMAIN left = 1 .. Len(left)
        /\ \A i \in DOMAIN left : left[i] \in QueueEntries
    BY <1>3, LenProperties
  <2> QED
    BY <2>1 DEF QueueEntries
<1>5. ASSUME NEW i \in DOMAIN left
      PROVE  /\ entry(i) \in QueueEntries
             /\ entry(i).at = left[i].at /\ entry(i).last = left[i].last
             /\ entry(i).first = IF i = 1 /\ left[i].first < nonce + 1 THEN nonce + 1
                                 ELSE left[i].first
  <2> DEFINE f == IF i = 1 THEN Max({left[i].first, nonce + 1}) ELSE left[i].first
             e == left[i]
  <2>1. e \in QueueEntries /\ left[i].first \in Nat
    BY <1>4
  <2>2. Max({left[i].first, nonce + 1})
        = IF left[i].first >= nonce + 1 THEN left[i].first ELSE nonce + 1
    BY <2>1, LargerOf
  <2>3. f \in Nat /\ f = IF i = 1 /\ left[i].first < nonce + 1 THEN nonce + 1 ELSE left[i].first
    BY <2>1, <2>2
  <2>4. entry(i) = [e EXCEPT !.first = f]
    OBVIOUS
  <2> HIDE DEF f, entry, e
  <2>5. /\ [e EXCEPT !.first = f] \in QueueEntries
        /\ [e EXCEPT !.first = f].at = e.at /\ [e EXCEPT !.first = f].last = e.last
        /\ [e EXCEPT !.first = f].first = f
    BY <2>1, <2>3 DEF QueueEntries
  <2> QED
    BY <2>3, <2>4, <2>5 DEF e
<1> HIDE DEF entry, new
<1>6. new \in [1 .. Len(left) -> QueueEntries]
  BY <1>1, <1>4, <1>5
<1>7. new \in Seq(QueueEntries) /\ Len(new) = Len(left)
  BY <1>4, <1>6, SeqDef
<1>8. CASE kept = {}
  <2>1. left = <<>>
    BY <1>3, <1>8
  <2>2. new = <<>>
    BY <1>7, <2>1, EmptySeq
  <2>3. \A i \in DOMAIN queue : queue[i].last <= nonce
    BY <1>0, <1>8 DEF kept
  <2> QED
    BY <2>2, <2>3 DEF new
<1>9. CASE kept # {}
  <2>1. PICK m \in kept : IsRest(queue, kept, m, left)
    BY <1>3, <1>9
  <2>2. m \in DOMAIN queue /\ queue[m].last > nonce /\ m \in Nat
    BY <1>0, <2>1 DEF kept
  <2>3. /\ Len(left) = Len(queue) - m + 1 /\ Len(left) > 0
        /\ \A i \in 1 .. Len(left) : left[i] = queue[m + i - 1]
    BY <2>1 DEF IsRest
  <2>4. \A i \in 1 .. Len(left) :
          new[i] = entry(i) /\ (i = 1 => left[i] = queue[m] /\ queue[m] = queue[m + i - 1])
    <3>1. m + 1 - 1 = m
      BY <2>2
    <3> QED
      BY <1>1, <1>4, <2>3, <3>1
  <2>5. \A k \in DOMAIN queue : queue[k].last > nonce => m <= k
    BY <2>1 DEF IsRest, kept
  <2>6. ASSUME NEW i \in 1 .. Len(new)
        PROVE  /\ new[i].at = queue[m + i - 1].at /\ new[i].last = queue[m + i - 1].last
               /\ new[i].first = IF i = 1 /\ queue[m].first < nonce + 1 THEN nonce + 1
                                 ELSE queue[m + i - 1].first
    <3>1. i \in 1 .. Len(left) /\ i \in DOMAIN left
      BY <1>4, <1>7
    <3>2. left[i] = queue[m + i - 1] /\ new[i] = entry(i) /\ (i = 1 => left[i] = queue[m])
      BY <2>3, <2>4, <3>1
    <3>3. /\ entry(i).at = left[i].at /\ entry(i).last = left[i].last
          /\ entry(i).first = IF i = 1 /\ left[i].first < nonce + 1 THEN nonce + 1
                              ELSE left[i].first
      BY <1>5, <3>1
    <3> QED
      BY <3>2, <3>3
  <2>7. new \in Seq(QueueEntries) /\ Len(new) = Len(queue) - m + 1 /\ Len(new) > 0
    BY <1>7, <2>3
  <2>8. IsCut(queue, nonce, m, new)
    BY <2>5, <2>6, <2>7 DEF IsCut
  <2> QED
    BY <2>2, <2>8 DEF new
<1> QED
  BY <1>8, <1>9

LEMMA QueueIsCut ==
    ASSUME NEW queue, NEW blocks, NEW d \in Nat, QueueOK(queue, blocks, d), NEW nonce \in 0 .. d
    PROVE  LET new == RemoveLeNonces(queue, nonce)
           IN  /\ QueueOK(new, blocks, d)
               /\ \A i \in DOMAIN new : \E j \in DOMAIN queue : new[i].at = queue[j].at
               /\ queue # <<>> =>
                    \/ queue[Len(queue)].last <= d
                    \/ new # <<>> /\ new[Len(new)].last = queue[Len(queue)].last
<1> DEFINE new == RemoveLeNonces(queue, nonce)
           n == Len(queue)
<1>1. /\ n \in Nat /\ DOMAIN queue = 1 .. n /\ (queue = <<>> <=> n = 0)
      /\ queue \in Seq(QueueEntries)
      /\ \A i \in DOMAIN queue : /\ queue[i].at \in Nat /\ queue[i].first \in Nat
                                 /\ queue[i].last \in Nat
  BY QueueTypes DEF QueueOK, QueueEntries
<1>2. \/ new = <<>> /\ \A i \in DOMAIN queue : queue[i].last <= nonce
      \/ \E m \in DOMAIN queue : queue[m].last > nonce /\ IsCut(queue, nonce, m, new)
  BY <1>1, RemoveLeFacts
<1> HIDE DEF new
<1>3. CASE new = <<>> /\ \A i \in DOMAIN queue : queue[i].last <= nonce
  <2>1. new \in Seq([at : Nat, first : Nat, last : Nat]) /\ DOMAIN new = {}
    BY <1>3, EmptySeq
  <2>2. QueueOK(new, blocks, d)
    BY <2>1 DEF QueueOK
  <2>3. queue # <<>> => queue[n].last <= d
    <3>1. queue # <<>> => n \in DOMAIN queue
      BY <1>1
    <3> QED
      BY <1>1, <1>3, <3>1
  <2> QED
    BY <2>1, <2>2, <2>3 DEF new
<1>4. CASE \E m \in DOMAIN queue : queue[m].last > nonce /\ IsCut(queue, nonce, m, new)
  <2>1. PICK m \in DOMAIN queue : queue[m].last > nonce /\ IsCut(queue, nonce, m, new)
    BY <1>4
  <2> HIDE DEF n
  <2>2. /\ new \in Seq(QueueEntries) /\ Len(new) = n - m + 1 /\ Len(new) > 0 /\ m \in 1 .. n
        /\ \A i \in 1 .. Len(new) :
             /\ new[i].at = queue[m + i - 1].at /\ new[i].last = queue[m + i - 1].last
             /\ new[i].first = IF i = 1 /\ queue[m].first < nonce + 1 THEN nonce + 1
                               ELSE queue[m + i - 1].first
    BY <1>1, <2>1 DEF IsCut, n
  <2>3. DOMAIN new = 1 .. Len(new) /\ Len(new) \in Nat
    BY <2>2, LenProperties
  <2>4. ASSUME NEW i \in DOMAIN new
        PROVE  m + i - 1 \in DOMAIN queue /\ i \in Nat
    BY <1>1, <2>2, <2>3
  <2>5. ASSUME NEW i \in DOMAIN new
        PROVE  /\ new[i].at \in DOMAIN blocks
               /\ new[i].first <= new[i].last
               /\ new[i].last <= blocks[new[i].at].generated
               /\ \/ new[i].first <= d + 1
                  \/ i > 1 /\ new[i].first <= new[i - 1].last + 1
    <3> DEFINE j == m + i - 1
    <3>1. /\ j \in DOMAIN queue /\ new[i].at = queue[j].at /\ new[i].last = queue[j].last
          /\ new[i].first = IF i = 1 /\ queue[m].first < nonce + 1 THEN nonce + 1
                            ELSE queue[j].first
          /\ i = 1 => j = m
      <4>1. j \in DOMAIN queue /\ i \in 1 .. Len(new)
        BY <2>3, <2>4
      <4>2. i = 1 => j = m
        BY <2>2
      <4> QED
        BY <2>2, <4>1, <4>2
    <3> HIDE DEF j
    <3>2. /\ queue[j].at \in DOMAIN blocks /\ queue[j].first <= queue[j].last
          /\ queue[j].last <= blocks[queue[j].at].generated
          /\ \/ queue[j].first <= d + 1
             \/ j > 1 /\ queue[j].first <= queue[j - 1].last + 1
          /\ queue[j].first \in Nat /\ queue[j].last \in Nat
      BY <1>1, <3>1 DEF QueueOK
    <3>3. new[i].first <= new[i].last
      BY <2>1, <3>1, <3>2
    <3>4. CASE i = 1
      <4>1. ASSUME j > 1, queue[j].first <= queue[j - 1].last + 1
            PROVE  new[i].first <= d + 1
        \* The entry before it was popped.
        <5>1. j - 1 \in DOMAIN queue /\ ~(m <= j - 1)
          BY <1>1, <3>1, <3>4, <4>1
        <5>2. ~(queue[j - 1].last > nonce)
          BY <2>1, <5>1 DEF IsCut
        <5>3. queue[j - 1].last \in Nat
          BY <1>1, <5>1
        <5> QED
          BY <3>1, <3>2, <4>1, <5>2, <5>3
      <4>2. ASSUME queue[j].first <= d + 1
            PROVE  new[i].first <= d + 1
        BY <3>1, <3>2, <4>2
      <4>3. new[i].first <= d + 1
        BY <3>2, <4>1, <4>2
      <4> QED
        BY <3>1, <3>2, <3>3, <4>3
    <3>5. CASE i # 1
      <4>1. i > 1 /\ i - 1 \in 1 .. Len(new) /\ m + (i - 1) - 1 = j - 1
        BY <2>2, <2>3, <2>4, <3>5 DEF j
      <4>2. new[i - 1].last = queue[j - 1].last
        BY <2>2, <4>1
      <4> QED
        BY <3>1, <3>2, <3>3, <3>5, <4>1, <4>2
    <3> QED
      BY <3>4, <3>5
  <2>6. ASSUME NEW i \in DOMAIN new, NEW k \in DOMAIN new, i <= k
        PROVE  new[i].at <= new[k].at
    <3>1. /\ m + i - 1 \in DOMAIN queue /\ m + k - 1 \in DOMAIN queue /\ m + i - 1 <= m + k - 1
          /\ new[i].at = queue[m + i - 1].at /\ new[k].at = queue[m + k - 1].at
      BY <1>1, <2>2, <2>3, <2>4, <2>6
    <3> QED
      BY <3>1 DEF QueueOK
  <2>7. QueueOK(new, blocks, d)
    BY <2>2, <2>5, <2>6 DEF QueueOK, QueueEntries
  <2>8. \A i \in DOMAIN new : \E k \in DOMAIN queue : new[i].at = queue[k].at
    BY <2>2, <2>3, <2>4
  <2>9. new # <<>> /\ new[Len(new)].last = queue[n].last
    <3>1. Len(new) \in 1 .. Len(new) /\ m + Len(new) - 1 = n
      BY <1>1, <2>2, <2>3
    <3>2. new # <<>>
      BY <2>2, EmptySeq
    <3> QED
      BY <2>2, <3>1, <3>2
  <2> QED
    BY <2>7, <2>8, <2>9, Zenon DEF new, n
<1> QED
  BY <1>2, <1>3, <1>4

LEMMA FinalizedNewsOK ==
    ASSUME NEW r, NEW blocks, NEW d \in Nat, RaceOK(r, blocks, d), NEW latest \in 0 .. d
    PROVE  RaceOK(FinalizedTargetNoncesUpdated(r, latest), blocks, d)
<1> DEFINE s == FinalizedTargetNoncesUpdated(r, latest)
           kept == {i \in DOMAIN r.confirmedQueue : r.confirmedQueue[i].at >= r.peer}
<1>1. DOMAIN r = DOMAIN FreshRace /\ QueueOK(r.queue, blocks, d)
      /\ ConfirmedQueueOK(r.confirmedQueue, blocks)
      /\ BestNonceOK(r.bestTargetNonce, r.targetNonces, d)
  BY DEF RaceOK
<1>2. /\ DOMAIN s = DOMAIN FreshRace /\ s.sourceRequest = r.sourceRequest
      /\ s.targetRequest = r.targetRequest
      /\ s.batch = r.batch /\ s.requiredHeader = r.requiredHeader /\ s.peer = r.peer
      /\ s.toSubmit = r.toSubmit
      /\ s.queue = RemoveLeNonces(r.queue, latest)
      /\ s.confirmedQueue = r.confirmedQueue \/ s.confirmedQueue = FromFirst(r.confirmedQueue, kept)
      /\ s.targetNonces = IF r.targetNonces = None THEN r.targetNonces
                          ELSE [r.targetNonces EXCEPT !.latest = Max({r.targetNonces.latest, latest})]
      /\ s.bestTargetNonce = IF r.bestTargetNonce = None THEN latest
                             ELSE Max({r.bestTargetNonce, latest})
  <2> DEFINE confirmed == IF r.peer = None THEN r.confirmedQueue
                          ELSE FromFirst(r.confirmedQueue, kept)
             target == IF r.targetNonces = None THEN r.targetNonces
                       ELSE [r.targetNonces EXCEPT !.latest = Max({r.targetNonces.latest, latest})]
             left == RemoveLeNonces(r.queue, latest)
             nonce == IF r.bestTargetNonce = None THEN latest ELSE Max({r.bestTargetNonce, latest})
  <2>1. s = [r EXCEPT !.confirmedQueue = confirmed, !.targetNonces = target, !.queue = left,
                      !.bestTargetNonce = nonce]
    BY DEF FinalizedTargetNoncesUpdated
  <2>2. confirmed = r.confirmedQueue \/ confirmed = FromFirst(r.confirmedQueue, kept)
    OBVIOUS
  <2> HIDE DEF confirmed, target, left, nonce, kept, s
  <2>3. /\ DOMAIN s = DOMAIN FreshRace /\ s.sourceRequest = r.sourceRequest
        /\ s.targetRequest = r.targetRequest
        /\ s.batch = r.batch /\ s.requiredHeader = r.requiredHeader /\ s.peer = r.peer
        /\ s.toSubmit = r.toSubmit /\ s.queue = left /\ s.confirmedQueue = confirmed
        /\ s.targetNonces = target /\ s.bestTargetNonce = nonce
    BY <1>1, <2>1, Fields
  <2> QED
    BY <2>2, <2>3 DEF target, left, nonce
<1> HIDE DEF s
<1>3. /\ QueueOK(s.queue, blocks, d)
      /\ \A i \in DOMAIN s.queue : \E j \in DOMAIN r.queue : s.queue[i].at = r.queue[j].at
      /\ r.queue # <<>> =>
           \/ r.queue[Len(r.queue)].last <= d
           \/ s.queue # <<>> /\ s.queue[Len(s.queue)].last = r.queue[Len(r.queue)].last
  <2> DEFINE new == RemoveLeNonces(r.queue, latest)
  <2>1. /\ QueueOK(new, blocks, d)
        /\ \A i \in DOMAIN new : \E j \in DOMAIN r.queue : new[i].at = r.queue[j].at
        /\ r.queue # <<>> =>
             \/ r.queue[Len(r.queue)].last <= d
             \/ new # <<>> /\ new[Len(new)].last = r.queue[Len(r.queue)].last
    BY <1>1, QueueIsCut
  <2>2. s.queue = new
    BY <1>2
  <2> HIDE DEF new
  <2> QED
    BY <2>1, <2>2
<1>4. SourceRequestOK(s.sourceRequest, s.queue, blocks, d)
  <2> DEFINE q == r.sourceRequest
  <2>1. SourceRequestOK(q, r.queue, blocks, d)
    BY DEF RaceOK
  <2>2. ASSUME q.kind = "nonces"
        PROVE  /\ q.at \in DOMAIN blocks /\ q.prev \in Nat
               /\ q.prev <= d \/ (s.queue # <<>> /\ q.prev <= s.queue[Len(s.queue)].last)
               /\ \A i \in DOMAIN s.queue : s.queue[i].at <= q.at
    <3>1. /\ q.at \in DOMAIN blocks /\ q.prev \in Nat
          /\ q.prev <= d \/ (r.queue # <<>> /\ q.prev <= r.queue[Len(r.queue)].last)
          /\ \A i \in DOMAIN r.queue : r.queue[i].at <= q.at
      BY <2>1, <2>2 DEF SourceRequestOK
    <3>2. r.queue # <<>> => r.queue[Len(r.queue)].last \in Nat
      BY <1>1, QueueTypes
    <3>3. \A i \in DOMAIN s.queue : s.queue[i].at <= q.at
      BY <1>3, <3>1
    <3> QED
      BY <1>3, <3>1, <3>2, <3>3
  <2> QED
    BY <1>2, <2>1, <2>2 DEF SourceRequestOK
<1>5. ConfirmedQueueOK(s.confirmedQueue, blocks)
  <2>1. CASE s.confirmedQueue = FromFirst(r.confirmedQueue, kept)
    <3> DEFINE left == FromFirst(r.confirmedQueue, kept)
               entries == [at : Nat, nonce : Nat]
               n == Len(r.confirmedQueue)
    <3>1. r.confirmedQueue \in Seq(entries) /\ kept \in SUBSET (DOMAIN r.confirmedQueue)
      BY <1>1 DEF ConfirmedQueueOK
    <3> HIDE DEF entries, kept
    <3>2. /\ left \in Seq(entries)
          /\ \/ left = <<>> /\ kept = {}
             \/ \E m \in kept : IsRest(r.confirmedQueue, kept, m, left)
      BY <3>1, FromFirstFacts
    <3>3. n \in Nat /\ DOMAIN r.confirmedQueue = 1 .. n /\ Len(left) \in Nat
          /\ DOMAIN left = 1 .. Len(left)
      BY <3>1, <3>2, LenProperties
    <3> HIDE DEF left
    <3>4. ASSUME NEW i \in DOMAIN left
          PROVE  \E j \in DOMAIN r.confirmedQueue : left[i] = r.confirmedQueue[j]
      <4>1. left # <<>>
        BY <3>3, EmptySeq
      <4>2. PICK m \in kept : IsRest(r.confirmedQueue, kept, m, left)
        BY <3>2, <4>1
      <4>3. /\ Len(left) = n - m + 1 /\ left[i] = r.confirmedQueue[m + i - 1]
        BY <3>3, <4>2 DEF IsRest
      <4>4. m \in 1 .. n
        BY <3>1, <3>3
      <4> HIDE DEF n
      <4>5. m + i - 1 \in 1 .. n
        BY <3>3, <4>3, <4>4
      <4> QED
        BY <3>3, <4>3, <4>5
    <3>5. ConfirmedQueueOK(left, blocks)
      BY <1>1, <3>2, <3>4 DEF ConfirmedQueueOK, entries
    <3> QED
      BY <2>1, <3>5 DEF left
  <2> QED
    BY <1>1, <1>2, <2>1
<1>6. BestNonceOK(s.bestTargetNonce, s.targetNonces, d)
  <2>1. CASE r.bestTargetNonce = None
    <3>1. r.targetNonces = None
      BY <1>1, <2>1, RaceAssumption DEF BestNonceOK, NoncesOK
    <3> QED
      BY <1>2, <2>1, <3>1 DEF BestNonceOK
  <2>2. CASE r.bestTargetNonce # None
    <3> DEFINE best2 == Max({r.bestTargetNonce, latest})
    <3>1. r.bestTargetNonce \in 0 .. d
      BY <1>1, <2>2 DEF BestNonceOK
    <3>2. best2 = IF r.bestTargetNonce >= latest THEN r.bestTargetNonce ELSE latest
      BY <3>1, LargerOf
    <3>3. best2 \in 0 .. d /\ s.bestTargetNonce = best2
      BY <1>2, <2>2, <3>1, <3>2
    <3>4. CASE r.targetNonces = None
      BY <1>2, <3>3, <3>4 DEF BestNonceOK
    <3>5. CASE r.targetNonces # None
      <4> DEFINE target == r.targetNonces
      <4>1. NoncesOK(target, d) /\ r.bestTargetNonce = target.latest
        BY <1>1, <3>5 DEF BestNonceOK
      <4>2. s.targetNonces = [target EXCEPT !.latest = best2]
        BY <1>2, <3>5, <4>1
      <4> HIDE DEF best2, target
      <4>3. NoncesOK(s.targetNonces, d) /\ s.targetNonces.latest = best2
        BY <3>3, <4>1, <4>2 DEF NoncesOK
      <4> QED
        BY <3>3, <4>3 DEF BestNonceOK
    <3> QED
      BY <3>4, <3>5
  <2> QED
    BY <2>1, <2>2
<1> QED
  BY <1>2, <1>3, <1>4, <1>5, <1>6 DEF RaceOK, s

-----------------------------------------------------------------------------
(***************************************************************************)
(* The steps of the loop.  Every one leaves the race as it should be, and  *)
(* a proof that is asked for has been selected by a race like that.        *)
(***************************************************************************)
Delivered == LastDeliveredNonce(best.lane)

IsSelected(r, request) ==
    /\ RaceOK(r, source, Delivered)
    /\ \E at : /\ HeaderOK(at, source)
               /\ \E a \in SelectRaceAction(r, at) :
                    request = [kind |-> "proof", nonces |-> a, batch |-> r.batch # None]

GoesOn ==
    /\ RaceOK(race', source, Delivered)
    /\ \/ race'.sourceRequest.kind # "proof"
       \/ race'.sourceRequest = race.sourceRequest
       \/ \E r : IsSelected(r, race'.sourceRequest) /\ race'.targetNonces = r.targetNonces
    /\ race.sourceRequest.kind = "nonces" =>
         race'.sourceRequest = race.sourceRequest \/ SourceNonces \/ race' = FreshRace

LEMMA ChainFacts ==
    ASSUME RaceInv
    PROVE  /\ Delivered \in Nat /\ LastDeliveredNonce(finalized.lane) \in Nat
           /\ SourceOK(source, Delivered) /\ RaceOK(race, source, Delivered)
           /\ DOMAIN race = DOMAIN FreshRace
           /\ best.lane \in InboundLaneData /\ finalized.lane \in InboundLaneData
           /\ WellFormed(best.lane)
           /\ best.peer \in DOMAIN source
<1>1. /\ best.lane \in InboundLaneData /\ finalized.lane \in InboundLaneData
      /\ WellFormed(best.lane) /\ best.peer \in DOMAIN source
  BY DEF RaceInv, TargetBlockOK, TargetBlocks
<1>2. Delivered \in Nat /\ LastDeliveredNonce(finalized.lane) \in Nat
  BY <1>1, LastDeliveredType DEF Delivered
<1>3. /\ SourceOK(source, LastDeliveredNonce(finalized.lane))
      /\ LastDeliveredNonce(finalized.lane) <= Delivered
      /\ RaceOK(race, source, Delivered)
  BY DEF RaceInv, Delivered
<1>4. SourceOK(source, Delivered)
  BY <1>2, <1>3, SourceLater
<1> QED
  BY <1>1, <1>2, <1>3, <1>4 DEF RaceOK

LEMMA ContinueGoesOn ==
    ASSUME RaceInv, NEW r, RaceOK(r, source, Delivered), Continue(r),
           \/ r.sourceRequest = race.sourceRequest
           \/ /\ r.sourceRequest.kind # "proof"
              /\ race.sourceRequest.kind # "nonces" \/ SourceNonces
    PROVE  GoesOn
<1>1. PICK t \in LoopEnd(r) : race' = t
  BY DEF Continue
<1>2. Delivered \in Nat /\ SourceOK(source, Delivered)
  BY ChainFacts
<1>3. RaceOK(t, source, Delivered) /\ MakesRequest(r, t) /\ t.targetNonces = r.targetNonces
  BY <1>1, <1>2, LoopEndOK
<1>4. CASE t.sourceRequest = r.sourceRequest
  BY <1>1, <1>3, <1>4 DEF GoesOn
<1>5. race.sourceRequest.kind = "nonces" /\ ~SourceNonces => race'.sourceRequest = race.sourceRequest
  BY <1>1, <1>3, NotProofs DEF MakesRequest
<1>6. CASE \E at \in {r.batch, r.peer} : \E a \in SelectRaceAction(r, at) :
            t.sourceRequest = [kind |-> "proof", nonces |-> a, batch |-> r.batch # None]
  <2>1. \A at \in {r.batch, r.peer} : HeaderOK(at, source)
    BY DEF RaceOK
  <2>2. IsSelected(r, t.sourceRequest)
    BY <1>6, <2>1 DEF IsSelected
  <2> QED
    BY <1>1, <1>3, <1>5, <2>2 DEF GoesOn
<1> QED
  BY <1>3, <1>4, <1>6 DEF MakesRequest

\* A race with other requests under way.
LEMMA OtherRequests ==
    ASSUME NEW r, NEW blocks, NEW d, RaceOK(r, blocks, d)
    PROVE  /\ \A q : SourceRequestOK(q, r.queue, blocks, d) =>
                LET s == [r EXCEPT !.sourceRequest = q]
                IN  /\ RaceOK(s, blocks, d) /\ s.sourceRequest = q
                    /\ s.queue = r.queue
           /\ \A q : TargetRequestOK(q, blocks, d) /\ (q.kind = "submit" => SelectionOK(r.toSubmit, blocks, d)) =>
                LET s == [r EXCEPT !.targetRequest = q]
                IN  /\ RaceOK(s, blocks, d) /\ s.sourceRequest = r.sourceRequest
                    /\ s.targetNonces = r.targetNonces
           /\ \A h : HeaderOK(h, blocks) =>
                LET s == [r EXCEPT !.peer = h]
                IN  RaceOK(s, blocks, d) /\ s.sourceRequest = r.sourceRequest
           /\ \A h : HeaderOK(h, blocks) =>
                LET s == [r EXCEPT !.requiredHeader = h]
                IN  RaceOK(s, blocks, d) /\ s.sourceRequest = r.sourceRequest
           /\ \A h : HeaderOK(h, blocks) =>
                LET s == [r EXCEPT !.batch = h]
                IN  RaceOK(s, blocks, d) /\ s.sourceRequest = r.sourceRequest
           /\ LET s == ForgetSubmitted(r)
              IN  RaceOK(s, blocks, d) /\ s.sourceRequest = r.sourceRequest
<1>1. DOMAIN r = DOMAIN FreshRace
  BY DEF RaceOK
<1>2. ASSUME NEW q, SourceRequestOK(q, r.queue, blocks, d)
      PROVE  LET s == [r EXCEPT !.sourceRequest = q]
             IN  RaceOK(s, blocks, d) /\ s.sourceRequest = q /\ s.queue = r.queue
  BY <1>1, <1>2, Fields DEF RaceOK
<1>3. ASSUME NEW q, TargetRequestOK(q, blocks, d), q.kind = "submit" => SelectionOK(r.toSubmit, blocks, d)
      PROVE  LET s == [r EXCEPT !.targetRequest = q]
             IN  /\ RaceOK(s, blocks, d) /\ s.sourceRequest = r.sourceRequest
                 /\ s.targetNonces = r.targetNonces
  BY <1>1, <1>3, Fields DEF RaceOK
<1>4. ASSUME NEW h, HeaderOK(h, blocks)
      PROVE  /\ LET s == [r EXCEPT !.peer = h]
                IN  RaceOK(s, blocks, d) /\ s.sourceRequest = r.sourceRequest
             /\ LET s == [r EXCEPT !.requiredHeader = h]
                IN  RaceOK(s, blocks, d) /\ s.sourceRequest = r.sourceRequest
             /\ LET s == [r EXCEPT !.batch = h]
                IN  RaceOK(s, blocks, d) /\ s.sourceRequest = r.sourceRequest
  BY <1>1, <1>4, Fields DEF RaceOK
<1>5. LET s == ForgetSubmitted(r)
      IN  RaceOK(s, blocks, d) /\ s.sourceRequest = r.sourceRequest
  BY <1>1, Fields DEF RaceOK, ForgetSubmitted
<1> QED
  BY <1>2, <1>3, <1>4, <1>5

LEMMA SourceUpdatedGoesOn ==
    ASSUME RaceInv, SourceUpdated
    PROVE  GoesOn
<1> DEFINE prev == BestAtSource(race)
           q == [kind |-> "nonces", at |-> Len(source), prev |-> prev]
<1>1. RaceOK(race, source, Delivered) /\ Delivered \in Nat /\ SourceOK(source, Delivered)
  BY ChainFacts
<1>2. QueueOK(race.queue, source, Delivered)
      /\ BestNonceOK(race.bestTargetNonce, race.targetNonces, Delivered)
  BY <1>1 DEF RaceOK
<1>3. race.queue # <<>> => race.queue[Len(race.queue)].last \in Nat
  BY <1>2, QueueTypes
<1>4. /\ prev \in Nat
      /\ prev <= Delivered \/ (race.queue # <<>> /\ prev <= race.queue[Len(race.queue)].last)
  BY <1>1, <1>2, <1>3 DEF SourceUpdated, BestAtSource, BestNonceOK
<1>5. Len(source) \in Nat /\ Len(source) \in DOMAIN source /\ DOMAIN source = 1 .. Len(source)
  BY <1>1, SourceTypes
<1>6. \A i \in DOMAIN race.queue : race.queue[i].at <= Len(source)
  BY <1>2, <1>5 DEF QueueOK
<1> HIDE DEF prev
<1>7. q.kind = "nonces" /\ q.at = Len(source) /\ q.prev = prev
  OBVIOUS
<1> HIDE DEF q
<1>8. SourceRequestOK(q, race.queue, source, Delivered)
  BY <1>4, <1>5, <1>6, <1>7 DEF SourceRequestOK
<1>9. race' = [race EXCEPT !.sourceRequest = q]
  BY DEF SourceUpdated, q, prev
<1>10. RaceOK(race', source, Delivered) /\ race'.sourceRequest = q
  BY <1>1, <1>8, <1>9, OtherRequests
<1> QED
  BY <1>7, <1>10, NotProofs DEF GoesOn, SourceUpdated

LEMMA AskGoesOn ==
    ASSUME RaceInv, NEW q, TargetRequestOK(q, source, Delivered), q.kind # "submit", Ask(q)
    PROVE  GoesOn
<1> DEFINE r == [race EXCEPT !.peer = best.peer]
<1>1. RaceOK(race, source, Delivered) /\ HeaderOK(best.peer, source)
  BY ChainFacts DEF HeaderOK
<1>2. RaceOK(r, source, Delivered) /\ r.sourceRequest = race.sourceRequest
  BY <1>1, OtherRequests
<1>3. PICK t \in LoopEnd(r) :
        race' = [t EXCEPT !.targetRequest = IF @ = Idle THEN q ELSE @]
  BY DEF Ask
<1> HIDE DEF r
<1>4. Delivered \in Nat /\ SourceOK(source, Delivered)
  BY ChainFacts
<1>5. RaceOK(t, source, Delivered) /\ MakesRequest(r, t) /\ t.targetNonces = r.targetNonces
  BY <1>2, <1>4, LoopEndOK
<1>6. PICK p : /\ race' = [t EXCEPT !.targetRequest = p]
               /\ TargetRequestOK(p, source, Delivered)
               /\ p.kind = "submit" => SelectionOK(t.toSubmit, source, Delivered)
  BY <1>3, <1>5 DEF RaceOK
<1>7. /\ RaceOK(race', source, Delivered) /\ race'.sourceRequest = t.sourceRequest
      /\ race'.targetNonces = t.targetNonces
  BY <1>5, <1>6, OtherRequests
<1>8. CASE t.sourceRequest = r.sourceRequest
  BY <1>2, <1>7, <1>8 DEF GoesOn
<1>9. CASE \E at \in {r.batch, r.peer} : \E a \in SelectRaceAction(r, at) :
            t.sourceRequest = [kind |-> "proof", nonces |-> a, batch |-> r.batch # None]
  <2>1. \A at \in {r.batch, r.peer} : HeaderOK(at, source)
    BY <1>2 DEF RaceOK
  <2>2. IsSelected(r, t.sourceRequest)
    BY <1>2, <1>9, <2>1 DEF IsSelected
  <2> QED
    BY <1>2, <1>5, <1>7, <2>2, NotProofs DEF GoesOn, MakesRequest
<1> QED
  BY <1>5, <1>8, <1>9 DEF MakesRequest

\* What is read at the target is true of it.
LEMMA NoncesAreRead ==
    ASSUME NEW lane \in InboundLaneData, WellFormed(lane)
    PROVE  NoncesOK(NoncesAt(lane), LastDeliveredNonce(lane))
<1> DEFINE total == TotalUnrewardedMessages(lane)
           oldest == IF lane.relayers = <<>> THEN 0
                     ELSE lane.relayers[1].end - lane.relayers[1].begin + 1
           len == Len(lane.relayers)
<1>1. /\ LastDeliveredNonce(lane) \in Nat /\ lane.last_confirmed_nonce \in Nat
      /\ lane.relayers \in Seq(UnrewardedRelayer)
  BY LastDeliveredType
<1>2. /\ len \in Nat /\ DOMAIN lane.relayers = 1 .. len
      /\ lane.relayers # <<>> =>
           /\ 1 \in 1 .. len /\ len \in 1 .. len
           /\ lane.relayers[1].begin \in Nat /\ lane.relayers[1].end \in Nat
           /\ lane.relayers[len].end \in Nat
  BY <1>1, EntryTypes
<1>3. total \in Nat
  BY <1>2 DEF TotalUnrewardedMessages
<1>4. oldest \in Nat
  <2>1. lane.relayers # <<>> => lane.relayers[1].begin <= lane.relayers[1].end
    BY <1>2 DEF WellFormed
  <2> QED
    BY <1>2, <2>1
<1>5. NoncesAt(lane) = [latest |-> LastDeliveredNonce(lane),
                        confirmed |-> lane.last_confirmed_nonce,
                        entries |-> len, total |-> total, oldest |-> oldest]
  BY DEF NoncesAt
<1> HIDE DEF len, total, oldest
<1> QED
  BY <1>1, <1>2, <1>3, <1>4, <1>5 DEF NoncesOK

LEMMA HeadersGoOn ==
    ASSUME RaceInv, PeerUpdated \/ BestUpdated \/ FinalizedUpdated
    PROVE  GoesOn
<1>1. /\ RaceOK(race, source, Delivered) /\ HeaderOK(best.peer, source) /\ Delivered \in Nat
      /\ LastDeliveredNonce(finalized.lane) \in Nat
  BY ChainFacts DEF HeaderOK
<1>2. CASE PeerUpdated
  <2> DEFINE r == [race EXCEPT !.peer = best.peer]
  <2>1. RaceOK(r, source, Delivered) /\ r.sourceRequest = race.sourceRequest
    BY <1>1, OtherRequests
  <2>2. Continue(r)
    BY <1>2 DEF PeerUpdated
  <2> HIDE DEF r
  <2> QED
    BY <2>1, <2>2, ContinueGoesOn
<1>3. CASE BestUpdated
  <2> DEFINE q == [kind |-> "best", nonces |-> NoncesAt(best.lane)]
  <2>1. NoncesOK(NoncesAt(best.lane), Delivered)
    BY ChainFacts, NoncesAreRead DEF Delivered
  <2>2. TargetRequestOK(q, source, Delivered) /\ q.kind # "submit"
    BY <2>1 DEF TargetRequestOK
  <2>3. Ask(q)
    BY <1>3 DEF BestUpdated
  <2> QED
    BY <2>2, <2>3, AskGoesOn
<1>4. CASE FinalizedUpdated
  <2> DEFINE q == [kind |-> "finalized", latest |-> LastDeliveredNonce(finalized.lane)]
  <2>1. LastDeliveredNonce(finalized.lane) \in 0 .. Delivered
    BY <1>1 DEF RaceInv, Delivered
  <2>2. TargetRequestOK(q, source, Delivered) /\ q.kind # "submit"
    BY <2>1 DEF TargetRequestOK
  <2>3. Ask(q)
    BY <1>4 DEF FinalizedUpdated
  <2> QED
    BY <2>2, <2>3, AskGoesOn
<1> QED
  BY <1>2, <1>3, <1>4

\* The client that has answered, or whose request has failed.
LEMMA Answered ==
    ASSUME NEW r, NEW blocks, NEW d, RaceOK(r, blocks, d)
    PROVE  /\ LET s == [r EXCEPT !.sourceRequest = Idle]
              IN  RaceOK(s, blocks, d) /\ s.sourceRequest = Idle /\ s.queue = r.queue
           /\ LET s == [[r EXCEPT !.sourceRequest = Idle] EXCEPT !.sourceRequest = Offline]
              IN  RaceOK(s, blocks, d) /\ s.sourceRequest = Offline
           /\ LET s == [r EXCEPT !.targetRequest = Idle]
              IN  RaceOK(s, blocks, d) /\ s.sourceRequest = r.sourceRequest
           /\ LET s == [[r EXCEPT !.targetRequest = Idle] EXCEPT !.targetRequest = Offline]
              IN  RaceOK(s, blocks, d) /\ s.sourceRequest = r.sourceRequest
<1>1. LET s == [r EXCEPT !.sourceRequest = Idle]
      IN  RaceOK(s, blocks, d) /\ s.sourceRequest = Idle /\ s.queue = r.queue
  BY IdleRequests, NotProofs, OtherRequests
<1>2. LET s == [r EXCEPT !.targetRequest = Idle]
      IN  RaceOK(s, blocks, d) /\ s.sourceRequest = r.sourceRequest
  BY IdleRequests, NotProofs, OtherRequests
<1>3. LET s == [[r EXCEPT !.sourceRequest = Idle] EXCEPT !.sourceRequest = Offline]
      IN  RaceOK(s, blocks, d) /\ s.sourceRequest = Offline
  <2> DEFINE done == [r EXCEPT !.sourceRequest = Idle]
  <2>1. RaceOK(done, blocks, d)
    BY <1>1
  <2> HIDE DEF done
  <2>2. LET s == [done EXCEPT !.sourceRequest = Offline]
        IN  RaceOK(s, blocks, d) /\ s.sourceRequest = Offline
    BY <2>1, IdleRequests, NotProofs, OtherRequests
  <2> QED
    BY <2>2 DEF done
<1>4. LET s == [[r EXCEPT !.targetRequest = Idle] EXCEPT !.targetRequest = Offline]
      IN  RaceOK(s, blocks, d) /\ s.sourceRequest = r.sourceRequest
  <2> DEFINE done == [r EXCEPT !.targetRequest = Idle]
  <2>1. RaceOK(done, blocks, d) /\ done.sourceRequest = r.sourceRequest
    BY <1>2
  <2> HIDE DEF done
  <2>2. LET s == [done EXCEPT !.targetRequest = Offline]
        IN  RaceOK(s, blocks, d) /\ s.sourceRequest = done.sourceRequest
    BY <2>1, IdleRequests, NotProofs, OtherRequests
  <2> QED
    BY <2>1, <2>2 DEF done
<1> QED
  BY <1>1, <1>2, <1>3, <1>4

LEMMA HeaderIsRequired ==
    ASSUME NEW r, NEW blocks, NEW d, RaceOK(r, blocks, d)
    PROVE  LET s == [r EXCEPT !.requiredHeader = RequiredSourceHeaderAtTarget(r)]
           IN  RaceOK(s, blocks, d) /\ s.sourceRequest = r.sourceRequest
  BY RequiredHeaderOK, OtherRequests

LEMMA SourceNoncesGoOn ==
    ASSUME RaceInv, SourceNonces
    PROVE  GoesOn
<1> DEFINE request == race.sourceRequest
           after(r) == [r EXCEPT !.requiredHeader = RequiredSourceHeaderAtTarget(r)]
           done == [race EXCEPT !.sourceRequest = Idle]
           news == SourceNoncesUpdated(done, request.at, request.prev)
           failed == [done EXCEPT !.sourceRequest = Offline]
<1>1. /\ Delivered \in Nat /\ SourceOK(source, Delivered) /\ RaceOK(race, source, Delivered)
  BY ChainFacts
<1>2. /\ RaceOK(done, source, Delivered) /\ done.sourceRequest = Idle /\ done.queue = race.queue
      /\ RaceOK(failed, source, Delivered) /\ failed.sourceRequest = Offline
  BY <1>1, Answered
<1>3. request.kind = "nonces" /\ SourceRequestOK(request, race.queue, source, Delivered)
  BY <1>1 DEF SourceNonces, RaceOK
<1>4. Continue(after(news)) \/ Continue(after(failed))
  BY DEF SourceNonces
<1> HIDE DEF done, failed
<1>5. IsAnswer(done, request.at, request.prev, Delivered)
  BY <1>2, <1>3 DEF IsAnswer, SourceRequestOK
<1>6. RaceOK(news, source, Delivered)
  BY <1>1, <1>2, <1>5, SourceNewsOK
<1>7. news.sourceRequest = Idle
  <2>1. DOMAIN done = DOMAIN FreshRace
    BY <1>2 DEF RaceOK
  <2> QED
    BY <1>2, <2>1, Fields DEF SourceNoncesUpdated
<1> HIDE DEF news
<1>8. ASSUME NEW r, RaceOK(r, source, Delivered)
      PROVE  RaceOK(after(r), source, Delivered) /\ after(r).sourceRequest = r.sourceRequest
  BY <1>8, HeaderIsRequired
<1> HIDE DEF after
<1> QED
  BY <1>2, <1>4, <1>6, <1>7, <1>8, NotProofs, ContinueGoesOn

LEMMA TargetNoncesGoOn ==
    ASSUME RaceInv, TargetBestNonces \/ TargetFinalizedNonces
    PROVE  GoesOn
<1> DEFINE request == race.targetRequest
           done == [race EXCEPT !.targetRequest = Idle]
           failed == [done EXCEPT !.targetRequest = Offline]
<1>1. /\ Delivered \in Nat /\ SourceOK(source, Delivered) /\ RaceOK(race, source, Delivered)
  BY ChainFacts
<1>2. /\ RaceOK(done, source, Delivered) /\ done.sourceRequest = race.sourceRequest
      /\ RaceOK(failed, source, Delivered) /\ failed.sourceRequest = race.sourceRequest
  BY <1>1, Answered
<1>3. /\ TargetRequestOK(request, source, Delivered) /\ DOMAIN done = DOMAIN FreshRace
      /\ done.targetRequest = Idle
  BY <1>1, <1>2, Fields DEF RaceOK
<1>4. CASE TargetBestNonces
  <2> DEFINE news == BestTargetNoncesUpdated(done, request.nonces)
  <2>1. request.kind = "best" /\ (Continue(news) \/ Continue(failed))
    BY <1>4 DEF TargetBestNonces
  <2> HIDE DEF done, failed
  <2>2. NoncesOK(request.nonces, Delivered)
    BY <1>3, <2>1 DEF TargetRequestOK
  <2>3. RaceOK(news, source, Delivered)
    BY <1>1, <1>2, <1>3, <2>2, BestNewsOK
  <2>4. news.sourceRequest = done.sourceRequest
    BY <1>3, Fields DEF BestTargetNoncesUpdated
  <2> HIDE DEF news
  <2> QED
    BY <1>2, <2>1, <2>3, <2>4, ContinueGoesOn
<1>5. CASE TargetFinalizedNonces
  <2> DEFINE news == FinalizedTargetNoncesUpdated(done, request.latest)
  <2>1. request.kind = "finalized" /\ (Continue(news) \/ Continue(failed))
    BY <1>5 DEF TargetFinalizedNonces
  <2> HIDE DEF done, failed
  <2>2. request.latest \in 0 .. Delivered
    BY <1>3, <2>1 DEF TargetRequestOK
  <2>3. RaceOK(news, source, Delivered)
    BY <1>1, <1>2, <2>2, FinalizedNewsOK
  <2>4. news.sourceRequest = done.sourceRequest
    BY <1>3, Fields DEF FinalizedTargetNoncesUpdated
  <2> HIDE DEF news
  <2> QED
    BY <1>2, <2>1, <2>3, <2>4, ContinueGoesOn
<1> QED
  BY <1>4, <1>5

LEMMA RequireSourceHeaderGoesOn ==
    ASSUME RaceInv, RequireSourceHeader
    PROVE  GoesOn
<1> DEFINE request == race.targetRequest
           done == [race EXCEPT !.requiredHeader = None, !.targetRequest = Idle]
           failed == [done EXCEPT !.targetRequest = Offline]
<1>1. RaceOK(race, source, Delivered) /\ HeaderOK(None, source)
  BY ChainFacts DEF HeaderOK
<1>2. DOMAIN race = DOMAIN FreshRace
  BY <1>1 DEF RaceOK
<1>3. RaceOK(done, source, Delivered) /\ done.sourceRequest = race.sourceRequest
  BY <1>1, <1>2, IdleRequests, NotProofs, Fields DEF RaceOK
<1>4. request.kind = "require" /\ TargetRequestOK(request, source, Delivered)
  BY <1>1 DEF RequireSourceHeader, RaceOK
<1>5. \A batch \in {None, request.header} : HeaderOK(batch, source)
  BY <1>4 DEF HeaderOK, TargetRequestOK
<1>6. (\E batch \in {None, request.header} : Continue([done EXCEPT !.batch = batch]))
      \/ Continue(failed)
  BY DEF RequireSourceHeader
<1> HIDE DEF done
<1>7. RaceOK(failed, source, Delivered) /\ failed.sourceRequest = race.sourceRequest
  BY <1>3, IdleRequests, NotProofs, OtherRequests
<1>8. CASE Continue(failed)
  BY <1>7, <1>8, ContinueGoesOn
<1>9. CASE \E batch \in {None, request.header} : Continue([done EXCEPT !.batch = batch])
  <2>1. PICK batch \in {None, request.header} : Continue([done EXCEPT !.batch = batch])
    BY <1>9
  <2> DEFINE r == [done EXCEPT !.batch = batch]
  <2>2. RaceOK(r, source, Delivered) /\ r.sourceRequest = race.sourceRequest
    BY <1>3, <1>5, OtherRequests
  <2> HIDE DEF r
  <2> QED
    BY <2>1, <2>2, ContinueGoesOn DEF r
<1> QED
  BY <1>6, <1>8, <1>9

LEMMA GenerateProofGoesOn ==
    ASSUME RaceInv, GenerateProof
    PROVE  GoesOn
<1> DEFINE request == race.sourceRequest
           tx == [first |-> request.nonces.first, last |-> request.nonces.last,
                  withState |-> request.nonces.withState,
                  at |-> request.nonces.at, batch |-> request.batch]
           r == [race EXCEPT !.sourceRequest = Idle, !.toSubmit = tx]
<1>1. RaceOK(race, source, Delivered) /\ DOMAIN race = DOMAIN FreshRace
  BY ChainFacts
<1>2. SelectionOK(request.nonces, source, Delivered)
  BY <1>1 DEF GenerateProof, RaceOK, SourceRequestOK
<1>3. SelectionOK(tx, source, Delivered)
  BY <1>2 DEF SelectionOK
<1>4. Continue(r)
  BY DEF GenerateProof
<1> HIDE DEF tx
<1>5. RaceOK(r, source, Delivered) /\ r.sourceRequest = Idle
  BY <1>1, <1>3, IdleRequests, Fields DEF RaceOK
<1> HIDE DEF r
<1> QED
  BY <1>4, <1>5, NotProofs, ContinueGoesOn DEF GenerateProof

LEMMA SubmitProofGoesOn ==
    ASSUME RaceInv, SubmitProof
    PROVE  GoesOn /\ SelectionOK(race.toSubmit, source, Delivered)
<1> DEFINE done == [race EXCEPT !.targetRequest = Idle, !.toSubmit = None]
           sent(s) == [done EXCEPT !.submitted = s]
           failed == [done EXCEPT !.targetRequest = Offline, !.targetNonces = None,
                                  !.bestTargetNonce = None]
<1>1. RaceOK(race, source, Delivered) /\ DOMAIN race = DOMAIN FreshRace
  BY ChainFacts
<1>2. SelectionOK(race.toSubmit, source, Delivered)
  BY <1>1 DEF SubmitProof, RaceOK
<1>3. /\ RaceOK(done, source, Delivered) /\ done.sourceRequest = race.sourceRequest
      /\ DOMAIN done = DOMAIN FreshRace
  BY <1>1, IdleRequests, NotProofs, Fields DEF RaceOK
<1>4. (\E s : Continue(sent(s))) \/ Continue(failed)
  BY DEF SubmitProof
<1> HIDE DEF done
<1>5. \A s : RaceOK(sent(s), source, Delivered) /\ sent(s).sourceRequest = race.sourceRequest
  BY <1>3, Fields DEF RaceOK
<1>6. BestNonceOK(None, None, Delivered)
  BY DEF BestNonceOK
<1>7. RaceOK(failed, source, Delivered) /\ failed.sourceRequest = race.sourceRequest
  BY <1>3, <1>6, IdleRequests, NotProofs, Fields DEF RaceOK
<1> HIDE DEF sent, failed
<1> QED
  BY <1>2, <1>4, <1>5, <1>7, ContinueGoesOn

LEMMA OthersGoOn ==
    ASSUME RaceInv, TransactionFinalized \/ TransactionLost \/ GoOnline
    PROVE  GoesOn
<1>1. RaceOK(race, source, Delivered)
  BY ChainFacts
<1>2. RaceOK(ForgetSubmitted(race), source, Delivered)
      /\ ForgetSubmitted(race).sourceRequest = race.sourceRequest
  BY <1>1, OtherRequests
<1>3. CASE TransactionFinalized \/ TransactionLost
  <2>1. Continue(race) \/ Continue(ForgetSubmitted(race))
    BY <1>3 DEF TransactionFinalized, TransactionLost
  <2> QED
    BY <1>1, <1>2, <2>1, ContinueGoesOn
<1>4. CASE GoOnline
  <2> DEFINE r == [race EXCEPT !.sourceRequest = Idle]
             s == [race EXCEPT !.targetRequest = Idle]
  <2>1. (race.sourceRequest = Offline /\ Continue(r)) \/ Continue(s)
    BY <1>4 DEF GoOnline
  <2>2. /\ RaceOK(r, source, Delivered) /\ r.sourceRequest = Idle
        /\ RaceOK(s, source, Delivered) /\ s.sourceRequest = race.sourceRequest
    BY <1>1, Answered
  <2> HIDE DEF r, s
  <2> QED
    BY <2>1, <2>2, NotProofs, ContinueGoesOn
<1> QED
  BY <1>3, <1>4

LEMMA FreshRaceOK ==
    ASSUME NEW blocks, NEW d
    PROVE  RaceOK(FreshRace, blocks, d)
<1>1. /\ FreshRace.peer = None /\ FreshRace.batch = None /\ FreshRace.requiredHeader = None
      /\ FreshRace.bestTargetNonce = None /\ FreshRace.targetNonces = None
      /\ FreshRace.queue = <<>> /\ FreshRace.confirmedQueue = <<>>
      /\ FreshRace.toSubmit = None
      /\ FreshRace.sourceRequest = Idle /\ FreshRace.targetRequest = Idle
  BY DEF FreshRace
<1>2. HeaderOK(None, blocks) /\ BestNonceOK(None, None, d)
  BY DEF HeaderOK, BestNonceOK
<1>3. QueueOK(<<>>, blocks, d)
  <2>1. <<>> \in Seq([at : Nat, first : Nat, last : Nat]) /\ DOMAIN <<>> = {}
    BY EmptySeq
  <2> QED
    BY <2>1 DEF QueueOK
<1>4. ConfirmedQueueOK(<<>>, blocks)
  <2>1. <<>> \in Seq([at : Nat, nonce : Nat]) /\ DOMAIN <<>> = {}
    BY EmptySeq
  <2> QED
    BY <2>1 DEF ConfirmedQueueOK
<1> QED
  BY <1>1, <1>2, <1>3, <1>4, IdleRequests, NotProofs DEF RaceOK

LEMMA LoopGoesOn ==
    ASSUME RaceInv, Loop
    PROVE  GoesOn
<1>1. CASE ConnectionLost
  <2>1. race' = FreshRace
    BY <1>1 DEF ConnectionLost
  <2>2. race'.sourceRequest = Idle
    BY <2>1 DEF FreshRace
  <2> QED
    BY <2>1, <2>2, FreshRaceOK, NotProofs DEF GoesOn
<1> QED
  BY <1>1, SourceUpdatedGoesOn, HeadersGoOn, SourceNoncesGoOn, TargetNoncesGoOn,
     RequireSourceHeaderGoesOn, GenerateProofGoesOn, SubmitProofGoesOn, OthersGoOn DEF Loop

-----------------------------------------------------------------------------
(***************************************************************************)
(* The invariant.                                                          *)
(***************************************************************************)
LEMMA LoopKeepsInv ==
    ASSUME RaceInv, Loop
    PROVE  RaceInv'
<1>1. RaceOK(race', source, Delivered)
  BY LoopGoesOn DEF GoesOn
<1>2. source' = source /\ best' = best /\ finalized' = finalized
  BY DEF Loop, SourceUpdated, PeerUpdated, BestUpdated, FinalizedUpdated, Ask, SourceNonces,
         TargetBestNonces, TargetFinalizedNonces, RequireSourceHeader, GenerateProof, SubmitProof,
         TransactionFinalized, TransactionLost, GoOnline, ConnectionLost, chainVars
<1>3. ASSUME NEW tx \in pool'
      PROVE  SelectionOK(tx, source, Delivered)
  <2>1. \A t \in pool : SelectionOK(t, source, Delivered)
    BY DEF RaceInv, Delivered
  <2>2. CASE SubmitProof
    <3>1. tx \in pool \/ tx = race.toSubmit
      BY <2>2 DEF SubmitProof
    <3> QED
      BY <2>1, <2>2, <3>1, SubmitProofGoesOn
  <2>3. CASE ~SubmitProof
    <3>1. pool' \subseteq pool
      BY <2>3 DEF Loop, SourceUpdated, PeerUpdated, BestUpdated, FinalizedUpdated, Ask,
             SourceNonces, TargetBestNonces, TargetFinalizedNonces, RequireSourceHeader,
             GenerateProof, TransactionFinalized, TransactionLost, GoOnline,
             ConnectionLost, chainVars
    <3> QED
      BY <2>1, <3>1
  <2> QED
    BY <2>2, <2>3
<1> QED
  BY <1>1, <1>2, <1>3 DEF RaceInv, Delivered

\* A delivery keeps the lane well formed, and takes no delivery back.
LEMMA ReceivedFacts ==
    ASSUME NEW lane \in InboundLaneData, WellFormed(lane), NEW relayer \in Relayers, NEW tx,
           tx.first \in Nat, tx.last \in Nat, source[tx.at].confirmed \in Nat
    PROVE  LET new == Received(lane, tx, relayer)
           IN  /\ new \in InboundLaneData /\ WellFormed(new)
               /\ LastDeliveredNonce(lane) \in Nat /\ LastDeliveredNonce(new) \in Nat
               /\ LastDeliveredNonce(lane) <= LastDeliveredNonce(new)
<1> DEFINE middle == IF tx.withState THEN ReceiveStateUpdate(lane, source[tx.at].confirmed)
                     ELSE lane
           new == ReceiveMessages(middle, relayer, tx.first, tx.last)
<1>1. /\ middle \in InboundLaneData /\ WellFormed(middle)
      /\ LastDeliveredNonce(middle) = LastDeliveredNonce(lane)
  BY StateUpdateCorrect
<1> HIDE DEF middle
<1>2. /\ new \in InboundLaneData /\ WellFormed(new)
      /\ LastDeliveredNonce(new) = LastAccepted(middle, relayer, tx.first, tx.last)
  BY <1>1, ReceiveMessagesCorrect
<1>3. LastDeliveredNonce(middle) <= LastAccepted(middle, relayer, tx.first, tx.last)
  BY <1>1, LastAcceptedRange
<1>4. Received(lane, tx, relayer) = new
  BY DEF Received, middle
<1> HIDE DEF new
<1> QED
  BY <1>1, <1>2, <1>3, <1>4, LastDeliveredType

\* A new best block, and perhaps a new finalized one.
LEMMA TargetGoesOn ==
    ASSUME RaceInv, source' = source, race' = race, pool' \subseteq pool,
           TargetBlockOK(best', source),
           Delivered <= LastDeliveredNonce(best'.lane),
           finalized' \in {finalized, best'}
    PROVE  RaceInv'
<1> DEFINE d2 == LastDeliveredNonce(best'.lane)
           f == LastDeliveredNonce(finalized.lane)
           f2 == LastDeliveredNonce(finalized'.lane)
<1>1. /\ Delivered \in Nat /\ f \in Nat /\ SourceOK(source, Delivered)
      /\ RaceOK(race, source, Delivered)
  BY ChainFacts
<1>2. d2 \in Nat
  BY LastDeliveredType DEF TargetBlockOK, TargetBlocks
<1>3. SourceOK(source, f) /\ f <= Delivered /\ TargetBlockOK(finalized, source)
      /\ \A tx \in pool : SelectionOK(tx, source, Delivered)
  BY DEF RaceInv, Delivered
<1>4. IsExtended(source, source)
  BY DEF IsExtended
<1>5. RaceOK(race, source, d2) /\ \A tx \in pool : SelectionOK(tx, source, d2)
  BY <1>1, <1>2, <1>3, <1>4, RaceStays, SelectionStays
<1>6. f2 \in {f, d2} /\ TargetBlockOK(finalized', source)
  BY <1>3
<1> HIDE DEF d2, f, f2
<1>7. SourceOK(source, d2)
  BY <1>1, <1>2, SourceLater DEF d2
<1>8. SourceOK(source, f2) /\ f2 <= d2
  BY <1>1, <1>2, <1>3, <1>6, <1>7 DEF d2
<1> QED
  BY <1>5, <1>6, <1>8 DEF RaceInv, d2, f2

LEMMA MineKeepsInv ==
    ASSUME RaceInv, NEW tx \in pool, MineTransaction(tx)
    PROVE  RaceInv' /\ Delivered <= LastDeliveredNonce(best'.lane)
<1> DEFINE peer == IF tx.batch THEN Max({tx.at, best.peer}) ELSE best.peer
           new == Received(best.lane, tx, Us)
<1>1. /\ Delivered \in Nat /\ SourceOK(source, Delivered)
      /\ best.lane \in InboundLaneData /\ WellFormed(best.lane) /\ best.peer \in DOMAIN source
  BY ChainFacts
<1>2. TargetBlockOK(best, source) /\ SelectionOK(tx, source, Delivered)
  BY DEF RaceInv, Delivered
<1>3. /\ tx.at \in DOMAIN source /\ tx.first \in Nat /\ tx.last \in Nat
      /\ tx.at \in Nat /\ best.peer \in Nat /\ source[tx.at].confirmed \in Nat
  BY <1>1, <1>2, SourceTypes DEF SelectionOK
<1>4. peer \in DOMAIN source /\ peer \in Nat
  <2>1. Max({tx.at, best.peer}) = IF tx.at >= best.peer THEN tx.at ELSE best.peer
    BY <1>3, LargerOf
  <2> QED
    BY <1>1, <1>3, <2>1
<1>5. /\ new \in InboundLaneData /\ WellFormed(new)
      /\ Delivered <= LastDeliveredNonce(new)
  BY <1>1, <1>3, RaceAssumption, ReceivedFacts DEF Delivered
<1>6. best' = best \/ best' = [lane |-> new, peer |-> peer]
  BY DEF MineTransaction, AfterTransaction
<1> HIDE DEF new, peer
<1>7. TargetBlockOK(best', source) /\ Delivered <= LastDeliveredNonce(best'.lane)
  <2>1. CASE best' = best
    BY <1>1, <1>2, <2>1 DEF Delivered
  <2>2. CASE best' = [lane |-> new, peer |-> peer]
    BY <1>4, <1>5, <2>2 DEF TargetBlockOK, TargetBlocks
  <2> QED
    BY <1>6, <2>1, <2>2
<1>8. source' = source /\ race' = race /\ pool' \subseteq pool /\ finalized' = finalized
  BY DEF MineTransaction
<1> QED
  BY <1>7, <1>8, TargetGoesOn

LEMMA OtherKeepsInv ==
    ASSUME RaceInv, NEW last \in Nat, OtherDelivers(last)
    PROVE  RaceInv' /\ Delivered <= LastDeliveredNonce(best'.lane)
<1> DEFINE tx == [first |-> LastDeliveredNonce(best.lane) + 1, last |-> last,
                  withState |-> TRUE, at |-> best.peer]
           new == Received(best.lane, tx, Other)
<1>1. /\ Delivered \in Nat /\ SourceOK(source, Delivered)
      /\ best.lane \in InboundLaneData /\ WellFormed(best.lane) /\ best.peer \in DOMAIN source
  BY ChainFacts
<1>2. TargetBlockOK(best, source)
  BY DEF RaceInv
<1>3. source[best.peer].confirmed \in Nat
  BY <1>1, SourceTypes
<1>4. tx.first \in Nat /\ tx.last \in Nat /\ source[tx.at].confirmed \in Nat
  BY <1>1, <1>3 DEF Delivered
<1>5. best' = [best EXCEPT !.lane = new]
  BY DEF OtherDelivers
<1> HIDE DEF tx
<1>6. /\ new \in InboundLaneData /\ WellFormed(new)
      /\ Delivered <= LastDeliveredNonce(new)
  BY <1>1, <1>4, RaceAssumption, ReceivedFacts DEF Delivered
<1> HIDE DEF new
<1>7. TargetBlockOK(best', source) /\ Delivered <= LastDeliveredNonce(best'.lane)
  BY <1>2, <1>5, <1>6 DEF TargetBlockOK, TargetBlocks
<1>8. source' = source /\ race' = race /\ pool' = pool /\ finalized' = finalized
  BY DEF OtherDelivers
<1> QED
  BY <1>7, <1>8, TargetGoesOn

LEMMA SourceBlockKeepsInv ==
    ASSUME RaceInv, NEW generated \in Nat, NEW confirmed \in Nat,
           generated >= Tip.generated,
           confirmed \in Tip.confirmed .. LastDeliveredNonce(finalized.lane),
           SourceBlock(generated, confirmed)
    PROVE  RaceInv'
<1> DEFINE e == [generated |-> generated, confirmed |-> confirmed]
           n == Len(source)
           f == LastDeliveredNonce(finalized.lane)
<1>1. /\ Delivered \in Nat /\ f \in Nat /\ RaceOK(race, source, Delivered)
      /\ SourceOK(source, Delivered)
  BY ChainFacts
<1>2. SourceOK(source, f) /\ TargetBlockOK(best, source) /\ TargetBlockOK(finalized, source)
      /\ f <= Delivered
      /\ \A tx \in pool : SelectionOK(tx, source, Delivered)
  BY DEF RaceInv, Delivered
<1>3. source' = Append(source, e) /\ best' = best /\ finalized' = finalized /\ pool' = pool
      /\ race' = race
  BY DEF SourceBlock
<1>4. source \in Seq(SourceBlocks)
  BY <1>2 DEF SourceOK
<1>5. /\ n \in Nat \ {0} /\ DOMAIN source = 1 .. n /\ n \in DOMAIN source
      /\ \A i \in DOMAIN source : source[i].generated \in Nat /\ source[i].confirmed \in Nat
  BY <1>2, SourceTypes
<1>6. /\ e \in SourceBlocks /\ e.generated = generated /\ e.confirmed = confirmed
      /\ source[n].generated <= generated /\ source[n].confirmed <= confirmed /\ confirmed <= f
  BY <1>1, <1>5 DEF SourceBlocks, Tip
<1> HIDE DEF e, n, f
<1>7. /\ source' \in Seq(SourceBlocks) /\ Len(source') = n + 1
      /\ \A i \in 1 .. n : source'[i] = source[i]
      /\ source'[n + 1] = e
  BY <1>3, <1>4, <1>5, <1>6, AppendProperties DEF n
<1>8. DOMAIN source' = 1 .. n + 1 /\ source' # <<>>
  BY <1>5, <1>7, LenProperties, EmptySeq
<1>9. IsExtended(source, source')
  BY <1>5, <1>7, <1>8 DEF IsExtended
<1>10. ASSUME NEW i \in DOMAIN source', NEW j \in DOMAIN source', i <= j
       PROVE  /\ source'[i].generated <= source'[j].generated
              /\ source'[i].confirmed <= source'[j].confirmed
  <2>1. CASE j = n + 1 /\ i = n + 1
    BY <1>6, <1>7, <2>1
  <2>2. CASE j = n + 1 /\ i # n + 1
    <3>1. i \in 1 .. n /\ i <= n
      BY <1>5, <1>8, <2>2
    <3>2. source[i].generated <= source[n].generated /\ source[i].confirmed <= source[n].confirmed
      BY <1>2, <1>5, <3>1 DEF SourceOK
    <3> QED
      BY <1>5, <1>6, <1>7, <2>2, <3>1, <3>2
  <2>3. CASE j # n + 1
    <3>1. i \in 1 .. n /\ j \in 1 .. n
      BY <1>5, <1>8, <1>10, <2>3
    <3> QED
      BY <1>2, <1>5, <1>7, <1>10, <3>1 DEF SourceOK
  <2> QED
    BY <2>1, <2>2, <2>3
<1>11. ASSUME NEW i \in DOMAIN source'
       PROVE  source'[i].confirmed <= f
  <2>1. CASE i = n + 1
    BY <1>6, <1>7, <2>1
  <2>2. CASE i # n + 1
    <3>1. i \in 1 .. n
      BY <1>5, <1>8, <2>2
    <3> QED
      BY <1>2, <1>5, <1>7, <3>1 DEF SourceOK
  <2> QED
    BY <2>1, <2>2
<1>12. SourceOK(source', f)
  BY <1>7, <1>8, <1>10, <1>11 DEF SourceOK
<1>13. RaceOK(race, source', Delivered) /\ \A tx \in pool : SelectionOK(tx, source', Delivered)
  BY <1>1, <1>2, <1>9, RaceStays, SelectionStays
<1>14. TargetBlockOK(best, source') /\ TargetBlockOK(finalized, source')
  BY <1>2, <1>9 DEF TargetBlockOK, IsExtended
<1> QED
  BY <1>2, <1>3, <1>12, <1>13, <1>14 DEF RaceInv, Delivered, f

LEMMA ChainsKeepInv ==
    ASSUME RaceInv, Chains
    PROVE  RaceInv' /\ Delivered <= LastDeliveredNonce(best'.lane)
<1>1. /\ Delivered \in Nat /\ LastDeliveredNonce(finalized.lane) \in Nat
      /\ SourceOK(source, Delivered) /\ TargetBlockOK(best, source)
      /\ best.lane \in InboundLaneData
  BY ChainFacts DEF RaceInv
<1>2. CASE \E generated \in Tip.generated .. MaxMessages,
              confirmed \in Tip.confirmed .. LastDeliveredNonce(finalized.lane) :
                SourceBlock(generated, confirmed)
  <2>1. Tip.generated \in Nat /\ Tip.confirmed \in Nat
    BY <1>1, SourceTypes DEF Tip
  <2>2. PICK generated \in Tip.generated .. MaxMessages,
             confirmed \in Tip.confirmed .. LastDeliveredNonce(finalized.lane) :
                SourceBlock(generated, confirmed)
    BY <1>2
  <2>3. generated \in Nat /\ generated >= Tip.generated /\ confirmed \in Nat
    BY <1>1, <2>1, RaceAssumption
  <2>4. Delivered <= LastDeliveredNonce(best'.lane)
    BY <1>1, <2>2 DEF SourceBlock, Delivered
  <2> QED
    BY <2>2, <2>3, <2>4, SourceBlockKeepsInv
<1>3. CASE \E h \in DOMAIN source : ImportHeader(h)
  <2>1. PICK h \in DOMAIN source : ImportHeader(h)
    BY <1>3
  <2>2. /\ best' = [best EXCEPT !.peer = h] /\ source' = source /\ race' = race /\ pool' = pool
        /\ finalized' = finalized
    BY <2>1 DEF ImportHeader
  <2>3. h \in Nat
    BY <1>1, SourceTypes
  <2>4. TargetBlockOK(best', source) /\ best'.lane = best.lane
    BY <1>1, <2>2, <2>3 DEF TargetBlockOK, TargetBlocks
  <2>5. Delivered <= LastDeliveredNonce(best'.lane)
    BY <1>1, <2>4 DEF Delivered
  <2> QED
    BY <2>2, <2>4, <2>5, TargetGoesOn
<1>4. CASE \E tx \in pool : MineTransaction(tx)
  BY <1>4, MineKeepsInv
<1>5. CASE \E last \in 0 .. MaxMessages : OtherDelivers(last)
  <2>1. PICK last \in 0 .. MaxMessages : OtherDelivers(last)
    BY <1>5
  <2>2. last \in Nat
    OBVIOUS
  <2> QED
    BY <2>1, <2>2, OtherKeepsInv
<1>6. CASE Finalize
  <2>1. best' = best /\ source' = source /\ race' = race /\ pool' = pool /\ finalized' = best
    BY <1>6 DEF Finalize
  <2>2. Delivered <= LastDeliveredNonce(best'.lane)
    BY <1>1, <2>1 DEF Delivered
  <2> QED
    BY <1>1, <2>1, <2>2, TargetGoesOn
<1> QED
  BY <1>2, <1>3, <1>4, <1>5, <1>6 DEF Chains

\* The lane on which the race starts has one message in each entry.
LEMMA BlockedLaneOK ==
    /\ BlockedLane \in InboundLaneData /\ WellFormed(BlockedLane)
    /\ LastDeliveredNonce(BlockedLane) = MaxUnrewardedRelayers
<1> DEFINE n == MaxUnrewardedRelayers
           e(i) == [relayer |-> IF i % 2 = 1 THEN Other ELSE Us, begin |-> i, end |-> i]
           entries == [i \in 1 .. n |-> e(i)]
<1>1. n \in Nat \ {0} /\ n <= MaxUnconfirmedMessages /\ MaxUnconfirmedMessages \in Nat
  BY LimitsAssumption, RaceAssumption
<1>2. \A i \in 1 .. n : e(i) \in UnrewardedRelayer /\ e(i).begin = i /\ e(i).end = i
  BY RaceAssumption DEF UnrewardedRelayer
<1> HIDE DEF e
<1>3. /\ DOMAIN entries = 1 .. n
      /\ \A i \in 1 .. n : entries[i] \in UnrewardedRelayer
                           /\ entries[i].begin = i /\ entries[i].end = i
  BY <1>2
<1>4. entries \in [1 .. n -> UnrewardedRelayer]
  BY <1>2
<1>5. entries \in Seq(UnrewardedRelayer) /\ Len(entries) = n
  BY <1>1, <1>4, SeqDef
<1>6. entries # <<>>
  BY <1>1, <1>5, EmptySeq
<1>7. BlockedLane = [state |-> "Opened", last_confirmed_nonce |-> 0, relayers |-> entries]
  <2>1. BlockedLane = [InboundLaneOpened EXCEPT !.relayers = entries]
    BY DEF BlockedLane, e
  <2> HIDE DEF entries
  <2> QED
    BY <2>1 DEF InboundLaneOpened
<1> HIDE DEF entries
<1>8. /\ BlockedLane \in InboundLaneData /\ BlockedLane.relayers = entries
      /\ BlockedLane.last_confirmed_nonce = 0
  BY <1>5, <1>7 DEF InboundLaneData
<1>9. LastDeliveredNonce(BlockedLane) = n
  BY <1>1, <1>3, <1>5, <1>6, <1>8 DEF LastDeliveredNonce
<1>10. /\ entries[1].begin = 1
       /\ \A i \in DOMAIN entries :
            /\ entries[i].begin <= entries[i].end
            /\ i > 1 => entries[i].begin = entries[i - 1].end + 1
            /\ entries[i].end <= n
  BY <1>1, <1>3
<1>11. \A m \in 0 + 1 .. n : \E i \in DOMAIN entries : m \in entries[i].begin .. entries[i].end
  BY <1>1, <1>3
<1>12. WellFormed(BlockedLane)
  BY <1>1, <1>5, <1>8, <1>9, <1>10, <1>11 DEF WellFormed
<1> QED
  BY <1>8, <1>9, <1>12

LEMMA InitInv ==
    ASSUME Init
    PROVE  RaceInv
<1> DEFINE n == MaxUnrewardedRelayers
           e == [generated |-> n, confirmed |-> 0]
<1>1. n \in Nat
  BY LimitsAssumption
<1>2. e \in SourceBlocks /\ e.confirmed = 0
  BY <1>1 DEF SourceBlocks
<1>3. source = <<e>>
  BY DEF Init
<1> HIDE DEF e
<1>4. source \in Seq(SourceBlocks) /\ source # <<>> /\ DOMAIN source = {1} /\ source[1] = e
  BY <1>2, <1>3
<1>5. SourceOK(source, n)
  BY <1>1, <1>2, <1>4 DEF SourceOK, SourceBlocks
<1>6. best = [lane |-> BlockedLane, peer |-> 1] /\ finalized = best /\ pool = {} /\ race = FreshRace
  BY DEF Init
<1>7. TargetBlockOK(best, source) /\ LastDeliveredNonce(best.lane) = n
  BY <1>4, <1>6, BlockedLaneOK DEF TargetBlockOK, TargetBlocks
<1> QED
  BY <1>1, <1>5, <1>6, <1>7, FreshRaceOK DEF RaceInv

LEMMA NextKeepsInv ==
    ASSUME RaceInv, [Next]_vars
    PROVE  RaceInv'
<1>1. CASE UNCHANGED vars
  BY <1>1 DEF vars, RaceInv
<1> QED
  BY <1>1, LoopKeepsInv, ChainsKeepInv DEF Next

\* What the delivery race knows has been true of the two chains, its queue
\* leaves out no nonce that is not delivered, and the target and the source
\* agree on what is delivered: for every interleaving of the loop with blocks,
\* faults and restarts, whatever the bounds.
THEOREM RaceInvariant == RaceSpec => []RaceInv
  BY InitInv, NextKeepsInv, PTL DEF RaceSpec

-----------------------------------------------------------------------------
(***************************************************************************)
(* What the race waits for is under way.                                   *)
(***************************************************************************)
LEMMA ContinueTracks ==
    ASSUME NEW r, DOMAIN r = DOMAIN FreshRace, Continue(r)
    PROVE  /\ race'.submitted = r.submitted
           /\ race'.targetRequest = Idle => race'.toSubmit = None
<1>1. PICK t \in LoopEnd(r) : race' = t
  BY DEF Continue
<1>2. PICK s \in AskSource(r) : t = AskTarget(s)
  BY <1>1 DEF LoopEnd
<1>3. DOMAIN s = DOMAIN FreshRace /\ s.submitted = r.submitted
  BY AskSourceFacts
<1>4. DOMAIN t = DOMAIN FreshRace /\ t.submitted = s.submitted /\ t.toSubmit = s.toSubmit
  BY <1>2, <1>3, AskTargetFacts
<1>5. ASSUME t.targetRequest = Idle, s.toSubmit # None
      PROVE  FALSE
  <2>1. CASE s.targetRequest # Idle
    BY <1>2, <1>5, <2>1 DEF AskTarget
  <2>2. CASE s.targetRequest = Idle
    <3>1. t = [s EXCEPT !.targetRequest = [kind |-> "submit"]]
      BY <1>2, <1>5, <2>2 DEF AskTarget
    <3>2. t.targetRequest = [kind |-> "submit"]
      BY <1>3, <3>1, Fields
    <3> QED
      BY <1>5, <3>2, NotProofs
  <2> QED
    BY <2>1, <2>2
<1> QED
  BY <1>1, <1>3, <1>4, <1>5

Tracks ==
    /\ race'.targetRequest = Idle => race'.toSubmit = None
    /\ race'.submitted \in {None, race.submitted}

\* The branches that neither send nor finish a transaction.
LEMMA HeadersTrack ==
    ASSUME RaceInv, TrackedInv,
           SourceUpdated \/ PeerUpdated \/ BestUpdated \/ FinalizedUpdated
    PROVE  Tracks
<1>1. DOMAIN race = DOMAIN FreshRace /\ (race.targetRequest = Idle => race.toSubmit = None)
  BY ChainFacts DEF TrackedInv
<1>2. CASE SourceUpdated
  <2>1. PICK q : race' = [race EXCEPT !.sourceRequest = q]
    BY <1>2 DEF SourceUpdated
  <2>2. /\ race'.targetRequest = race.targetRequest /\ race'.toSubmit = race.toSubmit
        /\ race'.submitted = race.submitted
    BY <1>1, <2>1, Fields
  <2> QED
    BY <1>1, <2>2 DEF Tracks
<1>3. CASE PeerUpdated
  <2> DEFINE r == [race EXCEPT !.peer = best.peer]
  <2>1. DOMAIN r = DOMAIN FreshRace /\ r.submitted = race.submitted
    BY <1>1, Fields
  <2>2. Continue(r)
    BY <1>3 DEF PeerUpdated
  <2> HIDE DEF r
  <2> QED
    BY <2>1, <2>2, ContinueTracks DEF Tracks
<1>4. ASSUME NEW q, q # Idle, Ask(q)
      PROVE  Tracks
  <2> DEFINE r == [race EXCEPT !.peer = best.peer]
  <2>1. DOMAIN r = DOMAIN FreshRace /\ r.submitted = race.submitted
    BY <1>1, Fields
  <2>2. PICK t \in LoopEnd(r) :
            race' = [t EXCEPT !.targetRequest = IF t.targetRequest = Idle THEN q ELSE t.targetRequest]
    BY <1>4 DEF Ask
  <2> HIDE DEF r
  <2>3. PICK s \in AskSource(r) : t = AskTarget(s)
    BY DEF LoopEnd
  <2>4. DOMAIN s = DOMAIN FreshRace /\ s.submitted = r.submitted
    BY <2>1, AskSourceFacts
  <2>5. DOMAIN t = DOMAIN FreshRace /\ t.submitted = s.submitted
    BY <2>3, <2>4, AskTargetFacts
  <2>6. race'.targetRequest # Idle /\ race'.submitted = t.submitted
    BY <1>4, <2>2, <2>5, Fields
  <2> QED
    BY <2>1, <2>4, <2>5, <2>6 DEF Tracks
<1>5. CASE BestUpdated
  <2> DEFINE q == [kind |-> "best", nonces |-> NoncesAt(best.lane)]
  <2>1. q.kind = "best" /\ Idle.kind = "none"
    BY DEF Idle
  <2>2. q # Idle /\ Ask(q)
    BY <1>5, <2>1 DEF BestUpdated
  <2> QED
    BY <1>4, <2>2
<1>6. CASE FinalizedUpdated
  <2> DEFINE q == [kind |-> "finalized", latest |-> LastDeliveredNonce(finalized.lane)]
  <2>1. q.kind = "finalized" /\ Idle.kind = "none"
    BY DEF Idle
  <2>2. q # Idle /\ Ask(q)
    BY <1>6, <2>1 DEF FinalizedUpdated
  <2> QED
    BY <1>4, <2>2
<1> QED
  BY <1>2, <1>3, <1>5, <1>6

LEMMA AnswersTrack ==
    ASSUME RaceInv,
           \/ SourceNonces \/ TargetBestNonces \/ TargetFinalizedNonces
           \/ RequireSourceHeader \/ GenerateProof \/ GoOnline
    PROVE  Tracks
<1>1. DOMAIN race = DOMAIN FreshRace
  BY ChainFacts
<1> SUFFICES \E r : /\ DOMAIN r = DOMAIN FreshRace /\ r.submitted \in {None, race.submitted}
                     /\ Continue(r)
  BY ContinueTracks DEF Tracks
<1> DEFINE sdone == [race EXCEPT !.sourceRequest = Idle]
           tdone == [race EXCEPT !.targetRequest = Idle]
<1>2. /\ DOMAIN sdone = DOMAIN FreshRace /\ sdone.submitted = race.submitted
      /\ DOMAIN tdone = DOMAIN FreshRace /\ tdone.submitted = race.submitted
  BY <1>1, Fields
<1>3. CASE SourceNonces
  <2> DEFINE after(r) == [r EXCEPT !.requiredHeader = RequiredSourceHeaderAtTarget(r)]
             news == SourceNoncesUpdated(sdone, race.sourceRequest.at, race.sourceRequest.prev)
             failed == [sdone EXCEPT !.sourceRequest = Offline]
  <2>1. Continue(after(news)) \/ Continue(after(failed))
    BY <1>3 DEF SourceNonces
  <2> HIDE DEF sdone
  <2>2. /\ DOMAIN news = DOMAIN FreshRace /\ news.submitted = race.submitted
        /\ DOMAIN failed = DOMAIN FreshRace /\ failed.submitted = race.submitted
    BY <1>2, Fields DEF SourceNoncesUpdated
  <2> HIDE DEF news, failed
  <2>3. \A r : DOMAIN r = DOMAIN FreshRace =>
            DOMAIN after(r) = DOMAIN FreshRace /\ after(r).submitted = r.submitted
    BY Fields
  <2> HIDE DEF after
  <2> QED
    BY <2>1, <2>2, <2>3
<1>4. CASE TargetBestNonces \/ TargetFinalizedNonces
  <2> DEFINE best1 == BestTargetNoncesUpdated(tdone, race.targetRequest.nonces)
             final1 == FinalizedTargetNoncesUpdated(tdone, race.targetRequest.latest)
             failed == [tdone EXCEPT !.targetRequest = Offline]
  <2>1. Continue(best1) \/ Continue(final1) \/ Continue(failed)
    BY <1>4 DEF TargetBestNonces, TargetFinalizedNonces
  <2> HIDE DEF tdone
  <2>2. DOMAIN best1 = DOMAIN FreshRace /\ best1.submitted \in {None, race.submitted}
    BY <1>2, Fields DEF BestTargetNoncesUpdated
  <2>3. DOMAIN final1 = DOMAIN FreshRace /\ final1.submitted = race.submitted
    BY <1>2, Fields DEF FinalizedTargetNoncesUpdated
  <2>4. DOMAIN failed = DOMAIN FreshRace /\ failed.submitted = race.submitted
    BY <1>2, Fields
  <2> HIDE DEF best1, final1, failed
  <2> QED
    BY <2>1, <2>2, <2>3, <2>4
<1>5. CASE RequireSourceHeader
  <2> DEFINE done == [race EXCEPT !.requiredHeader = None, !.targetRequest = Idle]
             failed == [done EXCEPT !.targetRequest = Offline]
             with(batch) == [done EXCEPT !.batch = batch]
  <2>1. (\E batch : Continue(with(batch))) \/ Continue(failed)
    BY <1>5 DEF RequireSourceHeader
  <2>2. DOMAIN done = DOMAIN FreshRace /\ done.submitted = race.submitted
    BY <1>1, Fields
  <2> HIDE DEF done
  <2>3. /\ DOMAIN failed = DOMAIN FreshRace /\ failed.submitted = race.submitted
        /\ \A batch : /\ DOMAIN with(batch) = DOMAIN FreshRace
                      /\ with(batch).submitted = race.submitted
    BY <2>2, Fields
  <2> HIDE DEF failed, with
  <2> QED
    BY <2>1, <2>3
<1>6. CASE GenerateProof
  <2>1. PICK tx : Continue([race EXCEPT !.sourceRequest = Idle, !.toSubmit = tx])
    BY <1>6 DEF GenerateProof
  <2> DEFINE r == [race EXCEPT !.sourceRequest = Idle, !.toSubmit = tx]
  <2>2. DOMAIN r = DOMAIN FreshRace /\ r.submitted = race.submitted
    BY <1>1, Fields
  <2> HIDE DEF r
  <2> QED
    BY <2>1, <2>2 DEF r
<1>7. CASE GoOnline
  <2>1. Continue(sdone) \/ Continue(tdone)
    BY <1>7 DEF GoOnline
  <2> HIDE DEF sdone, tdone
  <2> QED
    BY <1>2, <2>1
<1> QED
  BY <1>3, <1>4, <1>5, <1>6, <1>7

LEMMA LoopKeepsTracked ==
    ASSUME RaceInv, TrackedInv, Loop
    PROVE  TrackedInv'
<1>1. /\ DOMAIN race = DOMAIN FreshRace /\ Delivered \in Nat
      /\ race.submitted # None =>
           /\ race.submitted.last \in Nat
           /\ tracker.status # "none" \/ race.submitted.last <= Delivered
      /\ tracker.status \in {"mined", "finalized"} =>
           tracker \in [status : {"mined", "finalized"}, latest : 0 .. Delivered]
  BY ChainFacts DEF TrackedInv, Delivered
<1>2. best' = best
  BY DEF Loop, SourceUpdated, PeerUpdated, BestUpdated, FinalizedUpdated, Ask, SourceNonces,
         TargetBestNonces, TargetFinalizedNonces, RequireSourceHeader, GenerateProof, SubmitProof,
         TransactionFinalized, TransactionLost, GoOnline, ConnectionLost, chainVars
<1>3. ASSUME Tracks, tracker' = tracker
      PROVE  TrackedInv'
  BY <1>1, <1>2, <1>3 DEF TrackedInv, Tracks, Delivered
<1>4. CASE SourceUpdated \/ PeerUpdated \/ BestUpdated \/ FinalizedUpdated
  <2>1. tracker' = tracker
    BY <1>4 DEF SourceUpdated, PeerUpdated, BestUpdated, FinalizedUpdated, Ask, chainVars
  <2> QED
    BY <1>3, <1>4, <2>1, HeadersTrack
<1>5. CASE \/ SourceNonces \/ TargetBestNonces \/ TargetFinalizedNonces
           \/ RequireSourceHeader \/ GenerateProof \/ GoOnline
  <2>1. tracker' = tracker
    BY <1>5 DEF SourceNonces, TargetBestNonces, TargetFinalizedNonces, RequireSourceHeader,
                GenerateProof, GoOnline, chainVars
  <2> QED
    BY <1>3, <1>5, <2>1, AnswersTrack
<1>6. CASE SubmitProof
  <2> DEFINE done == [race EXCEPT !.targetRequest = Idle, !.toSubmit = None]
             nonces == [first |-> race.toSubmit.first, last |-> race.toSubmit.last]
             sent == [done EXCEPT !.submitted = nonces]
             failed == [done EXCEPT !.targetRequest = Offline, !.targetNonces = None,
                                    !.bestTargetNonce = None]
  <2>1. \/ Continue(sent) /\ tracker' = [status |-> "waiting", tx |-> race.toSubmit]
        \/ Continue(failed) /\ tracker' = tracker
    BY <1>6 DEF SubmitProof
  <2>2. DOMAIN done = DOMAIN FreshRace /\ done.submitted = race.submitted
    BY <1>1, Fields
  <2>3. nonces.last \in Nat
    BY <1>6, SubmitProofGoesOn DEF SelectionOK
  <2> HIDE DEF done, nonces
  <2>4. /\ DOMAIN sent = DOMAIN FreshRace /\ sent.submitted = nonces
        /\ DOMAIN failed = DOMAIN FreshRace /\ failed.submitted = race.submitted
    BY <2>2, Fields
  <2> HIDE DEF sent, failed
  <2>5. CASE Continue(sent) /\ tracker' = [status |-> "waiting", tx |-> race.toSubmit]
    <3>1. /\ race'.submitted = nonces /\ tracker'.status = "waiting"
          /\ race'.targetRequest = Idle => race'.toSubmit = None
      BY <2>4, <2>5, ContinueTracks
    <3> QED
      BY <2>3, <3>1 DEF TrackedInv
  <2>6. CASE Continue(failed) /\ tracker' = tracker
    <3>1. Tracks
      BY <2>4, <2>6, ContinueTracks DEF Tracks
    <3> QED
      BY <1>3, <2>6, <3>1
  <2> QED
    BY <2>1, <2>5, <2>6
<1>7. CASE TransactionFinalized \/ TransactionLost
  <2>1. DOMAIN ForgetSubmitted(race) = DOMAIN FreshRace /\ ForgetSubmitted(race).submitted = None
    BY <1>1, Fields DEF ForgetSubmitted
  <2>2. tracker' = [status |-> "none"]
    BY <1>7 DEF TransactionFinalized, TransactionLost
  <2>3. \/ Continue(ForgetSubmitted(race))
        \/ /\ Continue(race) /\ tracker.status = "finalized"
           /\ ~ (race.submitted # None /\ tracker.latest < race.submitted.last)
    BY <1>7 DEF TransactionFinalized, TransactionLost
  <2>4. CASE Continue(ForgetSubmitted(race))
    <3>1. race'.submitted = None /\ (race'.targetRequest = Idle => race'.toSubmit = None)
      BY <2>1, <2>4, ContinueTracks
    <3> QED
      BY <2>2, <3>1 DEF TrackedInv
  <2>5. CASE /\ Continue(race) /\ tracker.status = "finalized"
             /\ ~ (race.submitted # None /\ tracker.latest < race.submitted.last)
    <3>1. /\ race'.submitted = race.submitted
          /\ race'.targetRequest = Idle => race'.toSubmit = None
      BY <1>1, <2>5, ContinueTracks
    <3>2. tracker.latest \in 0 .. Delivered
      BY <1>1, <2>5
    <3>3. race.submitted # None => race.submitted.last \in Nat /\ race.submitted.last <= Delivered
      BY <1>1, <2>5, <3>2
    <3> QED
      BY <1>2, <2>2, <3>1, <3>3 DEF TrackedInv, Delivered
  <2> QED
    BY <2>3, <2>4, <2>5
<1>8. CASE ConnectionLost
  <2>1. race' = FreshRace /\ tracker' = [status |-> "none"]
    BY <1>8 DEF ConnectionLost
  <2>2. race'.submitted = None /\ race'.toSubmit = None
    BY <2>1 DEF FreshRace
  <2> QED
    BY <2>1, <2>2 DEF TrackedInv
<1> QED
  BY <1>4, <1>5, <1>6, <1>7, <1>8 DEF Loop

LEMMA ChainsKeepTracked ==
    ASSUME RaceInv, RaceInv', TrackedInv, Chains
    PROVE  TrackedInv'
<1> DEFINE d2 == LastDeliveredNonce(best'.lane)
<1>1. Delivered \in Nat /\ d2 \in Nat /\ Delivered <= d2
  <2>1. best'.lane \in InboundLaneData
    BY DEF RaceInv, TargetBlockOK, TargetBlocks
  <2> QED
    BY <2>1, ChainFacts, ChainsKeepInv, LastDeliveredType
<1>2. race' = race
  BY DEF Chains, SourceBlock, ImportHeader, MineTransaction, OtherDelivers, Finalize
<1>3. /\ race.targetRequest = Idle => race.toSubmit = None
      /\ race.submitted # None =>
           /\ race.submitted.last \in Nat
           /\ tracker.status # "none" \/ race.submitted.last <= Delivered
      /\ tracker.status \in {"mined", "finalized"} =>
           tracker \in [status : {"mined", "finalized"}, latest : 0 .. Delivered]
  BY DEF TrackedInv, Delivered
<1>4. /\ tracker'.status = "none" => tracker.status = "none"
      /\ tracker'.status \in {"mined", "finalized"} =>
           tracker' \in [status : {"mined", "finalized"}, latest : 0 .. d2]
  <2>1. tracker.status \in {"mined", "finalized"} =>
          tracker \in [status : {"mined", "finalized"}, latest : 0 .. d2]
    BY <1>1, <1>3
  <2>2. CASE tracker' = tracker
    BY <2>1, <2>2
  <2>3. CASE tracker.status = "mined" /\ tracker' = [tracker EXCEPT !.status = "finalized"]
    BY <2>1, <2>3
  <2>4. CASE tracker' = [status |-> "mined", latest |-> d2]
    BY <1>1, <2>4
  <2>5. \/ tracker' = tracker
        \/ tracker.status = "mined" /\ tracker' = [tracker EXCEPT !.status = "finalized"]
        \/ tracker' = [status |-> "mined", latest |-> d2]
    BY DEF Chains, SourceBlock, ImportHeader, MineTransaction, OtherDelivers, Finalize
  <2> QED
    BY <2>2, <2>3, <2>4, <2>5
<1>5. race.submitted # None => tracker'.status # "none" \/ race.submitted.last <= d2
  BY <1>1, <1>3, <1>4
<1> HIDE DEF d2
<1> QED
  BY <1>2, <1>3, <1>4, <1>5 DEF TrackedInv, d2

\* The race holds nonces as submitted only while their transaction is tracked
\* or once they are delivered, and an idle target client leaves nothing to be
\* submitted: no failure, lost transaction or restart makes the race wait for
\* what is not under way.
THEOREM RaceTracksItsTransactions == RaceSpec => []TrackedInv
<1>1. Init => TrackedInv
  BY DEF Init, TrackedInv, FreshRace
<1>2. RaceInv /\ RaceInv' /\ TrackedInv /\ [Next]_vars => TrackedInv'
  <2>1. ASSUME RaceInv, RaceInv', TrackedInv, [Next]_vars
        PROVE  TrackedInv'
    <3>1. CASE UNCHANGED vars
      BY <2>1, <3>1 DEF vars, TrackedInv
    <3> QED
      BY <2>1, <3>1, LoopKeepsTracked, ChainsKeepTracked DEF Next
  <2> QED
    BY <2>1
<1> QED
  BY <1>1, <1>2, RaceInvariant, PTL DEF RaceSpec

LEMMA SelectionsAreOK ==
    ASSUME RaceInv, NEW s \in Selections
    PROVE  SelectionOK(s, source, LastDeliveredNonce(best.lane))
  BY DEF RaceInv, RaceOK, SourceRequestOK, Selections

\* available_source_queue_indices: no proof that is asked for, made or about to
\* be submitted leaves out a nonce that the target has not received, however
\* old the queue is that it was selected from.
THEOREM ProofsStartAtNextNonce == RaceSpec => []StartsAtNextNonce
<1>1. RaceInv => StartsAtNextNonce
  BY SelectionsAreOK DEF StartsAtNextNonce, SelectionOK
<1> QED
  BY <1>1, RaceInvariant, PTL

\* The messages of a proof have been sent at the source block at which it is
\* made: select_race_action takes no entry of the queue that is witnessed at a
\* later block.
THEOREM ProofsAreWitnessed == RaceSpec => []WitnessedAtProvedBlock
<1>1. RaceInv => WitnessedAtProvedBlock
  BY SelectionsAreOK DEF WitnessedAtProvedBlock, SelectionOK
<1> QED
  BY <1>1, RaceInvariant, PTL

-----------------------------------------------------------------------------
(***************************************************************************)
(* What a transaction achieves.                                            *)
(***************************************************************************)

\* A confirmation that is new, and of delivered messages, pops the entries that
\* end at or below it.
LEMMA RewardsPop ==
    ASSUME NEW lane \in InboundLaneData, NEW confirmed \in Nat,
           lane.last_confirmed_nonce < confirmed, confirmed <= LastDeliveredNonce(lane)
    PROVE  LET new == ReceiveStateUpdate(lane, confirmed)
           IN  /\ new.last_confirmed_nonce = confirmed
               /\ Len(new.relayers) \in Nat /\ Len(lane.relayers) \in Nat
               /\ Len(new.relayers) <= Len(lane.relayers)
               /\ Len(new.relayers) < Len(lane.relayers)
                    <=> lane.relayers # <<>> /\ lane.relayers[1].end <= confirmed
<1> DEFINE new == ReceiveStateUpdate(lane, confirmed)
           old == lane.relayers
           trimmed == TrimmedRelayers(old, confirmed)
           popped == PoppedEntries(old, confirmed)
           n == Len(old)
<1>1. /\ old \in Seq(UnrewardedRelayer) /\ lane.last_confirmed_nonce \in Nat
      /\ LastDeliveredNonce(lane) \in Nat
  BY LastDeliveredType
<1>2. new = [lane EXCEPT !.last_confirmed_nonce = confirmed, !.relayers = trimmed]
  BY <1>1 DEF ReceiveStateUpdate
<1>3. /\ n \in Nat /\ (old = <<>> <=> n = 0)
      /\ \A i \in 1 .. n : old[i].end \in Nat
  BY <1>1, EntryTypes
<1>4. /\ popped \in 0 .. n
      /\ \A i \in 1 .. popped : old[i].end <= confirmed
      /\ popped < n => old[popped + 1].end > confirmed
  BY <1>1, PoppedEntriesDefined
<1>5. Len(trimmed) = n - popped
  BY <1>1, TrimmedRelayersFields
<1> HIDE DEF trimmed, popped
<1>6. new.relayers = trimmed /\ new.last_confirmed_nonce = confirmed
  BY <1>2 DEF InboundLaneData
<1> HIDE DEF new, old, n
<1>7. n - popped < n <=> popped > 0
  BY <1>3, <1>4
<1>8. ASSUME popped > 0
      PROVE  n > 0 /\ old[1].end <= confirmed
  BY <1>3, <1>4, <1>8
<1>9. ASSUME popped = 0, n > 0
      PROVE  ~(old[1].end <= confirmed)
  <2>1. popped + 1 = 1 /\ popped < n /\ 1 \in 1 .. n
    BY <1>3, <1>9
  <2> QED
    BY <1>3, <1>4, <2>1
<1>10. n - popped < n <=> old # <<>> /\ old[1].end <= confirmed
  BY <1>3, <1>4, <1>7, <1>8, <1>9
<1> QED
  BY <1>3, <1>4, <1>5, <1>6, <1>10 DEF new, old, n

\* A batch that begins at the next nonce is received in part, if the next
\* nonce can be received.
LEMMA ReceivesSome ==
    ASSUME NEW data \in InboundLaneData, WellFormed(data), NEW relayer \in Relayers,
           NEW last \in Nat, LastDeliveredNonce(data) + 1 <= last,
           CanReceive(data, LastDeliveredNonce(data) + 1)
    PROVE  LET new == ReceiveMessages(data, relayer, LastDeliveredNonce(data) + 1, last)
           IN  LastDeliveredNonce(new) \in LastDeliveredNonce(data) + 1 .. last
<1> DEFINE delivered == LastDeliveredNonce(data)
           accepted == LastAccepted(data, relayer, delivered + 1, last)
           mayConfirm == data.last_confirmed_nonce + MaxUnconfirmedMessages
           lastOfBatch == IF /\ Len(data.relayers) + 1 >= MaxUnrewardedRelayers
                             /\ ~ ExtendsLastEntry(data, relayer)
                          THEN delivered + 1 ELSE last
<1>1. delivered \in Nat /\ mayConfirm \in Nat /\ data.last_confirmed_nonce \in Nat
  BY LastDeliveredType, LimitsAssumption
<1>2. delivered + 1 \in delivered + 1 .. last
  BY <1>1
<1>3. accepted = IF lastOfBatch <= mayConfirm THEN lastOfBatch ELSE mayConfirm
  BY <1>2 DEF LastAccepted
<1>4. (delivered + 1) - data.last_confirmed_nonce <= MaxUnconfirmedMessages
  BY DEF CanReceive
<1>5. lastOfBatch \in delivered + 1 .. last
  BY <1>1
<1>6. LastDeliveredNonce(ReceiveMessages(data, relayer, delivered + 1, last)) = accepted
  BY <1>1, ReceiveMessagesCorrect
<1> HIDE DEF delivered, accepted, lastOfBatch
<1>7. delivered + 1 <= mayConfirm
  BY <1>1, <1>4, LimitsAssumption
<1>8. accepted \in delivered + 1 .. last
  BY <1>1, <1>3, <1>5, <1>7
<1> QED
  BY <1>6, <1>8 DEF delivered

\* The limits, as the race computes them from the nonces it has read.
Blocked(lane) ==
    \/ Len(lane.relayers) >= MaxUnrewardedRelayers
    \/ TotalUnrewardedMessages(lane) >= MaxUnconfirmedMessages

LEMMA LimitFacts ==
    ASSUME RaceInv, NEW r, r.targetNonces = NoncesAt(best.lane)
    PROVE  /\ r.targetNonces.latest = Delivered
           /\ r.targetNonces.confirmed = best.lane.last_confirmed_nonce
           /\ UnrewardedLimitReached(r) <=> Blocked(best.lane)
           /\ Blocked(best.lane) =>
                /\ best.lane.relayers # <<>>
                /\ best.lane.relayers[1].end \in Nat
                /\ best.lane.last_confirmed_nonce < best.lane.relayers[1].end
                /\ best.lane.relayers[1].end <= Delivered
                /\ r.targetNonces.oldest
                     = best.lane.relayers[1].end - best.lane.last_confirmed_nonce
<1> DEFINE lane == best.lane
           entries == lane.relayers
           c == lane.last_confirmed_nonce
<1>1. /\ r.targetNonces.latest = Delivered /\ r.targetNonces.confirmed = c
      /\ r.targetNonces.entries = Len(entries)
      /\ r.targetNonces.total = TotalUnrewardedMessages(lane)
      /\ r.targetNonces.oldest = IF entries = <<>> THEN 0
                                 ELSE entries[1].end - entries[1].begin + 1
  BY DEF NoncesAt, Delivered
<1>2. UnrewardedLimitReached(r) <=> Blocked(lane)
  BY <1>1 DEF UnrewardedLimitReached, Blocked
<1>3. ASSUME Blocked(lane)
      PROVE  /\ entries # <<>> /\ entries[1].end \in Nat /\ c < entries[1].end
             /\ entries[1].end <= Delivered /\ r.targetNonces.oldest = entries[1].end - c
  <2>1. /\ lane \in InboundLaneData /\ WellFormed(lane) /\ entries \in Seq(UnrewardedRelayer)
        /\ c \in Nat
    BY ChainFacts, LastDeliveredType
  <2>2. /\ Len(entries) \in Nat /\ (entries = <<>> <=> Len(entries) = 0)
        /\ DOMAIN entries = 1 .. Len(entries)
        /\ \A i \in 1 .. Len(entries) : entries[i].begin \in Nat /\ entries[i].end \in Nat
    BY <2>1, EntryTypes
  <2>3. entries # <<>>
    BY <1>3, <2>2, LimitsAssumption DEF Blocked, TotalUnrewardedMessages
  <2>4. 1 \in DOMAIN entries /\ entries[1].begin \in Nat /\ entries[1].end \in Nat
    BY <2>2, <2>3
  <2>5. /\ entries[1].begin = c + 1 /\ entries[1].begin <= entries[1].end
        /\ entries[1].end <= Delivered
    BY <2>1, <2>3, <2>4 DEF WellFormed, Delivered
  <2> HIDE DEF entries, c
  <2>6. entries[1].end - entries[1].begin + 1 = entries[1].end - c /\ c < entries[1].end
    BY <2>1, <2>4, <2>5 DEF c
  <2> QED
    BY <1>1, <2>3, <2>4, <2>5, <2>6
<1> QED
  BY <1>1, <1>2, <1>3

\* There are enough confirmations to prove if the oldest entry is confirmed.
LEMMA EnoughMeans ==
    ASSUME RaceInv, NEW r, NEW at, MaySelect(r, at, source, Delivered),
           r.targetNonces = NoncesAt(best.lane), Blocked(best.lane)
    PROVE  /\ EnoughRewards(r, at)
                <=> best.lane.relayers[1].end <= LatestConfirmedNonceAtSource(r, at)
           /\ EnoughRewards(r, at) => RewardsToProve(r, at)
<1> DEFINE confirmed == LatestConfirmedNonceAtSource(r, at)
           c == best.lane.last_confirmed_nonce
           e == best.lane.relayers[1].end
<1>1. confirmed \in Nat
  BY LatestConfirmedFacts
<1>2. c \in Nat
  BY ChainFacts, LastDeliveredType
<1>3. e \in Nat /\ c < e /\ r.targetNonces.oldest = e - c /\ r.targetNonces.confirmed = c
  BY LimitFacts
<1>4. Max({confirmed - c, 0}) = IF confirmed - c >= 0 THEN confirmed - c ELSE 0
  BY <1>1, <1>2, LargerOf
<1>5. EnoughRewards(r, at) <=> Max({confirmed - c, 0}) >= e - c
  BY <1>3 DEF EnoughRewards
<1>6. RewardsToProve(r, at) <=> c < confirmed
  BY <1>3 DEF RewardsToProve
<1> HIDE DEF confirmed, c, e
<1>7. Max({confirmed - c, 0}) >= e - c <=> e <= confirmed
  BY <1>1, <1>2, <1>3, <1>4
<1> QED
  BY <1>1, <1>2, <1>3, <1>5, <1>6, <1>7 DEF confirmed, e

\* What the proof of the confirmations leaves of the lane, before the messages
\* of the transaction are received.
LEMMA ProvedRewards ==
    ASSUME RaceInv, NEW r, NEW at, MaySelect(r, at, source, Delivered),
           r.targetNonces = NoncesAt(best.lane),
           UnrewardedLimitReached(r) => EnoughRewards(r, at)
    PROVE  LET middle == IF RewardsToProve(r, at)
                         THEN ReceiveStateUpdate(best.lane, source[at].confirmed) ELSE best.lane
           IN  /\ middle \in InboundLaneData /\ WellFormed(middle)
               /\ LastDeliveredNonce(middle) = Delivered
               /\ Len(middle.relayers) < MaxUnrewardedRelayers
               /\ middle.last_confirmed_nonce \in Nat
               /\ FutureConfirmed(r, at) <= middle.last_confirmed_nonce
               /\ Blocked(best.lane) => Len(middle.relayers) < Len(best.lane.relayers)
<1> DEFINE lane == best.lane
           sc == source[at].confirmed
           middle == IF RewardsToProve(r, at) THEN ReceiveStateUpdate(lane, sc) ELSE lane
           fc == FutureConfirmed(r, at)
           c == lane.last_confirmed_nonce
<1>1. lane \in InboundLaneData /\ WellFormed(lane) /\ Delivered \in Nat /\ c \in Nat
      /\ LastDeliveredNonce(lane) = Delivered
      /\ lane.relayers \in Seq(UnrewardedRelayer)
  BY ChainFacts, LastDeliveredType DEF Delivered
<1>2. sc \in Nat /\ sc <= Delivered
  BY SourceTypes DEF MaySelect, SourceOK
<1>3. /\ fc \in Nat /\ r.targetNonces.confirmed = c
      /\ \/ ~RewardsToProve(r, at) /\ fc = c
         \/ RewardsToProve(r, at) /\ fc <= sc
  BY FutureConfirmedFacts, LimitFacts
<1>4. middle \in InboundLaneData /\ WellFormed(middle) /\ LastDeliveredNonce(middle) = Delivered
  BY <1>1, <1>2, StateUpdateCorrect
<1>5. RewardsToProve(r, at) => c < LatestConfirmedNonceAtSource(r, at)
                               /\ fc = LatestConfirmedNonceAtSource(r, at)
  BY <1>3 DEF RewardsToProve, FutureConfirmed, FutureConfirmedNonceAtTarget
<1>6. Blocked(lane) => RewardsToProve(r, at) /\ lane.relayers # <<>> /\ lane.relayers[1].end \in Nat
                       /\ lane.relayers[1].end <= LatestConfirmedNonceAtSource(r, at)
  BY LimitFacts, EnoughMeans
<1>7. LatestConfirmedNonceAtSource(r, at) \in Nat
  BY LatestConfirmedFacts
<1>8. Len(lane.relayers) \in Nat
  BY <1>1, EntryTypes
<1> HIDE DEF lane, sc, fc, c
<1>9. CASE RewardsToProve(r, at)
  <2>1. c < sc /\ sc <= LastDeliveredNonce(lane)
    BY <1>1, <1>2, <1>3, <1>5, <1>7, <1>9
  <2>2. /\ middle.last_confirmed_nonce = sc
        /\ Len(middle.relayers) \in Nat /\ Len(middle.relayers) <= Len(lane.relayers)
        /\ Len(middle.relayers) < Len(lane.relayers)
             <=> lane.relayers # <<>> /\ lane.relayers[1].end <= sc
    BY <1>1, <1>2, <1>9, <2>1, RewardsPop DEF c
  <2>3. Blocked(lane) => lane.relayers[1].end <= sc
    BY <1>2, <1>3, <1>5, <1>6, <1>7, <1>9
  <2>4. Blocked(lane) => Len(middle.relayers) < Len(lane.relayers)
    BY <1>6, <2>2, <2>3
  <2> HIDE DEF middle
  <2>5. Len(middle.relayers) < MaxUnrewardedRelayers
    <3>1. Len(lane.relayers) <= MaxUnrewardedRelayers
      BY <1>1 DEF WellFormed
    <3>2. CASE Blocked(lane)
      BY <1>8, <2>2, <2>4, <3>1, <3>2, LimitsAssumption
    <3>3. CASE ~Blocked(lane)
      BY <1>8, <2>2, <3>3, LimitsAssumption DEF Blocked
    <3> QED
      BY <3>2, <3>3
  <2> QED
    BY <1>2, <1>3, <1>4, <1>9, <2>2, <2>4, <2>5 DEF middle, lane, sc, fc
<1>10. CASE ~RewardsToProve(r, at)
  <2>1. middle = lane /\ ~Blocked(lane)
    BY <1>6, <1>10
  <2>2. Len(lane.relayers) < MaxUnrewardedRelayers
    BY <1>8, <2>1, LimitsAssumption DEF Blocked
  <2>3. fc = c
    BY <1>3, <1>10
  <2> QED
    BY <1>1, <1>4, <1>10, <2>1, <2>2, <2>3 DEF lane, sc, fc, c
<1> QED
  BY <1>9, <1>10

LEMMA SelectedIsUseful ==
    ASSUME RaceInv, NEW r, NEW at, RaceOK(r, source, Delivered), HeaderOK(at, source),
           NEW a \in SelectRaceAction(r, at), r.targetNonces = NoncesAt(best.lane)
    PROVE  LET after == Received(best.lane, a, Us)
           IN  \/ LastDeliveredNonce(after) \in a.first .. a.last
               \/ a.last = 0 /\ Len(after.relayers) < Len(best.lane.relayers)
<1> DEFINE middle == IF RewardsToProve(r, at)
                     THEN ReceiveStateUpdate(best.lane, source[at].confirmed) ELSE best.lane
           fc == FutureConfirmed(r, at)
<1>1. Delivered \in Nat /\ SourceOK(source, Delivered)
  BY ChainFacts
<1>2. CanSelect(r, at) /\ (UnrewardedLimitReached(r) => EnoughRewards(r, at))
  BY SelectedMeans
<1>3. MaySelect(r, at, source, Delivered)
  BY <1>1, <1>2, CanSelectMeans
<1>4. /\ middle \in InboundLaneData /\ WellFormed(middle)
      /\ LastDeliveredNonce(middle) = Delivered
      /\ Len(middle.relayers) < MaxUnrewardedRelayers
      /\ middle.last_confirmed_nonce \in Nat /\ fc <= middle.last_confirmed_nonce
      /\ Blocked(best.lane) => Len(middle.relayers) < Len(best.lane.relayers)
  BY <1>2, <1>3, ProvedRewards
<1>5. ASSUME NEW range, a = SelectionOf(r, at, range)
      PROVE  /\ a.first = range.first /\ a.last = range.last
             /\ Received(best.lane, a, Us) = ReceiveMessages(middle, Us, range.first, range.last)
  <2>1. a.first = range.first /\ a.last = range.last /\ a.at = at
        /\ a.withState = RewardsToProve(r, at)
    BY <1>5 DEF SelectionOf
  <2> QED
    BY <2>1 DEF Received
<1>6. CASE \E range \in Ranges(r, at) : a = SelectionOf(r, at, range)
  <2>1. PICK range \in Ranges(r, at) : a = SelectionOf(r, at, range)
    BY <1>6
  <2>2. fc \in Nat /\ MaxNoncesInBatch(r, fc) \in Nat
    BY <1>3, FutureConfirmedFacts
  <2>3. IsRange(range, r.bestTargetNonce, Delivered, source[at].generated)
        /\ MaxNoncesInBatch(r, fc) # 0
    BY <1>3, <2>2, DecideFacts DEF Ranges
  <2>4. NoncesOK(r.targetNonces, Delivered) /\ r.bestTargetNonce = Delivered
        /\ r.targetNonces.latest = Delivered
    BY <1>3, LimitFacts DEF MaySelect
  <2> HIDE DEF fc
  <2>5. fc <= Delivered /\ MaxUnconfirmedMessages - (Delivered - fc) >= 1
    BY <1>1, <2>2, <2>3, <2>4, MaxNoncesFacts
  <2>6. range.first = Delivered + 1 /\ range.last \in Nat /\ Delivered + 1 <= range.last
    BY <1>1, <2>3, <2>4 DEF IsRange
  <2> HIDE DEF middle
  <2>7. (Delivered + 1) - middle.last_confirmed_nonce <= MaxUnconfirmedMessages
    BY <1>1, <1>4, <2>2, <2>5, LimitsAssumption
  <2>8. CanReceive(middle, Delivered + 1)
    BY <1>4, <2>7 DEF CanReceive
  <2>9. LastDeliveredNonce(ReceiveMessages(middle, Us, Delivered + 1, range.last))
          \in Delivered + 1 .. range.last
    BY <1>4, <2>6, <2>8, ReceivesSome, RaceAssumption
  <2> QED
    BY <1>5, <2>1, <2>6, <2>9
<1>7. CASE /\ UnrewardedLimitReached(r) /\ RewardsToProve(r, at)
           /\ a = SelectionOf(r, at, [first |-> 1, last |-> 0])
  <2> DEFINE none == [first |-> 1, last |-> 0]
  <2>1. none.first = 1 /\ none.last = 0
    OBVIOUS
  <2>2. a = SelectionOf(r, at, none)
    BY <1>7
  <2> HIDE DEF none, middle
  <2>3. a.last = 0 /\ Received(best.lane, a, Us) = ReceiveMessages(middle, Us, 1, 0)
    BY <1>5, <2>1, <2>2
  <2>4. LastAccepted(middle, Us, 1, 0) = LastDeliveredNonce(middle)
    <3>1. LastDeliveredNonce(middle) + 1 \notin 1 .. 0
      BY <1>1, <1>4
    <3> QED
      BY <3>1 DEF LastAccepted
  <2>5. ReceiveMessages(middle, Us, 1, 0) = middle
    BY <2>4 DEF ReceiveMessages
  <2>6. Blocked(best.lane)
    BY <1>7, LimitFacts
  <2> QED
    BY <1>4, <2>3, <2>5, <2>6
<1> QED
  BY <1>6, <1>7, SelectedMeans

\* select_race_action wastes no transaction: if the target is as the strategy
\* believes it to be, what it selects has a message received, or frees an entry
\* of a lane that is blocked.
THEOREM SelectionsAreUseful == RaceSpec => SelectionIsUseful
<1>1. ASSUME RaceInv, Loop
      PROVE  UsefulIfUpToDate
  <2> DEFINE request == race'.sourceRequest
  <2> SUFFICES ASSUME request.kind = "proof", request # race.sourceRequest,
                      race'.targetNonces = NoncesAt(best.lane)
               PROVE  LET after == Received(best.lane, request.nonces, Us)
                      IN  \/ LastDeliveredNonce(after) \in request.nonces.first .. request.nonces.last
                          \/ /\ request.nonces.last = 0
                             /\ Len(after.relayers) < Len(best.lane.relayers)
    BY DEF UsefulIfUpToDate
  <2>1. PICK r : IsSelected(r, request) /\ race'.targetNonces = r.targetNonces
    BY <1>1, LoopGoesOn DEF GoesOn
  <2>2. PICK at : /\ HeaderOK(at, source)
                  /\ \E a \in SelectRaceAction(r, at) :
                       request = [kind |-> "proof", nonces |-> a, batch |-> r.batch # None]
    BY <2>1 DEF IsSelected
  <2>3. PICK a \in SelectRaceAction(r, at) :
           request = [kind |-> "proof", nonces |-> a, batch |-> r.batch # None]
    BY <2>2
  <2>4. request.nonces = a
    BY <2>3
  <2>5. RaceOK(r, source, Delivered) /\ r.targetNonces = NoncesAt(best.lane)
    BY <2>1 DEF IsSelected
  <2> HIDE DEF request
  <2> QED
    BY <1>1, <2>2, <2>4, <2>5, SelectedIsUseful
<1>2. ASSUME Chains \/ UNCHANGED vars
      PROVE  UsefulIfUpToDate
  <2>1. race' = race
    BY <1>2 DEF Chains, SourceBlock, ImportHeader, MineTransaction, OtherDelivers, Finalize, vars
  <2> QED
    BY <2>1 DEF UsefulIfUpToDate
<1>3. RaceInv /\ [Next]_vars => [UsefulIfUpToDate]_vars
  BY <1>1, <1>2 DEF Next
<1> QED
  BY <1>3, RaceInvariant, PTL DEF RaceSpec, SelectionIsUseful

-----------------------------------------------------------------------------
(***************************************************************************)
(* The race does not wait in vain.                                         *)
(***************************************************************************)

\* What is selected does not depend on the requests under way.
LEMMA SameSelection ==
    ASSUME NEW r, NEW s, s.toSubmit = r.toSubmit, s.submitted = r.submitted,
           s.bestTargetNonce = r.bestTargetNonce, s.targetNonces = r.targetNonces,
           s.queue = r.queue, s.confirmedQueue = r.confirmedQueue, NEW at
    PROVE  SelectRaceAction(s, at) = SelectRaceAction(r, at)
<1>1. LatestConfirmedNonceAtSource(s, at) = LatestConfirmedNonceAtSource(r, at)
  BY DEF LatestConfirmedNonceAtSource
<1>2. AvailableIndices(s, at) = AvailableIndices(r, at)
  BY DEF AvailableIndices
<1>3. UnrewardedLimitReached(s) <=> UnrewardedLimitReached(r)
  BY DEF UnrewardedLimitReached
<1>4. \A c : /\ FutureConfirmedNonceAtTarget(s, c) = FutureConfirmedNonceAtTarget(r, c)
             /\ MaxNoncesInBatch(s, c) = MaxNoncesInBatch(r, c)
  BY DEF FutureConfirmedNonceAtTarget, MaxNoncesInBatch
<1>5. \A indices, max : Decide(s, indices, max) = Decide(r, indices, max)
  BY DEF Decide
<1>6. Ranges(s, at) = Ranges(r, at)
  BY <1>1, <1>2, <1>4, <1>5 DEF Ranges, FutureConfirmed
<1>7. RewardsToProve(s, at) = RewardsToProve(r, at)
  BY <1>1 DEF RewardsToProve
<1>8. EnoughRewards(s, at) <=> EnoughRewards(r, at)
  BY <1>1 DEF EnoughRewards
<1>9. CanSelect(s, at) <=> CanSelect(r, at)
  BY DEF CanSelect
<1> DEFINE selected(x) == IF Ranges(x, at) # {} THEN Ranges(x, at)
                          ELSE IF UnrewardedLimitReached(x) /\ RewardsToProve(x, at)
                          THEN {[first |-> 1, last |-> 0]} ELSE {}
<1>10. ASSUME NEW x
       PROVE  SelectRaceAction(x, at)
              = IF ~CanSelect(x, at) \/ (UnrewardedLimitReached(x) /\ ~EnoughRewards(x, at)) THEN {}
                ELSE {[first |-> y.first, last |-> y.last, withState |-> RewardsToProve(x, at),
                       at |-> at] : y \in selected(x)}
  BY DEF SelectRaceAction, Ranges, RewardsToProve, FutureConfirmed, CanSelect, EnoughRewards
<1>11. selected(s) = selected(r)
  BY <1>3, <1>6, <1>7
<1> HIDE DEF selected
<1> QED
  BY <1>3, <1>7, <1>8, <1>9, <1>10, <1>11

\* The race that has had an answer and has nothing under way, just before it
\* looks for work.
IsIdle(r) ==
    /\ r.sourceRequest = Idle /\ r.targetRequest = Idle /\ r.batch = None
    /\ r.toSubmit = None /\ r.submitted = None

LEMMA IdleAsks ==
    ASSUME NEW r, DOMAIN r = DOMAIN FreshRace, IsIdle(r), NEW t \in LoopEnd(r),
           SelectRaceAction(r, r.peer) # {} \/ r.requiredHeader # None
    PROVE  t.sourceRequest.kind = "proof" \/ t.targetRequest.kind = "require"
<1>1. PICK s \in AskSource(r) : t = AskTarget(s)
  BY DEF LoopEnd
<1>2. DOMAIN s = DOMAIN FreshRace
  BY AskSourceFacts
<1>3. t.sourceRequest = s.sourceRequest
  BY <1>1, <1>2, AskTargetFacts
<1>4. CASE SelectRaceAction(r, r.peer) # {}
  <2> DEFINE taken == [r EXCEPT !.batch = None]
             asked(a) == [taken EXCEPT !.sourceRequest =
                            [kind |-> "proof", nonces |-> a, batch |-> r.batch # None]]
  <2>1. \E a \in SelectRaceAction(r, r.peer) : s = asked(a)
    BY <1>4 DEF AskSource, IsIdle
  <2>2. PICK a \in SelectRaceAction(r, r.peer) : s = asked(a)
    BY <2>1
  <2>3. DOMAIN taken = DOMAIN FreshRace
    OBVIOUS
  <2> HIDE DEF taken
  <2>4. s.sourceRequest.kind = "proof"
    BY <2>2, <2>3, Fields
  <2> QED
    BY <1>3, <2>4
<1>5. CASE SelectRaceAction(r, r.peer) = {} /\ r.requiredHeader # None
  <2>1. s = [r EXCEPT !.batch = None]
    BY <1>5 DEF AskSource, IsIdle
  <2>2. s.targetRequest = Idle /\ s.toSubmit = None /\ s.requiredHeader # None
    BY <1>5, <2>1, Fields DEF IsIdle
  <2>3. t = [s EXCEPT !.targetRequest = [kind |-> "require", header |-> s.requiredHeader]]
    BY <1>1, <2>2 DEF AskTarget
  <2>4. t.targetRequest.kind = "require"
    BY <1>2, <2>3, Fields
  <2> QED
    BY <2>4
<1> QED
  BY <1>4, <1>5

\* The ends of the queues after news of the newest source block.
IsUpToDate(r, d) ==
    /\ RaceOK(r, source, d) /\ r.toSubmit = None /\ r.submitted = None
    /\ r.targetNonces = NoncesAt(best.lane)
    /\ r.confirmedQueue # <<>>
    /\ r.confirmedQueue[Len(r.confirmedQueue)].nonce = source[Len(source)].confirmed
    /\ source[Len(source)].generated > d =>
         r.queue # <<>> /\ r.queue[Len(r.queue)].last > d

LEMMA UpToDateSelects ==
    ASSUME RaceInv, NEW r, IsUpToDate(r, Delivered), NEW at \in DOMAIN source
    PROVE  CanSelect(r, at) /\ MaySelect(r, at, source, Delivered)
<1>1. Delivered \in Nat /\ SourceOK(source, Delivered)
  BY ChainFacts
<1>2. at \in Nat
  BY <1>1, SourceTypes
<1>3. RaceOK(r, source, Delivered)
  BY DEF IsUpToDate
<1>4. NoncesOK(r.targetNonces, Delivered)
  BY ChainFacts, NoncesAreRead DEF IsUpToDate, Delivered
<1>5. r.targetNonces # None
  BY <1>4, RaceAssumption DEF NoncesOK
<1>6. r.bestTargetNonce = r.targetNonces.latest
  BY <1>3, <1>5 DEF RaceOK, BestNonceOK
<1>7. r.bestTargetNonce # None /\ at # None
  BY <1>2, <1>4, <1>6, RaceAssumption DEF NoncesOK
<1>8. CanSelect(r, at)
  BY <1>5, <1>7 DEF CanSelect, IsUpToDate
<1>9. HeaderOK(at, source)
  BY DEF HeaderOK
<1> QED
  BY <1>1, <1>3, <1>8, <1>9, CanSelectMeans

\* A lane that is blocked and has its oldest entry confirmed.
LEMMA RewardIsSelected ==
    ASSUME RaceInv, NEW r, IsUpToDate(r, Delivered), Blocked(best.lane),
           best.lane.relayers[1].end <= source[Len(source)].confirmed
    PROVE  SelectRaceAction(r, r.confirmedQueue[Len(r.confirmedQueue)].at) # {}
<1> DEFINE queue == r.confirmedQueue
           m == Len(queue)
           at == queue[m].at
           known == {i \in DOMAIN queue : queue[i].at <= at}
<1>1. ConfirmedQueueOK(queue, source) /\ queue # <<>> /\ queue[m].nonce = source[Len(source)].confirmed
  BY DEF IsUpToDate, RaceOK
<1>2. m \in Nat /\ DOMAIN queue = 1 .. m /\ m # 0
  BY <1>1, LenProperties, EmptySeq DEF ConfirmedQueueOK
<1>3. SourceOK(source, Delivered)
  BY ChainFacts
<1>4. m \in DOMAIN queue /\ at \in DOMAIN source /\ at \in Nat
  <2> HIDE DEF queue, m
  <2>1. m \in DOMAIN queue
    BY <1>2
  <2>2. at \in DOMAIN source
    BY <1>1, <2>1 DEF ConfirmedQueueOK
  <2> HIDE DEF at
  <2> QED
    BY <1>3, <2>1, <2>2, SourceTypes
<1>5. CanSelect(r, at) /\ MaySelect(r, at, source, Delivered)
  BY <1>4, UpToDateSelects
<1>6. LatestConfirmedNonceAtSource(r, at) = queue[m].nonce
  <2>1. m \in known /\ known # {}
    BY <1>4
  <2>2. LatestConfirmedNonceAtSource(r, at) = queue[Max(known)].nonce
    BY <2>1 DEF LatestConfirmedNonceAtSource
  <2>3. known \in SUBSET (1 .. m)
    BY <1>2
  <2> HIDE DEF known, m
  <2>4. Max(known) \in known /\ \A x \in known : Max(known) >= x
    BY <1>2, <2>1, <2>3, GreatestIndex
  <2>5. Max(known) \in 1 .. m /\ Max(known) >= m
    BY <2>1, <2>3, <2>4
  <2>6. Max(known) = m
    BY <1>2, <2>5
  <2> QED
    BY <2>2, <2>6
<1> HIDE DEF at, m, known
<1>7. r.targetNonces = NoncesAt(best.lane)
  BY DEF IsUpToDate
<1>8. EnoughRewards(r, at) /\ RewardsToProve(r, at)
  BY <1>1, <1>5, <1>6, <1>7, EnoughMeans
<1>9. UnrewardedLimitReached(r)
  BY <1>7, LimitFacts
<1>10. SelectRaceAction(r, at) # {}
  BY <1>5, <1>8, <1>9, SomethingIsSelected
<1> QED
  BY <1>10 DEF at, m

\* A lane that is not blocked, and a message that is not delivered.
LEMMA DeliveryIsSelected ==
    ASSUME RaceInv, NEW r, IsUpToDate(r, Delivered), ~Blocked(best.lane),
           source[Len(source)].generated > Delivered
    PROVE  r.queue # <<>> /\ SelectRaceAction(r, r.queue[Len(r.queue)].at) # {}
<1> DEFINE queue == r.queue
           n == Len(queue)
           at == queue[n].at
           lane == best.lane
           c == lane.last_confirmed_nonce
           fc == FutureConfirmed(r, at)
<1>1. QueueOK(queue, source, Delivered) /\ queue # <<>> /\ queue[n].last > Delivered
      /\ r.targetNonces = NoncesAt(lane)
  BY DEF IsUpToDate, RaceOK
<1>2. Delivered \in Nat /\ SourceOK(source, Delivered) /\ lane \in InboundLaneData
      /\ WellFormed(lane)
  BY ChainFacts
<1>3. n \in Nat /\ n # 0 /\ DOMAIN queue = 1 .. n /\ n \in DOMAIN queue /\ queue[n].last \in Nat
  BY <1>1, QueueTypes
<1>4. at \in DOMAIN source /\ \A j \in DOMAIN queue : queue[j].at <= at
  <2> HIDE DEF queue, n
  <2>1. at \in DOMAIN source
    BY <1>1, <1>3 DEF QueueOK
  <2>2. \A j \in DOMAIN queue : j <= n
    BY <1>3
  <2>3. \A j \in DOMAIN queue : queue[j].at <= at
    BY <1>1, <1>3, <2>2 DEF QueueOK
  <2> QED
    BY <2>1, <2>3
<1>5. CanSelect(r, at) /\ MaySelect(r, at, source, Delivered)
  BY <1>4, UpToDateSelects
<1>6. r.targetNonces.latest = Delivered /\ r.targetNonces.confirmed = c
      /\ ~UnrewardedLimitReached(r)
  BY <1>1, LimitFacts
<1>7. r.bestTargetNonce = Delivered
  BY <1>5, <1>6 DEF MaySelect
<1>8. n \in AvailableIndices(r, at) /\ Delivered + 1 <= queue[n].last
  BY <1>1, <1>2, <1>3, <1>4, <1>7 DEF AvailableIndices
<1>9. /\ fc \in Nat /\ c \in Nat /\ c <= fc /\ MaxNoncesInBatch(r, fc) \in Nat
      /\ fc = c \/ fc <= source[at].confirmed
  BY <1>5, <1>6, FutureConfirmedFacts
<1>10. /\ source[at].confirmed \in Nat /\ source[at].confirmed <= Delivered
       /\ c <= Delivered
  BY <1>2, <1>4, SourceTypes, LastDeliveredAboveConfirmed DEF SourceOK, Delivered
<1>11. Delivered - c < MaxUnconfirmedMessages
  <2>1. lane.relayers \in Seq(UnrewardedRelayer) /\ c \in Nat
    BY <1>2, LastDeliveredType
  <2>2. CASE lane.relayers = <<>>
    <3>1. Delivered = c
      BY <2>2 DEF Delivered, LastDeliveredNonce
    <3> QED
      BY <2>1, <3>1, LimitsAssumption
  <2>3. CASE lane.relayers # <<>>
    <3> DEFINE front == lane.relayers[1].begin
               back == lane.relayers[Len(lane.relayers)].end
    <3>1. front = c + 1 /\ back = Delivered
      BY <1>2, <2>3 DEF WellFormed, Delivered, LastDeliveredNonce
    <3>2. c < Delivered
      BY <1>2, <2>3, LastDeliveredAboveConfirmed DEF Delivered
    <3>3. TotalUnrewardedMessages(lane) = IF front <= back THEN back - front + 1 ELSE 0
      BY <2>3 DEF TotalUnrewardedMessages
    <3> HIDE DEF front, back
    <3>4. TotalUnrewardedMessages(lane) = Delivered - c
      BY <1>2, <2>1, <3>1, <3>2, <3>3
    <3>5. ~(TotalUnrewardedMessages(lane) >= MaxUnconfirmedMessages)
      BY DEF Blocked
    <3> QED
      BY <1>2, <2>1, <3>4, <3>5, LimitsAssumption
  <2> QED
    BY <2>2, <2>3
<1>12. MaxNoncesInBatch(r, fc) # 0
  <2>1. NoncesOK(r.targetNonces, Delivered)
    BY <1>5 DEF MaySelect
  <2> HIDE DEF fc, c
  <2>2. fc <= Delivered /\ MaxUnconfirmedMessages - (Delivered - fc) >= 1
    <3>1. fc \in Nat /\ c \in Nat /\ Delivered \in Nat /\ MaxUnconfirmedMessages \in Nat
      BY <1>2, <1>9, LimitsAssumption
    <3>2. fc <= Delivered
      BY <1>9, <1>10, <3>1
    <3>3. c <= fc
      BY <1>9
    <3> QED
      BY <1>11, <3>1, <3>2, <3>3
  <2> QED
    BY <1>2, <1>6, <1>9, <2>1, <2>2, MaxNoncesFacts
<1> HIDE DEF at, n, fc, c, lane
<1>13. Decide(r, AvailableIndices(r, at), MaxNoncesInBatch(r, fc)) # {}
  BY <1>5, <1>8, <1>9, <1>12, DecideFinds
<1>14. Ranges(r, at) # {}
  BY <1>13 DEF Ranges, fc
<1>15. SelectRaceAction(r, at) # {}
  BY <1>5, <1>6, <1>14, SomethingIsSelected
<1> QED
  BY <1>1, <1>15 DEF at, n

\* The answer about the newest source block, to a race that has asked for what
\* comes after all that it knows.
LEMMA AnswerIsUpToDate ==
    ASSUME RaceInv, NEW r, RaceOK(r, source, Delivered), r.sourceRequest = Idle,
           r.toSubmit = None, r.submitted = None, r.targetNonces = NoncesAt(best.lane),
           IsAnswer(r, Len(source), BestAtSource(r), Delivered)
    PROVE  IsUpToDate(SourceNoncesUpdated(r, Len(source), BestAtSource(r)), Delivered)
<1> DEFINE at == Len(source)
           prev == BestAtSource(r)
           s == SourceNoncesUpdated(r, at, prev)
           first == FirstNew(r, prev)
           last == source[at].generated
           n == Len(r.queue)
           e == [at |-> at, first |-> first, last |-> last]
           ce == [at |-> at, nonce |-> source[at].confirmed]
<1>1. Delivered \in Nat /\ SourceOK(source, Delivered)
  BY ChainFacts
<1>2. RaceOK(s, source, Delivered)
  BY <1>1, SourceNewsOK
<1>3. DOMAIN r = DOMAIN FreshRace /\ QueueOK(r.queue, source, Delivered)
      /\ ConfirmedQueueOK(r.confirmedQueue, source)
      /\ BestNonceOK(r.bestTargetNonce, r.targetNonces, Delivered)
  BY DEF RaceOK
<1>4. /\ s.toSubmit = r.toSubmit /\ s.submitted = r.submitted /\ s.targetNonces = r.targetNonces
      /\ s.queue = IF first <= last THEN Append(r.queue, e) ELSE r.queue
      /\ s.confirmedQueue =
           IF \/ r.confirmedQueue = <<>>
              \/ r.confirmedQueue[Len(r.confirmedQueue)].nonce # source[at].confirmed
           THEN Append(r.confirmedQueue, ce) ELSE r.confirmedQueue
  BY <1>3, SourceNewsFields
<1>5. at \in DOMAIN source /\ at \in Nat /\ last \in Nat /\ source[at].confirmed \in Nat
  BY <1>1, SourceTypes
<1>6. r.bestTargetNonce = Delivered /\ r.bestTargetNonce # None
  <2>1. NoncesOK(r.targetNonces, Delivered)
    BY ChainFacts, NoncesAreRead DEF Delivered
  <2>2. r.targetNonces # None
    BY <2>1, RaceAssumption DEF NoncesOK
  <2>3. r.bestTargetNonce = r.targetNonces.latest
    BY <1>3, <2>2 DEF BestNonceOK
  <2>4. r.targetNonces.latest = Delivered
    BY LimitFacts
  <2> QED
    BY <1>1, <2>3, <2>4, RaceAssumption
<1>7. /\ n \in Nat /\ (r.queue # <<>> => r.queue[n].last \in Nat)
  BY <1>3, QueueTypes
<1>8. /\ first \in Nat
      /\ first = IF r.queue # <<>> /\ r.queue[n].last > Delivered THEN r.queue[n].last + 1
                 ELSE Delivered + 1
  <2>1. prev = IF r.queue # <<>> /\ r.queue[n].last > Delivered THEN r.queue[n].last ELSE Delivered
    BY <1>6 DEF BestAtSource
  <2>2. BestInQueue(r) = IF r.queue # <<>> THEN r.queue[n].last ELSE Delivered
    BY <1>6 DEF BestInQueue
  <2>3. prev \in Nat /\ BestInQueue(r) \in Nat
    BY <1>1, <1>7, <2>1, <2>2
  <2> HIDE DEF prev
  <2>4. Max({prev, BestInQueue(r)}) = IF prev >= BestInQueue(r) THEN prev ELSE BestInQueue(r)
    BY <2>3, LargerOf
  <2>5. first = Max({prev, BestInQueue(r)}) + 1
    BY DEF FirstNew
  <2> HIDE DEF first, n
  <2> QED
    BY <1>1, <1>7, <2>1, <2>2, <2>3, <2>4, <2>5
<1> HIDE DEF s, first, prev
<1>9. s.confirmedQueue # <<>> /\ s.confirmedQueue[Len(s.confirmedQueue)].nonce = source[at].confirmed
  <2> DEFINE queue == r.confirmedQueue
             entries == [at : Nat, nonce : Nat]
  <2>1. CASE queue = <<>> \/ queue[Len(queue)].nonce # source[at].confirmed
    <3>1. ce \in entries /\ ce.nonce = source[at].confirmed /\ queue \in Seq(entries)
      BY <1>3, <1>5 DEF ConfirmedQueueOK
    <3> HIDE DEF ce, entries
    <3>2. /\ Append(queue, ce) \in Seq(entries) /\ Len(Append(queue, ce)) = Len(queue) + 1
          /\ Append(queue, ce)[Len(queue) + 1] = ce /\ Len(queue) \in Nat
      BY <3>1, AppendProperties, LenProperties
    <3> HIDE DEF queue
    <3>3. Len(Append(queue, ce)) # 0
      BY <3>2
    <3>4. Append(queue, ce) # <<>>
      BY <3>3, EmptySeq
    <3> QED
      BY <1>4, <2>1, <3>1, <3>2, <3>4 DEF queue
  <2> QED
    BY <1>4, <2>1
<1>10. ASSUME last > Delivered
       PROVE  s.queue # <<>> /\ s.queue[Len(s.queue)].last > Delivered
  <2> DEFINE entries == [at : Nat, first : Nat, last : Nat]
  <2>1. CASE first <= last
    <3>1. e \in entries /\ e.last = last /\ r.queue \in Seq(entries)
      BY <1>3, <1>5, <1>8 DEF QueueOK
    <3> HIDE DEF e, entries
    <3>2. /\ Append(r.queue, e) \in Seq(entries) /\ Len(Append(r.queue, e)) = n + 1
          /\ Append(r.queue, e)[n + 1] = e
      BY <3>1, AppendProperties
    <3>3. Append(r.queue, e) # <<>>
      BY <1>7, <3>2, EmptySeq
    <3> QED
      BY <1>4, <1>10, <2>1, <3>1, <3>2, <3>3
  <2>2. CASE ~(first <= last)
    <3>1. r.queue # <<>> /\ r.queue[n].last > Delivered
      BY <1>1, <1>5, <1>8, <1>10, <2>2
    <3> QED
      BY <1>4, <2>2, <3>1
  <2> QED
    BY <2>1, <2>2
<1> QED
  BY <1>2, <1>4, <1>9, <1>10 DEF IsUpToDate, s, prev

\* What can be delivered with the newest block, if it can with an older one.
LEMMA DeliverableMeans ==
    ASSUME RaceInv, NEW h \in DOMAIN source, Deliverable(h)
    PROVE  /\ Blocked(best.lane) =>
                best.lane.relayers[1].end <= source[Len(source)].confirmed
           /\ ~Blocked(best.lane) => source[Len(source)].generated > Delivered
<1> DEFINE lane == best.lane
           n == Len(source)
           sh == source[h].confirmed
           new == ReceiveStateUpdate(lane, sh)
<1>1. /\ SourceOK(source, Delivered) /\ lane \in InboundLaneData /\ Delivered \in Nat
      /\ LastDeliveredNonce(lane) = Delivered
  BY ChainFacts DEF Delivered
<1>2. /\ h \in Nat /\ n \in DOMAIN source /\ DOMAIN source = 1 .. n /\ n \in Nat
      /\ sh \in Nat /\ source[h].generated \in Nat
      /\ source[n].confirmed \in Nat /\ source[n].generated \in Nat
  BY <1>1, SourceTypes
<1>3. h <= n
  BY <1>2
<1>4. sh <= source[n].confirmed /\ source[h].generated <= source[n].generated
  BY <1>1, <1>2, <1>3 DEF SourceOK
<1>5. ASSUME Blocked(lane)
      PROVE  lane.relayers[1].end <= source[n].confirmed
  <2>1. Len(new.relayers) < Len(lane.relayers)
    BY <1>5 DEF Deliverable, Blocked
  <2>2. lane.relayers \in Seq(UnrewardedRelayer) /\ lane.last_confirmed_nonce \in Nat
    BY <1>1, LastDeliveredType
  <2>3. Len(lane.relayers) \in Nat
    BY <2>2, EntryTypes
  <2>4. new # lane
    BY <2>1, <2>3
  <2>5. ~(sh > LastDeliveredNonce(lane) \/ sh <= lane.last_confirmed_nonce)
    BY <2>4 DEF ReceiveStateUpdate
  <2> HIDE DEF sh, lane
  <2>6. lane.last_confirmed_nonce < sh /\ sh <= LastDeliveredNonce(lane)
    BY <1>1, <1>2, <2>2, <2>5
  <2>7. lane.relayers # <<>> /\ lane.relayers[1].end <= sh
    BY <1>1, <1>2, <2>1, <2>6, RewardsPop
  <2>8. lane.relayers[1].end \in Nat
    BY <1>5, <2>2, <2>7, EntryTypes
  <2> QED
    BY <1>2, <1>4, <2>7, <2>8
<1>6. ASSUME ~Blocked(lane)
      PROVE  source[n].generated > Delivered
  <2>1. LastDeliveredNonce(lane) + 1 <= source[h].generated
    BY <1>6 DEF Deliverable, Blocked
  <2> HIDE DEF n
  <2> QED
    BY <1>1, <1>2, <1>4, <2>1
<1> QED
  BY <1>5, <1>6

LEMMA UpToDateFindsWork ==
    ASSUME RaceInv, NEW r, IsUpToDate(r, Delivered), NEW h \in DOMAIN source, Deliverable(h)
    PROVE  SelectRaceAction(r, r.peer) # {} \/ RequiredSourceHeaderAtTarget(r) # None
<1> DEFINE forDelivery == IF r.queue = <<>> THEN None ELSE r.queue[Len(r.queue)].at
           forReward == IF r.confirmedQueue = <<>> THEN None
                        ELSE r.confirmedQueue[Len(r.confirmedQueue)].at
<1>1. r.submitted = None /\ r.confirmedQueue # <<>>
  BY DEF IsUpToDate
<1>2. SelectRaceAction(r, forDelivery) # {} \/ SelectRaceAction(r, forReward) # {}
  <2>1. CASE Blocked(best.lane)
    <3>1. SelectRaceAction(r, r.confirmedQueue[Len(r.confirmedQueue)].at) # {}
      BY <2>1, DeliverableMeans, RewardIsSelected
    <3> QED
      BY <1>1, <3>1
  <2>2. CASE ~Blocked(best.lane)
    <3>1. r.queue # <<>> /\ SelectRaceAction(r, r.queue[Len(r.queue)].at) # {}
      BY <2>2, DeliverableMeans, DeliveryIsSelected
    <3> QED
      BY <3>1
  <2> QED
    BY <2>1, <2>2
<1>3. \A at : SelectRaceAction(r, at) # {} => at # None
  BY SelectedMeans DEF CanSelect
<1>4. RequiredSourceHeaderAtTarget(r)
      = IF r.submitted # None \/ SelectRaceAction(r, r.peer) # {} THEN None
        ELSE IF SelectRaceAction(r, forDelivery) # {} THEN forDelivery
        ELSE IF SelectRaceAction(r, forReward) # {} THEN forReward ELSE None
  BY DEF RequiredSourceHeaderAtTarget
<1> HIDE DEF forDelivery, forReward
<1> QED
  BY <1>1, <1>2, <1>3, <1>4

LEMMA SourceNoncesFindsWork ==
    ASSUME RaceInv, TrackedInv, SourceNonces
    PROVE  FindsWork
<1> DEFINE request == race.sourceRequest
           after(r) == [r EXCEPT !.requiredHeader = RequiredSourceHeaderAtTarget(r)]
           done == [race EXCEPT !.sourceRequest = Idle]
           news == SourceNoncesUpdated(done, request.at, request.prev)
           failed == [done EXCEPT !.sourceRequest = Offline]
<1> SUFFICES ASSUME request.at = Len(source), request.prev = BestAtSource(race),
                    race.targetNonces = NoncesAt(best.lane),
                    race.toSubmit = None, race.submitted = None,
                    race.targetRequest = Idle, race.batch = None,
                    race'.sourceRequest # Offline,
                    NEW h \in best.peer .. Len(source), Deliverable(h)
             PROVE  race'.sourceRequest.kind = "proof" \/ race'.targetRequest.kind = "require"
  BY LastDeliveredType, ChainFacts DEF FindsWork, TrackedInv, Delivered
<1>1. /\ Delivered \in Nat /\ SourceOK(source, Delivered) /\ RaceOK(race, source, Delivered)
      /\ best.peer \in DOMAIN source /\ DOMAIN race = DOMAIN FreshRace
  BY ChainFacts
<1>2. h \in DOMAIN source
  BY <1>1, SourceTypes
<1>3. /\ RaceOK(done, source, Delivered) /\ RaceOK(failed, source, Delivered)
      /\ failed.sourceRequest = Offline
  BY <1>1, Answered
<1>4. /\ DOMAIN done = DOMAIN FreshRace /\ done.sourceRequest = Idle
      /\ done.queue = race.queue /\ done.bestTargetNonce = race.bestTargetNonce
      /\ done.targetNonces = race.targetNonces /\ done.toSubmit = None /\ done.submitted = None
      /\ done.targetRequest = Idle /\ done.batch = None
  BY <1>1, Fields
<1>5. request.kind = "nonces" /\ SourceRequestOK(request, race.queue, source, Delivered)
  BY <1>1 DEF SourceNonces, RaceOK
<1>6. Continue(after(news)) \/ Continue(after(failed))
  BY DEF SourceNonces
<1> HIDE DEF done, failed
<1>7. BestAtSource(done) = BestAtSource(race)
  BY <1>4 DEF BestAtSource
<1>8. IsAnswer(done, request.at, request.prev, Delivered)
  BY <1>4, <1>5 DEF IsAnswer, SourceRequestOK
<1>9. IsUpToDate(news, Delivered)
  <2>1. IsAnswer(done, Len(source), BestAtSource(done), Delivered)
    BY <1>7, <1>8
  <2>2. IsUpToDate(SourceNoncesUpdated(done, Len(source), BestAtSource(done)), Delivered)
    BY <1>3, <1>4, <2>1, AnswerIsUpToDate
  <2> QED
    BY <1>7, <2>2
<1>10. /\ DOMAIN news = DOMAIN FreshRace /\ news.sourceRequest = Idle
       /\ news.targetRequest = Idle /\ news.batch = None
       /\ news.toSubmit = None /\ news.submitted = None
  BY <1>4, Fields DEF SourceNoncesUpdated
<1> HIDE DEF news
<1>11. ~Continue(after(failed))
  <2> SUFFICES ASSUME Continue(after(failed))
               PROVE  FALSE
    OBVIOUS
  <2>1. RaceOK(after(failed), source, Delivered) /\ after(failed).sourceRequest = Offline
    BY <1>3, HeaderIsRequired
  <2>2. PICK t \in LoopEnd(after(failed)) : race' = t
    BY DEF Continue
  <2> HIDE DEF after
  <2>3. MakesRequest(after(failed), t)
    BY <1>1, <2>1, LoopEndOK
  <2> QED
    BY <2>1, <2>2, <2>3, NotProofs DEF MakesRequest
<1>12. PICK t \in LoopEnd(after(news)) : race' = t
  BY <1>6, <1>11 DEF Continue
<1> DEFINE s == after(news)
           required == RequiredSourceHeaderAtTarget(news)
<1>13. SelectRaceAction(news, news.peer) # {} \/ required # None
  BY <1>2, <1>9, UpToDateFindsWork
<1>14. s = [news EXCEPT !.requiredHeader = required]
  OBVIOUS
<1> HIDE DEF after, required, s
<1>15. /\ DOMAIN s = DOMAIN FreshRace /\ s.sourceRequest = Idle
       /\ s.targetRequest = Idle /\ s.batch = None /\ s.toSubmit = news.toSubmit
       /\ s.submitted = news.submitted /\ s.requiredHeader = required /\ s.peer = news.peer
       /\ s.queue = news.queue /\ s.confirmedQueue = news.confirmedQueue
       /\ s.bestTargetNonce = news.bestTargetNonce /\ s.targetNonces = news.targetNonces
  BY <1>10, <1>14, Fields
<1>16. SelectRaceAction(s, s.peer) = SelectRaceAction(news, news.peer)
  BY <1>15, SameSelection
<1>17. IsIdle(s)
  BY <1>10, <1>15 DEF IsIdle
<1>18. t \in LoopEnd(s)
  BY <1>12 DEF s
<1>19. t.sourceRequest.kind = "proof" \/ t.targetRequest.kind = "require"
  BY <1>13, <1>15, <1>16, <1>17, <1>18, IdleAsks
<1> QED
  BY <1>12, <1>19

\* required_source_header_at_target and select_race_action leave nothing
\* undone: a race that has just read the nonces of the newest source block,
\* knows the target and has nothing under way asks for a proof or for a header,
\* if there is a block with which the lane could go on.
THEOREM RaceNeverWaitsInVain == RaceSpec => NeverWaitsInVain
<1>1. ASSUME RaceInv, TrackedInv, Loop
      PROVE  FindsWork
  <2>1. race.sourceRequest.kind = "nonces" =>
          race'.sourceRequest = race.sourceRequest \/ SourceNonces \/ race' = FreshRace
    BY <1>1, LoopGoesOn DEF GoesOn
  <2>2. CASE SourceNonces
    BY <1>1, <2>2, SourceNoncesFindsWork
  <2>3. CASE ~SourceNonces
    BY <2>1, <2>3 DEF FindsWork
  <2> QED
    BY <2>2, <2>3
<1>2. ASSUME Chains \/ UNCHANGED vars
      PROVE  FindsWork
  <2>1. race' = race
    BY <1>2 DEF Chains, SourceBlock, ImportHeader, MineTransaction, OtherDelivers, Finalize, vars
  <2> QED
    BY <2>1 DEF FindsWork
<1>3. RaceInv /\ TrackedInv /\ [Next]_vars => [FindsWork]_vars
  BY <1>1, <1>2 DEF Next
<1> QED
  BY <1>3, RaceInvariant, RaceTracksItsTransactions, PTL DEF RaceSpec, NeverWaitsInVain

=============================================================================
