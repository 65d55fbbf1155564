-------------------------- MODULE LightClientProofs --------------------------
(***************************************************************************)
(* The GRANDPA client and the parachains client together, for every chain  *)
(* of headers, every assignment of heads, and rings of every size.         *)
(***************************************************************************)
EXTENDS ParachainHeads, FiniteSetTheorems, TLAPS

-----------------------------------------------------------------------------
(***************************************************************************)
(* Positions of a ring.                                                    *)
(***************************************************************************)

\* The position after index, and the position before that one.
LEMMA RingPositions ==
    ASSUME NEW K \in Nat \ {0}, NEW index \in 0 .. K - 1
    PROVE  /\ (index + 1) % K \in 0 .. K - 1
           /\ (((index + 1) % K) - 1) % K = index
<1>1. CASE index + 1 < K
  <2>1. (index + 1) % K = index + 1
    BY <1>1
  <2>2. index % K = index
    BY <1>1
  <2> QED
    BY <1>1, <2>1, <2>2
<1>2. CASE index + 1 = K
  <2>1. K % K = 0
    OBVIOUS
  <2>2. (-1) % K = K - 1
    OBVIOUS
  <2> QED
    BY <1>2, <2>1, <2>2
<1> QED
  BY <1>1, <1>2

-----------------------------------------------------------------------------
(***************************************************************************)
(* The sets of the bridged chain.                                          *)
(***************************************************************************)

\* The sets that sign a header and follow it are numbered, and differ by the
\* change that the header announces.
LEMMA SetsOfTheChain ==
    ASSUME NEW n \in Headers
    PROVE  /\ SetAt(n) \in Nat
           /\ SetAfter(n) \in Nat
           /\ ChangeAt[n] = "none" => SetAfter(n) = SetAt(n)
           /\ ChangeAt[n] # "none" => SetAfter(n) = SetAt(n) + 1
<1> DEFINE before == {m \in Headers : m < n /\ ChangeAt[m] # "none"}
           upTo == {m \in Headers : m <= n /\ ChangeAt[m] # "none"}
<1>1. IsFiniteSet(Headers)
  BY FS_Interval, GrandpaAssumption DEF Headers
<1>2. IsFiniteSet(before) /\ IsFiniteSet(upTo)
  <2>1. before \in SUBSET Headers /\ upTo \in SUBSET Headers
    OBVIOUS
  <2> QED
    BY <1>1, <2>1, FS_Subset
<1>3. Cardinality(before) \in Nat /\ Cardinality(upTo) \in Nat
  BY <1>2, FS_CardinalityType
<1>4. n \in Int /\ \A m \in Headers : m \in Int
  BY GrandpaAssumption DEF Headers
<1>5. CASE ChangeAt[n] = "none"
  <2>1. \A m \in Headers : m <= n /\ ChangeAt[m] # "none" <=> m < n /\ ChangeAt[m] # "none"
    BY <1>4, <1>5
  <2>2. upTo = before
    BY <2>1
  <2> QED
    BY <1>3, <1>5, <2>2 DEF SetAt, SetAfter
<1>6. CASE ChangeAt[n] # "none"
  <2>1. \A m \in Headers : m <= n <=> m < n \/ m = n
    BY <1>4
  <2>2. upTo = before \cup {n}
    BY <1>6, <2>1
  <2>3. n \notin before
    BY <1>4
  <2>4. Cardinality(upTo) = Cardinality(before) + 1
    BY <1>2, <2>2, <2>3, FS_AddElement
  <2> QED
    BY <1>3, <1>6, <2>4 DEF SetAt, SetAfter
<1> QED
  BY <1>5, <1>6

-----------------------------------------------------------------------------
(***************************************************************************)
(* The GRANDPA client.                                                     *)
(***************************************************************************)

LEMMA GrandpaInitially == GrandpaInit => GrandpaInv
<1> SUFFICES ASSUME GrandpaInit PROVE GrandpaInv
  OBVIOUS
<1>1. GrandpaTypeOK
  BY GrandpaAssumption DEF GrandpaInit, GrandpaTypeOK, AuthoritySet
<1>2. AuthoritiesFollowBest /\ HeadersUpToBest /\ RingIsDistinct
  BY GrandpaAssumption
     DEF GrandpaInit, AuthoritiesFollowBest, HeadersUpToBest, RingIsDistinct
<1>3. RingMatchesHeaders
  BY GrandpaAssumption DEF GrandpaInit, RingMatchesHeaders, Range
<1> QED
  BY <1>1, <1>2, <1>3 DEF GrandpaInv

\* insert_header keeps ring and headers in agreement, whatever header it is
\* given: the header whose position is taken goes.  Only a header that has a
\* position already can be lost in spite of its new one, and only a forced state
\* brings such a header.
LEMMA InsertHeaderKeepsRing ==
    ASSUME GrandpaTypeOK, RingMatchesHeaders, RingIsDistinct,
           NEW n \in Headers, NEW index \in 0 .. HeadersToKeep - 1,
           InsertHeader(n, index),
           forced' >= forced, forced' \in Nat,
           n \in headers => forced' > 0
    PROVE  RingMatchesHeaders' /\ RingIsDistinct'
<1> DEFINE P == 0 .. HeadersToKeep - 1
<1>1. HeadersToKeep \in Nat \ {0} /\ NoHeader \notin Headers
  BY GrandpaAssumption
<1>2. /\ hashes \in [P -> Headers \cup {NoHeader}]
      /\ headers \subseteq Headers
      /\ forced \in Nat
  BY DEF GrandpaTypeOK
<1>3. /\ hashes' = [hashes EXCEPT ![index] = n]
      /\ headers' = (headers \cup {n}) \ {hashes[index]}
      /\ best' = n
      /\ pointer' = (index + 1) % HeadersToKeep
  BY DEF InsertHeader
<1>4. /\ DOMAIN hashes = P /\ DOMAIN hashes' = P
      /\ hashes'[index] = n
      /\ \A i \in P \ {index} : hashes'[i] = hashes[i]
  BY <1>2, <1>3
<1>5. \A h \in headers : \E i \in P : h = hashes[i]
  BY <1>4 DEF RingMatchesHeaders, Range
<1>6. \A h \in headers' : \E i \in P : h = hashes'[i]
  <2> SUFFICES ASSUME NEW h \in headers' PROVE \E i \in P : h = hashes'[i]
    OBVIOUS
  <2>1. CASE h = n
    BY <1>4, <2>1
  <2>2. CASE h # n
    <3>1. h \in headers /\ h # hashes[index]
      BY <1>3, <2>2
    <3>2. PICK i \in P : h = hashes[i]
      BY <1>5, <3>1
    <3> QED
      BY <1>4, <3>1, <3>2
  <2> QED
    BY <2>1, <2>2
\* Without a forced state the header is a new one, with no position yet.
<1>7. ASSUME forced' = 0
      PROVE  /\ \A i \in P : hashes[i] # n
             /\ \A i \in P : hashes[i] # NoHeader => hashes[i] \in headers
             /\ \A i, j \in P : i # j /\ hashes[i] = hashes[j] => hashes[i] = NoHeader
             /\ NoHeader \notin headers
  <2>1. forced = 0 /\ n \notin headers
    BY <1>2, <1>7
  <2>2. \A i \in P : hashes[i] # NoHeader => hashes[i] \in headers
    BY <1>4, <2>1 DEF RingMatchesHeaders, Range
  <2> QED
    BY <1>1, <1>2, <2>1, <2>2 DEF RingIsDistinct
<1>8. RingIsDistinct'
  <2> SUFFICES ASSUME forced' = 0, NEW i \in P, NEW j \in P, i # j, hashes'[i] = hashes'[j]
               PROVE  hashes'[i] = NoHeader
    BY DEF RingIsDistinct
  <2>1. CASE i = index \/ j = index
    BY <1>4, <1>7, <2>1
  <2>2. CASE i # index /\ j # index
    BY <1>4, <1>7, <2>2
  <2> QED
    BY <2>1, <2>2
<1>9. ASSUME forced' = 0, NEW i \in P, hashes'[i] # NoHeader
      PROVE  hashes'[i] \in headers'
  <2>1. CASE i = index
    BY <1>3, <1>4, <1>7, <1>9, <2>1
  <2>2. CASE i # index
    <3>1. hashes[i] \in headers /\ hashes[i] # hashes[index]
      BY <1>4, <1>7, <1>9, <2>2
    <3> QED
      BY <1>3, <1>4, <2>2, <3>1
  <2> QED
    BY <2>1, <2>2
<1>10. forced' = 0 => headers' = Range(hashes') \ {NoHeader}
  <2> SUFFICES ASSUME forced' = 0 PROVE headers' = Range(hashes') \ {NoHeader}
    OBVIOUS
  <2>1. NoHeader \notin headers'
    BY <1>1, <1>3, <1>7
  <2> QED
    BY <1>4, <1>6, <1>9, <2>1 DEF Range
<1>11. best' = hashes'[(pointer' - 1) % HeadersToKeep]
  BY <1>1, <1>3, <1>4, RingPositions
<1>12. RingMatchesHeaders'
  BY <1>4, <1>6, <1>10, <1>11 DEF RingMatchesHeaders, Range
<1> QED
  BY <1>8, <1>12

LEMMA InsertHeaderType ==
    ASSUME GrandpaTypeOK, NEW n \in Headers, NEW index \in 0 .. HeadersToKeep - 1,
           InsertHeader(n, index)
    PROVE  /\ best' \in Headers \cup {NoHeader}
           /\ hashes' \in [0 .. HeadersToKeep - 1 -> Headers \cup {NoHeader}]
           /\ pointer' \in 0 .. HeadersToKeep - 1
           /\ headers' \subseteq Headers
  BY GrandpaAssumption, RingPositions DEF GrandpaTypeOK, InsertHeader

-----------------------------------------------------------------------------
\* Calls that leave the storage of headers alone.
LEMMA StorageUnchanged ==
    ASSUME GrandpaInv, UNCHANGED <<storageVars, forced>>, GrandpaTypeOK'
    PROVE  GrandpaInv'
  BY DEF GrandpaInv, storageVars, AuthoritiesFollowBest, RingMatchesHeaders, RingIsDistinct,
         HeadersUpToBest

\* Governance gives a header with the set that follows it.
LEMMA GovernanceKeepsInv ==
    ASSUME GrandpaInv, NEW n \in Headers,
           \/ \E mode \in BOOLEAN : Initialize(n, mode)
           \/ ForceSetPalletState(n)
    PROVE  GrandpaInv'
<1>1. SetAfter(n) \in Nat /\ n # NoHeader /\ n \in Int
  BY SetsOfTheChain, GrandpaAssumption DEF Headers
<1>2. HeadersToKeep \in Nat \ {0} /\ MaxForced \in Nat /\ MaxNumber \in Nat
  BY GrandpaAssumption
<1>3. CASE \E mode \in BOOLEAN : Initialize(n, mode)
  <2>1. InsertHeader(n, 0) /\ headers = {} /\ forced' = forced
    BY <1>3 DEF Initialize, GrandpaInv, HeadersUpToBest
  <2>2. 0 \in 0 .. HeadersToKeep - 1 /\ forced \in Nat
    BY <1>2 DEF GrandpaInv, GrandpaTypeOK
  <2>3. RingMatchesHeaders' /\ RingIsDistinct'
    BY <2>1, <2>2, InsertHeaderKeepsRing DEF GrandpaInv
  <2>4. GrandpaTypeOK'
    BY <1>1, <1>3, <2>1, <2>2, InsertHeaderType
       DEF GrandpaInv, GrandpaTypeOK, Initialize, AuthoritySet
  <2>5. AuthoritiesFollowBest' /\ HeadersUpToBest'
    BY <1>1, <1>3, <2>1
       DEF Initialize, InsertHeader, AuthoritiesFollowBest, HeadersUpToBest
  <2> QED
    BY <2>3, <2>4, <2>5 DEF GrandpaInv
<1>4. CASE ForceSetPalletState(n)
  <2>1. InsertHeader(n, pointer) /\ forced' = forced + 1
    BY <1>4 DEF ForceSetPalletState
  <2>2. pointer \in 0 .. HeadersToKeep - 1 /\ forced \in Nat
    BY <1>2 DEF GrandpaInv, GrandpaTypeOK
  <2>3. RingMatchesHeaders' /\ RingIsDistinct'
    BY <2>1, <2>2, InsertHeaderKeepsRing DEF GrandpaInv
  <2>4. GrandpaTypeOK'
    BY <1>1, <1>2, <1>4, <2>1, <2>2, InsertHeaderType
       DEF GrandpaInv, GrandpaTypeOK, ForceSetPalletState, AuthoritySet
  <2>5. AuthoritiesFollowBest' /\ HeadersUpToBest'
    BY <1>1, <1>4, <2>1, <2>2
       DEF ForceSetPalletState, InsertHeader, AuthoritiesFollowBest, HeadersUpToBest
  <2> QED
    BY <2>3, <2>4, <2>5 DEF GrandpaInv
<1> QED
  BY <1>3, <1>4

\* A finality proof: the justification is signed by the set that follows the
\* best header, so the header announces the only change since then.
LEMMA FinalityProofKeepsInv ==
    ASSUME GrandpaInv, NEW n \in Headers, NEW setId \in SetIds, NEW fits \in BOOLEAN,
           SubmitFinalityProof(n, setId, fits)
    PROVE  GrandpaInv'
<1>1. /\ InsertHeader(n, pointer)
      /\ forced' = forced
      /\ set' = EnactAuthorityChange(n)
      /\ best # NoHeader /\ n > best
      /\ set.authorities = SetAt(n)
      /\ ChangeAt[n] # "unsupported"
      /\ freeRemaining # -1
  BY DEF SubmitFinalityProof, FinalityProofIsAccepted, CheckObsolete, JustificationIsValid, InBlock
<1>2. /\ pointer \in 0 .. HeadersToKeep - 1 /\ forced \in Nat
      /\ best \in Headers /\ headers \subseteq Headers
      /\ freeRemaining \in -1 .. MaxFreeHeadersPerBlock /\ refunded \in Nat
      /\ set \in [set_id : Nat, authorities : Nat]
  BY <1>1, GrandpaAssumption DEF GrandpaInv, GrandpaTypeOK
<1>3. n \in Int /\ best \in Int /\ (\A h \in headers : h \in Int) /\ n # NoHeader
  BY <1>2, GrandpaAssumption DEF Headers
<1>4. n \in headers => forced > 0
  BY <1>1, <1>2, <1>3 DEF GrandpaInv, HeadersUpToBest
<1>5. RingMatchesHeaders' /\ RingIsDistinct'
  BY <1>1, <1>2, <1>4, InsertHeaderKeepsRing DEF GrandpaInv
<1>6. AuthoritiesFollowBest'
  <2>1. set = AuthoritySet(SetAfter(best)) /\ SetAfter(best) = SetAt(n)
    BY <1>1 DEF GrandpaInv, AuthoritiesFollowBest, AuthoritySet
  <2>2. ChangeAt[n] \in {"none", "scheduled"}
    BY <1>1, GrandpaAssumption DEF Changes
  <2>3. set' = AuthoritySet(SetAfter(n))
    BY <1>1, <2>1, <2>2, SetsOfTheChain DEF EnactAuthorityChange, IsMandatory, AuthoritySet
  <2>4. best' = n
    BY <1>1 DEF InsertHeader
  <2> QED
    BY <2>3, <2>4 DEF AuthoritiesFollowBest
<1>7. GrandpaTypeOK'
  <2>1. set' \in [set_id : Nat, authorities : Nat]
    BY <1>1, <1>2, SetsOfTheChain DEF EnactAuthorityChange
  <2>2. freeRemaining' \in -1 .. MaxFreeHeadersPerBlock /\ refunded' \in Nat
    BY <1>2, GrandpaAssumption DEF SubmitFinalityProof, OnFreeHeaderImported
  <2>3. UNCHANGED <<halted, interval, forced>>
    BY DEF SubmitFinalityProof
  <2> QED
    BY <1>1, <1>2, <2>1, <2>2, <2>3, InsertHeaderType DEF GrandpaInv, GrandpaTypeOK
<1>8. HeadersUpToBest'
  BY <1>1, <1>2, <1>3 DEF GrandpaInv, HeadersUpToBest, InsertHeader
<1> QED
  BY <1>5, <1>6, <1>7, <1>8 DEF GrandpaInv

LEMMA GrandpaStep ==
    ASSUME GrandpaInv, GrandpaNext
    PROVE  GrandpaInv'
<1>1. CASE \E n \in Headers, mode \in BOOLEAN : Initialize(n, mode)
  BY <1>1, GovernanceKeepsInv
<1>2. CASE \E mode \in BOOLEAN : SetOperatingMode(mode)
  <2>1. GrandpaTypeOK'
    BY <1>2 DEF GrandpaInv, GrandpaTypeOK, SetOperatingMode, storageVars
  <2> QED
    BY <1>2, <2>1, StorageUnchanged DEF SetOperatingMode
<1>3. CASE \E n \in Headers : ForceSetPalletState(n)
  BY <1>3, GovernanceKeepsInv
<1>4. CASE OnInitialize \/ OnFinalize
  <2>1. GrandpaTypeOK'
    BY <1>4, GrandpaAssumption
       DEF GrandpaInv, GrandpaTypeOK, OnInitialize, OnFinalize, storageVars
  <2> QED
    BY <1>4, <2>1, StorageUnchanged DEF OnInitialize, OnFinalize
<1>5. CASE \E n \in Headers, setId \in SetIds, fits \in BOOLEAN :
             SubmitFinalityProof(n, setId, fits)
  BY <1>5, FinalityProofKeepsInv
<1> QED
  BY <1>1, <1>2, <1>3, <1>4, <1>5 DEF GrandpaNext

\* The budget of a block, kept by every step of the GRANDPA client.
LEMMA GrandpaStepKeepsBudget ==
    ASSUME GrandpaTypeOK, RefundsWithinBudget, GrandpaNext
    PROVE  RefundsWithinBudget'
<1>1. /\ freeRemaining \in -1 .. MaxFreeHeadersPerBlock
      /\ refunded \in Nat
      /\ MaxFreeHeadersPerBlock \in Nat
  BY GrandpaAssumption DEF GrandpaTypeOK
<1>2. CASE OnInitialize \/ OnFinalize
  BY <1>1, <1>2 DEF OnInitialize, OnFinalize, RefundsWithinBudget, InBlock
<1>3. ASSUME NEW n \in Headers, NEW setId \in SetIds, NEW fits \in BOOLEAN,
             SubmitFinalityProof(n, setId, fits)
      PROVE  RefundsWithinBudget'
  BY <1>1, <1>3 DEF SubmitFinalityProof, FinalityProofIsAccepted, MayRefundCallFee,
                    OnFreeHeaderImported, RefundsWithinBudget, InBlock
<1>4. CASE UNCHANGED <<freeRemaining, refunded>>
  BY <1>4 DEF RefundsWithinBudget, InBlock
<1> QED
  BY <1>2, <1>3, <1>4 DEF GrandpaNext, Initialize, SetOperatingMode, ForceSetPalletState

-----------------------------------------------------------------------------
(***************************************************************************)
(* The parachains client.                                                  *)
(***************************************************************************)

LEMMA HeadsAreNumbers ==
    /\ Heads \subseteq Nat \ {NoHead}
    /\ \A p \in Paras, r \in Headers : HeadAt[p][r] \in Heads \cup {NoHead}
<1>1. ASSUME NEW p \in Paras
      PROVE  /\ \A h \in Range(HeadAt[p]) : h \in Nat
             /\ \A r \in Headers : HeadAt[p][r] \in Range(HeadAt[p])
  <2>1. HeadAt[p] \in [Headers -> Nat]
    BY ParachainsAssumption
  <2> QED
    BY <2>1 DEF Range
<1>2. ASSUME NEW h \in Heads
      PROVE  h \in Nat \ {NoHead}
  <2>1. PICK p \in Paras : h \in Range(HeadAt[p])
    BY Zenon DEF Heads
  <2>2. h # NoHead
    BY Zenon DEF Heads
  <2> QED
    BY <1>1, <2>1, <2>2
<1>3. ASSUME NEW p \in Paras, NEW r \in Headers
      PROVE  HeadAt[p][r] \in Heads \cup {NoHead}
  <2>1. HeadAt[p][r] \in UNION {Range(HeadAt[q]) : q \in Paras}
    BY <1>1, Zenon
  <2> QED
    BY <2>1, Zenon DEF Heads
<1> QED
  BY <1>2, <1>3

\* What the types say of one parachain.
LEMMA ParaTypes ==
    ASSUME TypeOK, NEW p \in Paras
    PROVE  /\ info[p].head \in Nat
           /\ info[p].at \in Headers
           /\ info[p].next \in 0 .. HeadsToKeep - 1
           /\ \A i \in 0 .. HeadsToKeep - 1 : paraHashes[p][i] \in Nat
<1>1. /\ info[p] \in [at : Headers, head : Heads \cup {NoHead}, next : 0 .. HeadsToKeep - 1]
      /\ paraHashes[p] \in [0 .. HeadsToKeep - 1 -> Heads \cup {NoHead}]
  BY DEF TypeOK
<1>2. /\ info[p].head \in Heads \cup {NoHead}
      /\ info[p].at \in Headers
      /\ info[p].next \in 0 .. HeadsToKeep - 1
      /\ \A i \in 0 .. HeadsToKeep - 1 : paraHashes[p][i] \in Heads \cup {NoHead}
  BY <1>1
<1>3. Heads \cup {NoHead} \subseteq Nat
  BY HeadsAreNumbers DEF NoHead
<1> QED
  BY <1>2, <1>3

LEMMA ClientsInitially == Init => ClientsInv
<1> SUFFICES ASSUME Init PROVE ClientsInv
  OBVIOUS
<1>1. GrandpaInv
  BY GrandpaInitially DEF Init
<1>2. 0 \in Headers /\ 0 \in 0 .. HeadsToKeep - 1
  BY GrandpaAssumption, ParachainsAssumption DEF Headers
<1>3. TypeOK
  BY <1>1, <1>2 DEF Init, ParaInit, TypeOK, GrandpaInv
<1>4. RefundsWithinBudget
  BY DEF Init, GrandpaInit, RefundsWithinBudget, InBlock
<1>5. HeadsMatchRing
  BY DEF Init, ParaInit, HeadsMatchRing, IsFirstHead, Range
<1>6. \A p \in Paras : RingGrows(p)
  BY DEF Init, ParaInit, RingGrows, IsFirstHead, NoHead
<1> QED
  BY <1>1, <1>3, <1>4, <1>5, <1>6 DEF ClientsInv

\* A head that update_parachain_head accepts is later than every head of the
\* ring, for its relay block is later than that of the best head.
LEMMA AcceptedHeadIsNew ==
    ASSUME TypeOK, NEW p \in Paras, RingGrows(p), NEW r \in Headers, IsUpdated(p, r)
    PROVE  /\ HeadAt[p][r] > info[p].head
           /\ \A i \in 0 .. HeadsToKeep - 1 : paraHashes[p][i] # HeadAt[p][r]
<1>1. /\ info[p].head \in Nat /\ info[p].at \in Headers
      /\ HeadAt[p][r] \in Nat \ {0}
      /\ \A i \in 0 .. HeadsToKeep - 1 : paraHashes[p][i] \in Nat
  <2>1. HeadAt[p][r] # NoHead
    BY DEF IsUpdated
  <2>2. HeadAt[p][r] \in Heads \cup {NoHead} /\ Heads \subseteq Nat
    BY HeadsAreNumbers
  <2> QED
    BY <2>1, <2>2, ParaTypes DEF NoHead
<1>2. r \in Int /\ info[p].at \in Int
  BY <1>1, GrandpaAssumption DEF Headers
<1>3. HeadAt[p][r] > info[p].head
  <2>1. CASE IsFirstHead(p)
    BY <1>1, <2>1 DEF IsFirstHead, NoHead
  <2>2. CASE ~IsFirstHead(p)
    <3>1. r > info[p].at /\ HeadAt[p][r] # info[p].head
      BY <2>2 DEF IsUpdated, CheckHeadObsolete
    <3>2. HeadAt[p][info[p].at] <= HeadAt[p][r]
      BY <1>1, <1>2, <3>1, ParachainsAssumption
    <3> QED
      BY <1>1, <2>2, <3>1, <3>2 DEF RingGrows
  <2> QED
    BY <2>1, <2>2
<1> QED
  BY <1>1, <1>3 DEF RingGrows

\* What submit_parachain_heads does to one parachain.
LEMMA HeadsStepOfOne ==
    ASSUME TypeOK, HeadsMatchRing, NEW p \in Paras, RingGrows(p),
           NEW r \in Headers, NEW ps \in SUBSET Paras,
           \A q \in ps : IsUpdated(q, r),
           UpdateParachainHeads(ps, r)
    PROVE  /\ info'[p] \in [at : Headers, head : Heads \cup {NoHead}, next : 0 .. HeadsToKeep - 1]
           /\ paraHashes'[p] \in [0 .. HeadsToKeep - 1 -> Heads \cup {NoHead}]
           /\ paraHeads'[p] \subseteq Heads
           /\ paraHeads'[p] = Range(paraHashes'[p]) \ {NoHead}
           /\ info'[p].head # NoHead => info'[p].head \in paraHeads'[p]
           /\ info'[p].head >= info[p].head
           /\ RingGrows(p)'
<1> DEFINE P == 0 .. HeadsToKeep - 1
           k == info[p].next
           new == HeadAt[p][r]
<1>1. /\ info[p] \in [at : Headers, head : Heads \cup {NoHead}, next : P]
      /\ paraHashes[p] \in [P -> Heads \cup {NoHead}]
      /\ paraHeads[p] \subseteq Heads
  BY DEF TypeOK
<1>2. /\ HeadsToKeep \in Nat \ {0} /\ NoHead = 0
      /\ info[p].head \in Nat /\ k \in P
      /\ Heads \subseteq Nat
      /\ \A i \in P : paraHashes[p][i] \in Nat
  <2>1. HeadsToKeep \in Nat \ {0} /\ NoHead = 0
    BY ParachainsAssumption DEF NoHead
  <2>2. Heads \subseteq Nat
    BY HeadsAreNumbers
  <2> QED
    BY <2>1, <2>2, ParaTypes
<1>3. CASE p \notin ps
  <2>1. info'[p] = info[p] /\ paraHashes'[p] = paraHashes[p] /\ paraHeads'[p] = paraHeads[p]
    BY <1>3 DEF UpdateParachainHeads
  <2> QED
    BY <1>1, <1>2, <2>1 DEF HeadsMatchRing, RingGrows, IsFirstHead
<1>4. CASE p \in ps
  <2>1. /\ info'[p] = [at |-> r, head |-> new, next |-> (k + 1) % HeadsToKeep]
        /\ paraHashes'[p] = [paraHashes[p] EXCEPT ![k] = new]
        /\ paraHeads'[p] = (paraHeads[p] \cup {new}) \ {paraHashes[p][k]}
    BY <1>4 DEF UpdateParachainHeads
  <2>2. /\ new > info[p].head
        /\ \A i \in P : paraHashes[p][i] # new
    BY <1>4, AcceptedHeadIsNew
  <2>3. new \in Heads /\ new \in Nat /\ new # NoHead
    BY <1>2, <1>4, HeadsAreNumbers DEF IsUpdated
  <2>4. (k + 1) % HeadsToKeep \in P
    BY <1>2, RingPositions
  <2>5. /\ DOMAIN paraHashes[p] = P /\ DOMAIN paraHashes'[p] = P
        /\ paraHashes'[p][k] = new
        /\ \A i \in P \ {k} : paraHashes'[p][i] = paraHashes[p][i]
    BY <1>1, <1>2, <2>1
  <2>6. RingGrows(p)'
    <3>1. info'[p].head = HeadAt[p][info'[p].at]
      BY <2>1
    <3>2. \A i \in P : paraHashes'[p][i] <= info'[p].head
      BY <1>2, <2>1, <2>2, <2>3, <2>5 DEF RingGrows
    <3>3. \A i, j \in P : i # j /\ paraHashes'[p][i] = paraHashes'[p][j]
                            => paraHashes'[p][i] = NoHead
      BY <2>2, <2>5 DEF RingGrows
    <3> QED
      BY <3>1, <3>2, <3>3 DEF RingGrows
  <2>7. paraHeads'[p] = Range(paraHashes'[p]) \ {NoHead}
    <3>1. /\ \A h \in paraHeads[p] : h # NoHead /\ \E i \in P : h = paraHashes[p][i]
          /\ \A i \in P : paraHashes[p][i] # NoHead => paraHashes[p][i] \in paraHeads[p]
      <4>1. paraHeads[p] = Range(paraHashes[p]) \ {NoHead}
        BY DEF HeadsMatchRing
      <4>2. \A h : h \in Range(paraHashes[p]) <=> \E i \in P : h = paraHashes[p][i]
        BY <2>5 DEF Range
      <4> QED
        BY <4>1, <4>2
    <3>2. ASSUME NEW h \in paraHeads'[p]
          PROVE  h # NoHead /\ \E i \in P : h = paraHashes'[p][i]
      <4>1. CASE h = new
        BY <1>2, <2>3, <2>5, <4>1
      <4>2. CASE h # new
        <5>1. h \in paraHeads[p] /\ h # paraHashes[p][k]
          BY <2>1, <3>2, <4>2
        <5>2. PICK i \in P : h = paraHashes[p][i]
          BY <3>1, <5>1
        <5> QED
          BY <2>5, <3>1, <5>1, <5>2
      <4> QED
        BY <4>1, <4>2
    <3>3. ASSUME NEW i \in P, paraHashes'[p][i] # NoHead
          PROVE  paraHashes'[p][i] \in paraHeads'[p]
      <4>1. CASE i = k
        BY <1>2, <2>1, <2>2, <2>5, <4>1
      <4>2. CASE i # k
        <5>1. paraHashes[p][i] \in paraHeads[p]
          BY <2>5, <3>1, <3>3, <4>2
        <5>2. paraHashes[p][i] # paraHashes[p][k]
          BY <1>2, <2>5, <3>3, <4>2 DEF RingGrows
        <5> QED
          BY <2>1, <2>5, <4>2, <5>1, <5>2
      <4> QED
        BY <4>1, <4>2
    <3> QED
      BY <2>5, <3>2, <3>3 DEF Range
  <2>8. info'[p].head \in paraHeads'[p]
    BY <1>2, <2>1, <2>2
  <2>9. info'[p].head >= info[p].head
    BY <1>2, <2>1, <2>2, <2>3
  <2>10. /\ info'[p] \in [at : Headers, head : Heads \cup {NoHead}, next : P]
         /\ paraHashes'[p] \in [P -> Heads \cup {NoHead}]
         /\ paraHeads'[p] \subseteq Heads
    BY <1>1, <1>2, <2>1, <2>3, <2>4
  <2> QED
    BY <2>6, <2>7, <2>8, <2>9, <2>10
<1> QED
  BY <1>3, <1>4

LEMMA HeadsStep ==
    ASSUME ClientsInv, NEW r \in Headers, NEW ps \in SUBSET Paras \ {{}}, NEW others \in 0 .. 1,
           SubmitParachainHeads(r, ps, others)
    PROVE  /\ ClientsInv'
           /\ \A p \in Paras : info'[p].head >= info[p].head
<1> DEFINE updated == {p \in ps : IsUpdated(p, r)}
<1>1. /\ UpdateParachainHeads(updated, r)
      /\ UNCHANGED <<storageVars, halted, interval, forced, paraHalted>>
      /\ freeRemaining # -1
  BY DEF SubmitParachainHeads, HeadsAreAccepted, InBlock
<1>2. TypeOK /\ HeadsMatchRing /\ \A p \in Paras : RingGrows(p)
  BY DEF ClientsInv
<1>3. updated \in SUBSET Paras /\ \A q \in updated : IsUpdated(q, r)
  OBVIOUS
<1> HIDE DEF updated
<1>4. \A p \in Paras :
        /\ info'[p] \in [at : Headers, head : Heads \cup {NoHead}, next : 0 .. HeadsToKeep - 1]
        /\ paraHashes'[p] \in [0 .. HeadsToKeep - 1 -> Heads \cup {NoHead}]
        /\ paraHeads'[p] \subseteq Heads
        /\ paraHeads'[p] = Range(paraHashes'[p]) \ {NoHead}
        /\ info'[p].head # NoHead => info'[p].head \in paraHeads'[p]
        /\ info'[p].head >= info[p].head
        /\ RingGrows(p)'
  BY <1>1, <1>2, <1>3, HeadsStepOfOne
<1>5. /\ freeRemaining \in -1 .. MaxFreeHeadersPerBlock
      /\ refunded \in Nat
      /\ MaxFreeHeadersPerBlock \in Nat
      /\ refunded + freeRemaining = MaxFreeHeadersPerBlock
  BY <1>1, GrandpaAssumption
     DEF ClientsInv, TypeOK, GrandpaTypeOK, RefundsWithinBudget, InBlock
<1>6. /\ freeRemaining' \in -1 .. MaxFreeHeadersPerBlock
      /\ refunded' \in Nat
      /\ refunded' + freeRemaining' = MaxFreeHeadersPerBlock
  BY <1>1, <1>5 DEF SubmitParachainHeads, IsFreeCall, HasFreeHeaderSlots, OnFreeHeaderImported
<1>7. GrandpaTypeOK'
  BY <1>1, <1>6 DEF ClientsInv, GrandpaInv, GrandpaTypeOK, storageVars
<1>8. GrandpaInv'
  BY <1>1, <1>7, StorageUnchanged DEF ClientsInv
<1>9. TypeOK'
  <2>1. /\ info' = [p \in Paras |-> info'[p]]
        /\ paraHashes' = [p \in Paras |-> paraHashes'[p]]
        /\ paraHeads' = [p \in Paras |-> paraHeads'[p]]
    BY <1>1 DEF UpdateParachainHeads
  <2> QED
    BY <1>1, <1>2, <1>4, <1>7, <2>1 DEF TypeOK
<1>10. RefundsWithinBudget'
  BY <1>6 DEF RefundsWithinBudget
<1>11. HeadsMatchRing'
  BY <1>4 DEF HeadsMatchRing, IsFirstHead
<1> QED
  BY <1>4, <1>8, <1>9, <1>10, <1>11 DEF ClientsInv

\* The parachains' storage is not touched.
LEMMA ParasUnchanged ==
    ASSUME ClientsInv, UNCHANGED <<info, paraHashes, paraHeads>>,
           GrandpaInv', RefundsWithinBudget', paraHalted' \in BOOLEAN
    PROVE  ClientsInv'
  BY DEF ClientsInv, TypeOK, GrandpaInv, HeadsMatchRing, RingGrows, IsFirstHead

\* Every step keeps the invariant, and no best head goes back.
LEMMA ClientsStep ==
    ASSUME ClientsInv, [Next]_vars
    PROVE  /\ ClientsInv'
           /\ \A p \in Paras : info'[p].head >= info[p].head
<1>1. \A p \in Paras : info[p].head \in Nat
  BY ParaTypes DEF ClientsInv
<1>2. CASE GrandpaNext /\ UNCHANGED paraVars
  <2>1. GrandpaInv'
    BY <1>2, GrandpaStep DEF ClientsInv
  <2>2. RefundsWithinBudget'
    BY <1>2, GrandpaStepKeepsBudget DEF ClientsInv, GrandpaInv
  <2>3. UNCHANGED <<info, paraHashes, paraHeads>> /\ paraHalted' \in BOOLEAN
    BY <1>2 DEF paraVars, ClientsInv, TypeOK
  <2> QED
    BY <1>1, <2>1, <2>2, <2>3, ParasUnchanged
<1>3. CASE \E r \in Headers, ps \in SUBSET Paras \ {{}}, others \in 0 .. 1 :
             SubmitParachainHeads(r, ps, others)
  BY <1>3, HeadsStep
<1>4. CASE (\E mode \in BOOLEAN : SetParaOperatingMode(mode)) \/ UNCHANGED vars
  <2>1. /\ UNCHANGED <<grandpaVars, info, paraHashes, paraHeads>>
        /\ paraHalted' \in BOOLEAN
    BY <1>4 DEF SetParaOperatingMode, vars, paraVars, ClientsInv, TypeOK
  <2>2. GrandpaTypeOK'
    BY <2>1 DEF ClientsInv, GrandpaInv, GrandpaTypeOK, grandpaVars, storageVars
  <2>3. GrandpaInv'
    BY <2>1, <2>2, StorageUnchanged DEF ClientsInv, grandpaVars
  <2>4. RefundsWithinBudget'
    BY <2>1 DEF ClientsInv, RefundsWithinBudget, InBlock, grandpaVars
  <2> QED
    BY <1>1, <2>1, <2>3, <2>4, ParasUnchanged
<1> QED
  BY <1>2, <1>3, <1>4 DEF Next

-----------------------------------------------------------------------------
\* The inductive invariant of both light clients holds of every behaviour of
\* their calls, of governance and of the blocks.
THEOREM ClientsInvariant == Spec => []ClientsInv
<1>1. ClientsInv /\ [Next]_vars => ClientsInv'
  BY ClientsStep
<1> QED
  BY <1>1, ClientsInitially, PTL DEF Spec

\* submit_finality_proof: no change of authorities is ever skipped, on any
\* chain of headers.
THEOREM AuthoritiesFollow == Spec => []AuthoritiesFollowBest
<1>1. ClientsInv => AuthoritiesFollowBest
  BY DEF ClientsInv, GrandpaInv
<1> QED
  BY <1>1, ClientsInvariant, PTL

\* insert_header: for a ring of any size, no header is stored without a position,
\* the last position is that of the best header, and, until governance forces a
\* state, every header of the ring is stored.
THEOREM RingAgrees == Spec => []RingMatchesHeaders
<1>1. ClientsInv => RingMatchesHeaders
  BY DEF ClientsInv, GrandpaInv
<1> QED
  BY <1>1, ClientsInvariant, PTL

\* on_free_header_imported: both pallets keep to one budget of free submissions.
THEOREM BudgetKept == Spec => []RefundsWithinBudget
<1>1. ClientsInv => RefundsWithinBudget
  BY DEF ClientsInv
<1> QED
  BY <1>1, ClientsInvariant, PTL

\* check_obsolete_from_extension of both pallets: of the calls that they let pass
\* as free, exactly those with a configured interval, or that need none, and
\* with a head of a free size are not charged.
THEOREM PromiseKept == Spec => []FreePromiseKept
<1>1. ClientsInv => FreePromiseKept
  <2> SUFFICES ASSUME ClientsInv PROVE FreePromiseKept
    OBVIOUS
  <2>1. /\ freeRemaining \in -1 .. MaxFreeHeadersPerBlock
        /\ MaxFreeHeadersPerBlock \in Nat
    BY GrandpaAssumption DEF ClientsInv, TypeOK, GrandpaTypeOK
  <2>2. ASSUME NEW n \in Headers, NEW setId \in SetIds, NEW fits \in BOOLEAN,
               FinalityProofIsAccepted(n, setId),
               CheckObsoleteFromExtension(n, setId, fits),
               IsMandatory(n) \/ interval # NoInterval
        PROVE  MayRefundCallFee(n, fits)
    <3>1. freeRemaining > 0
      BY <2>1, <2>2 DEF FinalityProofIsAccepted, InBlock, CheckObsoleteFromExtension,
                        HasFreeHeaderSlots
    <3> QED
      BY <2>2, <3>1 DEF CheckObsoleteFromExtension, MayRefundCallFee
  <2>3. ASSUME NEW p \in Paras, NEW r \in Headers,
               HeadsAreAccepted(r), HeadAt[p][r] # NoHead,
               CheckHeadFromExtension(p, r, HeadAt[p][r]),
               IsFirstHead(p) \/ interval # NoInterval,
               HeadSize[p][HeadAt[p][r]] = "free"
        PROVE  IsFreeCall(r, {p}, 0)
    <3>1. Cardinality({p}) + 0 = 1
      BY FS_Singleton
    <3>2. IsFarEnough(p, r)
      BY <2>3 DEF CheckHeadFromExtension, IsFarEnough
    <3>3. IsUpdated(p, r) /\ IsFreeHead(p, r)
      BY <2>3, <3>2 DEF CheckHeadFromExtension, IsUpdated, IsFreeHead
    <3> QED
      BY <2>3, <3>1, <3>3 DEF IsFreeCall, CheckHeadFromExtension
  <2>4. ASSUME NEW n \in Headers, NEW fits \in BOOLEAN, MayRefundCallFee(n, fits)
        PROVE  IsMandatory(n) \/ interval # NoInterval
    BY <2>4 DEF MayRefundCallFee
  <2>5. ASSUME NEW p \in Paras, NEW r \in Headers, IsFreeCall(r, {p}, 0)
        PROVE  /\ IsFirstHead(p) \/ interval # NoInterval
               /\ HeadSize[p][HeadAt[p][r]] = "free"
    BY <2>5 DEF IsFreeCall, IsFreeHead, IsFarEnough
  <2> QED
    BY <2>2, <2>3, <2>4, <2>5 DEF FreePromiseKept
<1> QED
  BY <1>1, ClientsInvariant, PTL

\* update_parachain_head: the heads that can be used in proofs are those of the
\* ring, and the best head is one of them, for rings of any size.
THEOREM HeadsAgree == Spec => []HeadsMatchRing
<1>1. ClientsInv => HeadsMatchRing
  BY DEF ClientsInv
<1> QED
  BY <1>1, ClientsInvariant, PTL

\* check_obsolete of heads: the best head of a parachain never goes back, also
\* when governance sets the relay chain's client back.
THEOREM HeadsGrow == Spec => HeadsNeverGoBack
<1>1. ClientsInv /\ [Next]_vars => [\A p \in Paras : info'[p].head >= info[p].head]_vars
  BY ClientsStep
<1> QED
  BY <1>1, ClientsInvariant, PTL DEF Spec, HeadsNeverGoBack

\* Both clients' storage keeps its types.
THEOREM ClientsTypes == Spec => []TypeOK
<1>1. ClientsInv => TypeOK
  BY DEF ClientsInv
<1> QED
  BY <1>1, ClientsInvariant, PTL
=============================================================================
