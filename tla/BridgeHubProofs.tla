--------------------------- MODULE BridgeHubProofs ---------------------------
(***************************************************************************)
(* Proofs about the bridges of a hub, for any number of bridges, owners    *)
(* and XCM versions, all deposits, balances and thresholds, and any bounds *)
(* on queues.                                                              *)
(***************************************************************************)
EXTENDS BridgeHub, LaneTheorems

BridgeRecord == [state : {"Absent", "Opened", "Suspended", "Closed"},
                 lane_id : Lanes \cup {NoBridge.lane_id}, deposit : Nat]

Exists(b) == bridges[b].state # "Absent"

LEMMA BridgeTypes ==
    ASSUME HubTypeOK, NEW b \in BridgeIds
    PROVE  /\ bridges[b] \in BridgeRecord
           /\ bridges[b].state \in {"Absent", "Opened", "Suspended", "Closed"}
           /\ bridges[b].deposit \in Nat
<1>1. bridges[b] \in BridgeRecord
  BY DEF HubTypeOK, BridgeRecord
<1> QED
  BY <1>1 DEF BridgeRecord

LEMMA LaneTypes ==
    ASSUME NEW lane \in OutboundLaneData
    PROVE  /\ lane.latest_generated_nonce \in Nat
           /\ lane.latest_received_nonce \in Nat
           /\ lane.oldest_unpruned_nonce \in Nat
           /\ lane.state \in LaneStates
           /\ EnqueuedMessages(lane) \in Nat
  BY DEF OutboundLaneData, EnqueuedMessages

\* What TryState says of a bridge that exists.
LEMMA BridgeHasLane ==
    ASSUME TryState, BridgesAreWhole, NEW b \in BridgeIds, Exists(b)
    PROVE  /\ bridges[b].lane_id \in Lanes
           /\ laneToBridge[bridges[b].lane_id] = b
           /\ bridges[b].state = "Closed" => /\ inLanes[bridges[b].lane_id] = "Closed"
                                             /\ outLanes[bridges[b].lane_id].state = "Closed"
           /\ bridges[b].state # "Closed" => /\ inLanes[bridges[b].lane_id] = "Opened"
                                             /\ outLanes[bridges[b].lane_id].state = "Opened"
  BY DEF TryState, BridgesAreWhole, Exists

LEMMA LaneHasBridge ==
    ASSUME TryState, BridgesAreWhole, NEW lane \in Lanes,
           laneToBridge[lane] # Nobody \/ inLanes[lane] # "Absent" \/ outLanes[lane].state # "Absent"
    PROVE  /\ laneToBridge[lane] \in BridgeIds
           /\ Exists(laneToBridge[lane])
           /\ bridges[laneToBridge[lane]].lane_id = lane
<1>1. PICK b \in BridgeIds : bridges[b].state # "Absent" /\ bridges[b].lane_id = lane
  BY DEF TryState
<1>2. laneToBridge[lane] = b
  BY <1>1, BridgeHasLane DEF Exists
<1> QED
  BY <1>1, <1>2 DEF Exists

\* The deposits of an owner's bridges, after that of one bridge has changed.
LEMMA DepositsChange ==
    ASSUME HubTypeOK, HubTypeOK', DepositsBackBridges, NEW b \in BridgeIds,
           \A c \in BridgeIds \ {b} : bridges'[c].deposit = bridges[c].deposit,
           \A o \in Owners \ {OwnerOf(b)} : held'[o] = held[o] /\ free'[o] = free[o],
           held'[OwnerOf(b)] = held[OwnerOf(b)] - bridges[b].deposit + bridges'[b].deposit,
           free'[OwnerOf(b)] = free[OwnerOf(b)] + bridges[b].deposit - bridges'[b].deposit
    PROVE  DepositsBackBridges'
<1> DEFINE old == DepositOf
           new == DepositOf'
<1>1. /\ \A c \in BridgeIds : old[c] = bridges[c].deposit /\ new[c] = bridges'[c].deposit
      /\ \A c \in BridgeIds : old[c] \in Int /\ new[c] \in Int
      /\ \A c \in BridgeIds \ {b} : new[c] = old[c]
  <2>1. \A c \in BridgeIds : old[c] = bridges[c].deposit /\ new[c] = bridges'[c].deposit
    BY DEF DepositOf
  <2>2. \A c \in BridgeIds : bridges[c] \in BridgeRecord /\ bridges'[c] \in BridgeRecord
    BY DEF HubTypeOK, BridgeRecord
  <2>3. \A c \in BridgeIds : bridges[c].deposit \in Nat /\ bridges'[c].deposit \in Nat
    BY <2>2 DEF BridgeRecord
  <2> QED
    BY <2>1, <2>3
<1> HIDE DEF old, new
<1>2. ASSUME NEW o \in Owners
      PROVE  /\ IsFiniteSet(BridgesOf(o)) /\ BridgesOf(o) \subseteq BridgeIds
             /\ b \in BridgesOf(o) <=> OwnerOf(b) = o
  BY HubAssumption, FS_Subset DEF BridgesOf
<1>3. OwnerOf(b) \in Owners
  BY HubAssumption
<1>4. ASSUME NEW o \in Owners
      PROVE  /\ held'[o] = SumFunctionOnSet(new, BridgesOf(o))
             /\ free'[o] + held'[o] = Balance
  <2>1. /\ held[o] = SumFunctionOnSet(old, BridgesOf(o))
        /\ free[o] + held[o] = Balance
    BY DEF DepositsBackBridges, old
  <2>2. CASE o # OwnerOf(b)
    <3>1. \A c \in BridgesOf(o) : old[c] \in Int /\ old[c] = new[c]
      BY <1>1, <1>2, <2>2
    <3>2. SumFunctionOnSet(old, BridgesOf(o)) = SumFunctionOnSet(new, BridgesOf(o))
      BY <1>2, <3>1, SumDependsOnValues
    <3> QED
      BY <2>1, <2>2, <3>2
  <2>3. CASE o = OwnerOf(b)
    <3>1. b \in BridgesOf(o) /\ IsFiniteSet(BridgesOf(o))
      BY <1>2, <2>3
    <3>2. /\ \A c \in BridgesOf(o) : old[c] \in Int /\ new[c] \in Int
          /\ \A c \in BridgesOf(o) \ {b} : new[c] = old[c]
      BY <1>1, <1>2
    <3>3. SumFunctionOnSet(new, BridgesOf(o))
            = SumFunctionOnSet(old, BridgesOf(o)) - old[b] + new[b]
      <4>1. ChangesAt(old, new, BridgesOf(o), b)
        BY <3>1, <3>2 DEF ChangesAt
      <4> QED
        BY <3>1, <4>1, SumChanges
    <3>4. held'[o] = SumFunctionOnSet(new, BridgesOf(o))
      BY <1>1, <2>1, <2>3, <3>3
    <3>5. free[o] \in Nat /\ held[o] \in Nat /\ bridges[b].deposit \in Int /\ bridges'[b].deposit \in Int
      BY <1>1 DEF HubTypeOK
    <3>6. free'[o] + held'[o] = Balance
      BY <2>1, <2>3, <3>5
    <3> QED
      BY <3>4, <3>6
  <2> QED
    BY <2>2, <2>3
<1> QED
  BY <1>4 DEF DepositsBackBridges, new, BridgesOf

-----------------------------------------------------------------------------
LEMMA HubInitially == Init => HubInv
<1> SUFFICES ASSUME Init PROVE HubInv
  OBVIOUS
<1>1. HubTypeOK
  <2>1. Balance \in Nat /\ 0 \in 0 .. MaxFactor
    BY HubAssumption
  <2>2. NoBridge \in BridgeRecord
    BY DEF NoBridge, BridgeRecord
  <2>3. [OutboundLaneOpened EXCEPT !.state = "Absent"] \in OutboundLaneData
    BY DEF OutboundLaneOpened, OutboundLaneData, LaneStates
  <2> QED
    BY <2>1, <2>2, <2>3 DEF Init, HubTypeOK, BridgeRecord, LaneStates
<1>2. BridgesAreWhole
  BY DEF Init, BridgesAreWhole, NoBridge
<1>3. TryState
  BY DEF Init, TryState, NoBridge, OutboundLaneOpened
<1>4. DepositsBackBridges
  <2>1. \A b \in BridgeIds : DepositOf[b] = 0
    BY DEF Init, DepositOf, NoBridge
  <2>2. ASSUME NEW o \in Owners
        PROVE  held[o] = SumFunctionOnSet(DepositOf, BridgesOf(o)) /\ free[o] + held[o] = Balance
    <3>1. IsFiniteSet(BridgesOf(o)) /\ \A b \in BridgesOf(o) : DepositOf[b] = 0
      BY <2>1, HubAssumption, FS_Subset DEF BridgesOf
    <3>2. SumFunctionOnSet(DepositOf, BridgesOf(o)) = 0 * Cardinality(BridgesOf(o))
      BY <3>1, SumOfConstant
    <3>3. 0 * Cardinality(BridgesOf(o)) = 0
      BY <3>1, FS_CardinalityType
    <3>4. Balance \in Nat /\ held[o] = 0 /\ free[o] = Balance
      BY HubAssumption DEF Init
    <3> QED
      BY <3>2, <3>3, <3>4
  <2> QED
    BY <2>2 DEF DepositsBackBridges
<1>5. StateFollowsQueue
  BY DEF Init, StateFollowsQueue, NoBridge
<1>6. RouterKnowsState
  BY DEF Init, RouterKnowsState, IsToldCongested, IsCongestedForOwner, NoBridge
<1> QED
  BY <1>1, <1>2, <1>3, <1>4, <1>5, <1>6 DEF HubInv

\* Steps that leave bridges, lanes and balances alone.
LEMMA HubUnchanged ==
    ASSUME HubInv, bridges' = bridges, laneToBridge' = laneToBridge, outLanes' = outLanes,
           inLanes' = inLanes, free' = free, held' = held, unreported' = unreported,
           abandoned' = abandoned, HubTypeOK',
           \A b \in BridgeIds : IsToldCongested(b)' <=> IsToldCongested(b)
    PROVE  HubInv'
<1>1. BridgesAreWhole' /\ TryState' /\ StateFollowsQueue'
  BY DEF HubInv, BridgesAreWhole, TryState, StateFollowsQueue, EnqueuedMessages
<1>2. DepositsBackBridges'
  BY DEF HubInv, DepositsBackBridges, DepositOf
<1>3. RouterKnowsState'
  BY DEF HubInv, RouterKnowsState, IsCongestedForOwner
<1> QED
  BY <1>1, <1>2, <1>3 DEF HubInv

\* A level that is raised stays within its maximum.
LEMMA LevelRaised ==
    ASSUME NEW m \in Nat, NEW n \in 0 .. m
    PROVE  /\ Min({n + 1, m}) \in 0 .. m
           /\ Min({n + 1, m}) = IF n < m THEN n + 1 ELSE n
<1> DEFINE l == IF n < m THEN n + 1 ELSE n
<1>1. /\ l \in {n + 1, m} /\ \A z \in {n + 1, m} : l <= z
      /\ \A k \in {n + 1, m} : (\A z \in {n + 1, m} : k <= z) => k = l
  OBVIOUS
<1> HIDE DEF l
<1>2. Min({n + 1, m}) = l
  BY <1>1 DEF Min
<1> QED
  BY <1>2 DEF l

LEMMA RouterStep ==
    ASSUME HubInv,
           \/ \E b \in BridgeIds :
                \/ \E isChannelCongested \in BOOLEAN : SendMessage(b, isChannelCongested)
                \/ OnInitialize(b)
           \/ \E deposit \in Deposits : RuntimeUpgrade(deposit)
           \/ UNCHANGED vars
    PROVE  HubInv'
<1>1. HubTypeOK
  BY DEF HubInv
<1>2. CASE \E b \in BridgeIds :
             \/ \E isChannelCongested \in BOOLEAN : SendMessage(b, isChannelCongested)
             \/ OnInitialize(b)
  <2>1. PICK b \in BridgeIds :
             \/ \E isChannelCongested \in BOOLEAN : SendMessage(b, isChannelCongested)
             \/ OnInitialize(b)
    BY <1>2
  <2>2. PICK factor : /\ router' = [router EXCEPT ![b].factor = factor]
                      /\ factor \in 0 .. MaxFactor
    <3>1. router[b].factor \in 0 .. MaxFactor /\ MaxFactor \in Nat
      BY <1>1, HubAssumption DEF HubTypeOK
    <3>2. CASE OnInitialize(b)
      <4>1. router' = [router EXCEPT ![b].factor = router[b].factor - 1]
        BY <3>2 DEF OnInitialize
      <4>2. router[b].factor - 1 \in 0 .. MaxFactor
        BY <3>1, <3>2 DEF OnInitialize
      <4> QED
        BY <4>1, <4>2
    <3>3. ASSUME NEW isChannelCongested \in BOOLEAN, SendMessage(b, isChannelCongested)
          PROVE  \E factor : /\ router' = [router EXCEPT ![b].factor = factor]
                             /\ factor \in 0 .. MaxFactor
      <4> DEFINE f == IF isChannelCongested \/ router[b].is_congested
                      THEN Min({router[b].factor + 1, MaxFactor}) ELSE router[b].factor
      <4>1. router' = [router EXCEPT ![b].factor = f]
        BY <3>3 DEF SendMessage
      <4>2. Min({router[b].factor + 1, MaxFactor}) \in 0 .. MaxFactor
        BY <3>1, LevelRaised
      <4>3. f \in 0 .. MaxFactor
        BY <3>1, <4>2
      <4> QED
        BY <4>1, <4>3
    <3> QED
      BY <2>1, <3>2, <3>3
  <2>3. underWay' \in [BridgeIds -> Nat]
    BY <1>1, <2>1 DEF HubTypeOK, SendMessage, OnInitialize
  <2>4. UNCHANGED <<hubVars, reports, failures, unreported, abandoned>>
    BY <2>1 DEF SendMessage, OnInitialize
  <2>5. HubTypeOK'
    BY <1>1, <2>2, <2>3, <2>4 DEF HubTypeOK, hubVars
  <2>6. \A c \in BridgeIds : router'[c].is_congested = router[c].is_congested
    BY <1>1, <2>2 DEF HubTypeOK
  <2>7. \A c \in BridgeIds : IsToldCongested(c)' <=> IsToldCongested(c)
    BY <2>4, <2>6 DEF IsToldCongested
  <2> QED
    BY <2>4, <2>5, <2>7, HubUnchanged DEF hubVars
<1>3. CASE (\E deposit \in Deposits : RuntimeUpgrade(deposit)) \/ UNCHANGED vars
  <2>1. /\ UNCHANGED <<bridges, laneToBridge, outLanes, inLanes, free, held,
                       router, underWay, reports, failures, unreported, abandoned>>
        /\ bridgeDeposit' \in Deposits
    BY <1>1, <1>3 DEF RuntimeUpgrade, routerVars, vars, hubVars, HubTypeOK
  <2>2. HubTypeOK'
    BY <1>1, <2>1 DEF HubTypeOK
  <2>3. \A c \in BridgeIds : IsToldCongested(c)' <=> IsToldCongested(c)
    BY <2>1 DEF IsToldCongested
  <2> QED
    BY <2>1, <2>2, <2>3, HubUnchanged
<1> QED
  BY <1>2, <1>3

\* The last element of a queue is that of its tail, if there is another one.
LEMMA LastOfTail ==
    ASSUME NEW S, NEW s \in Seq(S), s # <<>>
    PROVE  /\ Head(s) \in S /\ Tail(s) \in Seq(S)
           /\ Len(s) = 1 => Tail(s) = <<>> /\ Head(s) = s[Len(s)]
           /\ Len(s) # 1 => Tail(s) # <<>> /\ Tail(s)[Len(Tail(s))] = s[Len(s)]
<1>1. /\ Head(s) \in S /\ Tail(s) \in Seq(S) /\ Len(Tail(s)) = Len(s) - 1
      /\ \A i \in 1 .. Len(Tail(s)) : Tail(s)[i] = s[i + 1]
  BY HeadTailProperties
<1>2. Len(s) \in Nat /\ Len(s) > 0
  BY EmptySeq
<1>3. Head(s) = s[1]
  OBVIOUS
<1>4. CASE Len(s) = 1
  <2>1. Tail(s) = <<>>
    <3>1. Len(Tail(s)) = 0
      BY <1>1, <1>4
    <3>2. \A seq \in Seq(S) : seq # <<>> => Len(seq) # 0
      BY EmptySeq
    <3> QED
      BY <1>1, <3>1, <3>2, Zenon
  <2> QED
    BY <1>1, <1>3, <1>4, <2>1
<1>5. CASE Len(s) # 1
  <2>1. Len(Tail(s)) \in 1 .. Len(Tail(s)) /\ Len(Tail(s)) + 1 = Len(s)
    BY <1>1, <1>2, <1>5
  <2>2. Tail(s) # <<>>
    <3>1. Len(Tail(s)) # 0
      BY <1>1, <1>2, <1>5
    <3>2. Len(<<>>) = 0
      BY EmptySeq
    <3> QED
      BY <3>1, <3>2, Zenon
  <2> QED
    BY <1>1, <1>5, <2>1, <2>2
<1> QED
  BY <1>4, <1>5

LEMMA StatusStep ==
    ASSUME HubInv, NEW b \in BridgeIds, ReportBridgeStatus(b)
    PROVE  HubInv'
<1>1. HubTypeOK
  BY DEF HubInv
<1>2. /\ reports[b] # <<>>
      /\ router' = [router EXCEPT ![b].is_congested = Head(reports[b])]
      /\ reports' = [reports EXCEPT ![b] = Tail(reports[b])]
      /\ UNCHANGED <<hubVars, underWay, failures, unreported, abandoned>>
  BY DEF ReportBridgeStatus
<1>3. /\ reports[b] \in Seq(BOOLEAN)
      /\ Head(reports[b]) \in BOOLEAN /\ Tail(reports[b]) \in Seq(BOOLEAN)
  <2>1. reports[b] \in Seq(BOOLEAN)
    BY <1>1 DEF HubTypeOK
  <2> QED
    BY <1>2, <2>1, LastOfTail
<1>4. HubTypeOK'
  <2>1. router' \in [BridgeIds -> [is_congested : BOOLEAN, factor : 0 .. MaxFactor]]
    BY <1>1, <1>2, <1>3 DEF HubTypeOK
  <2>2. reports' \in [BridgeIds -> Seq(BOOLEAN)]
    BY <1>1, <1>2, <1>3 DEF HubTypeOK
  <2> QED
    BY <1>1, <1>2, <2>1, <2>2 DEF HubTypeOK, hubVars
<1>5. ASSUME NEW c \in BridgeIds
      PROVE  IsToldCongested(c)' <=> IsToldCongested(c)
  <2>1. CASE c # b
    <3>1. reports'[c] = reports[c] /\ router'[c] = router[c]
      BY <1>1, <1>2, <2>1 DEF HubTypeOK
    <3> QED
      BY <3>1 DEF IsToldCongested
  <2>2. CASE c = b
    <3>1. reports'[b] = Tail(reports[b]) /\ router'[b].is_congested = Head(reports[b])
      BY <1>1, <1>2, <1>3 DEF HubTypeOK
    <3>2. CASE Len(reports[b]) = 1
      <4>1. reports'[b] = <<>> /\ router'[b].is_congested = reports[b][Len(reports[b])]
        BY <1>2, <1>3, <3>1, <3>2, LastOfTail
      <4> QED
        BY <1>2, <2>2, <4>1 DEF IsToldCongested
    <3>3. CASE Len(reports[b]) # 1
      <4>1. /\ reports'[b] # <<>>
            /\ reports'[b][Len(reports'[b])] = reports[b][Len(reports[b])]
        BY <1>2, <1>3, <3>1, <3>3, LastOfTail
      <4> QED
        BY <1>2, <2>2, <4>1 DEF IsToldCongested
    <3> QED
      BY <3>2, <3>3
  <2> QED
    BY <2>1, <2>2
<1> QED
  BY <1>2, <1>4, <1>5, HubUnchanged DEF hubVars

LEMMA OpenStep ==
    ASSUME HubInv, NEW b \in BridgeIds, NEW version \in Versions, NEW deposit \in Nat,
           OpenBridge(b, version, deposit)
    PROVE  HubInv'
<1> DEFINE lane == <<b, version>>
           owner == OwnerOf(b)
           new == [state |-> "Opened", lane_id |-> lane, deposit |-> deposit]
<1>1. HubTypeOK /\ BridgesAreWhole /\ TryState /\ DepositsBackBridges /\ StateFollowsQueue
        /\ RouterKnowsState
  BY DEF HubInv
<1>2. /\ deposit <= free[owner] /\ bridges[b].state = "Absent"
      /\ laneToBridge[lane] = Nobody
      /\ inLanes[lane] = "Absent" /\ outLanes[lane].state = "Absent"
      /\ free' = [free EXCEPT ![owner] = free[owner] - deposit]
      /\ held' = [held EXCEPT ![owner] = held[owner] + deposit]
      /\ bridges' = [bridges EXCEPT ![b] = new]
      /\ laneToBridge' = [laneToBridge EXCEPT ![lane] = b]
      /\ inLanes' = [inLanes EXCEPT ![lane] = "Opened"]
      /\ outLanes' = [outLanes EXCEPT ![lane] = OutboundLaneOpened]
      /\ UNCHANGED <<bridgeDeposit, routerVars, reports, failures, unreported, abandoned>>
  BY DEF OpenBridge
<1>3. lane \in Lanes /\ owner \in Owners /\ free[owner] \in Nat /\ held[owner] \in Nat
  BY <1>1, HubAssumption DEF Lanes, HubTypeOK
<1>4. OutboundLaneOpened \in OutboundLaneData /\ EnqueuedMessages(OutboundLaneOpened) = 0
        /\ OutboundLaneOpened.state = "Opened"
  BY DEF OutboundLaneOpened, OutboundLaneData, LaneStates, EnqueuedMessages
<1> HIDE DEF lane, owner
<1>5. new \in BridgeRecord /\ new.state = "Opened" /\ new.lane_id = lane /\ new.deposit = deposit
  BY <1>3 DEF BridgeRecord
<1> HIDE DEF new
<1>6. HubTypeOK'
  <2>1. free' \in [Owners -> Nat] /\ held' \in [Owners -> Nat]
    BY <1>1, <1>2, <1>3 DEF HubTypeOK
  <2>2. bridges' \in [BridgeIds -> BridgeRecord]
    BY <1>1, <1>2, <1>5 DEF HubTypeOK, BridgeRecord
  <2>3. /\ laneToBridge' \in [Lanes -> BridgeIds \cup {Nobody}]
        /\ inLanes' \in [Lanes -> LaneStates]
        /\ outLanes' \in [Lanes -> OutboundLaneData]
    BY <1>1, <1>2, <1>4 DEF HubTypeOK, LaneStates
  <2> QED
    BY <1>1, <1>2, <2>1, <2>2, <2>3 DEF HubTypeOK, BridgeRecord, routerVars
<1>7. /\ bridges'[b] = new
      /\ \A c \in BridgeIds \ {b} : bridges'[c] = bridges[c]
      /\ laneToBridge'[lane] = b /\ inLanes'[lane] = "Opened"
      /\ outLanes'[lane] = OutboundLaneOpened
      /\ \A l \in Lanes \ {lane} : /\ laneToBridge'[l] = laneToBridge[l]
                                   /\ inLanes'[l] = inLanes[l]
                                   /\ outLanes'[l] = outLanes[l]
      /\ held'[owner] = held[owner] + deposit /\ free'[owner] = free[owner] - deposit
      /\ \A o \in Owners \ {owner} : held'[o] = held[o] /\ free'[o] = free[o]
      /\ unreported' = unreported /\ abandoned' = abandoned
      /\ reports' = reports /\ router' = router
  BY <1>1, <1>2, <1>3 DEF HubTypeOK, routerVars
<1>8. \A c \in BridgeIds \ {b} : Exists(c) => /\ bridges[c].lane_id \in Lanes
                                              /\ bridges[c].lane_id # lane
  <2>1. \A c \in BridgeIds : c # Nobody
    BY HubAssumption
  <2> QED
    BY <1>1, <1>2, <2>1, BridgeHasLane
<1>9. BridgesAreWhole'
  BY <1>1, <1>3, <1>5, <1>7 DEF BridgesAreWhole
<1>10. TryState'
  <2>1. ASSUME NEW c \in BridgeIds, bridges'[c].state # "Absent"
        PROVE  LET l == bridges'[c].lane_id
                   state == IF bridges'[c].state = "Closed" THEN "Closed" ELSE "Opened"
               IN  laneToBridge'[l] = c /\ inLanes'[l] = state /\ outLanes'[l].state = state
    <3>1. CASE c = b
      BY <1>4, <1>5, <1>7, <3>1
    <3>2. CASE c # b
      <4>1. Exists(c) /\ bridges'[c] = bridges[c]
        BY <1>7, <2>1, <3>2 DEF Exists
      <4>2. bridges[c].lane_id \in Lanes \ {lane}
        BY <1>8, <3>2, <4>1
      <4> QED
        BY <1>1, <1>7, <4>1, <4>2 DEF TryState, Exists
    <3> QED
      BY <3>1, <3>2
  <2>2. ASSUME NEW l \in Lanes,
               laneToBridge'[l] # Nobody \/ inLanes'[l] # "Absent" \/ outLanes'[l].state # "Absent"
        PROVE  \E c \in BridgeIds : bridges'[c].state # "Absent" /\ bridges'[c].lane_id = l
    <3>1. CASE l = lane
      BY <1>5, <1>7, <3>1
    <3>2. CASE l # lane
      <4>1. PICK c \in BridgeIds : bridges[c].state # "Absent" /\ bridges[c].lane_id = l
        BY <1>1, <1>7, <2>2, <3>2 DEF TryState
      <4>2. c # b
        BY <1>2, <4>1
      <4> QED
        BY <1>7, <4>1, <4>2
    <3> QED
      BY <3>1, <3>2
  <2> QED
    BY <2>1, <2>2 DEF TryState
<1>11. DepositsBackBridges'
  <2>1. bridges[b].deposit = 0 /\ bridges'[b].deposit = deposit
    BY <1>1, <1>2, <1>5, <1>7 DEF BridgesAreWhole
  <2>2. /\ held'[owner] = held[owner] - bridges[b].deposit + bridges'[b].deposit
        /\ free'[owner] = free[owner] + bridges[b].deposit - bridges'[b].deposit
    BY <1>3, <1>7, <2>1
  <2> QED
    BY <1>1, <1>6, <1>7, <2>2, DepositsChange DEF owner
<1>12. StateFollowsQueue'
  <2>1. ASSUME NEW c \in BridgeIds, bridges'[c].state \in {"Opened", "Suspended"},
               ~ unreported'[c]
        PROVE  LET enqueued == EnqueuedMessages(outLanes'[bridges'[c].lane_id])
               IN  /\ enqueued > CongestedThreshold => bridges'[c].state = "Suspended"
                   /\ enqueued <= UncongestedThreshold => bridges'[c].state = "Opened"
    <3>1. CASE c = b
      <4>1. EnqueuedMessages(outLanes'[bridges'[c].lane_id]) = 0 /\ bridges'[c].state = "Opened"
        BY <1>4, <1>5, <1>7, <3>1
      <4>2. CongestedThreshold \in Nat
        BY HubAssumption
      <4> QED
        BY <4>1, <4>2
    <3>2. CASE c # b
      <4>1. Exists(c) /\ bridges'[c] = bridges[c]
        BY <1>7, <2>1, <3>2 DEF Exists
      <4>2. outLanes'[bridges[c].lane_id] = outLanes[bridges[c].lane_id]
        BY <1>7, <1>8, <3>2, <4>1
      <4> QED
        BY <1>1, <1>7, <2>1, <4>1, <4>2 DEF StateFollowsQueue
    <3> QED
      BY <3>1, <3>2
  <2> QED
    BY <2>1 DEF StateFollowsQueue, EnqueuedMessages
<1>13. RouterKnowsState'
  <2>1. \A c \in BridgeIds : bridges'[c].state = "Suspended" <=> bridges[c].state = "Suspended"
    BY <1>2, <1>5, <1>7
  <2> QED
    BY <1>1, <1>7, <2>1 DEF RouterKnowsState, IsToldCongested, IsCongestedForOwner
<1> QED
  BY <1>6, <1>9, <1>10, <1>11, <1>12, <1>13 DEF HubInv

\* Deposits are released in full.
LEMMA WholeDepositIsReleased ==
    ASSUME HubTypeOK, DepositsBackBridges, NEW b \in BridgeIds
    PROVE  ReleasedDeposit(b) = bridges[b].deposit
<1> DEFINE S == BridgesOf(OwnerOf(b))
<1>1. OwnerOf(b) \in Owners /\ b \in S /\ IsFiniteSet(S) /\ S \subseteq BridgeIds
  BY HubAssumption, FS_Subset DEF BridgesOf
<1>2. /\ \A c \in S : DepositOf[c] \in Nat
      /\ DepositOf[b] = bridges[b].deposit
  BY <1>1, BridgeTypes DEF DepositOf
<1> HIDE DEF S
<1>3. DepositOf[b] <= SumFunctionOnSet(DepositOf, S)
  BY <1>1, <1>2, SumIsAtLeast
<1>4. held[OwnerOf(b)] = SumFunctionOnSet(DepositOf, S) /\ held[OwnerOf(b)] \in Nat
  BY <1>1 DEF DepositsBackBridges, HubTypeOK, S
<1>5. bridges[b].deposit \in Nat /\ bridges[b].deposit <= held[OwnerOf(b)]
  BY <1>2, <1>3, <1>4, BridgeTypes
<1>6. \A x, y \in Nat : x <= y => Min({x, y}) = x
  <2>1. ASSUME NEW x \in Nat, NEW y \in Nat, x <= y
        PROVE  Min({x, y}) = x
    <3>1. /\ x \in {x, y} /\ \A z \in {x, y} : x <= z
          /\ \A m \in {x, y} : (\A z \in {x, y} : m <= z) => m = x
      BY <2>1
    <3> QED
      BY <3>1 DEF Min
  <2> QED
    BY <2>1
<1> QED
  BY <1>4, <1>5, <1>6 DEF ReleasedDeposit

LEMMA CloseStep ==
    ASSUME HubInv, NEW b \in BridgeIds, NEW mayPrune \in 0 .. MaxNonce, CloseBridge(b, mayPrune)
    PROVE  HubInv'
<1> DEFINE lane == bridges[b].lane_id
           owner == OwnerOf(b)
           pruned == PrunedLane(outLanes[lane], mayPrune)
           isPruned == UnprunedMessages(pruned) = {}
           newLane == IF isPruned THEN [OutboundLaneOpened EXCEPT !.state = "Absent"]
                      ELSE [pruned EXCEPT !.state = "Closed"]
           newBridge == IF isPruned THEN NoBridge ELSE [bridges[b] EXCEPT !.state = "Closed"]
           released == IF isPruned THEN bridges[b].deposit ELSE 0
           closed == IF isPruned THEN "Absent" ELSE "Closed"
           newOwner == IF isPruned THEN Nobody ELSE laneToBridge[lane]
<1>1. HubTypeOK /\ BridgesAreWhole /\ TryState /\ DepositsBackBridges /\ StateFollowsQueue
        /\ RouterKnowsState
  BY DEF HubInv
<1>2. Exists(b) /\ lane \in Lanes /\ laneToBridge[lane] = b /\ owner \in Owners
  BY <1>1, HubAssumption, BridgeHasLane DEF CloseBridge, Exists
<1>3. ReleasedDeposit(b) = bridges[b].deposit
  BY <1>1, WholeDepositIsReleased
<1>4. /\ outLanes' = [outLanes EXCEPT ![lane] = newLane]
      /\ inLanes' = [inLanes EXCEPT ![lane] = closed]
      /\ bridges' = [bridges EXCEPT ![b] = newBridge]
      /\ laneToBridge' = [laneToBridge EXCEPT ![lane] = newOwner]
      /\ free' = [free EXCEPT ![owner] = free[owner] + released]
      /\ held' = [held EXCEPT ![owner] = held[owner] - released]
      /\ unreported' = [unreported EXCEPT ![b] = FALSE]
      /\ abandoned' = [abandoned EXCEPT ![b] = abandoned[b] \/ bridges[b].state = "Suspended"]
      /\ UNCHANGED <<bridgeDeposit, routerVars, reports, failures>>
  BY <1>3 DEF CloseBridge
<1>5. newLane \in OutboundLaneData /\ newLane.state = closed
  <2>1. outLanes[lane] \in OutboundLaneData
    BY <1>1, <1>2 DEF HubTypeOK
  <2>2. OldestAfterPruning(outLanes[lane], mayPrune) \in Nat
    <3>1. /\ outLanes[lane].oldest_unpruned_nonce \in Nat
          /\ outLanes[lane].latest_generated_nonce \in Nat
      BY <2>1, LaneTypes
    <3>2. mayPrune \in Nat
      BY MaxNonceAssumption
    <3> QED
      BY <3>1, <3>2 DEF OldestAfterPruning
  <2>3. pruned \in OutboundLaneData
    BY <2>1, <2>2 DEF PrunedLane, OutboundLaneData
  <2> HIDE DEF pruned, isPruned
  <2>4. /\ [pruned EXCEPT !.state = "Closed"] \in OutboundLaneData
        /\ [pruned EXCEPT !.state = "Closed"].state = "Closed"
    BY <2>3 DEF OutboundLaneData, LaneStates
  <2>5. /\ [OutboundLaneOpened EXCEPT !.state = "Absent"] \in OutboundLaneData
        /\ [OutboundLaneOpened EXCEPT !.state = "Absent"].state = "Absent"
    BY DEF OutboundLaneData, OutboundLaneOpened, LaneStates
  <2> QED
    BY <2>4, <2>5
<1>6. /\ newBridge \in BridgeRecord
      /\ newBridge.state = closed
      /\ isPruned => newBridge.deposit = 0
      /\ ~ isPruned => newBridge.deposit = bridges[b].deposit /\ newBridge.lane_id = lane
  <2> HIDE DEF isPruned
  <2>1. bridges[b] \in BridgeRecord
    BY <1>1, BridgeTypes
  <2>2. NoBridge \in BridgeRecord /\ NoBridge.state = "Absent" /\ NoBridge.deposit = 0
    BY DEF NoBridge, BridgeRecord
  <2> QED
    BY <2>1, <2>2 DEF BridgeRecord
<1>7. /\ free[owner] \in Nat /\ held[owner] \in Nat /\ bridges[b].deposit \in Nat
      /\ released \in Nat /\ held[owner] - released \in Nat
  <2>1. free[owner] \in Nat /\ held[owner] \in Nat /\ bridges[b].deposit \in Nat
    BY <1>1, <1>2, BridgeTypes DEF HubTypeOK
  <2>2. bridges[b].deposit <= held[owner]
    <3>1. \A x, y \in Nat : Min({x, y}) = x => x <= y
      <4>1. \A x, y \in Nat : \E m \in {x, y} : \A z \in {x, y} : m <= z
        OBVIOUS
      <4>2. ASSUME NEW x \in Nat, NEW y \in Nat
            PROVE  \A z \in {x, y} : Min({x, y}) <= z
        BY <4>1 DEF Min
      <4> QED
        BY <4>2
    <3> QED
      BY <1>3, <2>1, <3>1 DEF ReleasedDeposit
  <2> HIDE DEF isPruned
  <2> QED
    BY <2>1, <2>2
<1> HIDE DEF lane, owner, isPruned, newLane, newBridge
<1>8. HubTypeOK'
  <2>1. free' \in [Owners -> Nat] /\ held' \in [Owners -> Nat]
    BY <1>1, <1>2, <1>4, <1>7 DEF HubTypeOK
  <2>2. bridges' \in [BridgeIds -> BridgeRecord]
    BY <1>1, <1>4, <1>6 DEF HubTypeOK, BridgeRecord
  <2>3. laneToBridge' \in [Lanes -> BridgeIds \cup {Nobody}]
    BY <1>1, <1>2, <1>4 DEF HubTypeOK
  <2>4. inLanes' \in [Lanes -> LaneStates] /\ outLanes' \in [Lanes -> OutboundLaneData]
    BY <1>1, <1>4, <1>5 DEF HubTypeOK, LaneStates
  <2>5. unreported' \in [BridgeIds -> BOOLEAN] /\ abandoned' \in [BridgeIds -> BOOLEAN]
    BY <1>1, <1>4 DEF HubTypeOK
  <2> QED
    BY <1>1, <1>4, <2>1, <2>2, <2>3, <2>4, <2>5 DEF HubTypeOK, BridgeRecord, routerVars
<1>9. /\ bridges'[b] = newBridge
      /\ \A c \in BridgeIds \ {b} : bridges'[c] = bridges[c]
      /\ laneToBridge'[lane] = newOwner /\ inLanes'[lane] = closed /\ outLanes'[lane] = newLane
      /\ \A l \in Lanes \ {lane} : /\ laneToBridge'[l] = laneToBridge[l]
                                   /\ inLanes'[l] = inLanes[l]
                                   /\ outLanes'[l] = outLanes[l]
      /\ held'[owner] = held[owner] - released /\ free'[owner] = free[owner] + released
      /\ \A o \in Owners \ {owner} : held'[o] = held[o] /\ free'[o] = free[o]
      /\ \A c \in BridgeIds \ {b} : unreported'[c] = unreported[c] /\ abandoned'[c] = abandoned[c]
      /\ abandoned'[b] <=> abandoned[b] \/ bridges[b].state = "Suspended"
      /\ reports' = reports /\ router' = router
  <2> HIDE DEF closed, newOwner, released
  <2> QED
    BY <1>1, <1>2, <1>4 DEF HubTypeOK, routerVars
<1>10. \A c \in BridgeIds \ {b} : Exists(c) => /\ bridges[c].lane_id \in Lanes
                                               /\ bridges[c].lane_id # lane
  BY <1>1, <1>2, BridgeHasLane
<1>11. BridgesAreWhole'
  BY <1>1, <1>2, <1>6, <1>9 DEF BridgesAreWhole
<1>12. TryState'
  <2>1. ASSUME NEW c \in BridgeIds, bridges'[c].state # "Absent"
        PROVE  LET l == bridges'[c].lane_id
                   state == IF bridges'[c].state = "Closed" THEN "Closed" ELSE "Opened"
               IN  laneToBridge'[l] = c /\ inLanes'[l] = state /\ outLanes'[l].state = state
    <3>1. CASE c = b
      BY <1>2, <1>5, <1>6, <1>9, <2>1, <3>1
    <3>2. CASE c # b
      <4>1. Exists(c) /\ bridges'[c] = bridges[c]
        BY <1>9, <2>1, <3>2 DEF Exists
      <4>2. bridges[c].lane_id \in Lanes \ {lane}
        BY <1>10, <3>2, <4>1
      <4> QED
        BY <1>1, <1>9, <4>1, <4>2 DEF TryState, Exists
    <3> QED
      BY <3>1, <3>2
  <2>2. ASSUME NEW l \in Lanes,
               laneToBridge'[l] # Nobody \/ inLanes'[l] # "Absent" \/ outLanes'[l].state # "Absent"
        PROVE  \E c \in BridgeIds : bridges'[c].state # "Absent" /\ bridges'[c].lane_id = l
    <3>1. CASE l = lane
      <4>1. ~ isPruned
        BY <1>5, <1>9, <2>2, <3>1
      <4> QED
        BY <1>6, <1>9, <3>1, <4>1
    <3>2. CASE l # lane
      <4>1. PICK c \in BridgeIds : bridges[c].state # "Absent" /\ bridges[c].lane_id = l
        BY <1>1, <1>9, <2>2, <3>2 DEF TryState
      <4>2. c # b
        BY <3>2, <4>1 DEF lane
      <4> QED
        BY <1>9, <4>1, <4>2
    <3> QED
      BY <3>1, <3>2
  <2> QED
    BY <2>1, <2>2 DEF TryState
<1>13. DepositsBackBridges'
  <2>1. released = bridges[b].deposit - bridges'[b].deposit /\ bridges'[b].deposit \in Nat
    BY <1>6, <1>7, <1>9
  <2> HIDE DEF released
  <2>2. /\ held'[owner] = held[owner] - bridges[b].deposit + bridges'[b].deposit
        /\ free'[owner] = free[owner] + bridges[b].deposit - bridges'[b].deposit
    BY <1>7, <1>9, <2>1
  <2> QED
    BY <1>1, <1>8, <1>9, <2>2, DepositsChange DEF owner
<1>14. StateFollowsQueue'
  <2>1. ASSUME NEW c \in BridgeIds, bridges'[c].state \in {"Opened", "Suspended"},
               ~ unreported'[c]
        PROVE  LET enqueued == EnqueuedMessages(outLanes'[bridges'[c].lane_id])
               IN  /\ enqueued > CongestedThreshold => bridges'[c].state = "Suspended"
                   /\ enqueued <= UncongestedThreshold => bridges'[c].state = "Opened"
    <3>1. c # b
      BY <1>6, <1>9, <2>1
    <3>2. Exists(c) /\ bridges'[c] = bridges[c]
      BY <1>9, <2>1, <3>1 DEF Exists
    <3>3. outLanes'[bridges[c].lane_id] = outLanes[bridges[c].lane_id]
      BY <1>9, <1>10, <3>1, <3>2
    <3> QED
      BY <1>1, <1>9, <2>1, <3>1, <3>2, <3>3 DEF StateFollowsQueue
  <2> QED
    BY <2>1 DEF StateFollowsQueue, EnqueuedMessages
<1>15. RouterKnowsState'
  <2>1. ASSUME NEW c \in BridgeIds
        PROVE  IsCongestedForOwner(c)' <=> IsCongestedForOwner(c)
    <3>1. CASE c = b
      <4>1. bridges'[b].state # "Suspended"
        BY <1>6, <1>9
      <4> QED
        BY <1>9, <3>1, <4>1 DEF IsCongestedForOwner
    <3>2. CASE c # b
      BY <1>9, <3>2 DEF IsCongestedForOwner
    <3> QED
      BY <3>1, <3>2
  <2> QED
    BY <1>1, <1>9, <2>1 DEF RouterKnowsState, IsToldCongested
<1> QED
  BY <1>8, <1>11, <1>12, <1>13, <1>14, <1>15 DEF HubInv

-----------------------------------------------------------------------------
(***************************************************************************)
(* Messages and reports.                                                   *)
(***************************************************************************)

\* What a report, or the lack of one, leaves of the bridges.
LEMMA ReportEffect ==
    ASSUME HubTypeOK, NEW b \in BridgeIds, NEW isCongested \in BOOLEAN,
           Report(b, isCongested) \/ NoReport
    PROVE  /\ bridges' \in [BridgeIds -> BridgeRecord]
           /\ reports' \in [BridgeIds -> Seq(BOOLEAN)]
           /\ unreported' \in [BridgeIds -> BOOLEAN]
           /\ abandoned' \in [BridgeIds -> BOOLEAN]
           /\ failures' \in Nat
           /\ \A c \in BridgeIds : /\ bridges'[c].lane_id = bridges[c].lane_id
                                   /\ bridges'[c].deposit = bridges[c].deposit
           /\ \A c \in BridgeIds \ {b} : /\ bridges'[c] = bridges[c]
                                         /\ reports'[c] = reports[c]
                                         /\ unreported'[c] = unreported[c]
                                         /\ abandoned'[c] = abandoned[c]
           /\ \/ /\ bridges'[b].state = IF isCongested THEN "Suspended" ELSE "Opened"
                 /\ reports'[b] = Append(reports[b], isCongested)
                 /\ ~ abandoned'[b]
                 /\ Report(b, isCongested)
              \/ /\ bridges'[b] = bridges[b] /\ reports'[b] = reports[b]
                 /\ abandoned'[b] = abandoned[b]
                 /\ unreported'[b] \/ NoReport
<1>1. /\ bridges \in [BridgeIds -> BridgeRecord]
      /\ reports \in [BridgeIds -> Seq(BOOLEAN)]
      /\ unreported \in [BridgeIds -> BOOLEAN]
      /\ abandoned \in [BridgeIds -> BOOLEAN]
      /\ failures \in Nat
  BY DEF HubTypeOK, BridgeRecord
<1>2. bridges[b] \in BridgeRecord /\ reports[b] \in Seq(BOOLEAN)
  BY <1>1
<1> DEFINE state == IF isCongested THEN "Suspended" ELSE "Opened"
<1>3. CASE NoReport
  BY <1>1, <1>3 DEF NoReport
<1>4. CASE /\ reports' = [reports EXCEPT ![b] = Append(reports[b], isCongested)]
           /\ bridges' = [bridges EXCEPT ![b].state = state]
           /\ unreported' = [unreported EXCEPT ![b] = FALSE]
           /\ abandoned' = [abandoned EXCEPT ![b] = FALSE]
           /\ UNCHANGED failures
           /\ Report(b, isCongested)
  <2>1. /\ [bridges[b] EXCEPT !.state = state] \in BridgeRecord
        /\ [bridges[b] EXCEPT !.state = state].state = state
        /\ [bridges[b] EXCEPT !.state = state].lane_id = bridges[b].lane_id
        /\ [bridges[b] EXCEPT !.state = state].deposit = bridges[b].deposit
    BY <1>2 DEF BridgeRecord
  <2>2. Append(reports[b], isCongested) \in Seq(BOOLEAN)
    BY <1>2
  <2>3. bridges' = [bridges EXCEPT ![b] = [bridges[b] EXCEPT !.state = state]]
    BY <1>1, <1>4
  <2> HIDE DEF state
  <2>4. /\ bridges' \in [BridgeIds -> BridgeRecord]
        /\ bridges'[b] = [bridges[b] EXCEPT !.state = state]
        /\ \A c \in BridgeIds \ {b} : bridges'[c] = bridges[c]
    BY <1>1, <2>1, <2>3
  <2>5. /\ reports' \in [BridgeIds -> Seq(BOOLEAN)]
        /\ reports'[b] = Append(reports[b], isCongested)
        /\ \A c \in BridgeIds \ {b} : reports'[c] = reports[c]
    BY <1>1, <1>4, <2>2
  <2>6. /\ unreported' \in [BridgeIds -> BOOLEAN] /\ abandoned' \in [BridgeIds -> BOOLEAN]
        /\ \A c \in BridgeIds \ {b} : /\ unreported'[c] = unreported[c]
                                      /\ abandoned'[c] = abandoned[c]
        /\ ~ abandoned'[b]
    BY <1>1, <1>4
  <2>7. bridges'[b].state = state
    BY <2>1, <2>4
  <2>8. \A c \in BridgeIds : /\ bridges'[c].lane_id = bridges[c].lane_id
                             /\ bridges'[c].deposit = bridges[c].deposit
    BY <2>1, <2>4
  <2> QED
    BY <1>1, <1>4, <2>4, <2>5, <2>6, <2>7, <2>8 DEF state
<1>5. CASE /\ failures' = failures + 1
           /\ unreported' = [unreported EXCEPT ![b] = TRUE]
           /\ UNCHANGED <<bridges, reports, abandoned>>
  <2>1. /\ unreported' \in [BridgeIds -> BOOLEAN] /\ unreported'[b]
        /\ \A c \in BridgeIds \ {b} : unreported'[c] = unreported[c]
    BY <1>1, <1>5
  <2> QED
    BY <1>1, <1>5, <2>1
<1> QED
  BY <1>3, <1>4, <1>5 DEF Report

\* A report that is attempted leaves a trace, even if it fails.
LEMMA ReportIsAStep ==
    ASSUME HubTypeOK, NEW b \in BridgeIds, NEW isCongested \in BOOLEAN
    PROVE  ~ (Report(b, isCongested) /\ NoReport)
<1> SUFFICES ASSUME Report(b, isCongested), NoReport
             PROVE  FALSE
  OBVIOUS
<1>1. reports' = reports /\ failures' = failures
  BY DEF NoReport
<1>2. reports[b] \in Seq(BOOLEAN) /\ failures \in Nat
  BY DEF HubTypeOK
<1>3. CASE failures' = failures + 1
  BY <1>1, <1>2, <1>3
<1>4. CASE reports' = [reports EXCEPT ![b] = Append(reports[b], isCongested)]
  <2>1. reports'[b] = Append(reports[b], isCongested)
    BY <1>4 DEF HubTypeOK
  <2>2. Len(reports'[b]) = Len(reports[b]) + 1 /\ Len(reports[b]) \in Nat
    BY <1>2, <2>1, AppendProperties
  <2> QED
    BY <1>1, <2>2
<1> QED
  BY <1>3, <1>4 DEF Report

\* A bridge may keep its state while its lane has that many messages.
Follows(b, enqueued) ==
    bridges[b].state \in {"Opened", "Suspended"} /\ ~ unreported[b] =>
        /\ enqueued > CongestedThreshold => bridges[b].state = "Suspended"
        /\ enqueued <= UncongestedThreshold => bridges[b].state = "Opened"

\* The messages of a bridge's lane have changed, and the owner has been told if
\* the bridge's state has to change.
LEMMA AfterMessage ==
    ASSUME HubInv, NEW b \in BridgeIds, Exists(b), NEW new \in OutboundLaneData,
           new.state = outLanes[bridges[b].lane_id].state,
           outLanes' = [outLanes EXCEPT ![bridges[b].lane_id] = new],
           laneToBridge' = laneToBridge, inLanes' = inLanes, free' = free, held' = held,
           bridgeDeposit' = bridgeDeposit, router' = router,
           underWay' \in [BridgeIds -> Nat],
           NEW isCongested \in BOOLEAN,
           Report(b, isCongested) \/ NoReport,
           Report(b, isCongested) =>
             /\ bridges[b].state = IF isCongested THEN "Opened" ELSE "Suspended"
             /\ IF isCongested THEN EnqueuedMessages(new) > CongestedThreshold
                ELSE EnqueuedMessages(new) <= UncongestedThreshold,
           NoReport => Follows(b, EnqueuedMessages(new))
    PROVE  HubInv'
<1> DEFINE lane == bridges[b].lane_id
<1>1. HubTypeOK /\ BridgesAreWhole /\ TryState /\ DepositsBackBridges /\ StateFollowsQueue
        /\ RouterKnowsState
  BY DEF HubInv
<1>2. /\ bridges' \in [BridgeIds -> BridgeRecord]
      /\ reports' \in [BridgeIds -> Seq(BOOLEAN)]
      /\ unreported' \in [BridgeIds -> BOOLEAN]
      /\ abandoned' \in [BridgeIds -> BOOLEAN]
      /\ failures' \in Nat
      /\ \A c \in BridgeIds : /\ bridges'[c].lane_id = bridges[c].lane_id
                              /\ bridges'[c].deposit = bridges[c].deposit
      /\ \A c \in BridgeIds \ {b} : /\ bridges'[c] = bridges[c]
                                    /\ reports'[c] = reports[c]
                                    /\ unreported'[c] = unreported[c]
                                    /\ abandoned'[c] = abandoned[c]
      /\ \/ /\ bridges'[b].state = IF isCongested THEN "Suspended" ELSE "Opened"
            /\ reports'[b] = Append(reports[b], isCongested)
            /\ ~ abandoned'[b]
            /\ Report(b, isCongested)
         \/ /\ bridges'[b] = bridges[b] /\ reports'[b] = reports[b]
            /\ abandoned'[b] = abandoned[b]
            /\ unreported'[b] \/ NoReport
  BY <1>1, ReportEffect
<1>3. /\ lane \in Lanes /\ laneToBridge[lane] = b
      /\ bridges[b].state # "Absent"
  BY <1>1, BridgeHasLane DEF Exists
<1> HIDE DEF lane
<1>4. /\ outLanes'[lane] = new /\ new.state = outLanes[lane].state
      /\ \A l \in Lanes \ {lane} : outLanes'[l] = outLanes[l]
      /\ \A l \in Lanes : outLanes'[l].state = outLanes[l].state
  BY <1>1, <1>3 DEF HubTypeOK, lane
<1>5. HubTypeOK'
  <2>1. outLanes' \in [Lanes -> OutboundLaneData]
    BY <1>1, <1>3 DEF HubTypeOK, lane
  <2> QED
    BY <1>1, <1>2, <2>1 DEF HubTypeOK, BridgeRecord
<1>6. /\ \A c \in BridgeIds : bridges'[c].state = "Absent" <=> bridges[c].state = "Absent"
      /\ \A c \in BridgeIds : bridges'[c].state = "Closed" <=> bridges[c].state = "Closed"
  BY <1>2
<1>7. BridgesAreWhole'
  <2>1. \A c \in BridgeIds : /\ bridges'[c].lane_id = bridges[c].lane_id
                              /\ bridges'[c].deposit = bridges[c].deposit
    BY <1>2
  <2> QED
    BY <1>1, <1>6, <2>1 DEF BridgesAreWhole
<1>8. TryState'
  <2>1. ASSUME NEW c \in BridgeIds, bridges'[c].state # "Absent"
        PROVE  LET l == bridges'[c].lane_id
                   state == IF bridges'[c].state = "Closed" THEN "Closed" ELSE "Opened"
               IN  laneToBridge'[l] = c /\ inLanes'[l] = state /\ outLanes'[l].state = state
    <3>1. Exists(c) /\ bridges'[c].lane_id = bridges[c].lane_id
      BY <1>2, <1>6, <2>1 DEF Exists
    <3>2. bridges[c].lane_id \in Lanes
      BY <1>1, <3>1, BridgeHasLane
    <3> QED
      BY <1>1, <1>4, <1>6, <3>1, <3>2, BridgeHasLane
  <2>2. ASSUME NEW l \in Lanes,
               laneToBridge'[l] # Nobody \/ inLanes'[l] # "Absent" \/ outLanes'[l].state # "Absent"
        PROVE  \E c \in BridgeIds : bridges'[c].state # "Absent" /\ bridges'[c].lane_id = l
    <3>1. PICK c \in BridgeIds : bridges[c].state # "Absent" /\ bridges[c].lane_id = l
      BY <1>1, <1>4, <2>2 DEF TryState
    <3> QED
      BY <1>2, <1>6, <3>1
  <2> QED
    BY <2>1, <2>2 DEF TryState
<1>9. DepositsBackBridges'
  <2>1. DepositOf' = DepositOf
    BY <1>2 DEF DepositOf
  <2> QED
    BY <1>1, <2>1 DEF DepositsBackBridges, BridgesOf
<1>10. StateFollowsQueue'
  <2>1. ASSUME NEW c \in BridgeIds, bridges'[c].state \in {"Opened", "Suspended"},
               ~ unreported'[c]
        PROVE  LET enqueued == EnqueuedMessages(outLanes'[bridges'[c].lane_id])
               IN  /\ enqueued > CongestedThreshold => bridges'[c].state = "Suspended"
                   /\ enqueued <= UncongestedThreshold => bridges'[c].state = "Opened"
    <3>1. CASE c # b
      <4>1. Exists(c) /\ bridges'[c] = bridges[c]
        BY <1>2, <2>1, <3>1 DEF Exists
      <4>2. bridges[c].lane_id \in Lanes \ {lane}
        BY <1>1, <1>3, <3>1, <4>1, BridgeHasLane
      <4> QED
        BY <1>1, <1>2, <1>4, <2>1, <3>1, <4>1, <4>2 DEF StateFollowsQueue
    <3>2. CASE c = b
      <4>1. outLanes'[bridges'[c].lane_id] = new
        BY <1>2, <1>4, <3>2 DEF lane
      <4>2. CASE Report(b, isCongested) /\ bridges'[b].state = IF isCongested THEN "Suspended" ELSE "Opened"
        <5>1. EnqueuedMessages(new) \in Nat
          BY LaneTypes
        <5>2. /\ CongestedThreshold \in Nat /\ UncongestedThreshold \in Nat
              /\ UncongestedThreshold <= CongestedThreshold
          BY HubAssumption
        <5>3. IF isCongested THEN EnqueuedMessages(new) > CongestedThreshold
              ELSE EnqueuedMessages(new) <= UncongestedThreshold
          BY <4>2
        <5> QED
          BY <3>2, <4>1, <4>2, <5>1, <5>2, <5>3
      <4>3. CASE bridges'[b] = bridges[b] /\ NoReport
        <5>1. Follows(b, EnqueuedMessages(new)) /\ unreported'[b] = unreported[b]
          BY <4>3 DEF NoReport
        <5> QED
          BY <2>1, <3>2, <4>1, <4>3, <5>1 DEF Follows
      <4> QED
        BY <1>2, <2>1, <3>2, <4>2, <4>3
    <3> QED
      BY <3>1, <3>2
  <2> QED
    BY <2>1 DEF StateFollowsQueue, EnqueuedMessages
<1>11. RouterKnowsState'
  <2>1. ASSUME NEW c \in BridgeIds
        PROVE  IsToldCongested(c)' <=> IsCongestedForOwner(c)'
    <3>1. IsToldCongested(c) <=> IsCongestedForOwner(c)
      BY <1>1 DEF RouterKnowsState
    <3>2. CASE bridges'[c] = bridges[c] /\ reports'[c] = reports[c] /\ abandoned'[c] = abandoned[c]
      BY <3>1, <3>2 DEF IsToldCongested, IsCongestedForOwner
    <3>3. CASE /\ c = b
               /\ bridges'[b].state = IF isCongested THEN "Suspended" ELSE "Opened"
               /\ reports'[b] = Append(reports[b], isCongested)
               /\ ~ abandoned'[b]
      <4>1. reports[b] \in Seq(BOOLEAN)
        BY <1>1 DEF HubTypeOK
      <4>2. /\ reports'[b] # <<>>
            /\ reports'[b][Len(reports'[b])] = isCongested
        BY <3>3, <4>1, AppendProperties
      <4>3. IsCongestedForOwner(b)' <=> isCongested
        BY <3>3 DEF IsCongestedForOwner
      <4> QED
        BY <3>3, <4>2, <4>3 DEF IsToldCongested
    <3> QED
      BY <1>2, <3>2, <3>3
  <2> QED
    BY <2>1 DEF RouterKnowsState
<1> QED
  BY <1>5, <1>7, <1>8, <1>9, <1>10, <1>11 DEF HubInv

LEMMA ExportStep ==
    ASSUME HubInv, NEW b \in BridgeIds, ExportMessage(b)
    PROVE  HubInv'
<1> DEFINE lane == bridges[b].lane_id
           sent == SentLane(outLanes[lane])
<1>1. HubTypeOK /\ BridgesAreWhole /\ TryState /\ StateFollowsQueue
  BY DEF HubInv
<1>2. /\ underWay[b] > 0
      /\ underWay' = [underWay EXCEPT ![b] = underWay[b] - 1]
      /\ laneToBridge' = laneToBridge /\ inLanes' = inLanes /\ free' = free /\ held' = held
      /\ bridgeDeposit' = bridgeDeposit /\ router' = router
  BY DEF ExportMessage
<1>3. underWay' \in [BridgeIds -> Nat]
  <2>1. underWay \in [BridgeIds -> Nat] /\ underWay[b] - 1 \in Nat
    BY <1>1, <1>2 DEF HubTypeOK
  <2> QED
    BY <1>2, <2>1
<1>4. CASE bridges[b].state = "Absent" \/ outLanes[lane].state # "Opened"
  <2>1. /\ outLanes' = outLanes /\ bridges' = bridges /\ reports' = reports
        /\ unreported' = unreported /\ abandoned' = abandoned /\ failures' = failures
    BY <1>4 DEF ExportMessage, NoReport
  <2>2. HubTypeOK'
    BY <1>1, <1>2, <1>3, <2>1 DEF HubTypeOK
  <2>3. \A c \in BridgeIds : IsToldCongested(c)' <=> IsToldCongested(c)
    BY <1>2, <2>1 DEF IsToldCongested
  <2> QED
    BY <1>2, <2>1, <2>2, <2>3, HubUnchanged
<1>5. CASE ~ (bridges[b].state = "Absent" \/ outLanes[lane].state # "Opened")
  <2>1. /\ outLanes' = [outLanes EXCEPT ![lane] = sent]
        /\ IF MustSuspend(b, EnqueuedMessages(sent)) THEN Report(b, TRUE) ELSE NoReport
    BY <1>5 DEF ExportMessage
  <2>2. Exists(b) /\ lane \in Lanes /\ outLanes[lane].state = "Opened"
    BY <1>1, <1>5, BridgeHasLane DEF Exists
  <2>3. bridges[b].state \in {"Opened", "Suspended"}
    BY <1>1, <2>2, BridgeHasLane, BridgeTypes DEF Exists
  <2>4. outLanes[lane] \in OutboundLaneData
    BY <1>1, <2>2 DEF HubTypeOK
  <2>5. /\ sent \in OutboundLaneData /\ sent.state = outLanes[lane].state
        /\ EnqueuedMessages(sent) >= EnqueuedMessages(outLanes[lane])
    BY <2>4 DEF SentLane, OutboundLaneData, EnqueuedMessages
  <2>6. EnqueuedMessages(sent) \in Nat /\ EnqueuedMessages(outLanes[lane]) \in Nat
    BY <2>4, <2>5, LaneTypes
  <2>7. CongestedThreshold \in Nat /\ UncongestedThreshold \in Nat
    BY HubAssumption
  <2>8. Follows(b, EnqueuedMessages(outLanes[lane]))
    BY <1>1 DEF StateFollowsQueue, Follows
  <2> HIDE DEF sent
  <2>9. CASE MustSuspend(b, EnqueuedMessages(sent))
    <3>1. Report(b, TRUE) /\ bridges[b].state = "Opened" /\ EnqueuedMessages(sent) > CongestedThreshold
      BY <2>1, <2>3, <2>9 DEF MustSuspend
    <3>2. ~ NoReport
      BY <1>1, <3>1, ReportIsAStep
    <3> QED
      BY <1>2, <1>3, <2>1, <2>2, <2>5, <3>1, <3>2, AfterMessage
  <2>10. CASE ~ MustSuspend(b, EnqueuedMessages(sent))
    <3>1. NoReport
      BY <2>1, <2>10
    <3>3. Follows(b, EnqueuedMessages(sent))
      <4>1. ~ (EnqueuedMessages(sent) > CongestedThreshold) \/ bridges[b].state = "Suspended"
        BY <2>10 DEF MustSuspend
      <4>2. ASSUME ~ unreported[b], EnqueuedMessages(sent) <= UncongestedThreshold
            PROVE  bridges[b].state = "Opened"
        <5>1. EnqueuedMessages(outLanes[lane]) <= UncongestedThreshold
          BY <2>5, <2>6, <2>7, <4>2
        <5> QED
          BY <2>3, <2>8, <4>2, <5>1 DEF Follows
      <4> QED
        BY <4>1, <4>2 DEF Follows
    <3>2. ~ Report(b, TRUE)
      BY <1>1, <3>1, ReportIsAStep
    <3> QED
      BY <1>2, <1>3, <2>1, <2>2, <2>5, <3>1, <3>2, <3>3, AfterMessage
  <2> QED
    BY <2>9, <2>10
<1> QED
  BY <1>4, <1>5

LEMMA ConfirmStep ==
    ASSUME HubInv, NEW lane \in Lanes, NEW delivered \in 0 .. MaxNonce,
           ConfirmDelivery(lane, delivered)
    PROVE  HubInv'
<1> DEFINE b == laneToBridge[lane]
           confirmed == IF NothingToConfirm(outLanes[lane], delivered) THEN outLanes[lane]
                        ELSE ConfirmedLane(outLanes[lane], delivered)
<1>1. HubTypeOK /\ BridgesAreWhole /\ TryState /\ StateFollowsQueue
  BY DEF HubInv
<1>2. /\ outLanes[lane].state # "Absent"
      /\ outLanes' = [outLanes EXCEPT ![lane] = confirmed]
      /\ IF b # Nobody /\ MustResume(b, EnqueuedMessages(confirmed))
         THEN Report(b, FALSE) ELSE NoReport
      /\ laneToBridge' = laneToBridge /\ inLanes' = inLanes /\ free' = free /\ held' = held
      /\ bridgeDeposit' = bridgeDeposit /\ router' = router
      /\ underWay' = underWay
  BY DEF ConfirmDelivery, routerVars
<1>3. b \in BridgeIds /\ Exists(b) /\ bridges[b].lane_id = lane /\ b # Nobody
  BY <1>1, <1>2, LaneHasBridge, HubAssumption
<1>4. underWay' \in [BridgeIds -> Nat]
  BY <1>1, <1>2 DEF HubTypeOK
<1>5. /\ confirmed \in OutboundLaneData /\ confirmed.state = outLanes[lane].state
      /\ EnqueuedMessages(confirmed) <= EnqueuedMessages(outLanes[lane])
      /\ EnqueuedMessages(confirmed) \in Nat /\ EnqueuedMessages(outLanes[lane]) \in Nat
  <2>1. outLanes[lane] \in OutboundLaneData /\ EnqueuedMessages(outLanes[lane]) \in Nat
    BY <1>1, LaneTypes DEF HubTypeOK
  <2>2. CASE NothingToConfirm(outLanes[lane], delivered)
    BY <2>1, <2>2
  <2>3. CASE ~ NothingToConfirm(outLanes[lane], delivered)
    <3>1. delivered \in Nat /\ outLanes[lane].latest_received_nonce \in Nat
          /\ delivered > outLanes[lane].latest_received_nonce
          /\ outLanes[lane].latest_generated_nonce \in Nat
      BY <2>1, <2>3, LaneTypes, MaxNonceAssumption DEF NothingToConfirm
    <3>2. /\ confirmed \in OutboundLaneData
          /\ confirmed.state = outLanes[lane].state
          /\ confirmed.latest_received_nonce = delivered
          /\ confirmed.latest_generated_nonce = outLanes[lane].latest_generated_nonce
      <4>1. ASSUME NEW data \in OutboundLaneData
            PROVE  /\ ConfirmedLane(data, delivered) \in OutboundLaneData
                   /\ ConfirmedLane(data, delivered).state = data.state
                   /\ ConfirmedLane(data, delivered).latest_received_nonce = delivered
                   /\ ConfirmedLane(data, delivered).latest_generated_nonce
                        = data.latest_generated_nonce
        <5> DEFINE mid == [data EXCEPT !.latest_received_nonce = delivered]
        <5>1. /\ mid \in OutboundLaneData
              /\ mid.state = data.state /\ mid.latest_received_nonce = delivered
              /\ mid.latest_generated_nonce = data.latest_generated_nonce
          BY <3>1 DEF OutboundLaneData
        <5>2. ConfirmedLane(data, delivered) = [mid EXCEPT !.oldest_unpruned_nonce = delivered + 1]
          BY DEF ConfirmedLane
        <5> HIDE DEF mid
        <5> QED
          BY <3>1, <5>1, <5>2 DEF OutboundLaneData
      <4> QED
        BY <2>1, <2>3, <4>1
    <3>3. EnqueuedMessages(confirmed) <= EnqueuedMessages(outLanes[lane])
      BY <3>1, <3>2 DEF EnqueuedMessages
    <3> QED
      BY <2>1, <3>2, <3>3, LaneTypes
  <2> QED
    BY <2>2, <2>3
<1>6. CongestedThreshold \in Nat /\ UncongestedThreshold \in Nat
  BY HubAssumption
<1>7. Follows(b, EnqueuedMessages(outLanes[lane]))
  BY <1>1, <1>3 DEF StateFollowsQueue, Follows
<1> HIDE DEF b, confirmed
<1>8. CASE MustResume(b, EnqueuedMessages(confirmed))
  <2>1. /\ Report(b, FALSE) /\ bridges[b].state = "Suspended"
        /\ EnqueuedMessages(confirmed) <= UncongestedThreshold
    BY <1>2, <1>3, <1>8 DEF MustResume
  <2>2. ~ NoReport
    BY <1>1, <1>3, <2>1, ReportIsAStep
  <2> QED
    BY <1>2, <1>3, <1>4, <1>5, <2>1, <2>2, AfterMessage
<1>9. CASE ~ MustResume(b, EnqueuedMessages(confirmed))
  <2>1. NoReport
    BY <1>2, <1>9
  <2>2. ~ Report(b, FALSE)
    BY <1>1, <1>3, <2>1, ReportIsAStep
  <2>3. Follows(b, EnqueuedMessages(confirmed))
    <3>1. ~ (EnqueuedMessages(confirmed) <= UncongestedThreshold) \/ bridges[b].state # "Suspended"
      BY <1>9 DEF MustResume
    <3>2. ASSUME bridges[b].state \in {"Opened", "Suspended"}, ~ unreported[b],
                 EnqueuedMessages(confirmed) > CongestedThreshold
          PROVE  bridges[b].state = "Suspended"
      <4>1. EnqueuedMessages(outLanes[lane]) > CongestedThreshold
        BY <1>5, <1>6, <3>2
      <4> QED
        BY <1>7, <3>2, <4>1 DEF Follows
    <3> QED
      BY <3>1, <3>2 DEF Follows
  <2> QED
    BY <1>2, <1>3, <1>4, <1>5, <2>1, <2>2, <2>3, AfterMessage
<1> QED
  BY <1>8, <1>9

-----------------------------------------------------------------------------
LEMMA HubStep == HubInv /\ [Next]_vars => HubInv'
<1> SUFFICES ASSUME HubInv, [Next]_vars PROVE HubInv'
  OBVIOUS
<1>1. bridgeDeposit \in Nat
  BY HubAssumption DEF HubInv, HubTypeOK
<1>2. ASSUME NEW b \in BridgeIds, NEW version \in Versions, NEW deposit \in {0, bridgeDeposit},
             OpenBridge(b, version, deposit)
      PROVE  HubInv'
  BY <1>1, <1>2, OpenStep
<1>3. ASSUME NEW b \in BridgeIds, NEW mayPrune \in 0 .. MaxNonce, CloseBridge(b, mayPrune)
      PROVE  HubInv'
  BY <1>3, CloseStep
<1>4. ASSUME NEW b \in BridgeIds, ExportMessage(b)
      PROVE  HubInv'
  BY <1>4, ExportStep
<1>5. ASSUME NEW b \in BridgeIds, ReportBridgeStatus(b)
      PROVE  HubInv'
  BY <1>5, StatusStep
<1>6. ASSUME NEW lane \in Lanes, NEW delivered \in 0 .. MaxNonce, ConfirmDelivery(lane, delivered)
      PROVE  HubInv'
  BY <1>6, ConfirmStep
<1>7. CASE \/ \E b \in BridgeIds :
                \/ \E isChannelCongested \in BOOLEAN : SendMessage(b, isChannelCongested)
                \/ OnInitialize(b)
           \/ \E deposit \in Deposits : RuntimeUpgrade(deposit)
           \/ UNCHANGED vars
  BY <1>7, RouterStep
<1> QED
  BY <1>2, <1>3, <1>4, <1>5, <1>6, <1>7 DEF Next

\* The invariant of the hub holds in every reachable state.
THEOREM HubInvariant == HubSpec => []HubInv
  BY HubInitially, HubStep, PTL DEF HubSpec

\* do_try_state never fails: whatever is opened, suspended, resumed and closed,
\* every bridge has the lanes that its state promises and no lane is orphaned.
THEOREM TryStateHolds == HubSpec => []TryState
<1>1. HubInv => TryState
  BY DEF HubInv
<1> QED
  BY <1>1, HubInvariant, PTL

\* What close_bridge releases is what do_open_bridge has held, for every owner
\* of any number of bridges, however T::BridgeDeposit changes meanwhile.
THEOREM DepositsAreReturned == HubSpec => []DepositsBackBridges
<1>1. HubInv => DepositsBackBridges
  BY DEF HubInv
<1> QED
  BY <1>1, HubInvariant, PTL

\* on_bridge_message_enqueued and on_bridge_messages_delivered between them keep
\* the state of a bridge in line with the queue of its lane.
THEOREM StateIsThatOfQueue == HubSpec => []StateFollowsQueue
<1>1. HubInv => StateFollowsQueue
  BY DEF HubInv
<1> QED
  BY <1>1, HubInvariant, PTL

\* The reports of the channel manager leave every router with the state of its
\* bridge, in whatever order messages, reports and confirmations arrive, except
\* exactly that of a bridge closed while Suspended, until the next report.
THEOREM RouterIsTold == HubSpec => []RouterKnowsState
<1>1. HubInv => RouterKnowsState
  BY DEF HubInv
<1> QED
  BY <1>1, HubInvariant, PTL

\* Once the reports have arrived, on_message_sent_to_bridge raises the fee
\* factor exactly for bridges that are Suspended or were abandoned so, and
\* on_initialize never lowers it for those.
THEOREM FeeIsThatOfBridge == HubSpec => FeeFollowsBridge
<1>1. ASSUME HubInv, [Next]_vars, NEW b \in BridgeIds, reports[b] = <<>>
      PROVE  /\ SendMessage(b, FALSE) =>
                  (router'[b].factor > router[b].factor
                      <=> IsCongestedForOwner(b) /\ router[b].factor < MaxFactor)
             /\ router'[b].factor < router[b].factor => ~ IsCongestedForOwner(b)
  <2>1. /\ router \in [BridgeIds -> [is_congested : BOOLEAN, factor : 0 .. MaxFactor]]
        /\ router[b].factor \in 0 .. MaxFactor /\ MaxFactor \in Nat
    BY <1>1, HubAssumption DEF HubInv, HubTypeOK
  <2>2. router[b].is_congested <=> IsCongestedForOwner(b)
    BY <1>1 DEF HubInv, RouterKnowsState, IsToldCongested
  <2>3. ASSUME SendMessage(b, FALSE)
        PROVE  router'[b].factor > router[b].factor
                  <=> IsCongestedForOwner(b) /\ router[b].factor < MaxFactor
    <3>1. router'[b].factor = IF router[b].is_congested
                              THEN Min({router[b].factor + 1, MaxFactor}) ELSE router[b].factor
      BY <2>1, <2>3 DEF SendMessage
    <3>2. Min({router[b].factor + 1, MaxFactor})
            = IF router[b].factor < MaxFactor THEN router[b].factor + 1 ELSE router[b].factor
      BY <2>1, LevelRaised
    <3> QED
      BY <2>1, <2>2, <3>1, <3>2
  <2>4. ASSUME router'[b].factor < router[b].factor
        PROVE  ~ router[b].is_congested
    <3>1. \/ \E c \in BridgeIds : \/ \E isChannelCongested \in BOOLEAN :
                                        SendMessage(c, isChannelCongested)
                                   \/ OnInitialize(c)
                                   \/ ReportBridgeStatus(c)
          \/ router' = router
      <4>1. ASSUME NEW c \in BridgeIds, NEW version, NEW deposit, OpenBridge(c, version, deposit)
            PROVE  router' = router
        BY <4>1 DEF OpenBridge, routerVars
      <4>2. ASSUME NEW c \in BridgeIds, NEW mayPrune, CloseBridge(c, mayPrune)
            PROVE  router' = router
        BY <4>2 DEF CloseBridge, routerVars
      <4>3. ASSUME NEW c \in BridgeIds, ExportMessage(c)
            PROVE  router' = router
        BY <4>3 DEF ExportMessage
      <4>4. ASSUME NEW lane \in Lanes, NEW delivered, ConfirmDelivery(lane, delivered)
            PROVE  router' = router
        BY <4>4 DEF ConfirmDelivery, routerVars
      <4>5. ASSUME NEW deposit, RuntimeUpgrade(deposit)
            PROVE  router' = router
        BY <4>5 DEF RuntimeUpgrade, routerVars
      <4>6. CASE UNCHANGED vars
        BY <4>6 DEF vars, routerVars
      <4> QED
        BY <1>1, <4>1, <4>2, <4>3, <4>4, <4>5, <4>6 DEF Next
    <3>2. CASE router' = router
      BY <2>1, <2>4, <3>2
    <3>3. ASSUME NEW c \in BridgeIds, ReportBridgeStatus(c)
          PROVE  FALSE
      <4>1. router'[b].factor = router[b].factor
        BY <2>1, <3>3 DEF ReportBridgeStatus
      <4> QED
        BY <2>1, <2>4, <4>1
    <3>4. ASSUME NEW c \in BridgeIds, OnInitialize(c)
          PROVE  ~ router[b].is_congested
      <4>1. CASE c = b
        BY <3>4, <4>1 DEF OnInitialize
      <4>2. CASE c # b
        <5>1. router'[b].factor = router[b].factor
          BY <2>1, <3>4, <4>2 DEF OnInitialize
        <5> QED
          BY <2>1, <2>4, <5>1
      <4> QED
        BY <4>1, <4>2
    <3>5. ASSUME NEW c \in BridgeIds, NEW isChannelCongested \in BOOLEAN,
                 SendMessage(c, isChannelCongested)
          PROVE  FALSE
      <4>1. \/ router'[b].factor = router[b].factor
            \/ router'[b].factor = Min({router[b].factor + 1, MaxFactor})
        BY <2>1, <3>5 DEF SendMessage
      <4>2. Min({router[b].factor + 1, MaxFactor})
              = IF router[b].factor < MaxFactor THEN router[b].factor + 1 ELSE router[b].factor
        BY <2>1, LevelRaised
      <4> QED
        BY <2>1, <2>4, <4>1, <4>2
    <3> QED
      BY <3>1, <3>2, <3>3, <3>4, <3>5
  <2> QED
    BY <2>2, <2>3, <2>4
<1>2. HubInv /\ [Next]_vars =>
        [\A b \in BridgeIds : reports[b] = <<>> =>
            /\ SendMessage(b, FALSE) =>
                (router'[b].factor > router[b].factor
                    <=> IsCongestedForOwner(b) /\ router[b].factor < MaxFactor)
            /\ router'[b].factor < router[b].factor => ~ IsCongestedForOwner(b)]_vars
  BY <1>1
<1> QED
  BY <1>2, HubInvariant, PTL DEF HubSpec, FeeFollowsBridge
=============================================================================
