------------------------------ MODULE BridgeHub ------------------------------
(***************************************************************************)
(* The bridges of a bridge hub: pallet xcm-bridge-hub over the lanes of    *)
(* the messages pallet, and the routers of the chains that own the         *)
(* bridges, pallet xcm-bridge-hub-router.                                  *)
(*                                                                         *)
(* A chain sends messages through its router, which raises the fee while   *)
(* the bridge is congested.  The hub exports them over the bridge's lane,  *)
(* and reports congestion to the router through the local channel manager. *)
(* A call that fails is rolled back, so it is no step.                     *)
(***************************************************************************)
EXTENDS OutboundLane, FiniteSetsExt, Functions

CONSTANTS
    BridgeIds,            \* bridges that may exist: a local and a remote location
    Owners,               \* sovereign accounts of the local locations
    OwnerOf(_),           \* the account of a bridge's local location
    Versions,             \* XCM versions that a destination is given in
    Deposits,             \* amounts that BridgeDeposit may be set to
    Balance,              \* what every owner has in the beginning
    Nobody,               \* no bridge
    CongestedThreshold,   \* OUTBOUND_LANE_CONGESTED_THRESHOLD
    UncongestedThreshold, \* OUTBOUND_LANE_UNCONGESTED_THRESHOLD
    MaxUnderWay,          \* bound on messages from a router to the hub
    MaxReports,           \* bound on reports from the hub to a router
    MaxFactor,            \* the level at which the fee factor saturates
    MaxFailures           \* bound on failures of the channel manager

ASSUME HubAssumption ==
    /\ Nobody \notin BridgeIds /\ IsFiniteSet(BridgeIds)
    /\ \A b \in BridgeIds : OwnerOf(b) \in Owners
    /\ Deposits \subseteq Nat
    /\ {Balance, CongestedThreshold, UncongestedThreshold} \subseteq Nat
    /\ {MaxUnderWay, MaxReports, MaxFactor, MaxFailures} \subseteq Nat
    /\ UncongestedThreshold <= CongestedThreshold

VARIABLES
    bridges,        \* Bridges: state, lane_id and deposit of every bridge
    laneToBridge,   \* LaneToBridge
    outLanes,       \* OutboundLanes of the messages pallet
    inLanes,        \* InboundLanes of the messages pallet, their states
    free, held,     \* balances of the owners, and what is held as BridgeDeposit
    bridgeDeposit,  \* T::BridgeDeposit, which a runtime upgrade may change
    reports,        \* report_bridge_status under way to the router of a bridge
    router,         \* BridgeState of the router: is_congested, delivery_fee_factor
    underWay,       \* messages under way from the router to the hub
    failures,       \* failures of the channel manager so far
    unreported,     \* history: the last attempt to report a bridge's state failed
    abandoned       \* history: closed while Suspended, and nothing reported since

hubVars == <<bridges, laneToBridge, outLanes, inLanes, free, held, bridgeDeposit>>
routerVars == <<router, underWay>>
vars == <<hubVars, routerVars, reports, failures, unreported, abandoned>>

\* calculate_lane_id: the lane depends on the XCM version that the bridge was
\* opened with.
Lanes == BridgeIds \X Versions

NoBridge == [state |-> "Absent", lane_id |-> <<Nobody, 0>>, deposit |-> 0]

Init ==
    /\ bridges = [b \in BridgeIds |-> NoBridge]
    /\ laneToBridge = [l \in Lanes |-> Nobody]
    /\ outLanes = [l \in Lanes |-> [OutboundLaneOpened EXCEPT !.state = "Absent"]]
    /\ inLanes = [l \in Lanes |-> "Absent"]
    /\ free = [o \in Owners |-> Balance]
    /\ held = [o \in Owners |-> 0]
    /\ bridgeDeposit \in Deposits
    /\ reports = [b \in BridgeIds |-> <<>>]
    /\ router = [b \in BridgeIds |-> [is_congested |-> FALSE, factor |-> 0]]
    /\ underWay = [b \in BridgeIds |-> 0]
    /\ failures = 0
    /\ unreported = [b \in BridgeIds |-> FALSE]
    /\ abandoned = [b \in BridgeIds |-> FALSE]

-----------------------------------------------------------------------------
(***************************************************************************)
(* do_open_bridge.  deposit is zero for owners of AllowWithoutBridgeDeposit *)
(* and T::BridgeDeposit for the others; which are which may change, too.   *)
(***************************************************************************)
OpenBridge(b, version, deposit) ==
    LET lane == <<b, version>>
        owner == OwnerOf(b)
    IN  /\ deposit <= free[owner]
        /\ bridges[b].state = "Absent"
        /\ laneToBridge[lane] = Nobody
        /\ inLanes[lane] = "Absent"
        /\ outLanes[lane].state = "Absent"
        /\ free' = [free EXCEPT ![owner] = @ - deposit]
        /\ held' = [held EXCEPT ![owner] = @ + deposit]
        /\ bridges' = [bridges EXCEPT ![b] =
                         [state |-> "Opened", lane_id |-> lane, deposit |-> deposit]]
        /\ laneToBridge' = [laneToBridge EXCEPT ![lane] = b]
        /\ inLanes' = [inLanes EXCEPT ![lane] = "Opened"]
        /\ outLanes' = [outLanes EXCEPT ![lane] = OutboundLaneOpened]
        /\ UNCHANGED <<bridgeDeposit, routerVars, reports, failures, unreported, abandoned>>

\* Mutant: what is released is the deposit of today.
ReleasedDepositOfToday(b) == Min({bridgeDeposit, held[OwnerOf(b)]})

\* release of bridge.deposit, with Precision::BestEffort: as much of it as is
\* held.  A release fails only if the account cannot be credited with what it
\* already holds, which no state does; close_bridge would then release nothing.
ReleasedDeposit(b) == Min({bridges[b].deposit, held[OwnerOf(b)]})

(***************************************************************************)
(* close_bridge: at most mayPrune messages are pruned.  If some are left   *)
(* the bridge and its lanes are Closed, else they vanish and the deposit   *)
(* is released.                                                            *)
(***************************************************************************)
CloseBridge(b, mayPrune) ==
    LET lane == bridges[b].lane_id
        pruned == PrunedLane(outLanes[lane], mayPrune)
        isPruned == UnprunedMessages(pruned) = {}
        closed == IF isPruned THEN "Absent" ELSE "Closed"
        released == IF isPruned THEN ReleasedDeposit(b) ELSE 0
    IN  /\ bridges[b].state # "Absent"
        /\ outLanes' = [outLanes EXCEPT ![lane] =
                          IF isPruned THEN [OutboundLaneOpened EXCEPT !.state = "Absent"]
                          ELSE [pruned EXCEPT !.state = "Closed"]]
        /\ inLanes' = [inLanes EXCEPT ![lane] = closed]
        /\ bridges' = [bridges EXCEPT ![b] =
                         IF isPruned THEN NoBridge ELSE [@ EXCEPT !.state = closed]]
        /\ laneToBridge' = [laneToBridge EXCEPT ![lane] = IF isPruned THEN Nobody ELSE @]
        /\ free' = [free EXCEPT ![OwnerOf(b)] = @ + released]
        /\ held' = [held EXCEPT ![OwnerOf(b)] = @ - released]
        /\ unreported' = [unreported EXCEPT ![b] = FALSE]
        /\ abandoned' = [abandoned EXCEPT ![b] = @ \/ bridges[b].state = "Suspended"]
        /\ UNCHANGED <<bridgeDeposit, routerVars, reports, failures>>

RuntimeUpgrade(deposit) ==
    /\ deposit # bridgeDeposit
    /\ bridgeDeposit' = deposit
    /\ UNCHANGED <<bridges, laneToBridge, outLanes, inLanes, free, held,
                   routerVars, reports, failures, unreported, abandoned>>

-----------------------------------------------------------------------------
\* Mutant: the new state is noted also if the owner has not been told.
ReportIsAttempted(b, isCongested) ==
    /\ bridges' = [bridges EXCEPT ![b].state = IF isCongested THEN "Suspended" ELSE "Opened"]
    /\ \/ /\ Len(reports[b]) < MaxReports
          /\ reports' = [reports EXCEPT ![b] = Append(@, isCongested)]
          /\ unreported' = [unreported EXCEPT ![b] = FALSE]
          /\ abandoned' = [abandoned EXCEPT ![b] = FALSE]
          /\ UNCHANGED failures
       \/ /\ failures < MaxFailures
          /\ failures' = failures + 1
          /\ unreported' = [unreported EXCEPT ![b] = TRUE]
          /\ UNCHANGED <<reports, abandoned>>

(***************************************************************************)
(* What both hooks of exporter.rs do: report to the owner through the      *)
(* channel manager, and only if that succeeds note the bridge's new state. *)
(***************************************************************************)
Report(b, isCongested) ==
    \/ /\ Len(reports[b]) < MaxReports
       /\ reports' = [reports EXCEPT ![b] = Append(@, isCongested)]
       /\ bridges' = [bridges EXCEPT ![b].state =
                        IF isCongested THEN "Suspended" ELSE "Opened"]
       /\ unreported' = [unreported EXCEPT ![b] = FALSE]
       /\ abandoned' = [abandoned EXCEPT ![b] = FALSE]
       /\ UNCHANGED failures
    \/ /\ failures < MaxFailures
       /\ failures' = failures + 1
       /\ unreported' = [unreported EXCEPT ![b] = TRUE]
       /\ UNCHANGED <<bridges, reports, abandoned>>

NoReport == UNCHANGED <<bridges, reports, unreported, abandoned, failures>>

\* Mutant: a bridge that is about to be congested is not suspended in time.
MustSuspendLate(b, enqueued) ==
    enqueued > CongestedThreshold + 1 /\ bridges[b].state # "Suspended"

\* on_bridge_message_enqueued.
MustSuspend(b, enqueued) ==
    enqueued > CongestedThreshold /\ bridges[b].state # "Suspended"

\* Mutant: the bridge is resumed in whatever state it is.
MustResumeAnyState(b, enqueued) == enqueued <= UncongestedThreshold

\* on_bridge_messages_delivered.
MustResume(b, enqueued) ==
    enqueued <= UncongestedThreshold /\ bridges[b].state = "Suspended"

\* ExportXcm::validate and ::deliver for a message of the router.  Without an
\* active lane the message is refused, and lost for the bridge.
ExportMessage(b) ==
    LET lane == bridges[b].lane_id
        sent == SentLane(outLanes[lane])
    IN  /\ underWay[b] > 0
        /\ underWay' = [underWay EXCEPT ![b] = @ - 1]
        /\ IF bridges[b].state = "Absent" \/ outLanes[lane].state # "Opened"
           THEN UNCHANGED outLanes /\ NoReport
           ELSE /\ outLanes[lane].latest_generated_nonce < MaxNonce
                /\ outLanes' = [outLanes EXCEPT ![lane] = sent]
                /\ IF MustSuspend(b, EnqueuedMessages(sent)) THEN Report(b, TRUE) ELSE NoReport
        /\ UNCHANGED <<laneToBridge, inLanes, free, held, bridgeDeposit, router>>

\* receive_messages_delivery_proof on the lane: confirm_delivery and the hook,
\* which is called also when nothing new is confirmed.
ConfirmDelivery(lane, delivered) ==
    LET before == outLanes[lane]
        confirmed == IF NothingToConfirm(before, delivered) THEN before
                     ELSE ConfirmedLane(before, delivered)
        b == laneToBridge[lane]
    IN  /\ before.state # "Absent"
        /\ delivered \in before.latest_received_nonce .. before.latest_generated_nonce
        /\ outLanes' = [outLanes EXCEPT ![lane] = confirmed]
        /\ IF b # Nobody /\ MustResume(b, EnqueuedMessages(confirmed))
           THEN Report(b, FALSE) ELSE NoReport
        /\ UNCHANGED <<laneToBridge, inLanes, free, held, bridgeDeposit, routerVars>>

-----------------------------------------------------------------------------
(***************************************************************************)
(* The router.  The factor is counted in levels above its minimum: a       *)
(* message raises it by one level, a block lowers it by one, and it        *)
(* saturates.                                                              *)
(***************************************************************************)

\* SendXcm of the router: on_message_sent_to_bridge raises the fee factor if
\* the bridge or the channel to the hub is congested.
SendMessage(b, isChannelCongested) ==
    LET isCongested == isChannelCongested \/ router[b].is_congested
    IN  /\ underWay[b] < MaxUnderWay
        /\ router' = [router EXCEPT ![b].factor =
                        IF isCongested THEN Min({@ + 1, MaxFactor}) ELSE @]
        /\ underWay' = [underWay EXCEPT ![b] = @ + 1]
        /\ UNCHANGED <<hubVars, reports, failures, unreported, abandoned>>

ReportBridgeStatus(b) ==
    /\ reports[b] # <<>>
    /\ router' = [router EXCEPT ![b].is_congested = Head(reports[b])]
    /\ reports' = [reports EXCEPT ![b] = Tail(@)]
    /\ UNCHANGED <<hubVars, underWay, failures, unreported, abandoned>>

\* on_initialize, in a block in which the channel to the hub is not congested.
OnInitialize(b) ==
    /\ ~ router[b].is_congested
    /\ router[b].factor > 0
    /\ router' = [router EXCEPT ![b].factor = @ - 1]
    /\ UNCHANGED <<hubVars, underWay, reports, failures, unreported, abandoned>>

Next ==
    \/ \E b \in BridgeIds :
        \/ \E version \in Versions, deposit \in {0, bridgeDeposit} :
                OpenBridge(b, version, deposit)
        \/ \E mayPrune \in 0 .. MaxNonce : CloseBridge(b, mayPrune)
        \/ ExportMessage(b)
        \/ \E isChannelCongested \in BOOLEAN : SendMessage(b, isChannelCongested)
        \/ ReportBridgeStatus(b)
        \/ OnInitialize(b)
    \/ \E lane \in Lanes, delivered \in 0 .. MaxNonce : ConfirmDelivery(lane, delivered)
    \/ \E deposit \in Deposits : RuntimeUpgrade(deposit)

HubSpec == Init /\ [][Next]_vars

-----------------------------------------------------------------------------
\* do_try_state, "Invalid LaneToBridge configuration", and the documentation of
\* BridgeState: every bridge has the lanes that its state promises, every lane
\* that exists belongs to the one bridge that uses it.
TryState ==
    /\ \A b \in BridgeIds : bridges[b].state # "Absent" =>
        LET lane == bridges[b].lane_id
            state == IF bridges[b].state = "Closed" THEN "Closed" ELSE "Opened"
        IN  /\ laneToBridge[lane] = b
            /\ inLanes[lane] = state
            /\ outLanes[lane].state = state
    /\ \A lane \in Lanes :
        (laneToBridge[lane] # Nobody \/ inLanes[lane] # "Absent" \/ outLanes[lane].state # "Absent")
        => \E b \in BridgeIds : bridges[b].state # "Absent" /\ bridges[b].lane_id = lane

BridgesOf(o) == {b \in BridgeIds : OwnerOf(b) = o}

DepositOf == [b \in BridgeIds |-> bridges[b].deposit]

\* "After that, funds are returned back to the owner": what is held is what the
\* bridges that exist have been opened for, whatever the deposit is by now, and
\* nothing else is missing in an owner's balance.
DepositsBackBridges ==
    \A o \in Owners :
        /\ held[o] = SumFunctionOnSet(DepositOf, BridgesOf(o))
        /\ free[o] + held[o] = Balance

\* A bridge whose queue is congested is Suspended and one whose queue has
\* drained is Opened, unless the channel manager failed when it was last told.
StateFollowsQueue ==
    \A b \in BridgeIds :
        LET enqueued == EnqueuedMessages(outLanes[bridges[b].lane_id])
        IN  bridges[b].state \in {"Opened", "Suspended"} /\ ~ unreported[b] =>
                /\ enqueued > CongestedThreshold => bridges[b].state = "Suspended"
                /\ enqueued <= UncongestedThreshold => bridges[b].state = "Opened"

\* What the router was told last, or is about to be told.
IsToldCongested(b) ==
    IF reports[b] = <<>> THEN router[b].is_congested ELSE reports[b][Len(reports[b])]

\* The bridge is congested, or was when it was closed, which nobody is told.
IsCongestedForOwner(b) == bridges[b].state = "Suspended" \/ abandoned[b]

\* Suspended: "The only difference with the Opened state is that we have sent
\* the Suspended signal to the local bridge origin".  What the router was told
\* last, or is about to be told, is the state of its bridge, with one exception:
\* the router of a bridge that was closed while it was Suspended believes in the
\* congestion for as long as the hub reports nothing else, also while the bridge
\* is away and when it is Opened again.  No other router is ever wrong.
RouterKnowsState ==
    \A b \in BridgeIds : IsToldCongested(b) <=> IsCongestedForOwner(b)

\* The fee is that of the bridge: once all reports have arrived, a message sent
\* over an uncongested channel raises the factor exactly if the bridge is
\* Suspended, or was abandoned so, and no block lowers it as long as that lasts.
FeeFollowsBridge ==
    [][\A b \in BridgeIds : reports[b] = <<>> =>
        /\ SendMessage(b, FALSE) =>
            (router'[b].factor > router[b].factor
                <=> IsCongestedForOwner(b) /\ router[b].factor < MaxFactor)
        /\ router'[b].factor < router[b].factor => ~ IsCongestedForOwner(b)]_vars

-----------------------------------------------------------------------------
HubTypeOK ==
    /\ bridges \in [BridgeIds -> [state : {"Absent", "Opened", "Suspended", "Closed"},
                                  lane_id : Lanes \cup {NoBridge.lane_id}, deposit : Nat]]
    /\ laneToBridge \in [Lanes -> BridgeIds \cup {Nobody}]
    /\ outLanes \in [Lanes -> OutboundLaneData]
    /\ inLanes \in [Lanes -> LaneStates]
    /\ free \in [Owners -> Nat] /\ held \in [Owners -> Nat]
    /\ bridgeDeposit \in Deposits
    /\ reports \in [BridgeIds -> Seq(BOOLEAN)]
    /\ router \in [BridgeIds -> [is_congested : BOOLEAN, factor : 0 .. MaxFactor]]
    /\ underWay \in [BridgeIds -> Nat]
    /\ failures \in Nat
    /\ unreported \in [BridgeIds -> BOOLEAN] /\ abandoned \in [BridgeIds -> BOOLEAN]

\* A bridge that does not exist has no deposit, one that does has a lane.
BridgesAreWhole ==
    \A b \in BridgeIds :
        IF bridges[b].state = "Absent" THEN bridges[b].deposit = 0
        ELSE bridges[b].lane_id \in Lanes

\* The inductive invariant of the hub and the routers.
HubInv ==
    /\ HubTypeOK
    /\ BridgesAreWhole
    /\ TryState
    /\ DepositsBackBridges
    /\ StateFollowsQueue
    /\ RouterKnowsState
=============================================================================
