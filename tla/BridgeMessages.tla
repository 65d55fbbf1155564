--------------------------- MODULE BridgeMessages ---------------------------
(***************************************************************************)
(* One lane between two bridged chains, from its opening on both sides to  *)
(* its closing: pallet-bridge-messages at each end, the part of            *)
(* pallet-xcm-bridge-hub that owns the lane at the source, the rewards     *)
(* that pallet-bridge-relayers registers, and the light client that each   *)
(* chain keeps of the other.                                               *)
(*                                                                         *)
(* A dispatchable call is one step: it runs in a block with nothing else   *)
(* interleaved, and its storage changes are dropped if it returns an       *)
(* error.  So a failing call is no step at all.  What does interleave are  *)
(* the two chains and the relayers.  A relayer carries storage proofs, and *)
(* a proof is made at a header that the other chain has imported: it shows *)
(* the lane as it was at that header, which may be long ago, and it may be *)
(* submitted any number of times, by anyone, in any order.                 *)
(***************************************************************************)
EXTENDS OutboundLane, InboundLane

CONSTANTS
    HeadersToKeep,          \* imported headers a light client remembers
    CongestedThreshold,     \* OUTBOUND_LANE_CONGESTED_THRESHOLD
    UncongestedThreshold    \* OUTBOUND_LANE_UNCONGESTED_THRESHOLD

ASSUME HeadersAssumption == HeadersToKeep \in Nat \ {0}
ASSUME ThresholdsAssumption ==
    /\ CongestedThreshold \in Nat
    /\ UncongestedThreshold \in Nat
    /\ UncongestedThreshold <= CongestedThreshold

VARIABLES
    \* storage of the source chain
    outLane,            \* OutboundLanes[lane]
    outMessages,        \* OutboundMessages[lane, nonce]
    bridge,             \* Bridges[bridge].state
    rewards,            \* RelayerRewards, in units of the delivery reward
    srcMode,            \* PalletOperatingMode
    importedTarget,     \* headers of the target known to the source, oldest first
    \* storage of the target chain
    inLane,             \* InboundLanes[lane]
    dispatcherActive,   \* MessageDispatch::is_active(lane)
    tgtMode,            \* PalletOperatingMode
    importedSource,     \* headers of the source known to the target, oldest first
    \* history
    sent,               \* payloads accepted by the source, in order
    dispatched          \* messages handed to MessageDispatch::dispatch, in order

sourceVars == <<outLane, outMessages, bridge, rewards, srcMode, importedTarget, sent>>
targetVars == <<inLane, dispatcherActive, tgtMode, importedSource, dispatched>>
vars == <<outLane, outMessages, bridge, rewards, srcMode, importedTarget, sent,
          inLane, dispatcherActive, tgtMode, importedSource, dispatched>>

\* MessagesOperatingMode; Normal and Halted are its Basic modes.
OperatingModes == {"Normal", "RejectingOutboundMessages", "Halted"}

\* BridgeState, plus Absent: no entry in Bridges.
BridgeStates == {"Opened", "Suspended", "Closed", "Absent"}

\* What a proof made at a source header can show of the lane.
SourceHeader == [lane : OutboundLaneData, messages : OutboundMessages]

DispatchedMessage == [nonce : Nonces, payload : Payloads, relayer : Relayers]

-----------------------------------------------------------------------------
\* Both ends have been opened by open_bridge and nothing has been sent.
Init ==
    /\ outLane = OutboundLaneOpened
    /\ outMessages = [n \in Nonces |-> NoMessage]
    /\ bridge = "Opened"
    /\ rewards = [r \in Relayers |-> 0]
    /\ srcMode = "Normal"
    /\ importedTarget = <<>>
    /\ inLane = InboundLaneOpened
    /\ dispatcherActive = TRUE
    /\ tgtMode = "Normal"
    /\ importedSource = <<>>
    /\ sent = <<>>
    /\ dispatched = <<>>

-----------------------------------------------------------------------------
(***************************************************************************)
(* Calls at the source chain.                                              *)
(***************************************************************************)

\* on_bridge_message_enqueued: suspend a congested bridge.  The call to the
\* local channel manager may fail, and then the state is not changed.
BridgeAfterEnqueued(state, enqueued) ==
    IF enqueued > CongestedThreshold /\ state # "Suspended"
    THEN {state, "Suspended"}
    ELSE {state}

\* Mutant: any bridge whose queue has drained is resumed, not only a suspended
\* one.
BridgeAfterDeliveredInAnyState(state, enqueued) ==
    IF enqueued <= UncongestedThreshold THEN {state, "Opened"} ELSE {state}

\* on_bridge_messages_delivered: resume a suspended bridge whose queue has
\* drained.  Again the channel manager may fail.
BridgeAfterDelivered(state, enqueued) ==
    IF enqueued <= UncongestedThreshold /\ state = "Suspended"
    THEN {state, "Opened"}
    ELSE {state}

\* validate_message: a normal operating mode and an active outbound lane.
MessageIsValid ==
    /\ srcMode = "Normal"
    /\ outLane.state = "Opened"

\* ExportXcm::validate and ::deliver, through validate_message and
\* send_message of the messages pallet.
SendMessage(payload) ==
    /\ MessageIsValid
    /\ outLane.latest_generated_nonce < MaxNonce
    /\ outLane' = SentLane(outLane)
    /\ outMessages' =
         SavedMessages(outMessages, outLane.latest_generated_nonce + 1, payload)
    /\ sent' = Append(sent, payload)
    /\ bridge' \in BridgeAfterEnqueued(bridge, EnqueuedMessages(SentLane(outLane)))
    /\ UNCHANGED <<rewards, srcMode, importedTarget, targetVars>>

(***************************************************************************)
(* receive_messages_delivery_proof, with a proof of the inbound lane at    *)
(* the imported target header h.  The declared relayers_state has to equal *)
(* the one computed from the proof, so total_messages is that one.  The    *)
(* outbound lane may be in any state as long as it exists.                 *)
(***************************************************************************)
ConfirmsNothing(proved) ==
    /\ NothingToConfirm(outLane, LastDeliveredNonce(proved))
    /\ UNCHANGED <<outLane, outMessages, rewards>>

ConfirmsDelivery(proved) ==
    LET delivered == LastDeliveredNonce(proved)
        first == outLane.latest_received_nonce + 1
    IN  /\ CanConfirm(outLane, TotalUnrewardedMessages(proved), delivered,
                      proved.relayers)
        /\ outLane' = ConfirmedLane(outLane, delivered)
        /\ outMessages' = RemovedMessages(outMessages, first, delivered)
        /\ rewards' = [r \in Relayers |->
              rewards[r] + RelayerReward(proved.relayers, first, delivered, r)]

\* verify_messages_delivery_proof: the inbound lane is in the header's storage.
DeliveryProofIsValid(proved) == proved.state # "Absent"

ReceiveMessagesDeliveryProof(h) ==
    /\ srcMode # "Halted"
    /\ outLane.state # "Absent"
    /\ DeliveryProofIsValid(importedTarget[h])
    /\ \/ ConfirmsNothing(importedTarget[h])
       \/ ConfirmsDelivery(importedTarget[h])
    /\ bridge' \in BridgeAfterDelivered(bridge, EnqueuedMessages(outLane'))
    /\ UNCHANGED <<srcMode, importedTarget, sent, targetVars>>

\* close_bridge: prune at most mayPrune messages; if some are left the lane
\* is Closed and the call has to be repeated, else everything is purged.
CloseBridge(mayPrune) ==
    LET pruned == PrunedLane(outLane, mayPrune)
        closed == IF UnprunedMessages(pruned) # {} THEN "Closed" ELSE "Absent"
    IN  /\ bridge # "Absent"
        /\ outLane' = [pruned EXCEPT !.state = closed]
        /\ outMessages' = PrunedMessages(outLane, outMessages, mayPrune)
        /\ bridge' = closed
        /\ UNCHANGED <<rewards, srcMode, importedTarget, sent, targetVars>>

\* set_operating_mode at the source.
SetSourceMode(mode) ==
    /\ srcMode' = mode
    /\ UNCHANGED <<outLane, outMessages, bridge, rewards, importedTarget, sent,
                   targetVars>>

-----------------------------------------------------------------------------
(***************************************************************************)
(* Calls at the target chain.                                              *)
(***************************************************************************)

\* Mutant: a claimed message that the proof does not hold is not an error.
MessagesProofMayMissMessages(header, start, end, withState) ==
    /\ end - start + 1 <= MaxUnconfirmedMessages
    /\ withState => header.lane.state # "Absent"
    /\ withState \/ start <= end

\* verify_messages_proof, for the messages start .. end and, if withState,
\* the lane's data.  Every claimed message must be in the proof; a proof
\* without messages must have the lane's data.
MessagesProofIsValid(header, start, end, withState) ==
    /\ end - start + 1 <= MaxUnconfirmedMessages
    /\ \A n \in start .. end : header.messages[n] # NoMessage
    /\ withState => header.lane.state # "Absent"
    /\ withState \/ start <= end

\* active_inbound_lane: the lane is not closed, and messages can be dispatched.
InboundLaneIsActive ==
    /\ inLane.state = "Opened"
    /\ dispatcherActive

\* receive_messages_proof, with a proof at the imported source header h.
ReceiveMessagesProof(relayer, h, start, end, withState) ==
    LET header == importedSource[h]
        updated == IF withState
                   THEN ReceiveStateUpdate(inLane, header.lane.latest_received_nonce)
                   ELSE inLane
        delivered == LastDeliveredNonce(updated)
        accepted == LastAccepted(updated, relayer, start, end)
    IN  /\ tgtMode # "Halted"
        /\ MessagesProofIsValid(header, start, end, withState)
        /\ InboundLaneIsActive
        /\ inLane' = ReceiveMessages(updated, relayer, start, end)
        /\ dispatched' = dispatched \o
             [i \in 1 .. (accepted - delivered) |->
                [nonce |-> delivered + i,
                 payload |-> header.messages[delivered + i],
                 relayer |-> relayer]]
        /\ UNCHANGED <<dispatcherActive, tgtMode, importedSource, sourceVars>>

\* close_bridge at the target: its own outbound queue, which is not part of
\* this lane, decides whether the inbound lane is closed or purged.
CloseTargetBridge(state) ==
    /\ inLane.state # "Absent"
    /\ inLane' = [inLane EXCEPT !.state = state]
    /\ UNCHANGED <<dispatcherActive, tgtMode, importedSource, dispatched, sourceVars>>

\* The local XCM channel of the bridge owner gets congested, or recovers.
SetDispatcherActive(active) ==
    /\ dispatcherActive' = active
    /\ UNCHANGED <<inLane, tgtMode, importedSource, dispatched, sourceVars>>

\* set_operating_mode at the target.
SetTargetMode(mode) ==
    /\ tgtMode' = mode
    /\ UNCHANGED <<inLane, dispatcherActive, importedSource, dispatched, sourceVars>>

-----------------------------------------------------------------------------
(***************************************************************************)
(* The light clients.  A header commits to the state of its chain, and the *)
(* clients accept newer headers only; the oldest is forgotten when         *)
(* HeadersToKeep is reached.  A header is imported as soon as it is made;  *)
(* one that is imported late is one that is remembered, with a larger      *)
(* HeadersToKeep, and not used before.                                     *)
(***************************************************************************)
WithHeader(headers, header) ==
    IF Len(headers) < HeadersToKeep
    THEN Append(headers, header)
    ELSE Append(Tail(headers), header)

IsNewHeader(headers, header) ==
    headers # <<>> => headers[Len(headers)] # header

ImportSourceHeader ==
    LET header == [lane |-> outLane, messages |-> outMessages]
    IN  /\ IsNewHeader(importedSource, header)
        /\ importedSource' = WithHeader(importedSource, header)
        /\ UNCHANGED <<inLane, dispatcherActive, tgtMode, dispatched, sourceVars>>

ImportTargetHeader ==
    /\ IsNewHeader(importedTarget, inLane)
    /\ importedTarget' = WithHeader(importedTarget, inLane)
    /\ UNCHANGED <<outLane, outMessages, bridge, rewards, srcMode, sent, targetVars>>

-----------------------------------------------------------------------------
Send == \E payload \in Payloads : SendMessage(payload)

\* An empty range is submitted as start .. start - 1.
Deliver ==
    \E relayer \in Relayers, h \in DOMAIN importedSource, start \in Nonces :
        \E end \in (start - 1) .. MaxNonce, withState \in BOOLEAN :
            ReceiveMessagesProof(relayer, h, start, end, withState)

Confirm == \E h \in DOMAIN importedTarget : ReceiveMessagesDeliveryProof(h)

Import == ImportSourceHeader \/ ImportTargetHeader

Close ==
    \/ \E mayPrune \in 0 .. MaxNonce : CloseBridge(mayPrune)
    \/ \E state \in {"Closed", "Absent"} : CloseTargetBridge(state)

Govern ==
    \/ \E mode \in OperatingModes : SetSourceMode(mode) \/ SetTargetMode(mode)
    \/ \E active \in BOOLEAN : SetDispatcherActive(active)

\* What relayers, light clients and message senders do.
Service == Send \/ Deliver \/ Confirm \/ Import

Next == Service \/ Close \/ Govern

Spec == Init /\ [][Next]_vars

-----------------------------------------------------------------------------
(***************************************************************************)
(* Safety.                                                                 *)
(***************************************************************************)

\* Every variable stays within the type of the storage item it models.
TypeOK ==
    /\ outLane \in OutboundLaneData
    /\ outMessages \in OutboundMessages
    /\ bridge \in BridgeStates
    /\ rewards \in [Relayers -> Nat]
    /\ srcMode \in OperatingModes
    /\ importedTarget \in Seq(InboundLaneData)
    /\ inLane \in InboundLaneData
    /\ dispatcherActive \in BOOLEAN
    /\ tgtMode \in OperatingModes
    /\ importedSource \in Seq(SourceHeader)
    /\ sent \in Seq(Payloads)
    /\ dispatched \in Seq(DispatchedMessage)

\* The four nonces that the two chains keep of one lane never cross, although
\* each chain moves its own on the strength of old proofs of the other's.
NonceOrder ==
    /\ inLane.last_confirmed_nonce <= outLane.latest_received_nonce
    /\ outLane.latest_received_nonce <= LastDeliveredNonce(inLane)
    /\ LastDeliveredNonce(inLane) <= outLane.latest_generated_nonce

\* Whatever proofs are repeated, delayed or reordered, receive_messages_proof
\* dispatches the messages that were sent, in order, none twice, none left out.
ExactlyOnceInOrder ==
    /\ Len(dispatched) = LastDeliveredNonce(inLane)
    /\ Len(dispatched) <= Len(sent)
    /\ \A i \in DOMAIN dispatched :
         dispatched[i].nonce = i /\ dispatched[i].payload = sent[i]

\* pay_reward has paid the relayer of every confirmed message once, and nobody
\* else: stale inbound lane data lists relayers that are already rewarded.
RewardsExact ==
    \A r \in Relayers :
        rewards[r] = Cardinality({n \in 1 .. outLane.latest_received_nonce :
                                    dispatched[n].relayer = r})

\* confirm_delivery returns an error, and receive_state_update sees a state
\* from the future, only "if this/bridged chain storage is corrupted": no
\* header that a light client holds makes either happen.
ProofsNeverRejected ==
    /\ \A h \in DOMAIN importedTarget :
         LET proved == importedTarget[h]
             delivered == LastDeliveredNonce(proved)
         IN  \/ NothingToConfirm(outLane, delivered)
             \/ CanConfirm(outLane, TotalUnrewardedMessages(proved), delivered,
                           proved.relayers)
    /\ \A h \in DOMAIN importedSource :
         importedSource[h].lane.latest_received_nonce <= LastDeliveredNonce(inLane)

\* The source keeps every message that is not confirmed until its owner closes
\* the bridge: a relayer can always make a proof of what is still to deliver.
NothingLost ==
    bridge \in {"Opened", "Suspended"} =>
        \A n \in outLane.latest_received_nonce + 1 .. outLane.latest_generated_nonce :
            outMessages[n] = sent[n]

\* do_try_state_for_outbound_lanes: what lies below oldest_unpruned_nonce is
\* pruned, in the middle of a closure and after late confirmations too; and
\* nothing is stored that was never sent.
PrunedBelowOldest ==
    \A n \in Nonces :
        outMessages[n] # NoMessage =>
            n \in outLane.oldest_unpruned_nonce .. outLane.latest_generated_nonce

\* close_bridge: a purged lane leaves no message in the storage, whatever
\* confirmations came between the calls that closed it.  A lane opened again
\* under the same LaneId would inherit what is left.
NoTraces ==
    outLane.state = "Absent" => \A n \in Nonces : outMessages[n] = NoMessage

\* The documented shape of InboundLaneData::relayers: consecutive non-empty
\* entries that cover exactly (last_confirmed_nonce, last_delivered_nonce],
\* within both limits, after any mix of batches and partial state updates.
UnrewardedEntriesCoverUnconfirmed == WellFormed(inLane)

ClosingStep ==
    bridge \in {"Closed", "Absent"} =>
        /\ bridge' \in {"Closed", "Absent"}
        /\ outLane'.latest_generated_nonce = outLane.latest_generated_nonce

\* A bridge that its owner has begun to close accepts no message and is never
\* resumed, even by a confirmation that arrives late.
ClosedBridgeStaysClosed == [][ClosingStep]_vars

-----------------------------------------------------------------------------
(***************************************************************************)
(* The inductive invariant.                                                *)
(***************************************************************************)

\* Inbound lane data that is or was the target's, as seen with the source at
\* the confirmed nonce received and the target at the dispatch log log: the
\* entries name the relayers that delivered the messages of the log.
KnownLane(data, received, log) ==
    /\ WellFormed(data)
    /\ data.last_confirmed_nonce <= received
    /\ LastDeliveredNonce(data) <= Len(log)
    /\ \A i \in DOMAIN data.relayers :
         \A n \in data.relayers[i].begin .. data.relayers[i].end :
            log[n].relayer = data.relayers[i].relayer

\* Stored messages are messages that were sent.
StoredWereSent(messages, log) ==
    \A n \in Nonces : messages[n] # NoMessage => n <= Len(log) /\ messages[n] = log[n]

SourceInv ==
    /\ outLane.latest_generated_nonce = Len(sent)
    /\ Len(sent) <= MaxNonce
    /\ outLane.latest_received_nonce <= Len(dispatched)
    /\ outLane.latest_received_nonce < outLane.oldest_unpruned_nonce
    /\ bridge \in {"Opened", "Suspended"} <=> outLane.state = "Opened"
    /\ outLane.state = "Opened" =>
         outLane.oldest_unpruned_nonce = outLane.latest_received_nonce + 1
    /\ StoredWereSent(outMessages, sent)

TargetInv ==
    /\ KnownLane(inLane, outLane.latest_received_nonce, dispatched)
    /\ ExactlyOnceInOrder

HeadersInv ==
    /\ \A h \in DOMAIN importedTarget :
         KnownLane(importedTarget[h], outLane.latest_received_nonce, dispatched)
    /\ \A h \in DOMAIN importedSource :
         /\ importedSource[h].lane.latest_received_nonce <= outLane.latest_received_nonce
         /\ StoredWereSent(importedSource[h].messages, sent)

\* The conjunction of the storage types, of what each chain's storage says of
\* the history, and of what every remembered header says of it: the part that
\* the safety properties above are proved from.
IndInv ==
    /\ TypeOK
    /\ SourceInv
    /\ TargetInv
    /\ HeadersInv
    /\ NothingLost
    /\ PrunedBelowOldest
    /\ RewardsExact

-----------------------------------------------------------------------------
(***************************************************************************)
(* The lane implements the channel.                                        *)
(***************************************************************************)
Channel == INSTANCE MessageChannel WITH
    delivered <- [i \in DOMAIN dispatched |-> dispatched[i].payload],
    confirmed <- outLane.latest_received_nonce

\* Every step of the lane is a step of the channel or invisible to it.
ImplementsChannel == Channel!Spec

=============================================================================
