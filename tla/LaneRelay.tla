------------------------------ MODULE LaneRelay ------------------------------
(***************************************************************************)
(* The off-chain relay of bridges/relays/messages over a lane: which call  *)
(* it submits next, and what becomes of the lane when it keeps going.      *)
(*                                                                         *)
(* The relay runs two races.  The delivery race looks at the inbound lane  *)
(* of the target and at the best source header that the target has         *)
(* imported; the confirmations race at the outbound lane of the source and *)
(* at the best target header that the source has imported.  Here a race    *)
(* looks and submits in one step.                                          *)
(***************************************************************************)
EXTENDS BridgeMessages

CONSTANT MaxMessagesInSingleBatch    \* max_messages_in_single_batch

ASSUME BatchAssumption == MaxMessagesInSingleBatch \in Nat \ {0}

-----------------------------------------------------------------------------
(***************************************************************************)
(* MessageDeliveryStrategy::select_race_action, for the target's lane data *)
(* and the source's lane at the header that the target knows.              *)
(***************************************************************************)

\* UnrewardedRelayersState::messages_in_oldest_entry.
MessagesInOldestEntry(data) ==
    IF data.relayers = <<>> THEN 0
    ELSE data.relayers[1].end - data.relayers[1].begin + 1

\* The target does not know yet what the source has confirmed.
StateProofRequired(data, lane) ==
    data.last_confirmed_nonce < lane.latest_received_nonce

UnrewardedLimitReached(data) ==
    \/ Len(data.relayers) >= MaxUnrewardedRelayers
    \/ TotalUnrewardedMessages(data) >= MaxUnconfirmedMessages

\* Mutant: any reward that can be proved is taken to be enough.
AnyRewardBeingProved(data, lane) == StateProofRequired(data, lane)

\* The state proof would free at least the oldest entry.
EnoughRewardsBeingProved(data, lane) ==
    lane.latest_received_nonce - data.last_confirmed_nonce >= MessagesInOldestEntry(data)

\* What the target will accept once it has seen the state proof.
MaxNonces(data, lane) ==
    LET confirmed == IF StateProofRequired(data, lane)
                     THEN lane.latest_received_nonce
                     ELSE data.last_confirmed_nonce
        left == MaxUnconfirmedMessages - (LastDeliveredNonce(data) - confirmed)
    IN  IF left <= MaxMessagesInSingleBatch THEN left ELSE MaxMessagesInSingleBatch

\* The last message of the batch, from the one after the last delivered.
LastSelected(data, lane) ==
    LET last == LastDeliveredNonce(data) + MaxNonces(data, lane)
    IN  IF last <= lane.latest_generated_nonce THEN last ELSE lane.latest_generated_nonce

\* MessageRaceLimits::decide: the batch ends there or, at the limits on weight
\* and size, earlier, but not before its first message.
Batches(data, lane) == LastDeliveredNonce(data) + 1 .. LastSelected(data, lane)

\* Nothing is submitted while the limits leave no room, unless enough rewards
\* can be proved; a call without messages is made only to unblock the lane.
SelectsMessages(data, lane) ==
    /\ UnrewardedLimitReached(data) => EnoughRewardsBeingProved(data, lane)
    /\ Batches(data, lane) # {}

SelectsUnblocking(data, lane) ==
    /\ UnrewardedLimitReached(data)
    /\ EnoughRewardsBeingProved(data, lane)
    /\ StateProofRequired(data, lane)
    /\ Batches(data, lane) = {}

-----------------------------------------------------------------------------
BestSource == importedSource[Len(importedSource)].lane

BestTarget == importedTarget[Len(importedTarget)]

\* The delivery race submits receive_messages_proof.
RelayDelivery(relayer) ==
    /\ importedSource # <<>>
    /\ \/ /\ SelectsMessages(inLane, BestSource)
          /\ \E last \in Batches(inLane, BestSource) :
               ReceiveMessagesProof(relayer, Len(importedSource),
                                    LastDeliveredNonce(inLane) + 1, last,
                                    StateProofRequired(inLane, BestSource))
       \/ /\ SelectsUnblocking(inLane, BestSource)
          /\ ReceiveMessagesProof(relayer, Len(importedSource), 1, 0, TRUE)

\* The confirmations race submits receive_messages_delivery_proof.
RelayConfirmation ==
    /\ importedTarget # <<>>
    /\ LastDeliveredNonce(BestTarget) > outLane.latest_received_nonce
    /\ ReceiveMessagesDeliveryProof(Len(importedTarget))

\* The owner's channel at the target drains.
DispatcherRecovers == ~ dispatcherActive /\ SetDispatcherActive(TRUE)

(***************************************************************************)
(* The lane in service: other relayers submit what they like, the owner's  *)
(* channel at the target is congested now and then, and the source may     *)
(* stop taking messages.  Neither end is closed or halted.                 *)
(***************************************************************************)
RelayNext ==
    \/ Service
    \/ \E active \in BOOLEAN : SetDispatcherActive(active)
    \/ \E mode \in {"Normal", "RejectingOutboundMessages"} : SetSourceMode(mode)

(***************************************************************************)
(* Headers keep being imported.  A relayer keeps retrying the call that    *)
(* its race selects, so a call that is possible again and again is made:   *)
(* congestion may interrupt a delivery any number of times but not for     *)
(* ever.                                                                   *)
(***************************************************************************)
Fairness ==
    /\ WF_vars(ImportSourceHeader)
    /\ WF_vars(ImportTargetHeader)
    /\ WF_vars(DispatcherRecovers)
    /\ WF_vars(RelayConfirmation)
    /\ SF_vars(\E relayer \in Relayers : RelayDelivery(relayer))

RelaySpec == Init /\ [][RelayNext]_vars

FairSpec == RelaySpec /\ Fairness

-----------------------------------------------------------------------------
\* Every message that is sent is dispatched and confirmed: neither the limits
\* of receive_message nor the relay's waiting for rewards block it for ever.
EverySentIsConfirmed ==
    \A n \in Nonces :
        Len(sent) >= n ~> Len(dispatched) >= n /\ outLane.latest_received_nonce >= n

\* The fair lane implements the fair channel.
ImplementsFairChannel == Channel!FairSpec

\* What the inbound lane makes of a call that the delivery race selects.
AfterDelivery(relayer, start, end, withState) ==
    LET updated == IF withState
                   THEN ReceiveStateUpdate(inLane, BestSource.latest_received_nonce)
                   ELSE inLane
    IN  ReceiveMessages(updated, relayer, start, end)

\* The relay's arithmetic and the limits of receive_message agree: a batch that
\* is selected gets at least its first message through, and an unblocking call
\* frees an entry, so no fee is paid for a call that changes nothing.
SelectedCallsAreUseful ==
    importedSource # <<>> =>
        \A relayer \in Relayers :
            /\ SelectsMessages(inLane, BestSource) =>
                 \A last \in Batches(inLane, BestSource) :
                    LastDeliveredNonce(inLane) <
                    LastDeliveredNonce(AfterDelivery(relayer, LastDeliveredNonce(inLane) + 1,
                                                     last, StateProofRequired(inLane, BestSource)))
            /\ SelectsUnblocking(inLane, BestSource) =>
                 Len(AfterDelivery(relayer, 1, 0, TRUE).relayers) < Len(inLane.relayers)
=============================================================================
