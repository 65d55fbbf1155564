---------------------------- MODULE LaneReopening ----------------------------
(***************************************************************************)
(* A lane over several lifetimes.  close_bridge purges the lane, and       *)
(* open_bridge may create it again under the same LaneId, with nonces from *)
(* zero, at each end when its owner likes.  The other end, and the headers *)
(* that the light clients remember, may still show the former lifetime.    *)
(*                                                                         *)
(* The histories sent and dispatched are those of the lifetime of their    *)
(* own end.                                                                *)
(***************************************************************************)
EXTENDS BridgeMessages

CONSTANT MaxLifetimes    \* bound on the lifetimes of either end

VARIABLES
    srcLifetime,    \* how many times the bridge has been opened at the source
    tgtLifetime     \* and at the target

lifetimeVars == <<vars, srcLifetime, tgtLifetime>>

ReopeningInit ==
    /\ Init
    /\ srcLifetime = 1
    /\ tgtLifetime = 1

-----------------------------------------------------------------------------
\* do_open_bridge at the source: there must be no bridge and no lane.
OpenBridge ==
    /\ bridge = "Absent"
    /\ outLane.state = "Absent"
    /\ srcLifetime < MaxLifetimes
    /\ outLane' = OutboundLaneOpened
    /\ bridge' = "Opened"
    /\ sent' = <<>>
    /\ srcLifetime' = srcLifetime + 1
    /\ UNCHANGED <<outMessages, rewards, srcMode, importedTarget, targetVars, tgtLifetime>>

\* The same at the target.  create_inbound_lane ends in active_inbound_lane, so
\* the call fails while the owner's channel is congested.
OpenTargetBridge ==
    /\ inLane.state = "Absent"
    /\ dispatcherActive
    /\ tgtLifetime < MaxLifetimes
    /\ inLane' = InboundLaneOpened
    /\ dispatched' = <<>>
    /\ tgtLifetime' = tgtLifetime + 1
    /\ UNCHANGED <<dispatcherActive, tgtMode, importedSource, sourceVars, srcLifetime>>

\* Everything else that happens to the lane, in any of its lifetimes.
LaneStep == Next /\ UNCHANGED <<srcLifetime, tgtLifetime>>

ReopeningNext == LaneStep \/ OpenBridge \/ OpenTargetBridge

\* The two owners close and open as they like, and do not coordinate.
ReopeningSpec == ReopeningInit /\ [][ReopeningNext]_lifetimeVars

(***************************************************************************)
(* What the pallet's documentation asks of the two owners: to coordinate   *)
(* the moment when they start sending.  A message is sent only when both   *)
(* ends have been opened, equally often.                                   *)
(***************************************************************************)
BothEndsOpened == srcLifetime = tgtLifetime /\ inLane.state = "Opened"

CoordinatedNext ==
    /\ ReopeningNext
    /\ Len(sent') > Len(sent) => BothEndsOpened

CoordinatedSpec == ReopeningInit /\ [][CoordinatedNext]_lifetimeVars

-----------------------------------------------------------------------------
(***************************************************************************)
(* OutboundLaneData::latest_received_nonce: "Nonce of the latest message,  *)
(* received by bridged chain".  While both ends are in the same lifetime,  *)
(* what the source holds as received, and has removed from its storage,    *)
(* the target has dispatched.                                              *)
(***************************************************************************)
ReceivedByBridgedChain ==
    outLane.state # "Absent" /\ srcLifetime = tgtLifetime =>
        outLane.latest_received_nonce <= Len(dispatched)

-----------------------------------------------------------------------------
(***************************************************************************)
(* What no mixture of lifetimes can break: each end stays sound by itself, *)
(* whatever proofs of former lifetimes reach it.                           *)
(***************************************************************************)
SourceEndInv ==
    /\ outLane.latest_generated_nonce = Len(sent)
    /\ Len(sent) <= MaxNonce
    /\ outLane.latest_received_nonce <= Len(sent)
    /\ outLane.latest_received_nonce < outLane.oldest_unpruned_nonce
    /\ bridge \in {"Opened", "Suspended"} <=> outLane.state = "Opened"
    /\ bridge = "Absent" <=> outLane.state = "Absent"
    /\ outLane.state = "Opened" =>
         outLane.oldest_unpruned_nonce = outLane.latest_received_nonce + 1
    /\ outLane.state = "Absent" => UnprunedMessages(outLane) = {}
    /\ StoredWereSent(outMessages, sent)
    /\ NothingLost
    /\ PrunedBelowOldest

TargetEndInv ==
    /\ WellFormed(inLane)
    /\ Len(dispatched) = LastDeliveredNonce(inLane)
    /\ \A i \in DOMAIN dispatched : dispatched[i].nonce = i

EndsInv == TypeOK /\ SourceEndInv /\ TargetEndInv
=============================================================================
