---------------------------- MODULE OutboundLane ----------------------------
(***************************************************************************)
(* The source end of a message lane: bridges/modules/messages/src/         *)
(* outbound_lane.rs, over the lane data of bridges/primitives/messages.    *)
(*                                                                         *)
(* The lane keeps a record of three nonces and a state, and the map        *)
(* OutboundMessages from nonce to payload.  Every operator below is one    *)
(* method of OutboundLane, as a function of the stored data.               *)
(***************************************************************************)
EXTENDS Integers, Sequences, FiniteSets

CONSTANTS
    Payloads,     \* encoded messages, opaque to the lane
    NoMessage,    \* the storage map has no entry under a nonce
    MaxNonce      \* largest nonce: u64::MAX in the code, small in a model

ASSUME MaxNonceAssumption == MaxNonce \in Nat
ASSUME NoMessageAssumption == NoMessage \notin Payloads

\* Valid messages never have nonce 0.
Nonces == 1 .. MaxNonce

(***************************************************************************)
(* LaneState, plus Absent: the storage map has no entry for the lane.  The *)
(* nonces of an Absent lane are those it had when it was purged.           *)
(***************************************************************************)
LaneStates == {"Opened", "Closed", "Absent"}

OutboundLaneData ==
    [state : LaneStates,
     oldest_unpruned_nonce : Nat,
     latest_received_nonce : Nat,
     latest_generated_nonce : Nat]

OutboundMessages == [Nonces -> Payloads \cup {NoMessage}]

OutboundLaneOpened ==
    [state |-> "Opened",
     oldest_unpruned_nonce |-> 1,
     latest_received_nonce |-> 0,
     latest_generated_nonce |-> 0]

\* OutboundLane::queued_messages: what close_bridge still has to prune.
UnprunedMessages(lane) ==
    lane.oldest_unpruned_nonce .. lane.latest_generated_nonce

\* OutboundLaneData::queued_messages: what is not known to be delivered.
\* Only the length of the range is used, saturating at 0.
EnqueuedMessages(lane) ==
    IF lane.latest_generated_nonce > lane.latest_received_nonce
    THEN lane.latest_generated_nonce - lane.latest_received_nonce
    ELSE 0

-----------------------------------------------------------------------------
(***************************************************************************)
(* send_message: the next nonce, and the payload saved under it.           *)
(***************************************************************************)
SentLane(lane) == [lane EXCEPT !.latest_generated_nonce = @ + 1]

SavedMessages(messages, nonce, payload) ==
    [messages EXCEPT ![nonce] = payload]

\* Mutant: the range is taken to end one later.
RemovedMessagesOneTooMany(messages, from, to) ==
    [n \in Nonces |-> IF n \in from .. to + 1 THEN NoMessage ELSE messages[n]]

\* Mutant: the range is taken to be exclusive.
RemovedMessagesOneTooFew(messages, from, to) ==
    [n \in Nonces |-> IF n \in from .. to - 1 THEN NoMessage ELSE messages[n]]

\* remove_message, for every nonce of the range.
RemovedMessages(messages, from, to) ==
    [n \in Nonces |-> IF n \in from .. to THEN NoMessage ELSE messages[n]]

-----------------------------------------------------------------------------
(***************************************************************************)
(* ensure_unrewarded_relayers_are_correct: no entry is empty, each begins  *)
(* right after the one before it, none goes past the delivered nonce.      *)
(***************************************************************************)
UnrewardedRelayersAreCorrect(delivered, relayers) ==
    \A i \in DOMAIN relayers :
        /\ relayers[i].begin <= relayers[i].end
        /\ i > 1 => relayers[i].begin = relayers[i - 1].end + 1
        /\ relayers[i].end <= delivered

(***************************************************************************)
(* confirm_delivery.  It answers Ok(None) when there is NothingToConfirm,  *)
(* Ok(Some(range)) when CanConfirm, and an error otherwise.                *)
(***************************************************************************)
NothingToConfirm(lane, delivered) == delivered <= lane.latest_received_nonce

CanConfirm(lane, maxAllowed, delivered, relayers) ==
    /\ ~ NothingToConfirm(lane, delivered)
    /\ delivered <= lane.latest_generated_nonce
    /\ delivered - lane.latest_received_nonce <= maxAllowed
    /\ UnrewardedRelayersAreCorrect(delivered, relayers)

\* Mutant: the end of the confirmed range is taken to be exclusive.
ConfirmedLanePastTheProof(lane, delivered) ==
    [lane EXCEPT !.latest_received_nonce = delivered + 1,
                 !.oldest_unpruned_nonce = delivered + 2]

ConfirmedLane(lane, delivered) ==
    [lane EXCEPT !.latest_received_nonce = delivered,
                 !.oldest_unpruned_nonce = delivered + 1]

-----------------------------------------------------------------------------
\* Mutant: entries are not cut at the beginning of the received range.
RelayerRewardOfWholeEntries(relayers, from, to, relayer) ==
    Cardinality({n \in 1 .. to :
        \E i \in DOMAIN relayers :
            /\ relayers[i].relayer = relayer
            /\ n \in relayers[i].begin .. relayers[i].end})

(***************************************************************************)
(* calc_relayers_rewards: how many messages of the received range          *)
(* from .. to each relayer is paid for.  The entries do not overlap        *)
(* (UnrewardedRelayersAreCorrect has been checked), so the sum over the    *)
(* entries is a count of nonces.                                           *)
(***************************************************************************)
RelayerReward(relayers, from, to, relayer) ==
    Cardinality({n \in from .. to :
        \E i \in DOMAIN relayers :
            /\ relayers[i].relayer = relayer
            /\ n \in relayers[i].begin .. relayers[i].end})

-----------------------------------------------------------------------------
(***************************************************************************)
(* close_bridge's loop over remove_oldest_unpruned_message: at most        *)
(* mayPrune of the unpruned messages are removed, oldest first.            *)
(***************************************************************************)
OldestAfterPruning(lane, mayPrune) ==
    LET oldest == lane.oldest_unpruned_nonce
        generated == lane.latest_generated_nonce
    IN  IF oldest > generated THEN oldest
        ELSE IF oldest + mayPrune > generated THEN generated + 1
        ELSE oldest + mayPrune

PrunedLane(lane, mayPrune) ==
    [lane EXCEPT !.oldest_unpruned_nonce = OldestAfterPruning(lane, mayPrune)]

PrunedMessages(lane, messages, mayPrune) ==
    RemovedMessages(messages, lane.oldest_unpruned_nonce,
                    OldestAfterPruning(lane, mayPrune) - 1)
=============================================================================
