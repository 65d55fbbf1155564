----------------------------- MODULE OutboundCall -----------------------------
(***************************************************************************)
(* One call at the source that loops over the messages of a lane, taken    *)
(* apart: receive_messages_delivery_proof (confirm_delivery, then the      *)
(* rewards) and close_bridge.  OutboundLane gives both in closed form;     *)
(* here each iteration is a step, and the results are compared.            *)
(*                                                                         *)
(* The lane data that a delivery proof shows is any small value of its     *)
(* type: confirm_delivery has to stand inbound lane data of a chain whose  *)
(* storage is corrupted.                                                   *)
(***************************************************************************)
EXTENDS OutboundLane, InboundLane

VARIABLES
    before,      \* the lane as the call found it
    proved,      \* InboundLaneData of the delivery proof
    mayPrune,    \* argument of close_bridge
    pc,          \* the loop that is running
    lane,        \* the lane
    stored,      \* nonces of the stored messages
    i,           \* next entry, next nonce, or number of iterations left
    expected,    \* expected_entry_begin
    paid         \* relayers_rewards

vars == <<before, proved, mayPrune, pc, lane, stored, i, expected, paid>>

-----------------------------------------------------------------------------
Entry == [relayer : Relayers, begin : Nonces, end : Nonces]

EntryQueues == UNION {[1 .. n -> Entry] : n \in 0 .. MaxUnrewardedRelayers}

ProvedLanes ==
    [state : {"Opened"}, last_confirmed_nonce : 0 .. MaxNonce, relayers : EntryQueues]

\* An opened lane, or one that is being closed and is pruned in part.
Lanes ==
    {l \in [state : {"Opened", "Closed"}, oldest_unpruned_nonce : 1 .. MaxNonce + 1,
            latest_received_nonce : 0 .. MaxNonce,
            latest_generated_nonce : 0 .. MaxNonce] :
        /\ l.latest_received_nonce <= l.latest_generated_nonce
        /\ l.oldest_unpruned_nonce \in
             l.latest_received_nonce + 1 .. l.latest_generated_nonce + 1
        /\ l.state = "Opened" => l.oldest_unpruned_nonce = l.latest_received_nonce + 1}

\* receive_messages_delivery_proof, or close_bridge; the arguments of the call
\* that is not made are left at one value.
Init ==
    /\ before \in Lanes
    /\ \/ pc = "confirm_delivery" /\ proved \in ProvedLanes /\ mayPrune = 0
       \/ /\ pc = "close_bridge"
          /\ proved = InboundLaneOpened
          /\ mayPrune \in 0 .. MaxNonce
    /\ lane = before
    /\ stored = UnprunedMessages(before)
    /\ i = 0
    /\ expected = 0
    /\ paid = [r \in Relayers |-> 0]

Range ==
    before.latest_received_nonce + 1 .. LastDeliveredNonce(proved)

-----------------------------------------------------------------------------
(***************************************************************************)
(* confirm_delivery and calc_relayers_rewards.                             *)
(***************************************************************************)
EndCall(result) ==
    /\ pc' = result
    /\ UNCHANGED <<before, proved, mayPrune, lane, stored, i, expected, paid>>

ConfirmNothing ==
    /\ pc = "confirm_delivery"
    /\ Range = {}
    /\ EndCall("nothing")

TooManyMessages ==
    /\ pc = "confirm_delivery"
    /\ Range # {}
    /\ \/ LastDeliveredNonce(proved) > lane.latest_generated_nonce
       \/ Cardinality(Range) > TotalUnrewardedMessages(proved)
    /\ EndCall("error")

BeginVerification ==
    /\ pc = "confirm_delivery"
    /\ Range # {}
    /\ LastDeliveredNonce(proved) <= lane.latest_generated_nonce
    /\ Cardinality(Range) <= TotalUnrewardedMessages(proved)
    /\ pc' = "ensure_unrewarded_relayers_are_correct"
    /\ i' = 1
    /\ expected' = IF proved.relayers = <<>> THEN 0 ELSE proved.relayers[1].begin
    /\ UNCHANGED <<before, proved, mayPrune, lane, stored, paid>>

\* Mutant: entries may overlap.
EntryIsCorrectIfNotEmpty(entry, begin) ==
    entry.begin <= entry.end /\ entry.end <= LastDeliveredNonce(proved)

EntryIsCorrect(entry, begin) ==
    /\ entry.begin <= entry.end
    /\ entry.begin = begin
    /\ entry.end <= LastDeliveredNonce(proved)

VerifyEntry ==
    /\ pc = "ensure_unrewarded_relayers_are_correct"
    /\ i <= Len(proved.relayers)
    /\ EntryIsCorrect(proved.relayers[i], expected)
    /\ expected' = proved.relayers[i].end + 1
    /\ i' = i + 1
    /\ UNCHANGED <<before, proved, mayPrune, pc, lane, stored, paid>>

BadEntry ==
    /\ pc = "ensure_unrewarded_relayers_are_correct"
    /\ i <= Len(proved.relayers)
    /\ ~ EntryIsCorrect(proved.relayers[i], expected)
    /\ EndCall("error")

BeginPruning ==
    /\ pc = "ensure_unrewarded_relayers_are_correct"
    /\ i > Len(proved.relayers)
    /\ pc' = "remove_message"
    /\ i' = before.latest_received_nonce + 1
    /\ UNCHANGED <<before, proved, mayPrune, lane, stored, expected, paid>>

RemoveMessage ==
    /\ pc = "remove_message"
    /\ i \in Range
    /\ stored' = stored \ {i}
    /\ i' = i + 1
    /\ UNCHANGED <<before, proved, mayPrune, pc, lane, expected, paid>>

SetReceivedNonce ==
    /\ pc = "remove_message"
    /\ i \notin Range
    /\ lane' = ConfirmedLane(lane, LastDeliveredNonce(proved))
    /\ i' = 1
    /\ pc' = "calc_relayers_rewards"
    /\ UNCHANGED <<before, proved, mayPrune, stored, expected, paid>>

RewardEntry ==
    LET entry == proved.relayers[i]
        first == before.latest_received_nonce + 1
        delivered == LastDeliveredNonce(proved)
        begin == IF entry.begin >= first THEN entry.begin ELSE first
        end == IF entry.end <= delivered THEN entry.end ELSE delivered
    IN  /\ pc = "calc_relayers_rewards"
        /\ i <= Len(proved.relayers)
        /\ paid' = IF end >= begin
                   THEN [paid EXCEPT ![entry.relayer] = @ + end - begin + 1]
                   ELSE paid
        /\ i' = i + 1
        /\ UNCHANGED <<before, proved, mayPrune, pc, lane, stored, expected>>

EndConfirmation ==
    /\ pc = "calc_relayers_rewards"
    /\ i > Len(proved.relayers)
    /\ EndCall("confirmed")

-----------------------------------------------------------------------------
(***************************************************************************)
(* close_bridge.  The range of the loop is taken once, before the first    *)
(* message is removed; i counts the messages pruned.                       *)
(***************************************************************************)

\* Mutant: the limit is tested after one message too many.
MorePruningAllowedLate == i <= mayPrune /\ i < Cardinality(UnprunedMessages(before))

MorePruningAllowed == i < mayPrune /\ i < Cardinality(UnprunedMessages(before))

PruneOldest ==
    /\ pc = "close_bridge"
    /\ MorePruningAllowed
    /\ stored' = stored \ {lane.oldest_unpruned_nonce}
    /\ lane' = [lane EXCEPT !.oldest_unpruned_nonce = @ + 1]
    /\ i' = i + 1
    /\ UNCHANGED <<before, proved, mayPrune, pc, expected, paid>>

EndPruning ==
    /\ pc = "close_bridge"
    /\ ~ MorePruningAllowed
    /\ EndCall("pruned")

Next ==
    \/ ConfirmNothing \/ TooManyMessages \/ BeginVerification \/ VerifyEntry \/ BadEntry
    \/ BeginPruning \/ RemoveMessage \/ SetReceivedNonce \/ RewardEntry
    \/ EndConfirmation \/ PruneOldest \/ EndPruning

Spec == Init /\ [][Next]_vars

-----------------------------------------------------------------------------
\* The nonces under which RemovedMessages leaves a message.
Kept(from, to) ==
    LET payload == CHOOSE p \in Payloads : TRUE
        messages == [n \in Nonces |->
                        IF n \in UnprunedMessages(before) THEN payload ELSE NoMessage]
    IN  {n \in Nonces : RemovedMessages(messages, from, to)[n] # NoMessage}

\* confirm_delivery and calc_relayers_rewards compute NothingToConfirm,
\* CanConfirm, ConfirmedLane, RemovedMessages and RelayerReward; and a call
\* that fails has not touched the storage before it fails.
ConfirmationMatchesClosedForm ==
    LET delivered == LastDeliveredNonce(proved)
        first == before.latest_received_nonce + 1
        nothing == NothingToConfirm(before, delivered)
        can == CanConfirm(before, TotalUnrewardedMessages(proved), delivered,
                          proved.relayers)
    IN  /\ pc = "nothing" => nothing /\ lane = before
        /\ pc = "error" => ~ nothing /\ ~ can /\ lane = before
                           /\ stored = UnprunedMessages(before)
        /\ pc = "confirmed" =>
             /\ can
             /\ lane = ConfirmedLane(before, delivered)
             /\ stored = Kept(first, delivered)
             /\ paid = [r \in Relayers |->
                          RelayerReward(proved.relayers, first, delivered, r)]

\* The pruning loop of close_bridge computes PrunedLane and PrunedMessages, and
\* leaves unpruned what is stored.
PruningMatchesClosedForm ==
    pc = "pruned" =>
        /\ lane = PrunedLane(before, mayPrune)
        /\ stored = Kept(before.oldest_unpruned_nonce, lane.oldest_unpruned_nonce - 1)
        /\ stored = UnprunedMessages(lane)

-----------------------------------------------------------------------------
(***************************************************************************)
(* The loop invariants.                                                    *)
(***************************************************************************)
Untouched ==
    /\ lane = before
    /\ stored = UnprunedMessages(before)
    /\ paid = [r \in Relayers |-> 0]

\* The entries before the i-th are correct, and it should begin at expected.
VerifyingInv ==
    LET relayers == proved.relayers
    IN  /\ Range # {}
        /\ LastDeliveredNonce(proved) <= before.latest_generated_nonce
        /\ Cardinality(Range) <= TotalUnrewardedMessages(proved)
        /\ i \in 1 .. Len(relayers) + 1
        /\ \A j \in 1 .. i - 1 :
             /\ relayers[j].begin <= relayers[j].end
             /\ j > 1 => relayers[j].begin = relayers[j - 1].end + 1
             /\ relayers[j].end <= LastDeliveredNonce(proved)
        /\ expected = IF relayers = <<>> THEN 0
                      ELSE IF i = 1 THEN relayers[1].begin
                      ELSE relayers[i - 1].end + 1

Confirming ==
    CanConfirm(before, TotalUnrewardedMessages(proved), LastDeliveredNonce(proved),
               proved.relayers)

\* The confirmed messages below i are removed.
RemovingInv ==
    /\ i \in before.latest_received_nonce + 1 .. LastDeliveredNonce(proved) + 1
    /\ stored = UnprunedMessages(before) \ (before.latest_received_nonce + 1 .. i - 1)

\* The confirmed messages that the first k entries credit to a relayer.
CreditedMessages(k, relayer) ==
    {n \in Range : \E j \in 1 .. k :
        /\ proved.relayers[j].relayer = relayer
        /\ n \in proved.relayers[j].begin .. proved.relayers[j].end}

\* The entries before the i-th are rewarded, and they all end before it begins.
RewardingInv ==
    LET relayers == proved.relayers
    IN  /\ lane = ConfirmedLane(before, LastDeliveredNonce(proved))
        /\ stored = UnprunedMessages(before) \ Range
        /\ i \in 1 .. Len(relayers) + 1
        /\ i <= Len(relayers) => \A j \in 1 .. i - 1 : relayers[j].end < relayers[i].begin
        /\ paid = [r \in Relayers |-> Cardinality(CreditedMessages(i - 1, r))]

\* The i oldest messages are pruned.
PruningInv ==
    LET oldest == before.oldest_unpruned_nonce
    IN  /\ i \in 0 .. mayPrune /\ i <= Cardinality(UnprunedMessages(before))
        /\ lane = [before EXCEPT !.oldest_unpruned_nonce = oldest + i]
        /\ stored = UnprunedMessages(before) \ (oldest .. oldest + i - 1)

CallInv ==
    /\ before \in Lanes
    /\ \/ /\ proved \in ProvedLanes
          /\ \/ pc = "confirm_delivery" /\ Untouched
             \/ pc = "nothing" /\ Untouched /\ Range = {}
             \/ pc = "error" /\ Untouched /\ Range # {} /\ ~ Confirming
             \/ pc = "ensure_unrewarded_relayers_are_correct" /\ Untouched /\ VerifyingInv
             \/ /\ pc = "remove_message" /\ Confirming /\ RemovingInv
                /\ lane = before /\ paid = [r \in Relayers |-> 0]
             \/ pc = "calc_relayers_rewards" /\ Confirming /\ RewardingInv
             \/ /\ pc = "confirmed" /\ Confirming /\ RewardingInv
                /\ i = Len(proved.relayers) + 1
       \/ /\ mayPrune \in 0 .. MaxNonce
          /\ \/ pc = "close_bridge" /\ PruningInv
             \/ pc = "pruned" /\ PruningInv /\ ~ MorePruningAllowed
=============================================================================
