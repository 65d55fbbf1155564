----------------------------- MODULE InboundCall -----------------------------
(***************************************************************************)
(* One call of receive_messages_proof at the target, taken apart: each     *)
(* iteration of its loops is a step.  InboundLane gives the whole call in  *)
(* closed form; here the loops are run as they stand in the code, from     *)
(* every lane within the bounds, and the results are compared.             *)
(***************************************************************************)
EXTENDS InboundLane

CONSTANT MaxNonce    \* largest nonce of the lanes and proofs tried

ASSUME NonceAssumption == MaxNonce \in Nat

VARIABLES
    before,       \* the lane as the call found it
    args,         \* relayer, nonces_start, nonces_end, and the confirmed nonce proved
    pc,           \* the loop that is running
    data,         \* the lane
    nonce,        \* next message of the proof
    accepted      \* nonces dispatched by this call, in order

vars == <<before, args, pc, data, nonce, accepted>>

-----------------------------------------------------------------------------
\* Entries that a lane can hold: consecutive, each by another relayer than the
\* one before it, within the limits.
Entry == [relayer : Relayers, begin : 1 .. MaxNonce, end : 1 .. MaxNonce]

EntryQueues == UNION {[1 .. n -> Entry] : n \in 0 .. MaxUnrewardedRelayers}

Lanes ==
    {lane \in [state : {"Opened"}, last_confirmed_nonce : 0 .. MaxNonce,
               relayers : EntryQueues] :
        /\ WellFormed(lane)
        /\ \A i \in 2 .. Len(lane.relayers) :
             lane.relayers[i].relayer # lane.relayers[i - 1].relayer}

\* A proof of at most MaxUnconfirmedMessages messages, with the lane state.
Calls ==
    {call \in [relayer : Relayers, start : 1 .. MaxNonce, end : 0 .. MaxNonce,
               confirmed : 0 .. MaxNonce] :
        /\ call.end >= call.start - 1
        /\ call.end - call.start + 1 <= MaxUnconfirmedMessages}

Init ==
    /\ before \in Lanes
    /\ args \in Calls
    /\ pc = "receive_state_update"
    /\ data = before
    /\ nonce = args.start
    /\ accepted = <<>>

-----------------------------------------------------------------------------
\* The early returns of receive_state_update.
SkipStateUpdate ==
    /\ pc = "receive_state_update"
    /\ \/ args.confirmed > LastDeliveredNonce(data)
       \/ args.confirmed <= data.last_confirmed_nonce
    /\ pc' = "receive_message"
    /\ UNCHANGED <<before, args, data, nonce, accepted>>

SetConfirmedNonce ==
    /\ pc = "receive_state_update"
    /\ args.confirmed <= LastDeliveredNonce(data)
    /\ args.confirmed > data.last_confirmed_nonce
    /\ data' = [data EXCEPT !.last_confirmed_nonce = args.confirmed]
    /\ pc' = "pop_front"
    /\ UNCHANGED <<before, args, nonce, accepted>>

\* The condition of the while loop.
FrontIsConfirmed ==
    data.relayers # <<>> /\ data.relayers[1].end <= args.confirmed

PopFront ==
    /\ pc = "pop_front"
    /\ FrontIsConfirmed
    /\ data' = [data EXCEPT !.relayers = Tail(@)]
    /\ UNCHANGED <<before, args, pc, nonce, accepted>>

UpdateFront ==
    /\ pc = "pop_front"
    /\ ~ FrontIsConfirmed
    /\ data' = IF data.relayers # <<>> /\ data.relayers[1].begin <= args.confirmed
               THEN [data EXCEPT !.relayers[1].begin = args.confirmed + 1]
               ELSE data
    /\ pc' = "receive_message"
    /\ UNCHANGED <<before, args, nonce, accepted>>

\* Mutant: the limit on entries is one too high.
RejectedOneEntryLate(lane, n) ==
    \/ n # LastDeliveredNonce(lane) + 1
    \/ Len(lane.relayers) > MaxUnrewardedRelayers
    \/ n - lane.last_confirmed_nonce > MaxUnconfirmedMessages

\* InvalidNonce, TooManyUnrewardedRelayers or TooManyUnconfirmedMessages.
Rejected(lane, n) ==
    \/ n # LastDeliveredNonce(lane) + 1
    \/ Len(lane.relayers) >= MaxUnrewardedRelayers
    \/ n - lane.last_confirmed_nonce > MaxUnconfirmedMessages

RejectMessage ==
    /\ pc = "receive_message"
    /\ nonce <= args.end
    /\ Rejected(data, nonce)
    /\ nonce' = nonce + 1
    /\ UNCHANGED <<before, args, pc, data, accepted>>

DispatchMessage ==
    /\ pc = "receive_message"
    /\ nonce <= args.end
    /\ ~ Rejected(data, nonce)
    /\ data' = IF ExtendsLastEntry(data, args.relayer)
               THEN [data EXCEPT !.relayers[Len(data.relayers)].end = @ + 1]
               ELSE [data EXCEPT !.relayers =
                       Append(@, [relayer |-> args.relayer, begin |-> nonce, end |-> nonce])]
    /\ accepted' = Append(accepted, nonce)
    /\ nonce' = nonce + 1
    /\ UNCHANGED <<before, args, pc>>

Return ==
    /\ pc = "receive_message"
    /\ nonce > args.end
    /\ pc' = "returned"
    /\ UNCHANGED <<before, args, data, nonce, accepted>>

Next ==
    \/ SkipStateUpdate \/ SetConfirmedNonce \/ PopFront \/ UpdateFront
    \/ RejectMessage \/ DispatchMessage \/ Return

Spec == Init /\ [][Next]_vars

-----------------------------------------------------------------------------
\* The loops of receive_state_update and receive_messages_proof compute the
\* closed forms ReceiveStateUpdate and ReceiveMessages, and dispatch exactly
\* the messages after the last delivered one up to LastAccepted.
CallMatchesClosedForm ==
    LET updated == ReceiveStateUpdate(before, args.confirmed)
        first == LastDeliveredNonce(updated) + 1
        last == LastAccepted(updated, args.relayer, args.start, args.end)
    IN  pc = "returned" =>
          /\ data = ReceiveMessages(updated, args.relayer, args.start, args.end)
          /\ accepted = [i \in 1 .. (last - first + 1) |-> first + i - 1]

-----------------------------------------------------------------------------
(***************************************************************************)
(* The loop invariants.  While entries are popped, those popped so far end *)
(* at or below the confirmed nonce and the others are untouched; while     *)
(* messages are received, the lane is what the proof up to the last        *)
(* message handled would have left.                                        *)
(***************************************************************************)
EntriesAfter(relayers, k) == [j \in 1 .. (Len(relayers) - k) |-> relayers[k + j]]

PoppingInv ==
    /\ args.confirmed <= LastDeliveredNonce(before)
    /\ args.confirmed > before.last_confirmed_nonce
    /\ nonce = args.start /\ accepted = <<>>
    /\ \E k \in 0 .. Len(before.relayers) :
         /\ \A j \in 1 .. k : before.relayers[j].end <= args.confirmed
         /\ data = [before EXCEPT !.last_confirmed_nonce = args.confirmed,
                      !.relayers = EntriesAfter(@, k)]

ReceivingInv ==
    LET updated == ReceiveStateUpdate(before, args.confirmed)
        first == LastDeliveredNonce(updated) + 1
        last == LastAccepted(updated, args.relayer, args.start, nonce - 1)
    IN  /\ nonce \in args.start .. args.end + 1
        /\ data = ReceiveMessages(updated, args.relayer, args.start, nonce - 1)
        /\ accepted = [j \in 1 .. (last - first + 1) |-> first + j - 1]

CallInv ==
    /\ before \in Lanes /\ args \in Calls
    /\ \/ /\ pc = "receive_state_update"
          /\ data = before /\ nonce = args.start /\ accepted = <<>>
       \/ pc = "pop_front" /\ PoppingInv
       \/ pc = "receive_message" /\ ReceivingInv
       \/ pc = "returned" /\ ReceivingInv /\ nonce = args.end + 1
=============================================================================
