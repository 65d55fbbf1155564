----------------------------- MODULE InboundLane -----------------------------
(***************************************************************************)
(* The target end of a message lane: bridges/modules/messages/src/         *)
(* inbound_lane.rs, over InboundLaneData of bridges/primitives/messages.   *)
(*                                                                         *)
(* The lane stores no message.  It keeps the last nonce whose delivery the *)
(* source is known to have confirmed, and a queue of entries naming the    *)
(* relayer of every message delivered since.                               *)
(***************************************************************************)
EXTENDS Integers, Sequences

CONSTANTS
    Relayers,
    MaxUnrewardedRelayers,    \* MAX_UNREWARDED_RELAYERS_IN_CONFIRMATION_TX
    MaxUnconfirmedMessages    \* MAX_UNCONFIRMED_MESSAGES_IN_CONFIRMATION_TX

ASSUME LimitsAssumption ==
    /\ MaxUnrewardedRelayers \in Nat \ {0}
    /\ MaxUnconfirmedMessages \in Nat \ {0}

UnrewardedRelayer == [relayer : Relayers, begin : Nat, end : Nat]

InboundLaneData ==
    [state : {"Opened", "Closed", "Absent"},
     last_confirmed_nonce : Nat,
     relayers : Seq(UnrewardedRelayer)]

InboundLaneOpened ==
    [state |-> "Opened", last_confirmed_nonce |-> 0, relayers |-> <<>>]

LastDeliveredNonce(data) ==
    IF data.relayers = <<>>
    THEN data.last_confirmed_nonce
    ELSE data.relayers[Len(data.relayers)].end

\* saturating_len of front.begin ..= back.end.
TotalUnrewardedMessages(data) ==
    IF data.relayers = <<>>
    THEN 0
    ELSE LET front == data.relayers[1].begin
             back == data.relayers[Len(data.relayers)].end
         IN  IF front <= back THEN back - front + 1 ELSE 0

-----------------------------------------------------------------------------
\* Mutant: an entry that ends exactly at the confirmed nonce is kept.
PoppedEntriesBelow(relayers, confirmed) ==
    CHOOSE k \in 0 .. Len(relayers) :
        /\ \A i \in 1 .. k : relayers[i].end < confirmed
        /\ k < Len(relayers) => relayers[k + 1].end >= confirmed

(***************************************************************************)
(* receive_state_update.  PoppedEntries is the number of iterations of its *)
(* while loop: entries are popped from the front as long as they end at or *)
(* below the new confirmed nonce.                                          *)
(***************************************************************************)
PoppedEntries(relayers, confirmed) ==
    CHOOSE k \in 0 .. Len(relayers) :
        /\ \A i \in 1 .. k : relayers[i].end <= confirmed
        /\ k < Len(relayers) => relayers[k + 1].end > confirmed

\* Mutant: the front entry keeps its confirmed messages.
TrimmedEntryKept(entry, confirmed) == entry

\* The entry that becomes the front loses the messages that are confirmed.
TrimmedEntry(entry, confirmed) ==
    IF entry.begin <= confirmed
    THEN [entry EXCEPT !.begin = confirmed + 1]
    ELSE entry

TrimmedRelayers(relayers, confirmed) ==
    LET popped == PoppedEntries(relayers, confirmed)
    IN  [i \in 1 .. (Len(relayers) - popped) |->
            IF i = 1 THEN TrimmedEntry(relayers[popped + 1], confirmed)
                     ELSE relayers[popped + i]]

\* Mutant: every entry is dropped, confirmed or not.
ReceiveStateUpdateClearing(data, received) ==
    IF received > LastDeliveredNonce(data) \/ received <= data.last_confirmed_nonce
    THEN data
    ELSE [data EXCEPT !.last_confirmed_nonce = received, !.relayers = <<>>]

\* Mutant: the confirmed nonce moves and the entries stay.
ReceiveStateUpdateKeepingEntries(data, received) ==
    IF received > LastDeliveredNonce(data) \/ received <= data.last_confirmed_nonce
    THEN data
    ELSE [data EXCEPT !.last_confirmed_nonce = received]

ReceiveStateUpdate(data, received) ==
    IF received > LastDeliveredNonce(data) \/ received <= data.last_confirmed_nonce
    THEN data
    ELSE [data EXCEPT !.last_confirmed_nonce = received,
                      !.relayers = TrimmedRelayers(@, received)]

-----------------------------------------------------------------------------
(***************************************************************************)
(* receive_message for one nonce: its three early returns and its update.  *)
(***************************************************************************)
ExtendsLastEntry(data, relayer) ==
    /\ data.relayers # <<>>
    /\ data.relayers[Len(data.relayers)].relayer = relayer

CanReceive(data, nonce) ==
    /\ nonce = LastDeliveredNonce(data) + 1
    /\ Len(data.relayers) < MaxUnrewardedRelayers
    /\ nonce - data.last_confirmed_nonce <= MaxUnconfirmedMessages

(***************************************************************************)
(* The loop of receive_messages_proof over the messages start .. end, each *)
(* passed to receive_message.  Nonces at or below the last delivered one   *)
(* are rejected one by one; from the next nonce on messages are accepted   *)
(* until the proof ends or a limit is hit.  A relayer that opens the last  *)
(* free entry gets one message through, because the test on the number of  *)
(* entries does not ask whether the message would need a new one.          *)
(***************************************************************************)
LastAccepted(data, relayer, start, end) ==
    LET delivered == LastDeliveredNonce(data)
        mayConfirm == data.last_confirmed_nonce + MaxUnconfirmedMessages
        entriesFull == Len(data.relayers) + 1 >= MaxUnrewardedRelayers
        lastOfBatch == IF entriesFull /\ ~ ExtendsLastEntry(data, relayer)
                       THEN delivered + 1 ELSE end
    IN  IF \/ delivered + 1 \notin start .. end
           \/ ~ CanReceive(data, delivered + 1)
        THEN delivered
        ELSE IF lastOfBatch <= mayConfirm THEN lastOfBatch ELSE mayConfirm

\* The last entry, if it is the same relayer's, grows; else one is added.
ReceiveMessages(data, relayer, start, end) ==
    LET delivered == LastDeliveredNonce(data)
        accepted == LastAccepted(data, relayer, start, end)
    IN  IF accepted = delivered THEN data
        ELSE IF ExtendsLastEntry(data, relayer)
        THEN [data EXCEPT !.relayers[Len(data.relayers)].end = accepted]
        ELSE [data EXCEPT !.relayers =
                Append(@, [relayer |-> relayer, begin |-> delivered + 1, end |-> accepted])]

-----------------------------------------------------------------------------
(***************************************************************************)
(* The shape that the comments on InboundLaneData::relayers promise:       *)
(* consecutive non-empty entries that cover exactly the nonces after       *)
(* last_confirmed_nonce up to last_delivered_nonce(), within both limits.  *)
(***************************************************************************)
WellFormed(data) ==
    LET entries == data.relayers
        delivered == LastDeliveredNonce(data)
    IN  /\ Len(entries) <= MaxUnrewardedRelayers
        /\ delivered <= data.last_confirmed_nonce + MaxUnconfirmedMessages
        /\ entries # <<>> => entries[1].begin = data.last_confirmed_nonce + 1
        /\ \A i \in DOMAIN entries :
             /\ entries[i].begin <= entries[i].end
             /\ i > 1 => entries[i].begin = entries[i - 1].end + 1
             /\ entries[i].end <= delivered
        /\ \A n \in data.last_confirmed_nonce + 1 .. delivered :
             \E i \in DOMAIN entries : n \in entries[i].begin .. entries[i].end
=============================================================================
