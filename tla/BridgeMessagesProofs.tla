------------------------ MODULE BridgeMessagesProofs ------------------------
(***************************************************************************)
(* Proofs of the safety properties of BridgeMessages, of the lane that the *)
(* relay serves (LaneRelay), and of the lane that is closed and opened     *)
(* again (LaneReopening), for every number of relayers, messages,          *)
(* remembered headers and lifetimes and for every limit.                   *)
(***************************************************************************)
EXTENDS LaneRelay, LaneReopening, LaneTheorems

USE MaxNonceAssumption, NoMessageAssumption

-----------------------------------------------------------------------------
(***************************************************************************)
(* Lemmas on the parts of the state.                                       *)
(***************************************************************************)

\* Old lane data stays known when the target dispatches more and the source
\* confirms more.
LEMMA KnownLaneMonotone ==
    ASSUME NEW data \in InboundLaneData,
           NEW received \in Nat, NEW received2 \in Nat, received <= received2,
           NEW log \in Seq(DispatchedMessage), NEW log2 \in Seq(DispatchedMessage),
           Len(log) <= Len(log2), \A n \in 1 .. Len(log) : log2[n] = log[n],
           KnownLane(data, received, log)
    PROVE  KnownLane(data, received2, log2)
<1> DEFINE entries == data.relayers
<1>1. /\ entries \in Seq(UnrewardedRelayer)
      /\ data.last_confirmed_nonce \in Nat
      /\ LastDeliveredNonce(data) \in Nat
      /\ Len(log) \in Nat /\ Len(log2) \in Nat
  BY LastDeliveredType
<1>2. /\ WellFormed(data)
      /\ data.last_confirmed_nonce <= received
      /\ LastDeliveredNonce(data) <= Len(log)
  BY DEF KnownLane
<1>3. ASSUME NEW i \in DOMAIN entries, NEW n \in entries[i].begin .. entries[i].end
      PROVE  log2[n].relayer = entries[i].relayer
  <2>1. log[n].relayer = entries[i].relayer
    BY DEF KnownLane
  <2>2. /\ DOMAIN entries = 1 .. Len(entries) /\ Len(entries) \in Nat
        /\ entries[i].begin \in Nat /\ entries[i].end \in Nat
    BY <1>1, EntryTypes
  <2>3. entries[i].end <= LastDeliveredNonce(data)
    BY <1>2 DEF WellFormed
  <2>4. entries[i].begin >= 1
    <3>1. CASE i = 1
      <4>1. entries # <<>>
        BY <2>2, <1>1, EntryTypes
      <4>2. entries[1].begin = data.last_confirmed_nonce + 1
        BY <1>2, <4>1 DEF WellFormed
      <4> QED
        BY <1>1, <3>1, <4>2
    <3>2. CASE i > 1
      <4>1. entries[i].begin = entries[i - 1].end + 1
        BY <1>2, <3>2 DEF WellFormed
      <4>2. entries[i - 1].end \in Nat
        BY <1>1, <2>2, <3>2, EntryTypes
      <4> QED
        BY <4>1, <4>2
    <3> QED
      BY <2>2, <3>1, <3>2
  <2>5. n \in 1 .. Len(log)
    BY <1>1, <1>2, <2>2, <2>3, <2>4
  <2> QED
    BY <2>1, <2>5
<1>4. data.last_confirmed_nonce <= received2 /\ LastDeliveredNonce(data) <= Len(log2)
  BY <1>1, <1>2
<1> QED
  BY <1>2, <1>3, <1>4 DEF KnownLane

\* What is stored was sent, also after one more message is sent.
LEMMA StoredWereSentAppend ==
    ASSUME NEW messages, NEW log \in Seq(Payloads), NEW payload \in Payloads,
           StoredWereSent(messages, log)
    PROVE  StoredWereSent(messages, Append(log, payload))
<1>1. /\ Len(Append(log, payload)) = Len(log) + 1
      /\ Len(log) \in Nat
      /\ \A n \in 1 .. Len(log) : Append(log, payload)[n] = log[n]
  BY AppendProperties
<1> QED
  BY <1>1 DEF StoredWereSent, Nonces

\* A light client holds the new header and some of those it held before.
LEMMA WithHeaderElements ==
    ASSUME NEW S, NEW headers \in Seq(S), NEW header \in S
    PROVE  /\ WithHeader(headers, header) \in Seq(S)
           /\ \A h \in DOMAIN WithHeader(headers, header) :
                \/ WithHeader(headers, header)[h] = header
                \/ \E g \in DOMAIN headers : WithHeader(headers, header)[h] = headers[g]
<1> DEFINE new == WithHeader(headers, header)
<1>1. CASE Len(headers) < HeadersToKeep
  <2>1. new = Append(headers, header)
    BY <1>1 DEF WithHeader
  <2>2. /\ new \in Seq(S) /\ Len(new) = Len(headers) + 1 /\ Len(headers) \in Nat
        /\ \A i \in 1 .. Len(headers) : new[i] = headers[i]
        /\ new[Len(headers) + 1] = header
    BY <2>1, AppendProperties, LenProperties
  <2>3. DOMAIN new = 1 .. Len(new) /\ DOMAIN headers = 1 .. Len(headers)
    BY <2>2, LenProperties
  <2> QED
    BY <2>2, <2>3
<1>2. CASE ~ (Len(headers) < HeadersToKeep)
  <2> DEFINE rest == Tail(headers)
  <2>1. new = Append(rest, header)
    BY <1>2 DEF WithHeader
  <2>2. headers # <<>> /\ Len(headers) \in Nat
    BY <1>2, HeadersAssumption, EmptySeq, LenProperties
  <2>3. /\ rest \in Seq(S) /\ Len(rest) = Len(headers) - 1
        /\ \A i \in 1 .. Len(rest) : rest[i] = headers[i + 1]
    BY <2>2, HeadTailProperties
  <2> HIDE DEF rest
  <2>4. /\ new \in Seq(S) /\ Len(new) = Len(rest) + 1
        /\ \A i \in 1 .. Len(rest) : new[i] = rest[i]
        /\ new[Len(rest) + 1] = header
    BY <2>1, <2>3, AppendProperties
  <2>5. DOMAIN new = 1 .. Len(new) /\ DOMAIN headers = 1 .. Len(headers)
        /\ Len(rest) \in Nat
    BY <2>3, <2>4, LenProperties
  <2> HIDE DEF new
  <2>6. ASSUME NEW h \in DOMAIN new
        PROVE  new[h] = header \/ \E g \in DOMAIN headers : new[h] = headers[g]
    <3>1. CASE h = Len(rest) + 1
      BY <2>4, <3>1
    <3>2. CASE h \in 1 .. Len(rest)
      <4>1. h + 1 \in DOMAIN headers /\ new[h] = headers[h + 1]
        BY <2>2, <2>3, <2>4, <2>5, <3>2
      <4> QED
        BY <4>1
    <3> QED
      BY <2>4, <2>5, <3>1, <3>2
  <2> QED
    BY <2>4, <2>6 DEF new
<1> QED
  BY <1>1, <1>2
-----------------------------------------------------------------------------
(***************************************************************************)
(* The invariant is inductive.                                             *)
(***************************************************************************)

\* A lane that has just been opened at both ends satisfies the invariant.
LEMMA InitIndInv == Init => IndInv
<1> SUFFICES ASSUME Init PROVE IndInv
  OBVIOUS
<1> USE DEF Init
<1>1. InboundLaneOpened \in InboundLaneData /\ LastDeliveredNonce(InboundLaneOpened) = 0
  BY DEF InboundLaneOpened, InboundLaneData, LastDeliveredNonce
<1>2. WellFormed(inLane)
  BY <1>1, LimitsAssumption DEF InboundLaneOpened, WellFormed
<1>3. TypeOK
  BY <1>1 DEF TypeOK, OutboundLaneOpened, OutboundLaneData, LaneStates,
     OutboundMessages, BridgeStates, OperatingModes
<1>4. SourceInv
  BY DEF SourceInv, OutboundLaneOpened, StoredWereSent
<1>5. TargetInv
  BY <1>1, <1>2 DEF TargetInv, KnownLane, ExactlyOnceInOrder, InboundLaneOpened,
     OutboundLaneOpened
<1>6. HeadersInv
  BY DEF HeadersInv
<1>7. NothingLost /\ PrunedBelowOldest
  BY DEF NothingLost, PrunedBelowOldest, OutboundLaneOpened
<1>8. RewardsExact
  <2>1. 1 .. outLane.latest_received_nonce = {}
    BY DEF OutboundLaneOpened
  <2>2. \A r \in Relayers :
          {n \in 1 .. outLane.latest_received_nonce : dispatched[n].relayer = r} = {}
    BY <2>1
  <2> QED
    BY <2>2, FS_EmptySet DEF RewardsExact
<1> QED
  BY <1>3, <1>4, <1>5, <1>6, <1>7, <1>8 DEF IndInv

\* send_message stores the message under the nonce after the last one.
LEMMA SendMessageIndInv ==
    ASSUME IndInv, NEW payload \in Payloads, SendMessage(payload)
    PROVE  IndInv'
<1> USE DEF IndInv
<1> DEFINE n0 == outLane.latest_generated_nonce
<1>1. /\ outLane \in OutboundLaneData
      /\ sent \in Seq(Payloads) /\ sent' = Append(sent, payload) /\ n0 = Len(sent)
      /\ outMessages \in [Nonces -> Payloads \cup {NoMessage}]
  BY DEF TypeOK, SendMessage, MessageIsValid, SourceInv, OutboundMessages
<1>2. /\ Len(sent) \in Nat /\ Len(sent') = n0 + 1
      /\ sent' \in Seq(Payloads)
      /\ \A n \in 1 .. Len(sent) : sent'[n] = sent[n]
      /\ sent'[n0 + 1] = payload
      /\ n0 + 1 \in Nonces
  <2>1. Len(sent) \in Nat
    BY <1>1
  <2>2. n0 + 1 \in Nonces
    BY <1>1, <2>1 DEF SendMessage, Nonces
  <2> QED
    BY <1>1, <2>1, <2>2, AppendProperties
<1>3. /\ outLane' \in OutboundLaneData
      /\ outLane'.state = outLane.state
      /\ outLane'.oldest_unpruned_nonce = outLane.oldest_unpruned_nonce
      /\ outLane'.latest_received_nonce = outLane.latest_received_nonce
      /\ outLane'.latest_generated_nonce = n0 + 1
      /\ outLane.state = "Opened"
      /\ outLane.oldest_unpruned_nonce \in Nat
      /\ outLane.latest_received_nonce \in Nat
  <2>1. outLane.state = "Opened"
    BY DEF SendMessage, MessageIsValid
  <2>2. outLane' = [outLane EXCEPT !.latest_generated_nonce = n0 + 1]
    BY DEF SendMessage, SentLane
  <2>3. n0 + 1 \in Nat
    BY <1>1, <1>2
  <2> QED
    BY ONLY <1>1, <2>1, <2>2, <2>3 DEF OutboundLaneData
<1>4. outMessages' = [outMessages EXCEPT ![n0 + 1] = payload]
  BY DEF SendMessage, SavedMessages
<1>5. UNCHANGED <<rewards, srcMode, importedTarget, inLane, dispatcherActive, tgtMode,
                  importedSource, dispatched>>
  BY DEF SendMessage, targetVars
<1>6. bridge' \in {bridge, "Suspended"}
  BY DEF SendMessage, MessageIsValid, BridgeAfterEnqueued
<1>7. bridge \in {"Opened", "Suspended"}
  BY <1>3 DEF SourceInv
<1>8. TypeOK'
  BY <1>2, <1>3, <1>4, <1>5, <1>6 DEF TypeOK, OutboundMessages, BridgeStates
<1>9. SourceInv'
  <2>1. StoredWereSent(outMessages', sent')
    BY <1>1, <1>2, <1>4 DEF SourceInv, StoredWereSent, Nonces
  <2> QED
    BY <1>1, <1>2, <1>3, <1>5, <1>6, <1>7, <2>1 DEF SourceInv, SendMessage, MessageIsValid
<1>10. TargetInv'
  <2>1. ExactlyOnceInOrder'
    <3>1. dispatched \in Seq(DispatchedMessage)
      BY DEF TypeOK
    <3>2. DOMAIN dispatched = 1 .. Len(dispatched) /\ Len(dispatched) \in Nat
      BY <3>1
    <3> QED
      BY <1>1, <1>2, <1>5, <3>2 DEF TargetInv, ExactlyOnceInOrder
  <2> QED
    BY <1>3, <1>5, <2>1 DEF TargetInv
<1>11. HeadersInv'
  <2>1. \A h \in DOMAIN importedSource : StoredWereSent(importedSource[h].messages, sent')
    BY <1>1, StoredWereSentAppend DEF HeadersInv
  <2> QED
    BY <1>3, <1>5, <2>1 DEF HeadersInv
<1>12. NothingLost' /\ PrunedBelowOldest'
  <2>1. \A n \in Nonces : outMessages'[n] = IF n = n0 + 1 THEN payload ELSE outMessages[n]
    BY <1>1, <1>2, <1>4
  <2>2. /\ outLane.oldest_unpruned_nonce = outLane.latest_received_nonce + 1
        /\ outLane.latest_received_nonce <= n0
    <3>1. Len(dispatched) <= Len(sent) /\ Len(dispatched) \in Nat
      BY DEF TargetInv, ExactlyOnceInOrder, TypeOK
    <3> QED
      BY <1>1, <1>2, <1>3, <3>1 DEF SourceInv
  <2>3. NothingLost'
    <3> SUFFICES ASSUME NEW n \in outLane.latest_received_nonce + 1 .. n0 + 1
                 PROVE  outMessages'[n] = sent'[n]
      BY <1>3 DEF NothingLost
    <3>1. n \in Nonces
      BY <1>2, <1>3 DEF Nonces
    <3>2. CASE n = n0 + 1
      BY <1>2, <2>1, <3>1, <3>2
    <3>3. CASE n # n0 + 1
      <4>1. n \in outLane.latest_received_nonce + 1 .. n0 /\ n \in 1 .. Len(sent)
        BY <1>1, <1>2, <1>3, <3>3
      <4>2. outMessages[n] = sent[n]
        BY <1>7, <4>1 DEF NothingLost
      <4> QED
        BY <1>2, <2>1, <3>1, <3>3, <4>1, <4>2
    <3> QED
      BY <3>2, <3>3
  <2>4. PrunedBelowOldest'
    <3> SUFFICES ASSUME NEW n \in Nonces, outMessages'[n] # NoMessage
                 PROVE  n \in outLane.oldest_unpruned_nonce .. n0 + 1
      BY <1>3 DEF PrunedBelowOldest
    <3>1. CASE n = n0 + 1
      BY <1>1, <1>2, <1>3, <2>2, <3>1
    <3>2. CASE n # n0 + 1
      <4>1. n \in outLane.oldest_unpruned_nonce .. n0
        BY <2>1, <3>2 DEF PrunedBelowOldest
      <4> QED
        BY <1>1, <1>2, <1>3, <4>1
    <3> QED
      BY <3>1, <3>2
  <2> QED
    BY <2>3, <2>4
<1>13. RewardsExact'
  BY <1>3, <1>5 DEF RewardsExact
<1> QED
  BY <1>8, <1>9, <1>10, <1>11, <1>12, <1>13

-----------------------------------------------------------------------------
(***************************************************************************)
(* Confirmations.                                                          *)
(***************************************************************************)

\* calc_relayers_rewards on the messages received + 1 .. delivered pays what
\* the log of the target says each relayer delivered of them, although the
\* entries may begin below the range.
LEMMA RewardOfRange ==
    ASSUME NEW data \in InboundLaneData, NEW received \in Nat,
           NEW log \in Seq(DispatchedMessage), KnownLane(data, received, log),
           received <= LastDeliveredNonce(data), NEW r \in Relayers
    PROVE  Cardinality({n \in 1 .. LastDeliveredNonce(data) : log[n].relayer = r}) =
             Cardinality({n \in 1 .. received : log[n].relayer = r})
             + RelayerReward(data.relayers, received + 1, LastDeliveredNonce(data), r)
<1> DEFINE entries == data.relayers
           delivered == LastDeliveredNonce(data)
           Before == {n \in 1 .. received : log[n].relayer = r}
           After == {n \in 1 .. delivered : log[n].relayer = r}
           Paid == {n \in received + 1 .. delivered :
                      \E i \in DOMAIN entries :
                         /\ entries[i].relayer = r
                         /\ n \in entries[i].begin .. entries[i].end}
<1>1. /\ delivered \in Nat /\ received <= delivered
      /\ data.last_confirmed_nonce \in Nat /\ data.last_confirmed_nonce <= received
  BY LastDeliveredType DEF KnownLane
<1>2. \A i \in DOMAIN entries : \A n \in entries[i].begin .. entries[i].end :
         log[n].relayer = entries[i].relayer
  BY DEF KnownLane
<1>3. \A n \in data.last_confirmed_nonce + 1 .. delivered :
         \E i \in DOMAIN entries : n \in entries[i].begin .. entries[i].end
  BY DEF KnownLane, WellFormed
<1> HIDE DEF delivered, entries
<1>4. Paid = {n \in received + 1 .. delivered : log[n].relayer = r}
  <2>1. ASSUME NEW n \in received + 1 .. delivered
        PROVE  (\E i \in DOMAIN entries :
                   /\ entries[i].relayer = r
                   /\ n \in entries[i].begin .. entries[i].end) <=> log[n].relayer = r
    <3>1. n \in data.last_confirmed_nonce + 1 .. delivered
      BY <1>1
    <3>2. PICK i \in DOMAIN entries : n \in entries[i].begin .. entries[i].end
      BY <1>3, <3>1
    <3> QED
      BY <1>2, <3>2
  <2> QED
    BY <2>1
<1>5. After = Before \cup Paid /\ Before \cap Paid = {}
  BY <1>1, <1>4
<1>6. IsFiniteSet(Before) /\ IsFiniteSet(Paid)
  <2>1. IsFiniteSet(1 .. received) /\ IsFiniteSet(received + 1 .. delivered)
    BY <1>1, FS_Interval
  <2>2. Before \in SUBSET (1 .. received) /\ Paid \in SUBSET (received + 1 .. delivered)
    OBVIOUS
  <2> HIDE DEF Before, Paid
  <2> QED
    BY <2>1, <2>2, FS_Subset
<1>7. RelayerReward(entries, received + 1, delivered, r) = Cardinality(Paid)
  BY DEF RelayerReward
<1> HIDE DEF Before, Paid, After
<1>8. Cardinality(Before) \in Nat /\ Cardinality(Paid) \in Nat
  BY <1>6, FS_CardinalityType
<1>9. Cardinality(After) = Cardinality(Before) + Cardinality(Paid)
  <2>1. Cardinality(Before \cup Paid) =
          Cardinality(Before) + Cardinality(Paid) - Cardinality(Before \cap Paid)
    BY <1>6, FS_Union, Zenon
  <2>2. Cardinality(Before \cap Paid) = 0
    BY <1>5, FS_EmptySet, Zenon
  <2> QED
    BY <1>5, <1>8, <2>1, <2>2
<1> QED
  BY <1>7, <1>9 DEF After, Before, delivered, entries
\* The range of the reward function.
LEMMA RewardType ==
    ASSUME NEW entries, NEW from \in Nat, NEW to \in Nat, NEW r
    PROVE  RelayerReward(entries, from, to, r) \in Nat
<1> DEFINE Paid == {n \in from .. to :
                      \E i \in DOMAIN entries :
                         /\ entries[i].relayer = r
                         /\ n \in entries[i].begin .. entries[i].end}
<1>1. IsFiniteSet(from .. to)
  BY FS_Interval
<1>2. Paid \in SUBSET (from .. to)
  OBVIOUS
<1>3. RelayerReward(entries, from, to, r) = Cardinality(Paid)
  BY DEF RelayerReward
<1> HIDE DEF Paid
<1> QED
  BY <1>1, <1>2, <1>3, FS_Subset, FS_CardinalityType

\* The pallets' modes, the dispatcher's state and the congestion of the bridge
\* may change at any time.
LEMMA FlagsIndInv ==
    ASSUME IndInv,
           UNCHANGED <<outLane, outMessages, rewards, importedTarget, sent,
                       inLane, importedSource, dispatched>>,
           bridge' \in BridgeStates,
           bridge' \in {"Opened", "Suspended"} <=> bridge \in {"Opened", "Suspended"},
           srcMode' \in OperatingModes, tgtMode' \in OperatingModes,
           dispatcherActive' \in BOOLEAN
    PROVE  IndInv'
<1> USE DEF IndInv
<1>1. TypeOK'
  BY DEF TypeOK
<1>2. SourceInv'
  BY DEF SourceInv
<1>3. TargetInv' /\ HeadersInv'
  BY DEF TargetInv, ExactlyOnceInOrder, HeadersInv
<1>4. NothingLost' /\ PrunedBelowOldest' /\ RewardsExact'
  BY DEF NothingLost, PrunedBelowOldest, RewardsExact
<1> QED
  BY <1>1, <1>2, <1>3, <1>4

\* What confirm_delivery does to the lane's record.
LEMMA ConfirmedLaneFields ==
    ASSUME NEW lane \in OutboundLaneData, NEW delivered \in Nat
    PROVE  LET new == ConfirmedLane(lane, delivered)
           IN  /\ new \in OutboundLaneData
               /\ new.state = lane.state
               /\ new.oldest_unpruned_nonce = delivered + 1
               /\ new.latest_received_nonce = delivered
               /\ new.latest_generated_nonce = lane.latest_generated_nonce
<1> DEFINE mid == [lane EXCEPT !.latest_received_nonce = delivered]
           new == ConfirmedLane(lane, delivered)
<1>1. /\ mid \in OutboundLaneData
      /\ mid.state = lane.state
      /\ mid.latest_received_nonce = delivered
      /\ mid.latest_generated_nonce = lane.latest_generated_nonce
  BY DEF OutboundLaneData
<1>2. new = [mid EXCEPT !.oldest_unpruned_nonce = delivered + 1]
  BY DEF ConfirmedLane
<1> HIDE DEF mid
<1> QED
  BY <1>1, <1>2 DEF OutboundLaneData

\* confirm_delivery and pay_reward, with lane data of any remembered header.
LEMMA ConfirmsDeliveryIndInv ==
    ASSUME IndInv, NEW h \in DOMAIN importedTarget,
           ConfirmsDelivery(importedTarget[h]),
           bridge' \in BridgeStates,
           bridge' \in {"Opened", "Suspended"} <=> bridge \in {"Opened", "Suspended"},
           UNCHANGED <<srcMode, importedTarget, sent, targetVars>>
    PROVE  IndInv'
<1> USE DEF IndInv
<1> DEFINE proved == importedTarget[h]
           delivered == LastDeliveredNonce(proved)
           received == outLane.latest_received_nonce
           generated == outLane.latest_generated_nonce
           oldest == outLane.oldest_unpruned_nonce
<1>1. /\ outLane \in OutboundLaneData
      /\ outMessages \in [Nonces -> Payloads \cup {NoMessage}]
      /\ proved \in InboundLaneData
      /\ inLane \in InboundLaneData
      /\ dispatched \in Seq(DispatchedMessage)
      /\ rewards \in [Relayers -> Nat]
  <2>1. importedTarget \in Seq(InboundLaneData)
    BY DEF TypeOK
  <2>2. proved \in InboundLaneData
    BY <2>1, ElementOfSeq
  <2> QED
    BY <2>2 DEF TypeOK, OutboundMessages
<1>2. /\ received \in Nat /\ generated \in Nat /\ oldest \in Nat /\ delivered \in Nat
      /\ Len(dispatched) \in Nat
  BY <1>1, LastDeliveredType DEF OutboundLaneData
<1>3. received < delivered /\ delivered <= generated
  <2>1. ~ (delivered <= received) /\ delivered <= generated
    BY DEF ConfirmsDelivery, CanConfirm, NothingToConfirm
  <2> QED
    BY <1>2, <2>1
<1>4. /\ outLane' \in OutboundLaneData
      /\ outLane'.state = outLane.state
      /\ outLane'.oldest_unpruned_nonce = delivered + 1
      /\ outLane'.latest_received_nonce = delivered
      /\ outLane'.latest_generated_nonce = generated
  <2>1. outLane' = ConfirmedLane(outLane, delivered)
    BY DEF ConfirmsDelivery
  <2> HIDE DEF delivered
  <2> QED
    BY <1>1, <1>2, <2>1, ConfirmedLaneFields
<1>5. \A n \in Nonces : outMessages'[n] =
         IF n \in received + 1 .. delivered THEN NoMessage ELSE outMessages[n]
  BY DEF ConfirmsDelivery, RemovedMessages
<1>6. outMessages' \in [Nonces -> Payloads \cup {NoMessage}]
  BY <1>1 DEF ConfirmsDelivery, RemovedMessages
<1>7. rewards' = [r \in Relayers |->
        rewards[r] + RelayerReward(proved.relayers, received + 1, delivered, r)]
  BY DEF ConfirmsDelivery
<1>8. UNCHANGED <<srcMode, importedTarget, sent, inLane, dispatcherActive, tgtMode,
                  importedSource, dispatched>>
  BY DEF targetVars
<1>9. /\ KnownLane(proved, received, dispatched)
      /\ delivered <= Len(dispatched)
  BY DEF HeadersInv, KnownLane
<1> HIDE DEF delivered, proved
<1>10. TypeOK'
  <2>1. \A r \in Relayers :
          RelayerReward(proved.relayers, received + 1, delivered, r) \in Nat
    BY <1>2, RewardType
  <2>2. rewards' \in [Relayers -> Nat]
    BY <1>1, <1>7, <2>1
  <2> QED
    BY <1>4, <1>6, <1>8, <2>2 DEF TypeOK, OutboundMessages
<1>11. SourceInv'
  <2>1. StoredWereSent(outMessages', sent')
    BY <1>5, <1>8 DEF SourceInv, StoredWereSent
  <2> QED
    BY <1>2, <1>4, <1>8, <1>9, <2>1 DEF SourceInv
<1>12. \A data \in InboundLaneData :
         KnownLane(data, received, dispatched) => KnownLane(data, delivered, dispatched)
  BY <1>1, <1>2, <1>3, KnownLaneMonotone
<1>13. TargetInv'
  BY <1>1, <1>4, <1>8, <1>12 DEF TargetInv, ExactlyOnceInOrder
<1>14. HeadersInv'
  <2>1. importedTarget \in Seq(InboundLaneData) /\ importedSource \in Seq(SourceHeader)
    BY DEF TypeOK
  <2>2. \A g \in DOMAIN importedTarget : KnownLane(importedTarget[g], delivered, dispatched)
    BY <1>12, <2>1, ElementOfSeq DEF HeadersInv
  <2>3. \A g \in DOMAIN importedSource :
          importedSource[g].lane.latest_received_nonce <= delivered
    <3> TAKE g \in DOMAIN importedSource
    <3>1. importedSource[g] \in SourceHeader
      BY <2>1, ElementOfSeq
    <3>2. importedSource[g].lane.latest_received_nonce \in Nat
      BY <3>1 DEF SourceHeader, OutboundLaneData
    <3>3. importedSource[g].lane.latest_received_nonce <= received
      BY DEF HeadersInv
    <3> QED
      BY <1>2, <1>3, <3>2, <3>3
  <2> QED
    BY <1>4, <1>8, <2>2, <2>3 DEF HeadersInv
<1>15. NothingLost'
  <2> SUFFICES ASSUME bridge \in {"Opened", "Suspended"},
                      NEW n \in delivered + 1 .. generated
               PROVE  outMessages'[n] = sent[n]
    BY <1>4, <1>8 DEF NothingLost
  <2>1. /\ n \in Nonces /\ n \notin received + 1 .. delivered
        /\ n \in received + 1 .. generated
    BY <1>2, <1>3 DEF Nonces, SourceInv
  <2> QED
    BY <1>5, <2>1 DEF NothingLost
<1>16. PrunedBelowOldest'
  <2> SUFFICES ASSUME NEW n \in Nonces, outMessages'[n] # NoMessage
               PROVE  n \in delivered + 1 .. generated
    BY <1>4 DEF PrunedBelowOldest
  <2>1. n \notin received + 1 .. delivered /\ outMessages[n] # NoMessage
    BY <1>5
  <2>2. n \in oldest .. generated
    BY <2>1 DEF PrunedBelowOldest
  <2>3. received < oldest
    BY DEF SourceInv
  <2> QED
    BY <1>2, <2>1, <2>2, <2>3
<1>17. RewardsExact'
  <2> SUFFICES ASSUME NEW r \in Relayers
               PROVE  rewards'[r] =
                        Cardinality({n \in 1 .. delivered : dispatched[n].relayer = r})
    BY <1>4, <1>8 DEF RewardsExact
  <2>1. rewards[r] = Cardinality({n \in 1 .. received : dispatched[n].relayer = r})
    BY DEF RewardsExact
  <2>2. Cardinality({n \in 1 .. delivered : dispatched[n].relayer = r}) =
          Cardinality({n \in 1 .. received : dispatched[n].relayer = r})
          + RelayerReward(proved.relayers, received + 1, delivered, r)
    <3>1. received <= LastDeliveredNonce(proved) /\ received \in Nat
      BY <1>2, <1>3 DEF delivered
    <3> HIDE DEF received
    <3> QED
      BY <1>1, <1>9, <3>1, RewardOfRange, Zenon DEF delivered
  <2> QED
    BY <1>7, <2>1, <2>2
<1> QED
  BY <1>10, <1>11, <1>13, <1>14, <1>15, <1>16, <1>17

\* receive_messages_delivery_proof, whatever it confirms.
LEMMA DeliveryProofIndInv ==
    ASSUME IndInv, NEW h \in DOMAIN importedTarget, ReceiveMessagesDeliveryProof(h)
    PROVE  IndInv'
<1>1. /\ bridge' \in BridgeStates
      /\ bridge' \in {"Opened", "Suspended"} <=> bridge \in {"Opened", "Suspended"}
  BY DEF IndInv, TypeOK, ReceiveMessagesDeliveryProof, BridgeAfterDelivered, BridgeStates
<1>2. UNCHANGED <<srcMode, importedTarget, sent, targetVars>>
  BY DEF ReceiveMessagesDeliveryProof
<1>3. CASE ConfirmsNothing(importedTarget[h])
  <2>1. UNCHANGED <<outLane, outMessages, rewards, importedTarget, sent,
                    inLane, importedSource, dispatched, srcMode, tgtMode, dispatcherActive>>
    BY <1>2, <1>3 DEF ConfirmsNothing, targetVars
  <2>2. srcMode' \in OperatingModes /\ tgtMode' \in OperatingModes
        /\ dispatcherActive' \in BOOLEAN
    BY <2>1 DEF IndInv, TypeOK
  <2> QED
    BY <1>1, <2>1, <2>2, FlagsIndInv
<1>4. CASE ConfirmsDelivery(importedTarget[h])
  BY <1>1, <1>2, <1>4, ConfirmsDeliveryIndInv
<1> QED
  BY <1>3, <1>4 DEF ReceiveMessagesDeliveryProof

-----------------------------------------------------------------------------
(***************************************************************************)
(* Closing.                                                                *)
(***************************************************************************)

\* The loop of close_bridge moves oldest_unpruned_nonce forward only.
LEMMA OldestAfterPruningRange ==
    ASSUME NEW lane \in OutboundLaneData, NEW mayPrune \in Nat
    PROVE  /\ OldestAfterPruning(lane, mayPrune) \in Nat
           /\ lane.oldest_unpruned_nonce <= OldestAfterPruning(lane, mayPrune)
BY DEF OutboundLaneData, OldestAfterPruning

\* close_bridge at the source.
LEMMA CloseBridgeIndInv ==
    ASSUME IndInv, NEW mayPrune \in Nat, CloseBridge(mayPrune)
    PROVE  IndInv'
<1> USE DEF IndInv
<1> DEFINE received == outLane.latest_received_nonce
           generated == outLane.latest_generated_nonce
           oldest == outLane.oldest_unpruned_nonce
           oldest2 == OldestAfterPruning(outLane, mayPrune)
           pruned == PrunedLane(outLane, mayPrune)
           closed == IF UnprunedMessages(pruned) # {} THEN "Closed" ELSE "Absent"
<1>1. /\ outLane \in OutboundLaneData
      /\ outMessages \in [Nonces -> Payloads \cup {NoMessage}]
      /\ received \in Nat /\ generated \in Nat /\ oldest \in Nat
  BY DEF TypeOK, OutboundMessages, OutboundLaneData
<1>2. oldest2 \in Nat /\ oldest <= oldest2
  BY <1>1, OldestAfterPruningRange
<1>3. closed \in {"Closed", "Absent"} /\ bridge' = closed
      /\ outLane' = [pruned EXCEPT !.state = closed]
  BY DEF CloseBridge
<1>4. \A n \in Nonces : outMessages'[n] =
         IF n \in oldest .. (oldest2 - 1) THEN NoMessage ELSE outMessages[n]
  BY DEF CloseBridge, PrunedMessages, RemovedMessages
<1>5. outMessages' \in [Nonces -> Payloads \cup {NoMessage}]
  BY <1>1 DEF CloseBridge, PrunedMessages, RemovedMessages
<1>6. UNCHANGED <<rewards, srcMode, importedTarget, sent, inLane, dispatcherActive,
                  tgtMode, importedSource, dispatched>>
  BY DEF CloseBridge, targetVars
<1> HIDE DEF closed, oldest2
<1>7. /\ outLane' \in OutboundLaneData
      /\ outLane'.state = closed
      /\ outLane'.oldest_unpruned_nonce = oldest2
      /\ outLane'.latest_received_nonce = received
      /\ outLane'.latest_generated_nonce = generated
  <2>1. pruned = [outLane EXCEPT !.oldest_unpruned_nonce = oldest2]
    BY DEF PrunedLane, oldest2
  <2>2. /\ pruned \in OutboundLaneData
        /\ pruned.oldest_unpruned_nonce = oldest2
        /\ pruned.latest_received_nonce = received
        /\ pruned.latest_generated_nonce = generated
    BY <1>1, <1>2, <2>1 DEF OutboundLaneData
  <2>3. closed \in LaneStates
    BY <1>3 DEF LaneStates
  <2> HIDE DEF pruned
  <2> QED
    BY <1>3, <2>2, <2>3 DEF OutboundLaneData
<1>8. TypeOK'
  BY <1>3, <1>5, <1>6, <1>7 DEF TypeOK, OutboundMessages, BridgeStates
<1>9. SourceInv'
  <2>1. StoredWereSent(outMessages', sent')
    BY <1>4, <1>6 DEF SourceInv, StoredWereSent
  <2>2. received < oldest2
    BY <1>1, <1>2 DEF SourceInv
  <2> QED
    BY <1>3, <1>6, <1>7, <2>1, <2>2 DEF SourceInv
<1>10. TargetInv' /\ HeadersInv'
  BY <1>6, <1>7 DEF TargetInv, ExactlyOnceInOrder, HeadersInv
<1>11. NothingLost'
  BY <1>3 DEF NothingLost
<1>12. PrunedBelowOldest'
  <2> SUFFICES ASSUME NEW n \in Nonces, outMessages'[n] # NoMessage
               PROVE  n \in oldest2 .. generated
    BY <1>7 DEF PrunedBelowOldest
  <2>1. n \notin oldest .. (oldest2 - 1) /\ outMessages[n] # NoMessage
    BY <1>4
  <2>2. n \in oldest .. generated
    BY <2>1 DEF PrunedBelowOldest
  <2> QED
    BY <1>1, <1>2, <2>1, <2>2
<1>13. RewardsExact'
  BY <1>6, <1>7 DEF RewardsExact
<1> QED
  BY <1>8, <1>9, <1>10, <1>11, <1>12, <1>13

\* close_bridge at the target.
LEMMA CloseTargetBridgeIndInv ==
    ASSUME IndInv, NEW state \in {"Closed", "Absent"}, CloseTargetBridge(state)
    PROVE  IndInv'
<1> USE DEF IndInv
<1>1. inLane \in InboundLaneData
  BY DEF TypeOK
<1>2. /\ inLane' \in InboundLaneData
      /\ inLane'.relayers = inLane.relayers
      /\ inLane'.last_confirmed_nonce = inLane.last_confirmed_nonce
  BY <1>1 DEF CloseTargetBridge, InboundLaneData
<1>3. LastDeliveredNonce(inLane') = LastDeliveredNonce(inLane)
  BY <1>2 DEF LastDeliveredNonce
<1>4. WellFormed(inLane) => WellFormed(inLane')
  BY <1>2, <1>3 DEF WellFormed
<1>5. UNCHANGED <<outLane, outMessages, bridge, rewards, srcMode, importedTarget, sent,
                  dispatcherActive, tgtMode, importedSource, dispatched>>
  BY DEF CloseTargetBridge, sourceVars
<1>6. TypeOK'
  BY <1>2, <1>5 DEF TypeOK
<1>7. SourceInv' /\ HeadersInv'
  BY <1>5 DEF SourceInv, HeadersInv
<1>8. KnownLane(inLane', outLane.latest_received_nonce, dispatched)
  BY <1>2, <1>3, <1>4 DEF TargetInv, KnownLane
<1>9. TargetInv'
  BY <1>3, <1>5, <1>8 DEF TargetInv, ExactlyOnceInOrder
<1>10. NothingLost' /\ PrunedBelowOldest' /\ RewardsExact'
  BY <1>5 DEF NothingLost, PrunedBelowOldest, RewardsExact
<1> QED
  BY <1>6, <1>7, <1>9, <1>10

-----------------------------------------------------------------------------
(***************************************************************************)
(* Light clients and deliveries.                                           *)
(***************************************************************************)

\* The target imports a header of the source.
LEMMA ImportSourceIndInv ==
    ASSUME IndInv, ImportSourceHeader
    PROVE  IndInv'
<1> USE DEF IndInv
<1> DEFINE header == [lane |-> outLane, messages |-> outMessages]
           new == WithHeader(importedSource, header)
<1>1. header \in SourceHeader /\ importedSource \in Seq(SourceHeader)
  BY DEF TypeOK, SourceHeader
<1>2. /\ header.lane.latest_received_nonce <= outLane.latest_received_nonce
      /\ StoredWereSent(header.messages, sent)
  BY DEF TypeOK, OutboundLaneData, SourceInv
<1>3. importedSource' = new
  BY DEF ImportSourceHeader
<1>4. UNCHANGED <<outLane, outMessages, bridge, rewards, srcMode, importedTarget, sent,
                  inLane, dispatcherActive, tgtMode, dispatched>>
  BY DEF ImportSourceHeader, sourceVars
<1> HIDE DEF header, new
<1>5. /\ new \in Seq(SourceHeader)
      /\ \A h \in DOMAIN new :
           new[h] = header \/ \E g \in DOMAIN importedSource : new[h] = importedSource[g]
  BY <1>1, WithHeaderElements DEF new
<1>6. TypeOK'
  BY <1>3, <1>4, <1>5 DEF TypeOK
<1>7. SourceInv' /\ TargetInv'
  BY <1>4 DEF SourceInv, TargetInv, ExactlyOnceInOrder
<1>8. HeadersInv'
  <2>1. \A h \in DOMAIN new :
          /\ new[h].lane.latest_received_nonce <= outLane.latest_received_nonce
          /\ StoredWereSent(new[h].messages, sent)
    BY <1>2, <1>5 DEF HeadersInv
  <2> QED
    BY <1>3, <1>4, <2>1 DEF HeadersInv
<1>9. NothingLost' /\ PrunedBelowOldest' /\ RewardsExact'
  BY <1>4 DEF NothingLost, PrunedBelowOldest, RewardsExact
<1> QED
  BY <1>6, <1>7, <1>8, <1>9

\* The source imports a header of the target.
LEMMA ImportTargetIndInv ==
    ASSUME IndInv, ImportTargetHeader
    PROVE  IndInv'
<1> USE DEF IndInv
<1> DEFINE new == WithHeader(importedTarget, inLane)
<1>1. inLane \in InboundLaneData /\ importedTarget \in Seq(InboundLaneData)
  BY DEF TypeOK
<1>2. importedTarget' = new
  BY DEF ImportTargetHeader
<1>3. UNCHANGED <<outLane, outMessages, bridge, rewards, srcMode, importedSource, sent,
                  inLane, dispatcherActive, tgtMode, dispatched>>
  BY DEF ImportTargetHeader, targetVars
<1> HIDE DEF new
<1>4. /\ new \in Seq(InboundLaneData)
      /\ \A h \in DOMAIN new :
           new[h] = inLane \/ \E g \in DOMAIN importedTarget : new[h] = importedTarget[g]
  BY <1>1, WithHeaderElements DEF new
<1>5. TypeOK'
  BY <1>2, <1>3, <1>4 DEF TypeOK
<1>6. SourceInv' /\ TargetInv'
  BY <1>3 DEF SourceInv, TargetInv, ExactlyOnceInOrder
<1>7. HeadersInv'
  <2>1. \A h \in DOMAIN new : KnownLane(new[h], outLane.latest_received_nonce, dispatched)
    BY <1>4 DEF HeadersInv, TargetInv
  <2> QED
    BY <1>2, <1>3, <2>1 DEF HeadersInv
<1>8. NothingLost' /\ PrunedBelowOldest' /\ RewardsExact'
  BY <1>3 DEF NothingLost, PrunedBelowOldest, RewardsExact
<1> QED
  BY <1>5, <1>6, <1>7, <1>8

\* A state update proved at a remembered header leaves the lane known.
LEMMA StateUpdateKnown ==
    ASSUME NEW data \in InboundLaneData, NEW received \in Nat, NEW proved \in Nat,
           proved <= received, NEW log, KnownLane(data, received, log)
    PROVE  LET new == ReceiveStateUpdate(data, proved)
           IN  /\ new \in InboundLaneData
               /\ LastDeliveredNonce(new) = LastDeliveredNonce(data)
               /\ KnownLane(new, received, log)
<1> DEFINE new == ReceiveStateUpdate(data, proved)
<1>1. /\ WellFormed(data) /\ data.last_confirmed_nonce <= received
      /\ LastDeliveredNonce(data) <= Len(log)
  BY DEF KnownLane
<1>2. /\ new \in InboundLaneData
      /\ WellFormed(new)
      /\ LastDeliveredNonce(new) = LastDeliveredNonce(data)
      /\ \/ new.last_confirmed_nonce = data.last_confirmed_nonce
         \/ new.last_confirmed_nonce = proved
      /\ EntriesWithin(new.relayers, data.relayers)
  BY <1>1, StateUpdateCorrect
<1> HIDE DEF new
<1>3. \A i \in DOMAIN new.relayers :
         \A n \in new.relayers[i].begin .. new.relayers[i].end :
            log[n].relayer = new.relayers[i].relayer
  <2> TAKE i \in DOMAIN new.relayers
  <2> TAKE n \in new.relayers[i].begin .. new.relayers[i].end
  <2>1. PICK j \in DOMAIN data.relayers :
          /\ new.relayers[i].relayer = data.relayers[j].relayer
          /\ data.relayers[j].begin <= new.relayers[i].begin
          /\ new.relayers[i].end = data.relayers[j].end
    BY <1>2 DEF EntriesWithin
  <2>2. /\ data.relayers[j].begin \in Nat /\ new.relayers[i].begin \in Nat
        /\ new.relayers[i].end \in Nat
    BY <1>2, LastDeliveredType, EntryTypes
  <2>3. n \in data.relayers[j].begin .. data.relayers[j].end
    BY <2>1, <2>2
  <2> QED
    BY <2>1, <2>3 DEF KnownLane
<1> QED
  BY <1>1, <1>2, <1>3 DEF KnownLane, new

\* The messages of a batch, seen from the target: each has the nonce after the
\* one before it and the payload that the source was given for it.
LEMMA BatchOfSentMessages ==
    ASSUME NEW header \in SourceHeader, NEW log \in Seq(Payloads),
           StoredWereSent(header.messages, log),
           NEW relayer \in Relayers, NEW start \in Nonces, NEW end \in Nat, end <= MaxNonce,
           \A n \in start .. end : header.messages[n] # NoMessage,
           NEW delivered \in Nat, NEW accepted \in Nat, delivered <= accepted,
           accepted # delivered => start <= delivered + 1 /\ accepted <= end
    PROVE  LET batch == [i \in 1 .. (accepted - delivered) |->
                            [nonce |-> delivered + i,
                             payload |-> header.messages[delivered + i],
                             relayer |-> relayer]]
           IN  /\ batch \in Seq(DispatchedMessage)
               /\ Len(batch) = accepted - delivered
               /\ \A i \in 1 .. (accepted - delivered) :
                    /\ batch[i].nonce = delivered + i
                    /\ batch[i].payload = log[delivered + i]
                    /\ batch[i].relayer = relayer
                    /\ delivered + i <= Len(log)
<1> DEFINE k == accepted - delivered
           element(i) == [nonce |-> delivered + i,
                          payload |-> header.messages[delivered + i],
                          relayer |-> relayer]
           batch == [i \in 1 .. k |-> element(i)]
<1>1. k \in Nat
  OBVIOUS
<1>2. \A i \in 1 .. k : /\ delivered + i \in start .. end
                        /\ delivered + i \in Nonces
  BY DEF Nonces
<1>3. header.messages \in [Nonces -> Payloads \cup {NoMessage}]
  BY DEF SourceHeader, OutboundMessages
<1>4. \A i \in 1 .. k : /\ header.messages[delivered + i] \in Payloads
                        /\ header.messages[delivered + i] = log[delivered + i]
                        /\ delivered + i <= Len(log)
  BY <1>2, <1>3 DEF StoredWereSent
<1>5. \A i \in 1 .. k : element(i) \in DispatchedMessage
  BY <1>2, <1>4 DEF DispatchedMessage
<1> HIDE DEF element
<1>6. batch \in Seq(DispatchedMessage) /\ Len(batch) = k
  <2>1. batch \in [1 .. k -> DispatchedMessage]
    BY <1>5
  <2> HIDE DEF batch, k
  <2>2. batch \in Seq(DispatchedMessage)
    BY <1>1, <2>1, SeqDef
  <2> QED
    BY <1>1, <2>1, <2>2, LenProperties
<1>7. \A i \in 1 .. k : batch[i] = element(i)
  OBVIOUS
<1>8. \A i \in 1 .. k : /\ batch[i].nonce = delivered + i
                        /\ batch[i].payload = log[delivered + i]
                        /\ batch[i].relayer = relayer
                        /\ delivered + i <= Len(log)
  BY <1>4, <1>7 DEF element
<1> QED
  BY <1>6, <1>8 DEF element

\* Messages received by a known lane extend its entries as the log grows.
LEMMA ReceivedMessagesKnown ==
    ASSUME NEW data \in InboundLaneData, NEW received \in Nat,
           NEW log \in Seq(DispatchedMessage), KnownLane(data, received, log),
           LastDeliveredNonce(data) = Len(log),
           NEW relayer \in Relayers, NEW start \in Nat, NEW end \in Nat,
           NEW log2 \in Seq(DispatchedMessage),
           Len(log2) = LastAccepted(data, relayer, start, end),
           \A n \in 1 .. Len(log) : log2[n] = log[n],
           \A n \in Len(log) + 1 .. Len(log2) : log2[n].relayer = relayer
    PROVE  LET new == ReceiveMessages(data, relayer, start, end)
           IN  /\ new \in InboundLaneData
               /\ LastDeliveredNonce(new) = Len(log2)
               /\ KnownLane(new, received, log2)
<1> DEFINE new == ReceiveMessages(data, relayer, start, end)
           delivered == LastDeliveredNonce(data)
<1>1. WellFormed(data) /\ data.last_confirmed_nonce <= received
  BY DEF KnownLane
<1>2. /\ new \in InboundLaneData
      /\ WellFormed(new)
      /\ LastDeliveredNonce(new) = Len(log2)
      /\ new.last_confirmed_nonce = data.last_confirmed_nonce
      /\ EntriesExtend(new.relayers, data.relayers, delivered, relayer)
  BY <1>1, ReceiveMessagesCorrect
<1>3. /\ Len(log) \in Nat /\ Len(log2) \in Nat /\ delivered = Len(log)
      /\ Len(log) <= Len(log2)
  <2>1. delivered <= LastAccepted(data, relayer, start, end)
    BY <1>1, LastAcceptedRange
  <2> QED
    BY <2>1, LenProperties
<1>4. KnownLane(data, received, log2)
  BY <1>3, KnownLaneMonotone
<1> HIDE DEF new, delivered
<1>5. \A i \in DOMAIN new.relayers :
         \A n \in new.relayers[i].begin .. new.relayers[i].end :
            log2[n].relayer = new.relayers[i].relayer
  <2> TAKE i \in DOMAIN new.relayers
  <2> TAKE n \in new.relayers[i].begin .. new.relayers[i].end
  <2>1. CASE n > delivered
    <3>1. new.relayers[i].relayer = relayer
      BY <1>2, <2>1 DEF EntriesExtend
    <3>2. new.relayers[i].end <= Len(log2)
      BY <1>2 DEF WellFormed
    <3>3. new.relayers[i].begin \in Nat /\ new.relayers[i].end \in Nat
      BY <1>2, LastDeliveredType, EntryTypes
    <3>4. n \in Len(log) + 1 .. Len(log2)
      BY <1>3, <2>1, <3>2, <3>3
    <3> QED
      BY <3>1, <3>4
  <2>2. CASE ~ (n > delivered)
    <3>1. PICK j \in DOMAIN data.relayers :
            /\ new.relayers[i].relayer = data.relayers[j].relayer
            /\ n \in data.relayers[j].begin .. data.relayers[j].end
      BY <1>2, <2>2 DEF EntriesExtend
    <3> QED
      BY <1>4, <3>1 DEF KnownLane
  <2> QED
    BY <2>1, <2>2
<1>6. LastDeliveredNonce(new) <= Len(log2)
  BY <1>2, <1>3
<1> QED
  BY <1>1, <1>2, <1>5, <1>6 DEF KnownLane, new

\* What receive_messages_proof makes of a known lane, with a proof made at a
\* header that shows what the source has confirmed and sent.
LEMMA DeliveryEffect ==
    ASSUME TypeOK, NEW received \in Nat, NEW relayer \in Relayers,
           NEW h \in DOMAIN importedSource,
           NEW start \in Nonces, NEW end \in (start - 1) .. MaxNonce,
           NEW withState \in BOOLEAN,
           ReceiveMessagesProof(relayer, h, start, end, withState),
           importedSource[h].lane.latest_received_nonce <= received,
           StoredWereSent(importedSource[h].messages, sent),
           KnownLane(inLane, received, dispatched), ExactlyOnceInOrder
    PROVE  /\ inLane' \in InboundLaneData
           /\ KnownLane(inLane', received, dispatched')
           /\ ExactlyOnceInOrder'
           /\ dispatched' \in Seq(DispatchedMessage)
           /\ Len(dispatched) <= Len(dispatched')
           /\ \A n \in 1 .. Len(dispatched) : dispatched'[n] = dispatched[n]
<1> DEFINE header == importedSource[h]
           updated == IF withState
                      THEN ReceiveStateUpdate(inLane, header.lane.latest_received_nonce)
                      ELSE inLane
           delivered == LastDeliveredNonce(updated)
           accepted == LastAccepted(updated, relayer, start, end)
           batch == [i \in 1 .. (accepted - delivered) |->
                        [nonce |-> delivered + i,
                         payload |-> header.messages[delivered + i],
                         relayer |-> relayer]]
<1>1. /\ inLane' = ReceiveMessages(updated, relayer, start, end)
      /\ dispatched' = dispatched \o batch
      /\ \A n \in start .. end : header.messages[n] # NoMessage
  BY DEF ReceiveMessagesProof, MessagesProofIsValid
<1>2. sent' = sent
  BY DEF ReceiveMessagesProof, sourceVars
<1>3. /\ header \in SourceHeader
      /\ inLane \in InboundLaneData
      /\ dispatched \in Seq(DispatchedMessage)
      /\ sent \in Seq(Payloads)
      /\ start \in Nat /\ end \in Nat /\ end <= MaxNonce
  <2>1. importedSource \in Seq(SourceHeader)
    BY DEF TypeOK
  <2>2. header \in SourceHeader
    BY <2>1, ElementOfSeq
  <2> QED
    BY <2>2 DEF TypeOK, Nonces
<1>4. /\ header.lane.latest_received_nonce \in Nat
      /\ header.lane.latest_received_nonce <= received
      /\ StoredWereSent(header.messages, sent)
  BY <1>3 DEF SourceHeader, OutboundLaneData
<1>5. /\ KnownLane(inLane, received, dispatched)
      /\ LastDeliveredNonce(inLane) = Len(dispatched)
      /\ Len(dispatched) \in Nat
      /\ Len(dispatched) <= Len(sent)
      /\ \A i \in DOMAIN dispatched :
           dispatched[i].nonce = i /\ dispatched[i].payload = sent[i]
  BY <1>3 DEF ExactlyOnceInOrder
<1> HIDE DEF header
<1>6. /\ updated \in InboundLaneData
      /\ delivered = Len(dispatched)
      /\ KnownLane(updated, received, dispatched)
  <2>1. CASE withState
    BY <1>3, <1>4, <1>5, <2>1, StateUpdateKnown
  <2>2. CASE ~ withState
    BY <1>3, <1>5, <2>2
  <2> QED
    BY <2>1, <2>2
<1> HIDE DEF updated
<1>7. /\ accepted \in Nat /\ delivered \in Nat /\ delivered <= accepted
      /\ accepted # delivered => start <= delivered + 1 /\ accepted <= end
  <2>1. WellFormed(updated)
    BY <1>6 DEF KnownLane
  <2> QED
    BY <1>3, <1>5, <1>6, <2>1, LastAcceptedRange
<1> HIDE DEF delivered, accepted
<1>8. /\ batch \in Seq(DispatchedMessage)
      /\ Len(batch) = accepted - delivered
      /\ \A i \in 1 .. (accepted - delivered) :
           /\ batch[i].nonce = delivered + i
           /\ batch[i].payload = sent[delivered + i]
           /\ batch[i].relayer = relayer
           /\ delivered + i <= Len(sent)
  BY <1>1, <1>3, <1>4, <1>7, BatchOfSentMessages
<1> HIDE DEF batch
<1>9. /\ dispatched' \in Seq(DispatchedMessage)
      /\ Len(dispatched') = accepted
      /\ \A n \in 1 .. Len(dispatched) : dispatched'[n] = dispatched[n]
      /\ \A n \in Len(dispatched) + 1 .. accepted : dispatched'[n] = batch[n - delivered]
  <2>1. /\ dispatched \o batch \in Seq(DispatchedMessage)
        /\ Len(dispatched \o batch) = Len(dispatched) + Len(batch)
        /\ \A i \in 1 .. Len(dispatched) + Len(batch) : (dispatched \o batch)[i] =
             IF i <= Len(dispatched) THEN dispatched[i] ELSE batch[i - Len(dispatched)]
    <3>1. dispatched \in Seq(DispatchedMessage) /\ batch \in Seq(DispatchedMessage)
      BY <1>3, <1>8
    <3> QED
      BY ONLY <3>1, ConcatProperties, SMT
  <2>2. Len(dispatched) + Len(batch) = accepted
    BY <1>5, <1>6, <1>7, <1>8
  <2> QED
    BY <1>1, <1>5, <1>6, <1>7, <2>1, <2>2
<1>10. \A n \in Len(dispatched) + 1 .. accepted :
          /\ dispatched'[n].relayer = relayer
          /\ dispatched'[n].nonce = n
          /\ dispatched'[n].payload = sent[n]
          /\ n <= Len(sent)
  <2> TAKE n \in Len(dispatched) + 1 .. accepted
  <2>1. n - delivered \in 1 .. (accepted - delivered) /\ delivered + (n - delivered) = n
    BY <1>5, <1>6, <1>7
  <2>2. dispatched'[n] = batch[n - delivered]
    BY <1>9
  <2> QED
    BY <1>8, <2>1, <2>2
<1>11. /\ inLane' \in InboundLaneData
       /\ LastDeliveredNonce(inLane') = Len(dispatched')
       /\ KnownLane(inLane', received, dispatched')
  <2>1. /\ LastDeliveredNonce(updated) = Len(dispatched)
        /\ Len(dispatched') = LastAccepted(updated, relayer, start, end)
    BY <1>6, <1>9 DEF delivered, accepted
  <2>2. \A n \in Len(dispatched) + 1 .. Len(dispatched') : dispatched'[n].relayer = relayer
    BY <1>9, <1>10
  <2>3. LET new == ReceiveMessages(updated, relayer, start, end)
        IN  /\ new \in InboundLaneData
            /\ LastDeliveredNonce(new) = Len(dispatched')
            /\ KnownLane(new, received, dispatched')
    BY <1>3, <1>6, <1>9, <2>1, <2>2, ReceivedMessagesKnown
  <2> QED
    BY <1>1, <2>3
<1>12. ExactlyOnceInOrder'
  <2>1. Len(dispatched') <= Len(sent)
    <3>1. CASE accepted = delivered
      BY <1>5, <1>6, <1>9, <3>1
    <3>2. CASE accepted # delivered
      <4>1. accepted \in Len(dispatched) + 1 .. accepted
        BY <1>5, <1>6, <1>7, <3>2
      <4> QED
        BY <1>9, <1>10, <4>1
    <3> QED
      BY <3>1, <3>2
  <2>2. ASSUME NEW i \in DOMAIN dispatched'
        PROVE  dispatched'[i].nonce = i /\ dispatched'[i].payload = sent[i]
    <3>1. /\ i \in 1 .. accepted
          /\ DOMAIN dispatched = 1 .. Len(dispatched)
      BY <1>3, <1>9, LenProperties
    <3>2. CASE i \in 1 .. Len(dispatched)
      BY <1>5, <1>9, <3>1, <3>2
    <3>3. CASE i \in Len(dispatched) + 1 .. accepted
      BY <1>10, <3>3
    <3> QED
      BY <1>5, <1>7, <3>1, <3>2, <3>3
  <2> QED
    BY <1>2, <1>11, <2>1, <2>2 DEF ExactlyOnceInOrder
<1>13. Len(dispatched) <= Len(dispatched')
  BY <1>6, <1>7, <1>9
<1> QED
  BY <1>9, <1>11, <1>12, <1>13

\* receive_messages_proof, with a proof made at any remembered header.
LEMMA MessagesProofIndInv ==
    ASSUME IndInv, NEW relayer \in Relayers, NEW h \in DOMAIN importedSource,
           NEW start \in Nonces, NEW end \in (start - 1) .. MaxNonce,
           NEW withState \in BOOLEAN,
           ReceiveMessagesProof(relayer, h, start, end, withState)
    PROVE  IndInv' /\ Len(dispatched) <= Len(dispatched')
<1> USE DEF IndInv
<1> DEFINE received == outLane.latest_received_nonce
<1>1. /\ UNCHANGED <<outLane, outMessages, bridge, rewards, srcMode, importedTarget, sent>>
      /\ UNCHANGED <<dispatcherActive, tgtMode, importedSource>>
  BY DEF ReceiveMessagesProof, sourceVars
<1>2. /\ received \in Nat
      /\ dispatched \in Seq(DispatchedMessage) /\ Len(dispatched) \in Nat
  BY DEF TypeOK, OutboundLaneData
<1>3. /\ inLane' \in InboundLaneData
      /\ KnownLane(inLane', received, dispatched')
      /\ ExactlyOnceInOrder'
      /\ dispatched' \in Seq(DispatchedMessage)
      /\ Len(dispatched) <= Len(dispatched')
      /\ \A n \in 1 .. Len(dispatched) : dispatched'[n] = dispatched[n]
  <2>1. /\ TypeOK
        /\ importedSource[h].lane.latest_received_nonce <= received
        /\ StoredWereSent(importedSource[h].messages, sent)
        /\ KnownLane(inLane, received, dispatched) /\ ExactlyOnceInOrder
    BY DEF HeadersInv, TargetInv
  <2> HIDE DEF received, IndInv
  <2> QED
    BY <1>2, <2>1, DeliveryEffect
<1>4. received <= Len(dispatched) /\ Len(dispatched') \in Nat
  BY <1>3 DEF SourceInv
<1>5. TypeOK'
  BY <1>1, <1>3 DEF TypeOK
<1>6. SourceInv'
  <2>1. received <= Len(dispatched')
    BY <1>2, <1>3, <1>4
  <2> QED
    BY <1>1, <2>1 DEF SourceInv
<1>7. TargetInv'
  BY <1>1, <1>3 DEF TargetInv
<1>8. HeadersInv'
  <2>1. \A g \in DOMAIN importedTarget : KnownLane(importedTarget[g], received, dispatched')
    <3> TAKE g \in DOMAIN importedTarget
    <3>1. importedTarget \in Seq(InboundLaneData)
      BY DEF TypeOK
    <3>2. importedTarget[g] \in InboundLaneData
      BY <3>1, ElementOfSeq
    <3>3. KnownLane(importedTarget[g], received, dispatched)
      BY DEF HeadersInv
    <3>4. /\ received \in Nat /\ received <= received
          /\ dispatched \in Seq(DispatchedMessage) /\ dispatched' \in Seq(DispatchedMessage)
          /\ \A n \in 1 .. Len(dispatched) : dispatched'[n] = dispatched[n]
      BY <1>2, <1>3
    <3> QED
      BY ONLY <1>3, <3>2, <3>3, <3>4, KnownLaneMonotone, Zenon
  <2> QED
    BY <1>1, <2>1 DEF HeadersInv
<1>9. NothingLost' /\ PrunedBelowOldest'
  BY <1>1 DEF NothingLost, PrunedBelowOldest
<1>10. RewardsExact'
  <2>1. \A n \in 1 .. received : dispatched'[n] = dispatched[n]
    BY <1>2, <1>3, <1>4
  <2>2. \A r \in Relayers :
          {n \in 1 .. received : dispatched'[n].relayer = r} =
          {n \in 1 .. received : dispatched[n].relayer = r}
    BY <2>1
  <2> QED
    BY <1>1, <2>2 DEF RewardsExact
<1> QED
  BY <1>3, <1>5, <1>6, <1>7, <1>8, <1>9, <1>10

-----------------------------------------------------------------------------
(***************************************************************************)
(* The theorems.                                                           *)
(***************************************************************************)

\* Every step, of whichever actor, preserves the invariant.
LEMMA NextIndInv == IndInv /\ [Next]_vars => IndInv'
<1> SUFFICES ASSUME IndInv, [Next]_vars PROVE IndInv'
  OBVIOUS
<1>1. /\ bridge \in BridgeStates /\ srcMode \in OperatingModes
      /\ tgtMode \in OperatingModes /\ dispatcherActive \in BOOLEAN
  BY DEF IndInv, TypeOK
<1>2. CASE UNCHANGED vars
  <2>1. UNCHANGED <<outLane, outMessages, rewards, importedTarget, sent,
                    inLane, importedSource, dispatched,
                    bridge, srcMode, tgtMode, dispatcherActive>>
    BY <1>2 DEF vars
  <2> QED
    BY <1>1, <2>1, FlagsIndInv
<1>3. CASE Send
  BY <1>3, SendMessageIndInv DEF Send
<1>4. CASE Deliver
  <2>1. PICK relayer \in Relayers, h \in DOMAIN importedSource, start \in Nonces :
          \E end \in (start - 1) .. MaxNonce, withState \in BOOLEAN :
             ReceiveMessagesProof(relayer, h, start, end, withState)
    BY <1>4 DEF Deliver
  <2>2. PICK end \in (start - 1) .. MaxNonce, withState \in BOOLEAN :
          ReceiveMessagesProof(relayer, h, start, end, withState)
    BY <2>1
  <2> QED
    BY <2>2, MessagesProofIndInv
<1>5. CASE Confirm
  BY <1>5, DeliveryProofIndInv DEF Confirm
<1>6. CASE Import
  BY <1>6, ImportSourceIndInv, ImportTargetIndInv DEF Import
<1>7. CASE Close
  <2>1. 0 .. MaxNonce \subseteq Nat
    OBVIOUS
  <2> QED
    BY <1>7, <2>1, CloseBridgeIndInv, CloseTargetBridgeIndInv DEF Close
<1>8. CASE Govern
  <2> DEFINE OnlyFlags ==
        /\ UNCHANGED <<outLane, outMessages, rewards, importedTarget, sent,
                       inLane, importedSource, dispatched, bridge>>
        /\ srcMode' \in OperatingModes /\ tgtMode' \in OperatingModes
        /\ dispatcherActive' \in BOOLEAN
  <2>1. ASSUME NEW mode \in OperatingModes, SetSourceMode(mode) PROVE OnlyFlags
    BY <1>1, <2>1 DEF SetSourceMode, targetVars
  <2>2. ASSUME NEW mode \in OperatingModes, SetTargetMode(mode) PROVE OnlyFlags
    BY <1>1, <2>2 DEF SetTargetMode, sourceVars
  <2>3. ASSUME NEW active \in BOOLEAN, SetDispatcherActive(active) PROVE OnlyFlags
    BY <1>1, <2>3 DEF SetDispatcherActive, sourceVars
  <2>4. OnlyFlags
    BY <1>8, <2>1, <2>2, <2>3 DEF Govern
  <2> QED
    BY <1>1, <2>4, FlagsIndInv
<1> QED
  BY <1>2, <1>3, <1>4, <1>5, <1>6, <1>7, <1>8 DEF Next, Service

\* The invariant holds for any number of relayers, messages and remembered
\* headers, any limits, and with closures and mode changes at any moment.
THEOREM LaneInvariant == Spec => []IndInv
<1>1. Init => IndInv
  BY InitIndInv
<1>2. IndInv /\ [Next]_vars => IndInv'
  BY NextIndInv
<1> QED
  BY <1>1, <1>2, PTL DEF Spec

\* Storage items stay within their types: no call stores a nonce beyond its
\* range, and no message is dispatched without its payload.
THEOREM TypeCorrectness == Spec => []TypeOK
<1>1. IndInv => TypeOK
  BY DEF IndInv
<1> QED
  BY <1>1, LaneInvariant, PTL

\* Messages are dispatched in the order they were sent, once each.
THEOREM DispatchedExactlyOnce == Spec => []ExactlyOnceInOrder
<1>1. IndInv => ExactlyOnceInOrder
  BY DEF IndInv, TargetInv
<1> QED
  BY <1>1, LaneInvariant, PTL

\* Every confirmed message is paid for once, to the relayer that delivered it.
THEOREM RelayersPaidOnce == Spec => []RewardsExact
<1>1. IndInv => RewardsExact
  BY DEF IndInv
<1> QED
  BY <1>1, LaneInvariant, PTL

\* The source keeps what is not confirmed until its owner closes the bridge.
THEOREM UnconfirmedKept == Spec => []NothingLost
<1>1. IndInv => NothingLost
  BY DEF IndInv
<1> QED
  BY <1>1, LaneInvariant, PTL

\* And it stores nothing that is pruned or was never sent, in the middle of a
\* closure and after late confirmations too: do_try_state never fails.
THEOREM PrunedStaysPruned == Spec => []PrunedBelowOldest
<1>1. IndInv => PrunedBelowOldest
  BY DEF IndInv
<1> QED
  BY <1>1, LaneInvariant, PTL

\* The queue of unrewarded relayers has its documented shape.
THEOREM EntriesCover == Spec => []UnrewardedEntriesCoverUnconfirmed
<1>1. IndInv => UnrewardedEntriesCoverUnconfirmed
  BY DEF IndInv, TargetInv, KnownLane, UnrewardedEntriesCoverUnconfirmed
<1> QED
  BY <1>1, LaneInvariant, PTL

\* The nonces of the two ends stay in order.
THEOREM NoncesInOrder == Spec => []NonceOrder
<1>1. IndInv => NonceOrder
  <2> SUFFICES ASSUME IndInv PROVE NonceOrder
    OBVIOUS
  <2> USE DEF IndInv
  <2>1. inLane.last_confirmed_nonce <= outLane.latest_received_nonce
    BY DEF TargetInv, KnownLane
  <2>2. LastDeliveredNonce(inLane) = Len(dispatched) /\ Len(dispatched) <= Len(sent)
    BY DEF TargetInv, ExactlyOnceInOrder
  <2>3. /\ outLane.latest_received_nonce <= Len(dispatched)
        /\ outLane.latest_generated_nonce = Len(sent)
    BY DEF SourceInv
  <2> QED
    BY <2>1, <2>2, <2>3 DEF NonceOrder
<1> QED
  BY <1>1, LaneInvariant, PTL

\* A proof at any header that a light client holds is accepted: the errors of
\* confirm_delivery and the state from the future of receive_state_update do
\* not happen between two chains that run this code.
THEOREM ProofsAccepted == Spec => []ProofsNeverRejected
<1>1. IndInv => ProofsNeverRejected
  <2> SUFFICES ASSUME IndInv PROVE ProofsNeverRejected
    OBVIOUS
  <2> USE DEF IndInv
  <2> DEFINE received == outLane.latest_received_nonce
             generated == outLane.latest_generated_nonce
  <2>1. /\ received \in Nat /\ generated \in Nat
        /\ Len(dispatched) \in Nat
        /\ received <= Len(dispatched)
        /\ LastDeliveredNonce(inLane) = Len(dispatched)
        /\ Len(dispatched) <= generated
    BY DEF TypeOK, OutboundLaneData, SourceInv, TargetInv, ExactlyOnceInOrder
  <2>2. ASSUME NEW h \in DOMAIN importedTarget
        PROVE  LET proved == importedTarget[h]
                   delivered == LastDeliveredNonce(proved)
               IN  \/ NothingToConfirm(outLane, delivered)
                   \/ CanConfirm(outLane, TotalUnrewardedMessages(proved), delivered,
                                 proved.relayers)
    <3> DEFINE proved == importedTarget[h]
               delivered == LastDeliveredNonce(proved)
               entries == proved.relayers
    <3>1. proved \in InboundLaneData
      BY ElementOfSeq DEF TypeOK
    <3>2. /\ delivered \in Nat /\ entries \in Seq(UnrewardedRelayer)
          /\ proved.last_confirmed_nonce \in Nat
      BY <3>1, LastDeliveredType
    <3>3. /\ WellFormed(proved) /\ proved.last_confirmed_nonce <= received
          /\ delivered <= Len(dispatched)
      BY DEF HeadersInv, KnownLane
    <3>4. SUFFICES ASSUME ~ NothingToConfirm(outLane, delivered)
                   PROVE  CanConfirm(outLane, TotalUnrewardedMessages(proved), delivered,
                                     entries)
      OBVIOUS
    <3>5. received < delivered
      BY <2>1, <3>2, <3>4 DEF NothingToConfirm
    <3>6. entries # <<>>
      BY <2>1, <3>2, <3>3, <3>5 DEF LastDeliveredNonce
    <3>7. /\ entries[1].begin = proved.last_confirmed_nonce + 1
          /\ entries[Len(entries)].end = delivered
      BY <3>3, <3>6 DEF WellFormed, LastDeliveredNonce
    <3> HIDE DEF proved, delivered, entries
    <3>8. TotalUnrewardedMessages(proved) = delivered - proved.last_confirmed_nonce
      BY <2>1, <3>2, <3>3, <3>5, <3>6, <3>7 DEF TotalUnrewardedMessages, entries
    <3>9. UnrewardedRelayersAreCorrect(delivered, entries)
      BY <3>3 DEF UnrewardedRelayersAreCorrect, WellFormed, delivered, entries
    <3>10. /\ delivered <= generated
           /\ delivered - received <= TotalUnrewardedMessages(proved)
      BY <2>1, <3>2, <3>3, <3>8
    <3> QED
      BY <3>4, <3>9, <3>10 DEF CanConfirm
  <2>3. ASSUME NEW h \in DOMAIN importedSource
        PROVE  importedSource[h].lane.latest_received_nonce <= LastDeliveredNonce(inLane)
    <3>1. importedSource[h] \in SourceHeader
      BY ElementOfSeq DEF TypeOK
    <3>2. importedSource[h].lane.latest_received_nonce \in Nat
      BY <3>1 DEF SourceHeader, OutboundLaneData
    <3>3. importedSource[h].lane.latest_received_nonce <= received
      BY DEF HeadersInv
    <3> QED
      BY <2>1, <3>2, <3>3
  <2> QED
    BY <2>2, <2>3 DEF ProofsNeverRejected
<1> QED
  BY <1>1, LaneInvariant, PTL

\* A bridge that is being closed takes no message and is not resumed.
THEOREM ClosingIsFinal == Spec => ClosedBridgeStaysClosed
<1>1. IndInv /\ [Next]_vars => [ClosingStep]_vars
  <2> SUFFICES ASSUME IndInv, Next, bridge \in {"Closed", "Absent"}
               PROVE  /\ bridge' \in {"Closed", "Absent"}
                      /\ outLane'.latest_generated_nonce = outLane.latest_generated_nonce
    BY DEF ClosingStep
  <2>1. outLane \in OutboundLaneData /\ outLane.state # "Opened"
    BY DEF IndInv, TypeOK, SourceInv
  <2>2. CASE Send
    BY <2>1, <2>2 DEF Send, SendMessage, MessageIsValid
  <2>3. CASE Deliver
    BY <2>3 DEF Deliver, ReceiveMessagesProof, sourceVars
  <2>4. CASE Confirm
    <3>1. PICK h \in DOMAIN importedTarget : ReceiveMessagesDeliveryProof(h)
      BY <2>4 DEF Confirm
    <3>2. bridge' = bridge
      BY <3>1 DEF ReceiveMessagesDeliveryProof, BridgeAfterDelivered
    <3>3. outLane'.latest_generated_nonce = outLane.latest_generated_nonce
      <4>1. CASE ConfirmsNothing(importedTarget[h])
        BY <4>1 DEF ConfirmsNothing
      <4>2. CASE ConfirmsDelivery(importedTarget[h])
        BY <2>1, <4>2 DEF ConfirmsDelivery, ConfirmedLane, OutboundLaneData
      <4> QED
        BY <3>1, <4>1, <4>2 DEF ReceiveMessagesDeliveryProof
    <3> QED
      BY <3>2, <3>3
  <2>5. CASE Import
    BY <2>5 DEF Import, ImportSourceHeader, ImportTargetHeader, sourceVars
  <2>6. CASE Close
    <3>1. ASSUME NEW mayPrune, CloseBridge(mayPrune)
          PROVE  /\ bridge' \in {"Closed", "Absent"}
                 /\ outLane'.latest_generated_nonce = outLane.latest_generated_nonce
      BY <2>1, <3>1 DEF CloseBridge, PrunedLane, OutboundLaneData
    <3>2. ASSUME NEW state, CloseTargetBridge(state) PROVE UNCHANGED <<bridge, outLane>>
      BY <3>2 DEF CloseTargetBridge, sourceVars
    <3> QED
      BY <2>6, <3>1, <3>2 DEF Close
  <2>7. CASE Govern
    BY <2>7 DEF Govern, SetSourceMode, SetTargetMode, SetDispatcherActive, sourceVars
  <2> QED
    BY <2>2, <2>3, <2>4, <2>5, <2>6, <2>7 DEF Next, Service
<1> QED
  BY <1>1, LaneInvariant, PTL DEF Spec, ClosedBridgeStaysClosed

-----------------------------------------------------------------------------
(***************************************************************************)
(* The lane implements the channel.                                        *)
(***************************************************************************)

\* What the target has dispatched is, at every moment, a prefix of what the
\* source has accepted.
LEMMA DispatchedIsPrefix ==
    ASSUME IndInv
    PROVE  /\ [i \in DOMAIN dispatched |-> dispatched[i].payload] =
                SubSeq(sent, 1, Len(dispatched))
           /\ Len([i \in DOMAIN dispatched |-> dispatched[i].payload]) = Len(dispatched)
<1>1. /\ dispatched \in Seq(DispatchedMessage) /\ sent \in Seq(Payloads)
      /\ Len(dispatched) \in Nat /\ Len(sent) \in Nat
      /\ DOMAIN dispatched = 1 .. Len(dispatched)
  BY LenProperties DEF IndInv, TypeOK
<1>2. /\ Len(dispatched) <= Len(sent)
      /\ \A i \in DOMAIN dispatched : dispatched[i].payload = sent[i]
  BY DEF IndInv, TargetInv, ExactlyOnceInOrder
<1> DEFINE k == Len(dispatched)
           payloads == [i \in DOMAIN dispatched |-> dispatched[i].payload]
<1>3. payloads = [i \in 1 .. k |-> sent[i]]
  BY <1>1, <1>2
<1>4. payloads \in Seq(Payloads) /\ Len(payloads) = k
  <2>1. \A i \in 1 .. k : sent[i] \in Payloads
    BY <1>1, <1>2, ElementOfSeq
  <2> HIDE DEF payloads, k
  <2>2. payloads \in [1 .. k -> Payloads] /\ k \in Nat
    BY <1>1, <1>3, <2>1 DEF k
  <2>3. payloads \in Seq(Payloads)
    BY <2>2, SeqDef
  <2> QED
    BY <2>2, <2>3, LenProperties
<1>5. /\ SubSeq(sent, 1, k) \in Seq(Payloads)
      /\ Len(SubSeq(sent, 1, k)) = k
      /\ \A i \in 1 .. k : SubSeq(sent, 1, k)[i] = sent[i]
  <2>1. \A i \in 1 .. k : i \in 1 .. Len(sent) /\ sent[i] \in Payloads
    BY <1>1, <1>2, ElementOfSeq
  <2> HIDE DEF k
  <2>2. k \in Nat /\ k <= Len(sent)
    BY <1>1, <1>2 DEF k
  <2> QED
    BY <1>1, <2>1, <2>2, SubSeqProperties
<1> HIDE DEF payloads, k
<1>6. \A i \in 1 .. k : payloads[i] = sent[i]
  BY <1>3
<1>7. payloads = SubSeq(sent, 1, k)
  BY <1>4, <1>5, <1>6, SeqEqual
<1> QED
  BY <1>4, <1>7 DEF payloads, k

\* Every step of the two chains, the light clients and the relayers is a step
\* of an exactly-once, in-order channel, or is invisible to its users.
THEOREM LaneImplementsChannel == Spec => ImplementsChannel
<1> DEFINE payloads == [i \in DOMAIN dispatched |-> dispatched[i].payload]
           received == outLane.latest_received_nonce
<1>1. Init => Channel!Init
  <2> SUFFICES ASSUME Init PROVE Channel!Init
    OBVIOUS
  <2>1. sent = <<>> /\ dispatched = <<>> /\ received = 0
    BY DEF Init, OutboundLaneOpened
  <2>2. payloads = <<>>
    BY <2>1
  <2> QED
    BY <2>1, <2>2 DEF Channel!Init
<1>2. IndInv /\ IndInv' /\ [Next]_vars => [Channel!Next]_(Channel!channelVars)
  <2> SUFFICES ASSUME IndInv, IndInv', [Next]_vars
               PROVE  [Channel!Next]_(Channel!channelVars)
    OBVIOUS
  <2>1. UNCHANGED <<sent, dispatched>> /\ received' = received =>
          UNCHANGED Channel!channelVars
    BY DEF Channel!channelVars
  <2>2. CASE UNCHANGED vars
    BY <2>1, <2>2 DEF vars
  <2>3. CASE Send
    <3>1. PICK payload \in Payloads : SendMessage(payload)
      BY <2>3 DEF Send
    <3>2. sent' = Append(sent, payload) /\ dispatched' = dispatched /\ received' = received
      <4>1. outLane \in OutboundLaneData
        BY DEF IndInv, TypeOK
      <4> QED
        BY <3>1, <4>1 DEF SendMessage, SentLane, OutboundLaneData, targetVars
    <3> QED
      BY <3>2 DEF Channel!Send, Channel!Next
  <2>4. CASE Deliver
    <3>1. sent' = sent /\ received' = received /\ Len(dispatched) <= Len(dispatched')
      <4>1. PICK relayer \in Relayers, h \in DOMAIN importedSource, start \in Nonces :
              \E end \in (start - 1) .. MaxNonce, withState \in BOOLEAN :
                 ReceiveMessagesProof(relayer, h, start, end, withState)
        BY <2>4 DEF Deliver
      <4>2. PICK end \in (start - 1) .. MaxNonce, withState \in BOOLEAN :
              ReceiveMessagesProof(relayer, h, start, end, withState)
        BY <4>1
      <4> QED
        BY <4>2, MessagesProofIndInv DEF ReceiveMessagesProof, sourceVars
    <3>2. /\ payloads = SubSeq(sent, 1, Len(dispatched)) /\ Len(payloads) = Len(dispatched)
          /\ payloads' = SubSeq(sent', 1, Len(dispatched'))
      <4>1. IndInv' => (payloads = SubSeq(sent, 1, Len(dispatched)))'
        BY DispatchedIsPrefix, PTL
      <4> QED
        BY <4>1, DispatchedIsPrefix
    <3>3. Len(dispatched) \in Nat /\ Len(dispatched') \in Nat /\ Len(dispatched') <= Len(sent')
          /\ Len(sent) \in Nat
      BY DEF IndInv, TypeOK, TargetInv, ExactlyOnceInOrder
    <3>4. CASE Len(dispatched') = Len(dispatched)
      <4>1. payloads' = payloads
        BY <3>1, <3>2, <3>4
      <4> QED
        BY <3>1, <4>1 DEF Channel!channelVars
    <3>5. CASE Len(dispatched') # Len(dispatched)
      <4> HIDE DEF payloads
      <4>1. Len(dispatched') \in Len(payloads) + 1 .. Len(sent)
        BY <3>1, <3>2, <3>3, <3>5
      <4>2. \E n \in Len(payloads) + 1 .. Len(sent) : payloads' = SubSeq(sent, 1, n)
        BY <3>1, <3>2, <4>1
      <4> QED
        BY <3>1, <4>2 DEF Channel!Deliver, Channel!Next, payloads
    <3> QED
      BY <3>4, <3>5
  <2>5. CASE Confirm
    <3>1. PICK h \in DOMAIN importedTarget : ReceiveMessagesDeliveryProof(h)
      BY <2>5 DEF Confirm
    <3>2. sent' = sent /\ dispatched' = dispatched
      BY <3>1 DEF ReceiveMessagesDeliveryProof, targetVars
    <3>3. CASE ConfirmsNothing(importedTarget[h])
      BY <2>1, <3>2, <3>3 DEF ConfirmsNothing
    <3>4. CASE ConfirmsDelivery(importedTarget[h])
      <4>1. /\ received \in Nat /\ received' \in Nat
            /\ received' <= Len(dispatched') /\ Len(dispatched) \in Nat
        BY DEF IndInv, TypeOK, OutboundLaneData, SourceInv
      <4>2. received < received'
        <5> DEFINE delivered == LastDeliveredNonce(importedTarget[h])
        <5>1. outLane \in OutboundLaneData /\ importedTarget[h] \in InboundLaneData
          BY ElementOfSeq DEF IndInv, TypeOK
        <5>2. delivered \in Nat /\ ~ (delivered <= received)
              /\ outLane' = ConfirmedLane(outLane, delivered)
          BY <3>4, <5>1, LastDeliveredType DEF ConfirmsDelivery, CanConfirm, NothingToConfirm
        <5> HIDE DEF delivered
        <5>3. received' = delivered
          BY <5>1, <5>2, ConfirmedLaneFields
        <5> QED
          BY <4>1, <5>2, <5>3
      <4>3. Len(payloads) = Len(dispatched)
        BY DispatchedIsPrefix
      <4>4. received' \in received + 1 .. Len(payloads)
        BY <3>2, <4>1, <4>2, <4>3
      <4> QED
        BY <3>2, <4>4 DEF Channel!Confirm, Channel!Next
    <3> QED
      BY <3>1, <3>3, <3>4 DEF ReceiveMessagesDeliveryProof
  <2>6. CASE Import
    BY <2>1, <2>6 DEF Import, ImportSourceHeader, ImportTargetHeader, sourceVars, targetVars
  <2>7. CASE Close
    <3>1. outLane \in OutboundLaneData
      BY DEF IndInv, TypeOK
    <3>2. ASSUME NEW mayPrune, CloseBridge(mayPrune)
          PROVE  UNCHANGED <<sent, dispatched>> /\ received' = received
      BY <3>1, <3>2 DEF CloseBridge, PrunedLane, OutboundLaneData, targetVars
    <3>3. ASSUME NEW state, CloseTargetBridge(state)
          PROVE  UNCHANGED <<sent, dispatched>> /\ received' = received
      BY <3>3 DEF CloseTargetBridge, sourceVars
    <3> QED
      BY <2>1, <2>7, <3>2, <3>3 DEF Close
  <2>8. CASE Govern
    BY <2>1, <2>8 DEF Govern, SetSourceMode, SetTargetMode, SetDispatcherActive,
       sourceVars, targetVars
  <2> QED
    BY <2>2, <2>3, <2>4, <2>5, <2>6, <2>7, <2>8 DEF Next, Service
<1> QED
  BY <1>1, <1>2, LaneInvariant, PTL DEF Spec, ImplementsChannel, Channel!Spec

-----------------------------------------------------------------------------
(***************************************************************************)
(* The relay.                                                              *)
(***************************************************************************)

\* What a state update leaves of the queue of unrewarded relayers.
LEMMA QueueAfterUpdate ==
    ASSUME NEW data \in InboundLaneData, WellFormed(data), NEW received \in Nat,
           received <= LastDeliveredNonce(data), received > data.last_confirmed_nonce
    PROVE  LET new == ReceiveStateUpdate(data, received)
           IN  /\ new.last_confirmed_nonce = received
               /\ Len(new.relayers) <= Len(data.relayers)
               /\ data.relayers[1].end <= received => Len(new.relayers) < Len(data.relayers)
<1> DEFINE old == data.relayers
           new == ReceiveStateUpdate(data, received)
           popped == PoppedEntries(old, received)
           entries == TrimmedRelayers(old, received)
<1>1. old \in Seq(UnrewardedRelayer) /\ data.last_confirmed_nonce \in Nat
        /\ LastDeliveredNonce(data) \in Nat
  BY LastDeliveredType
<1>2. /\ popped \in 0 .. Len(old) /\ Len(old) \in Nat
      /\ popped < Len(old) => old[popped + 1].end > received
  BY <1>1, PoppedEntriesDefined, EntryTypes
<1>3. entries \in Seq(UnrewardedRelayer) /\ Len(entries) = Len(old) - popped
  BY <1>1, TrimmedRelayersFields
<1>4. new = [data EXCEPT !.last_confirmed_nonce = received, !.relayers = entries]
  BY <1>1 DEF ReceiveStateUpdate
<1>5. new.last_confirmed_nonce = received /\ new.relayers = entries
  BY <1>3, <1>4 DEF InboundLaneData
<1>6. old # <<>>
  BY <1>1 DEF LastDeliveredNonce
<1>7. Len(old) # 0 /\ old[1].end \in Nat
  BY <1>1, <1>2, <1>6, EntryTypes
<1> HIDE DEF old, new, popped, entries
<1>8. old[1].end <= received => popped # 0
  BY <1>2, <1>7
<1> QED
  BY <1>2, <1>3, <1>5, <1>8 DEF old, new

\* A well formed queue that is at a limit has an oldest entry, and its messages
\* are the first that are not confirmed.
LEMMA OldestEntry ==
    ASSUME NEW data \in InboundLaneData, WellFormed(data), UnrewardedLimitReached(data)
    PROVE  /\ data.relayers # <<>> /\ Len(data.relayers) \in Nat
           /\ MessagesInOldestEntry(data) \in Nat \ {0}
           /\ data.relayers[1].end = data.last_confirmed_nonce + MessagesInOldestEntry(data)
<1> DEFINE entries == data.relayers
<1>1. entries \in Seq(UnrewardedRelayer) /\ data.last_confirmed_nonce \in Nat
  BY LastDeliveredType
<1>2. entries # <<>>
  <2>1. SUFFICES ASSUME entries = <<>> PROVE FALSE
    OBVIOUS
  <2>2. Len(entries) = 0 /\ TotalUnrewardedMessages(data) = 0
    BY <1>1, <2>1, EntryTypes DEF TotalUnrewardedMessages
  <2> QED
    BY <2>2, LimitsAssumption DEF UnrewardedLimitReached
<1>3. /\ Len(entries) \in Nat /\ 1 \in DOMAIN entries
      /\ entries[1].begin \in Nat /\ entries[1].end \in Nat
  BY <1>1, <1>2, EntryTypes
<1>4. entries[1].begin = data.last_confirmed_nonce + 1 /\ entries[1].begin <= entries[1].end
  BY <1>2, <1>3 DEF WellFormed
<1>5. MessagesInOldestEntry(data) = entries[1].end - entries[1].begin + 1
  BY <1>2 DEF MessagesInOldestEntry
<1> QED
  BY <1>1, <1>2, <1>3, <1>4, <1>5

\* What the invariant says of the two lanes that the delivery race looks at.
LEMMA RaceState ==
    ASSUME IndInv, importedSource # <<>>
    PROVE  /\ inLane \in InboundLaneData /\ WellFormed(inLane)
           /\ BestSource \in OutboundLaneData
           /\ BestSource.latest_received_nonce \in Nat
           /\ BestSource.latest_generated_nonce \in Nat
           /\ BestSource.latest_received_nonce <= LastDeliveredNonce(inLane)
<1>1. /\ inLane \in InboundLaneData /\ WellFormed(inLane)
      /\ outLane \in OutboundLaneData
      /\ importedSource \in Seq(SourceHeader)
  BY DEF IndInv, TypeOK, TargetInv, KnownLane
<1>2. Len(importedSource) \in DOMAIN importedSource
  BY <1>1, EmptySeq, LenProperties
<1>3. importedSource[Len(importedSource)] \in SourceHeader
  BY <1>1, <1>2, ElementOfSeq, LenProperties
<1>4. BestSource \in OutboundLaneData
  BY <1>3 DEF BestSource, SourceHeader
<1>5. /\ BestSource.latest_received_nonce \in Nat
      /\ BestSource.latest_generated_nonce \in Nat
      /\ outLane.latest_received_nonce \in Nat
  BY <1>1, <1>4 DEF OutboundLaneData
<1>6. BestSource.latest_received_nonce <= outLane.latest_received_nonce
  BY <1>2 DEF IndInv, HeadersInv, BestSource
<1>7. outLane.latest_received_nonce <= LastDeliveredNonce(inLane)
  BY DEF IndInv, SourceInv, TargetInv, ExactlyOnceInOrder
<1> QED
  BY <1>1, <1>4, <1>5, <1>6, <1>7, LastDeliveredType

\* The selection of the race is useful in every state of the invariant.
LEMMA UsefulWhenInvariant == IndInv => SelectedCallsAreUseful
<1> SUFFICES ASSUME IndInv, importedSource # <<>>, NEW relayer \in Relayers
             PROVE  /\ SelectsMessages(inLane, BestSource) =>
                         \A last \in Batches(inLane, BestSource) :
                            LastDeliveredNonce(inLane) <
                            LastDeliveredNonce(AfterDelivery(relayer, LastDeliveredNonce(inLane) + 1,
                                                 last, StateProofRequired(inLane, BestSource)))
                    /\ SelectsUnblocking(inLane, BestSource) =>
                         Len(AfterDelivery(relayer, 1, 0, TRUE).relayers) < Len(inLane.relayers)
  BY DEF SelectedCallsAreUseful
<1> DEFINE delivered == LastDeliveredNonce(inLane)
           confirmed == inLane.last_confirmed_nonce
           received == BestSource.latest_received_nonce
           proves == StateProofRequired(inLane, BestSource)
           updated == IF proves THEN ReceiveStateUpdate(inLane, received) ELSE inLane
<1>1. /\ inLane \in InboundLaneData /\ WellFormed(inLane)
      /\ received \in Nat /\ received <= delivered
      /\ BestSource.latest_generated_nonce \in Nat
  BY RaceState
<1>2. /\ delivered \in Nat /\ confirmed \in Nat /\ Len(inLane.relayers) \in Nat
      /\ inLane.relayers \in Seq(UnrewardedRelayer)
  BY <1>1, LastDeliveredType, EntryTypes
<1>3. /\ updated \in InboundLaneData /\ WellFormed(updated)
      /\ LastDeliveredNonce(updated) = delivered
      /\ updated.last_confirmed_nonce = IF proves THEN received ELSE confirmed
      /\ Len(updated.relayers) <= Len(inLane.relayers)
      /\ updated.last_confirmed_nonce \in Nat /\ Len(updated.relayers) \in Nat
  <2>1. CASE ~ proves
    BY <1>1, <1>2, <2>1
  <2>2. CASE proves
    <3>1. received > confirmed
      BY <1>1, <1>2, <2>2 DEF StateProofRequired
    <3>2. /\ updated \in InboundLaneData /\ WellFormed(updated)
          /\ LastDeliveredNonce(updated) = delivered
      BY <1>1, <2>2, StateUpdateCorrect
    <3>3. /\ updated.last_confirmed_nonce = received
          /\ Len(updated.relayers) <= Len(inLane.relayers)
      BY <1>1, <2>2, <3>1, QueueAfterUpdate
    <3>4. Len(updated.relayers) \in Nat
      BY <3>2, LastDeliveredType, EntryTypes
    <3> QED
      BY <1>1, <2>2, <3>2, <3>3, <3>4
  <2> QED
    BY <2>1, <2>2
<1>4. ASSUME UnrewardedLimitReached(inLane), EnoughRewardsBeingProved(inLane, BestSource)
      PROVE  /\ proves
             /\ Len(updated.relayers) < Len(inLane.relayers)
  <2>1. /\ MessagesInOldestEntry(inLane) \in Nat \ {0}
        /\ inLane.relayers[1].end = confirmed + MessagesInOldestEntry(inLane)
    BY <1>1, <1>4, OldestEntry
  <2>2. received - confirmed >= MessagesInOldestEntry(inLane)
    BY <1>4 DEF EnoughRewardsBeingProved
  <2>3. received > confirmed /\ inLane.relayers[1].end <= received
    BY <1>1, <1>2, <2>1, <2>2
  <2>4. proves
    BY <1>1, <1>2, <2>3 DEF StateProofRequired
  <2>5. Len(ReceiveStateUpdate(inLane, received).relayers) < Len(inLane.relayers)
    BY <1>1, <2>3, QueueAfterUpdate
  <2> QED
    BY <2>4, <2>5
<1> HIDE DEF delivered, confirmed, received, proves, updated
<1>5. ASSUME NEW start \in Nat, NEW end \in Nat
      PROVE  AfterDelivery(relayer, start, end, proves) = ReceiveMessages(updated, relayer, start, end)
  BY DEF AfterDelivery, proves, updated, received
<1>6. ASSUME SelectsMessages(inLane, BestSource), NEW last \in Batches(inLane, BestSource)
      PROVE  delivered < LastDeliveredNonce(AfterDelivery(relayer, delivered + 1, last, proves))
  <2> DEFINE new == ReceiveMessages(updated, relayer, delivered + 1, last)
             left == MaxUnconfirmedMessages - (delivered - updated.last_confirmed_nonce)
  <2>1. /\ last \in Nat /\ last >= delivered + 1
        /\ last <= delivered + MaxNonces(inLane, BestSource)
        /\ MaxNonces(inLane, BestSource) <= left
    <3>1. MaxNonces(inLane, BestSource)
            = IF left <= MaxMessagesInSingleBatch THEN left ELSE MaxMessagesInSingleBatch
      BY <1>3 DEF MaxNonces, delivered, confirmed, received, proves
    <3>2. left \in Int /\ MaxMessagesInSingleBatch \in Nat
      BY <1>2, <1>3, LimitsAssumption, BatchAssumption
    <3> HIDE DEF left
    <3>3. MaxNonces(inLane, BestSource) \in Int /\ MaxNonces(inLane, BestSource) <= left
      BY <3>1, <3>2
    <3>4. last \in delivered + 1 .. LastSelected(inLane, BestSource)
      BY <1>6 DEF Batches, delivered
    <3>5. LastSelected(inLane, BestSource)
            = IF delivered + MaxNonces(inLane, BestSource) <= BestSource.latest_generated_nonce
              THEN delivered + MaxNonces(inLane, BestSource)
              ELSE BestSource.latest_generated_nonce
      BY DEF LastSelected, delivered
    <3> QED
      BY <1>1, <1>2, <3>3, <3>4, <3>5
  <2>2. delivered + 1 - updated.last_confirmed_nonce <= MaxUnconfirmedMessages
    <3>1. /\ MaxNonces(inLane, BestSource) \in Int
          /\ MaxUnconfirmedMessages \in Nat /\ updated.last_confirmed_nonce \in Nat
      BY <1>2, <1>3, LimitsAssumption, BatchAssumption
        DEF MaxNonces, delivered, confirmed, received, proves
    <3> QED
      BY <1>2, <2>1, <3>1
  <2>3. Len(updated.relayers) < MaxUnrewardedRelayers
    <3>1. CASE UnrewardedLimitReached(inLane)
      <4>1. Len(inLane.relayers) <= MaxUnrewardedRelayers
        BY <1>1 DEF WellFormed
      <4>2. Len(updated.relayers) < Len(inLane.relayers)
        BY <1>4, <1>6, <3>1 DEF SelectsMessages
      <4> QED
        BY <1>2, <1>3, <4>1, <4>2, LimitsAssumption
    <3>2. CASE ~ UnrewardedLimitReached(inLane)
      BY <1>2, <1>3, <3>2, LimitsAssumption DEF UnrewardedLimitReached
    <3> QED
      BY <3>1, <3>2
  <2>4. CanReceive(updated, delivered + 1)
    BY <1>2, <1>3, <2>2, <2>3 DEF CanReceive
  <2>5. /\ LastAccepted(updated, relayer, delivered + 1, last) >= delivered + 1
        /\ LastAccepted(updated, relayer, delivered + 1, last) \in Nat
    <3> DEFINE mayConfirm == updated.last_confirmed_nonce + MaxUnconfirmedMessages
               lastOfBatch == IF /\ Len(updated.relayers) + 1 >= MaxUnrewardedRelayers
                                 /\ ~ ExtendsLastEntry(updated, relayer)
                              THEN delivered + 1 ELSE last
    <3>1. delivered + 1 \in delivered + 1 .. last
      BY <1>2, <2>1
    <3>2. LastAccepted(updated, relayer, delivered + 1, last)
            = IF lastOfBatch <= mayConfirm THEN lastOfBatch ELSE mayConfirm
      BY <1>3, <2>4, <3>1 DEF LastAccepted
    <3>3. mayConfirm >= delivered + 1 /\ mayConfirm \in Nat
      BY <1>2, <1>3, <2>2, LimitsAssumption
    <3>4. lastOfBatch >= delivered + 1 /\ lastOfBatch \in Nat
      BY <1>2, <2>1
    <3> HIDE DEF mayConfirm, lastOfBatch
    <3> QED
      BY <1>2, <3>2, <3>3, <3>4
  <2>6. LastDeliveredNonce(new) = LastAccepted(updated, relayer, delivered + 1, last)
    BY <1>2, <1>3, <2>1, ReceiveMessagesCorrect
  <2> QED
    BY <1>2, <1>5, <2>1, <2>5, <2>6
<1>7. ASSUME SelectsUnblocking(inLane, BestSource)
      PROVE  Len(AfterDelivery(relayer, 1, 0, TRUE).relayers) < Len(inLane.relayers)
  <2>1. proves /\ Len(updated.relayers) < Len(inLane.relayers)
    BY <1>4, <1>7 DEF SelectsUnblocking
  <2>2. AfterDelivery(relayer, 1, 0, TRUE) = ReceiveMessages(updated, relayer, 1, 0)
    BY <2>1 DEF AfterDelivery, updated, received
  <2>3. LastAccepted(updated, relayer, 1, 0) = LastDeliveredNonce(updated)
    <3>1. LastDeliveredNonce(updated) + 1 \notin 1 .. 0
      BY <1>2, <1>3
    <3> QED
      BY <3>1 DEF LastAccepted
  <2>4. ReceiveMessages(updated, relayer, 1, 0) = updated
    BY <2>3 DEF ReceiveMessages
  <2> QED
    BY <2>1, <2>2, <2>4
<1> QED
  BY <1>6, <1>7 DEF delivered, proves

\* Nothing of what happens on the lane in service leaves the steps of Spec.
LEMMA RelaySteps == RelaySpec => Spec
<1>1. [RelayNext]_vars => [Next]_vars
  BY DEF RelayNext, Next, Govern, OperatingModes
<1> QED
  BY <1>1, PTL DEF RelaySpec, Spec

\* The delivery race of the relay never pays for a call that changes nothing:
\* its arithmetic and the limits of receive_message agree in every reachable
\* state, for every limit of either.
THEOREM SelectionIsUseful == RelaySpec => []SelectedCallsAreUseful
  BY RelaySteps, LaneInvariant, UsefulWhenInvariant, PTL

-----------------------------------------------------------------------------
(***************************************************************************)
(* Lifetimes: what holds of each end by itself, whatever former lifetimes  *)
(* the proofs that reach it are of.                                        *)
(***************************************************************************)

\* What the types say of the nonces and the logs.
LEMMA EndTypes ==
    ASSUME TypeOK
    PROVE  /\ outLane \in OutboundLaneData
           /\ outLane.latest_received_nonce \in Nat
           /\ outLane.latest_generated_nonce \in Nat
           /\ outLane.oldest_unpruned_nonce \in Nat
           /\ outLane.state \in LaneStates
           /\ outMessages \in [Nonces -> Payloads \cup {NoMessage}]
           /\ inLane \in InboundLaneData
           /\ sent \in Seq(Payloads) /\ Len(sent) \in Nat
           /\ dispatched \in Seq(DispatchedMessage) /\ Len(dispatched) \in Nat
           /\ importedSource \in Seq(SourceHeader)
           /\ importedTarget \in Seq(InboundLaneData)
<1>1. /\ outLane \in OutboundLaneData
      /\ outMessages \in [Nonces -> Payloads \cup {NoMessage}]
      /\ inLane \in InboundLaneData
      /\ sent \in Seq(Payloads)
      /\ dispatched \in Seq(DispatchedMessage)
      /\ importedSource \in Seq(SourceHeader)
      /\ importedTarget \in Seq(InboundLaneData)
  BY DEF TypeOK, OutboundMessages
<1>2. Len(sent) \in Nat /\ Len(dispatched) \in Nat
  BY <1>1
<1>3. /\ outLane.latest_received_nonce \in Nat
      /\ outLane.latest_generated_nonce \in Nat
      /\ outLane.oldest_unpruned_nonce \in Nat
      /\ outLane.state \in LaneStates
  BY <1>1 DEF OutboundLaneData
<1> QED
  BY <1>1, <1>2, <1>3

LEMMA EndsInitially == Init => EndsInv
<1> SUFFICES ASSUME Init PROVE EndsInv
  OBVIOUS
<1>1. IndInv
  BY InitIndInv
<1>2. outLane.state = "Opened" /\ bridge = "Opened"
  BY DEF Init, OutboundLaneOpened
<1>3. outLane.latest_received_nonce <= Len(sent)
  <2>1. Len(sent) = 0 /\ outLane.latest_received_nonce = 0
    BY DEF Init, OutboundLaneOpened
  <2> QED
    BY <2>1
<1>4. SourceEndInv
  BY <1>1, <1>2, <1>3 DEF IndInv, SourceInv, SourceEndInv
<1>5. TargetEndInv
  BY <1>1 DEF IndInv, TargetInv, KnownLane, ExactlyOnceInOrder, TargetEndInv
<1> QED
  BY <1>1, <1>4, <1>5 DEF IndInv, EndsInv

\* A step that leaves an end alone leaves its part of the invariant alone.
LEMMA SourceEndUnchanged ==
    ASSUME SourceEndInv, outLane' = outLane, outMessages' = outMessages,
           bridge' = bridge, sent' = sent
    PROVE  SourceEndInv'
<1>1. NothingLost' /\ PrunedBelowOldest'
  BY DEF SourceEndInv, NothingLost, PrunedBelowOldest
<1> QED
  BY <1>1 DEF SourceEndInv, UnprunedMessages

LEMMA TargetEndUnchanged ==
    ASSUME TargetEndInv, inLane' = inLane, dispatched' = dispatched
    PROVE  TargetEndInv'
  BY DEF TargetEndInv

LEMMA SendEnds ==
    ASSUME EndsInv, NEW payload \in Payloads, SendMessage(payload)
    PROVE  EndsInv'
<1> DEFINE n0 == outLane.latest_generated_nonce
           received == outLane.latest_received_nonce
<1>0. TypeOK /\ SourceEndInv /\ TargetEndInv
  BY DEF EndsInv
<1>1. /\ outLane \in OutboundLaneData
      /\ sent \in Seq(Payloads) /\ sent' = Append(sent, payload) /\ n0 = Len(sent)
      /\ outMessages \in [Nonces -> Payloads \cup {NoMessage}]
      /\ Len(sent) \in Nat
  BY <1>0, EndTypes DEF SourceEndInv, SendMessage
<1>2. /\ Len(sent') = n0 + 1
      /\ sent' \in Seq(Payloads)
      /\ \A n \in 1 .. Len(sent) : sent'[n] = sent[n]
      /\ sent'[n0 + 1] = payload
      /\ n0 + 1 \in Nonces
  <2>1. n0 + 1 \in Nonces
    BY <1>1, MaxNonceAssumption DEF SendMessage, Nonces
  <2> QED
    BY <1>1, <2>1, AppendProperties
<1>3. /\ outLane' \in OutboundLaneData
      /\ outLane'.state = "Opened" /\ outLane.state = "Opened"
      /\ outLane'.oldest_unpruned_nonce = outLane.oldest_unpruned_nonce
      /\ outLane'.latest_received_nonce = received
      /\ outLane'.latest_generated_nonce = n0 + 1
      /\ outLane.oldest_unpruned_nonce \in Nat
      /\ received \in Nat
  <2>1. outLane.state = "Opened"
    BY DEF SendMessage, MessageIsValid
  <2>2. outLane' = [outLane EXCEPT !.latest_generated_nonce = n0 + 1]
    BY DEF SendMessage, SentLane
  <2>3. n0 + 1 \in Nat
    BY <1>1
  <2> QED
    BY ONLY <1>1, <2>1, <2>2, <2>3 DEF OutboundLaneData
<1>4. outMessages' = [outMessages EXCEPT ![n0 + 1] = payload]
  BY DEF SendMessage, SavedMessages
<1>5. /\ rewards' = rewards /\ srcMode' = srcMode /\ importedTarget' = importedTarget
      /\ inLane' = inLane /\ dispatcherActive' = dispatcherActive /\ tgtMode' = tgtMode
      /\ importedSource' = importedSource /\ dispatched' = dispatched
  BY DEF SendMessage, targetVars
<1>6. bridge' \in {bridge, "Suspended"} /\ bridge \in {"Opened", "Suspended"}
  BY <1>0, <1>3 DEF SendMessage, BridgeAfterEnqueued, SourceEndInv
<1>7. TypeOK'
  BY <1>0, <1>2, <1>3, <1>4, <1>5, <1>6 DEF TypeOK, OutboundMessages, BridgeStates
<1>8. received <= n0 /\ outLane.oldest_unpruned_nonce = received + 1
  BY <1>0, <1>1, <1>3 DEF SourceEndInv
<1>9. \A n \in Nonces : outMessages'[n] = IF n = n0 + 1 THEN payload ELSE outMessages[n]
  BY <1>1, <1>2, <1>4
<1>10. StoredWereSent(outMessages', sent')
  <2>1. StoredWereSent(outMessages, sent)
    BY <1>0 DEF SourceEndInv
  <2> QED
    BY <1>1, <1>2, <1>9, <2>1 DEF StoredWereSent, Nonces
<1>11. PrunedBelowOldest'
  <2> SUFFICES ASSUME NEW n \in Nonces, outMessages'[n] # NoMessage
               PROVE  n \in outLane.oldest_unpruned_nonce .. n0 + 1
    BY <1>3 DEF PrunedBelowOldest
  <2>1. CASE n = n0 + 1
    BY <1>1, <1>2, <1>3, <1>8, <2>1
  <2>2. CASE n # n0 + 1
    <3>1. n \in outLane.oldest_unpruned_nonce .. n0
      BY <1>0, <1>9, <2>2 DEF PrunedBelowOldest, SourceEndInv
    <3> QED
      BY <1>1, <1>2, <1>3, <3>1
  <2> QED
    BY <2>1, <2>2
<1>12. NothingLost'
  <2> SUFFICES ASSUME NEW n \in received + 1 .. n0 + 1
               PROVE  outMessages'[n] = sent'[n]
    BY <1>3 DEF NothingLost
  <2>1. n \in Nonces
    BY <1>2, <1>3 DEF Nonces
  <2>2. CASE n = n0 + 1
    BY <1>2, <1>9, <2>1, <2>2
  <2>3. CASE n # n0 + 1
    <3>1. n \in received + 1 .. n0 /\ n \in 1 .. Len(sent)
      BY <1>1, <1>3, <2>3
    <3>2. outMessages[n] = sent[n]
      BY <1>0, <1>6, <3>1 DEF SourceEndInv, NothingLost
    <3> QED
      BY <1>2, <1>9, <2>1, <2>3, <3>1, <3>2
  <2> QED
    BY <2>2, <2>3
<1>13. SourceEndInv'
  <2>1. n0 + 1 <= MaxNonce /\ received <= n0 + 1
    BY <1>1, <1>2, <1>3, <1>8 DEF Nonces
  <2>2. received < received + 1
    BY <1>3
  <2> QED
    BY <1>2, <1>3, <1>6, <1>8, <1>10, <1>11, <1>12, <2>1, <2>2 DEF SourceEndInv
<1> QED
  BY <1>0, <1>5, <1>7, <1>13, TargetEndUnchanged DEF EndsInv

\* confirm_delivery, with a proof of a lane of any lifetime: the call's own
\* checks keep the nonces in order.
LEMMA ConfirmEnds ==
    ASSUME EndsInv, NEW h \in DOMAIN importedTarget, ReceiveMessagesDeliveryProof(h)
    PROVE  EndsInv'
<1> DEFINE proved == importedTarget[h]
           delivered == LastDeliveredNonce(proved)
           received == outLane.latest_received_nonce
           generated == outLane.latest_generated_nonce
           oldest == outLane.oldest_unpruned_nonce
<1>0. TypeOK /\ SourceEndInv /\ TargetEndInv
  BY DEF EndsInv
<1>1. /\ outLane \in OutboundLaneData /\ proved \in InboundLaneData
      /\ outMessages \in [Nonces -> Payloads \cup {NoMessage}]
      /\ received \in Nat /\ generated \in Nat /\ oldest \in Nat
  BY <1>0, EndTypes, ElementOfSeq
<1>2. /\ outLane.state # "Absent"
      /\ ConfirmsNothing(proved) \/ ConfirmsDelivery(proved)
      /\ bridge' \in BridgeAfterDelivered(bridge, EnqueuedMessages(outLane'))
      /\ srcMode' = srcMode /\ importedTarget' = importedTarget /\ sent' = sent
      /\ inLane' = inLane /\ dispatcherActive' = dispatcherActive /\ tgtMode' = tgtMode
      /\ importedSource' = importedSource /\ dispatched' = dispatched
  BY DEF ReceiveMessagesDeliveryProof, targetVars
<1>3. bridge' \in BridgeStates /\ bridge' # "Absent" /\ bridge # "Absent"
      /\ (bridge' \in {"Opened", "Suspended"} <=> bridge \in {"Opened", "Suspended"})
  <2>1. bridge # "Absent" /\ bridge \in BridgeStates
    BY <1>0, <1>2 DEF SourceEndInv, TypeOK
  <2> QED
    BY <1>2, <2>1 DEF BridgeAfterDelivered, BridgeStates
<1>4. CASE ConfirmsNothing(proved)
  <2>1. outLane' = outLane /\ outMessages' = outMessages /\ rewards' = rewards
    BY <1>4 DEF ConfirmsNothing
  <2>2. TypeOK'
    BY <1>0, <1>2, <1>3, <2>1 DEF TypeOK
  <2>3. NothingLost' /\ PrunedBelowOldest'
    BY <1>0, <1>2, <1>3, <2>1 DEF SourceEndInv, NothingLost, PrunedBelowOldest
  <2>4. SourceEndInv'
    BY <1>0, <1>2, <1>3, <2>1, <2>3 DEF SourceEndInv, UnprunedMessages
  <2> QED
    BY <1>0, <1>2, <2>2, <2>4, TargetEndUnchanged DEF EndsInv
<1>5. CASE ConfirmsDelivery(proved)
  <2>1. delivered \in Nat
    BY <1>1, LastDeliveredType
  <2>2. received < delivered /\ delivered <= generated
    <3>1. ~ (delivered <= received) /\ delivered <= generated
      BY <1>5 DEF ConfirmsDelivery, CanConfirm, NothingToConfirm
    <3> QED
      BY <1>1, <2>1, <3>1
  <2>3. outLane' = ConfirmedLane(outLane, delivered)
    BY <1>5 DEF ConfirmsDelivery
  <2>4. /\ \A n \in Nonces : outMessages'[n] =
             IF n \in received + 1 .. delivered THEN NoMessage ELSE outMessages[n]
        /\ outMessages' \in [Nonces -> Payloads \cup {NoMessage}]
    BY <1>1, <1>5 DEF ConfirmsDelivery, RemovedMessages
  <2>5. rewards' \in [Relayers -> Nat]
    <3>1. rewards' = [r \in Relayers |->
            rewards[r] + RelayerReward(proved.relayers, received + 1, delivered, r)]
      BY <1>5 DEF ConfirmsDelivery
    <3> HIDE DEF proved, delivered
    <3>2. \A r \in Relayers :
            RelayerReward(proved.relayers, received + 1, delivered, r) \in Nat
      BY <1>1, <2>1, RewardType
    <3>3. rewards \in [Relayers -> Nat]
      BY <1>0 DEF TypeOK
    <3> QED
      BY <3>1, <3>2, <3>3
  <2> HIDE DEF proved, delivered
  <2>6. /\ outLane' \in OutboundLaneData
        /\ outLane'.state = outLane.state
        /\ outLane'.oldest_unpruned_nonce = delivered + 1
        /\ outLane'.latest_received_nonce = delivered
        /\ outLane'.latest_generated_nonce = generated
    BY <1>1, <2>1, <2>3, ConfirmedLaneFields
  <2>7. TypeOK'
    BY <1>0, <1>2, <1>3, <2>4, <2>5, <2>6 DEF TypeOK, OutboundMessages
  <2>8. PrunedBelowOldest'
    <3> SUFFICES ASSUME NEW n \in Nonces, outMessages'[n] # NoMessage
                 PROVE  n \in delivered + 1 .. generated
      BY <2>6 DEF PrunedBelowOldest
    <3>1. n \notin received + 1 .. delivered /\ outMessages[n] # NoMessage
      BY <2>4
    <3>2. n \in oldest .. generated /\ received < oldest
      BY <1>0, <3>1 DEF SourceEndInv, PrunedBelowOldest
    <3> QED
      BY <1>1, <2>1, <3>1, <3>2
  <2>9. NothingLost'
    <3> SUFFICES ASSUME bridge' \in {"Opened", "Suspended"},
                        NEW n \in delivered + 1 .. generated
                 PROVE  outMessages'[n] = sent[n]
      BY <1>2, <2>6 DEF NothingLost
    <3>1. n \in received + 1 .. generated /\ n \notin received + 1 .. delivered
          /\ n \in Nonces
      <4>1. generated <= MaxNonce
        BY <1>0 DEF SourceEndInv
      <4>2. n \in Nat /\ n >= 1 /\ n <= MaxNonce /\ n > delivered /\ n <= generated
        BY <1>1, <2>1, <4>1, MaxNonceAssumption
      <4> QED
        BY <1>1, <2>1, <2>2, <4>2 DEF Nonces
    <3>2. outMessages[n] = sent[n]
      BY <1>0, <1>3, <3>1 DEF SourceEndInv, NothingLost
    <3> QED
      BY <2>4, <3>1, <3>2
  <2>10. SourceEndInv'
    <3>1. StoredWereSent(outMessages', sent')
      BY <1>0, <1>2, <2>4 DEF SourceEndInv, StoredWereSent
    <3>2. delivered < delivered + 1
      BY <2>1
    <3> QED
      BY <1>0, <1>2, <1>3, <2>2, <2>6, <2>8, <2>9, <3>1, <3>2 DEF SourceEndInv
  <2> QED
    BY <1>0, <1>2, <2>7, <2>10, TargetEndUnchanged DEF EndsInv
<1> QED
  BY <1>2, <1>4, <1>5

LEMMA CloseEnds ==
    ASSUME EndsInv, NEW mayPrune \in Nat, CloseBridge(mayPrune)
    PROVE  EndsInv'
<1> DEFINE received == outLane.latest_received_nonce
           generated == outLane.latest_generated_nonce
           oldest == outLane.oldest_unpruned_nonce
           oldest2 == OldestAfterPruning(outLane, mayPrune)
           pruned == PrunedLane(outLane, mayPrune)
           closed == IF UnprunedMessages(pruned) # {} THEN "Closed" ELSE "Absent"
<1>0. TypeOK /\ SourceEndInv /\ TargetEndInv
  BY DEF EndsInv
<1>1. /\ outLane \in OutboundLaneData
      /\ outMessages \in [Nonces -> Payloads \cup {NoMessage}]
      /\ received \in Nat /\ generated \in Nat /\ oldest \in Nat
  BY <1>0, EndTypes
<1>2. oldest2 \in Nat /\ oldest <= oldest2
  BY <1>1, OldestAfterPruningRange
<1>3. closed \in {"Closed", "Absent"} /\ bridge' = closed
      /\ outLane' = [pruned EXCEPT !.state = closed]
  BY DEF CloseBridge
<1>4. \A n \in Nonces : outMessages'[n] =
         IF n \in oldest .. (oldest2 - 1) THEN NoMessage ELSE outMessages[n]
  BY DEF CloseBridge, PrunedMessages, RemovedMessages
<1>5. outMessages' \in [Nonces -> Payloads \cup {NoMessage}]
  BY <1>1 DEF CloseBridge, PrunedMessages, RemovedMessages
<1>6. /\ rewards' = rewards /\ srcMode' = srcMode /\ importedTarget' = importedTarget
      /\ sent' = sent /\ inLane' = inLane /\ dispatcherActive' = dispatcherActive
      /\ tgtMode' = tgtMode /\ importedSource' = importedSource /\ dispatched' = dispatched
  BY DEF CloseBridge, targetVars
<1>7. closed = "Absent" => oldest2 .. generated = {}
  BY DEF UnprunedMessages, PrunedLane
<1> HIDE DEF closed, oldest2
<1>8. /\ outLane' \in OutboundLaneData
      /\ outLane'.state = closed
      /\ outLane'.oldest_unpruned_nonce = oldest2
      /\ outLane'.latest_received_nonce = received
      /\ outLane'.latest_generated_nonce = generated
  <2>1. pruned = [outLane EXCEPT !.oldest_unpruned_nonce = oldest2]
    BY DEF PrunedLane, oldest2
  <2>2. /\ pruned \in OutboundLaneData
        /\ pruned.oldest_unpruned_nonce = oldest2
        /\ pruned.latest_received_nonce = received
        /\ pruned.latest_generated_nonce = generated
    BY <1>1, <1>2, <2>1 DEF OutboundLaneData
  <2>3. closed \in LaneStates
    BY <1>3 DEF LaneStates
  <2> HIDE DEF pruned
  <2> QED
    BY <1>3, <2>2, <2>3 DEF OutboundLaneData
<1>9. TypeOK'
  BY <1>0, <1>3, <1>5, <1>6, <1>8 DEF TypeOK, OutboundMessages, BridgeStates
<1>10. PrunedBelowOldest'
  <2> SUFFICES ASSUME NEW n \in Nonces, outMessages'[n] # NoMessage
               PROVE  n \in oldest2 .. generated
    BY <1>8 DEF PrunedBelowOldest
  <2>1. n \notin oldest .. (oldest2 - 1) /\ outMessages[n] # NoMessage
    BY <1>4
  <2>2. n \in oldest .. generated
    BY <1>0, <2>1 DEF SourceEndInv, PrunedBelowOldest
  <2> QED
    BY <1>1, <1>2, <2>1, <2>2
<1>11. SourceEndInv'
  <2>1. StoredWereSent(outMessages', sent')
    BY <1>0, <1>4, <1>6 DEF SourceEndInv, StoredWereSent
  <2>2. received < oldest2
    BY <1>0, <1>1, <1>2 DEF SourceEndInv
  <2>3. outLane'.state = "Absent" => UnprunedMessages(outLane') = {}
    BY <1>7, <1>8 DEF UnprunedMessages
  <2>4. NothingLost'
    BY <1>3 DEF NothingLost
  <2> QED
    BY <1>0, <1>3, <1>6, <1>8, <1>10, <2>1, <2>2, <2>3, <2>4 DEF SourceEndInv
<1> QED
  BY <1>0, <1>6, <1>9, <1>11, TargetEndUnchanged DEF EndsInv

\* receive_messages_proof, with a proof made at a header of any lifetime.
LEMMA DeliverEnds ==
    ASSUME EndsInv, NEW relayer \in Relayers, NEW h \in DOMAIN importedSource,
           NEW start \in Nonces, NEW end \in (start - 1) .. MaxNonce,
           NEW withState \in BOOLEAN,
           ReceiveMessagesProof(relayer, h, start, end, withState)
    PROVE  EndsInv'
<1> DEFINE header == importedSource[h]
           updated == IF withState
                      THEN ReceiveStateUpdate(inLane, header.lane.latest_received_nonce)
                      ELSE inLane
           delivered == LastDeliveredNonce(updated)
           accepted == LastAccepted(updated, relayer, start, end)
           batch == [i \in 1 .. (accepted - delivered) |->
                        [nonce |-> delivered + i,
                         payload |-> header.messages[delivered + i],
                         relayer |-> relayer]]
<1>0. TypeOK /\ SourceEndInv /\ TargetEndInv
  BY DEF EndsInv
<1>1. /\ inLane' = ReceiveMessages(updated, relayer, start, end)
      /\ dispatched' = dispatched \o batch
      /\ \A n \in start .. end : header.messages[n] # NoMessage
  BY DEF ReceiveMessagesProof, MessagesProofIsValid
<1>2. /\ outLane' = outLane /\ outMessages' = outMessages /\ bridge' = bridge
      /\ rewards' = rewards /\ srcMode' = srcMode /\ importedTarget' = importedTarget
      /\ sent' = sent /\ dispatcherActive' = dispatcherActive /\ tgtMode' = tgtMode
      /\ importedSource' = importedSource
  BY DEF ReceiveMessagesProof, sourceVars
<1>3. /\ header \in SourceHeader /\ inLane \in InboundLaneData
      /\ dispatched \in Seq(DispatchedMessage) /\ Len(dispatched) \in Nat
      /\ start \in Nat /\ end \in Nat /\ end <= MaxNonce
      /\ header.lane.latest_received_nonce \in Nat
  <2>1. /\ importedSource \in Seq(SourceHeader) /\ inLane \in InboundLaneData
        /\ dispatched \in Seq(DispatchedMessage) /\ Len(dispatched) \in Nat
    BY <1>0, EndTypes
  <2>2. header \in SourceHeader
    BY <2>1, ElementOfSeq
  <2>3. start \in Nat /\ end \in Nat /\ end <= MaxNonce
    BY MaxNonceAssumption DEF Nonces
  <2> QED
    BY <2>1, <2>2, <2>3 DEF SourceHeader, OutboundLaneData
<1>4. WellFormed(inLane) /\ LastDeliveredNonce(inLane) = Len(dispatched)
  BY <1>0 DEF TargetEndInv
<1> HIDE DEF header
<1>5. updated \in InboundLaneData /\ delivered = Len(dispatched) /\ WellFormed(updated)
  <2>1. CASE withState
    BY <1>3, <1>4, <2>1, StateUpdateCorrect
  <2>2. CASE ~ withState
    BY <1>3, <1>4, <2>2
  <2> QED
    BY <2>1, <2>2
<1> HIDE DEF updated
<1>6. /\ accepted \in Nat /\ delivered \in Nat /\ delivered <= accepted
      /\ accepted # delivered => start <= delivered + 1 /\ accepted <= end
  BY <1>3, <1>5, LastAcceptedRange
<1>7. /\ inLane' \in InboundLaneData /\ WellFormed(inLane')
      /\ LastDeliveredNonce(inLane') = accepted
  BY <1>1, <1>3, <1>5, ReceiveMessagesCorrect
<1> HIDE DEF delivered, accepted
<1>8. /\ batch \in Seq(DispatchedMessage)
      /\ Len(batch) = accepted - delivered
      /\ \A i \in 1 .. (accepted - delivered) : batch[i].nonce = delivered + i
  <2> DEFINE k == accepted - delivered
             element(i) == [nonce |-> delivered + i,
                            payload |-> header.messages[delivered + i],
                            relayer |-> relayer]
  <2>1. k \in Nat
    BY <1>6
  <2>2. \A i \in 1 .. k : delivered + i \in start .. end /\ delivered + i \in Nonces
    BY <1>3, <1>6 DEF Nonces
  <2>3. header.messages \in [Nonces -> Payloads \cup {NoMessage}]
    BY <1>3 DEF SourceHeader, OutboundMessages
  <2>4. \A i \in 1 .. k : header.messages[delivered + i] \in Payloads
    BY <1>1, <2>2, <2>3
  <2>5. \A i \in 1 .. k : element(i) \in DispatchedMessage /\ element(i).nonce = delivered + i
    BY <2>2, <2>4 DEF DispatchedMessage
  <2>6. batch = [i \in 1 .. k |-> element(i)]
    OBVIOUS
  <2> HIDE DEF batch, element
  <2>7. batch \in [1 .. k -> DispatchedMessage]
    BY <2>5, <2>6
  <2>8. \A i \in 1 .. k : batch[i].nonce = delivered + i
    BY <2>5, <2>6
  <2> HIDE DEF k
  <2>9. batch \in Seq(DispatchedMessage)
    BY <2>1, <2>7, SeqDef
  <2>10. Len(batch) = k
    BY <2>1, <2>7, <2>9, LenProperties
  <2> QED
    BY <2>8, <2>9, <2>10 DEF k
<1> HIDE DEF batch
<1>9. /\ dispatched' \in Seq(DispatchedMessage)
      /\ Len(dispatched') = accepted
      /\ \A i \in 1 .. accepted : dispatched'[i] =
           IF i <= Len(dispatched) THEN dispatched[i] ELSE batch[i - Len(dispatched)]
  <2>1. /\ dispatched \o batch \in Seq(DispatchedMessage)
        /\ Len(dispatched \o batch) = Len(dispatched) + Len(batch)
        /\ \A i \in 1 .. Len(dispatched) + Len(batch) : (dispatched \o batch)[i] =
             IF i <= Len(dispatched) THEN dispatched[i] ELSE batch[i - Len(dispatched)]
    <3>1. dispatched \in Seq(DispatchedMessage) /\ batch \in Seq(DispatchedMessage)
      BY <1>3, <1>8
    <3> QED
      BY ONLY <3>1, ConcatProperties, SMT
  <2>2. Len(dispatched) + Len(batch) = accepted
    BY <1>3, <1>5, <1>6, <1>8
  <2> QED
    BY <1>1, <2>1, <2>2
<1>10. \A i \in DOMAIN dispatched' : dispatched'[i].nonce = i
  <2> SUFFICES ASSUME NEW i \in 1 .. accepted PROVE dispatched'[i].nonce = i
    BY <1>6, <1>9
  <2>1. CASE i <= Len(dispatched)
    <3>1. i \in DOMAIN dispatched
      BY <1>3, <1>6, <2>1
    <3> QED
      BY <1>0, <1>9, <2>1, <3>1 DEF TargetEndInv
  <2>2. CASE ~ (i <= Len(dispatched))
    <3>1. /\ i - Len(dispatched) \in 1 .. (accepted - delivered)
          /\ delivered + (i - Len(dispatched)) = i
      BY <1>3, <1>5, <1>6, <2>2
    <3> QED
      BY <1>8, <1>9, <2>2, <3>1
  <2> QED
    BY <2>1, <2>2
<1>11. TargetEndInv'
  BY <1>7, <1>9, <1>10 DEF TargetEndInv
<1>12. TypeOK'
  BY <1>0, <1>2, <1>7, <1>9 DEF TypeOK
<1> QED
  BY <1>0, <1>2, <1>11, <1>12, SourceEndUnchanged DEF EndsInv

LEMMA CloseTargetEnds ==
    ASSUME EndsInv, NEW state \in {"Closed", "Absent"}, CloseTargetBridge(state)
    PROVE  EndsInv'
<1>0. TypeOK /\ SourceEndInv /\ TargetEndInv
  BY DEF EndsInv
<1>1. inLane \in InboundLaneData
  BY <1>0, EndTypes
<1>2. /\ inLane' \in InboundLaneData
      /\ inLane'.relayers = inLane.relayers
      /\ inLane'.last_confirmed_nonce = inLane.last_confirmed_nonce
  BY <1>1 DEF CloseTargetBridge, InboundLaneData
<1>3. LastDeliveredNonce(inLane') = LastDeliveredNonce(inLane)
  BY <1>2 DEF LastDeliveredNonce
<1>4. WellFormed(inLane) => WellFormed(inLane')
  BY <1>2, <1>3 DEF WellFormed
<1>5. /\ outLane' = outLane /\ outMessages' = outMessages /\ bridge' = bridge
      /\ rewards' = rewards /\ srcMode' = srcMode /\ importedTarget' = importedTarget
      /\ sent' = sent /\ dispatcherActive' = dispatcherActive /\ tgtMode' = tgtMode
      /\ importedSource' = importedSource /\ dispatched' = dispatched
  BY DEF CloseTargetBridge, sourceVars
<1>6. TypeOK'
  BY <1>0, <1>2, <1>5 DEF TypeOK
<1>7. TargetEndInv'
  BY <1>0, <1>3, <1>4, <1>5 DEF TargetEndInv
<1> QED
  BY <1>0, <1>5, <1>6, <1>7, SourceEndUnchanged DEF EndsInv

\* Headers and flags belong to neither end.
LEMMA OtherEnds ==
    ASSUME EndsInv, Import \/ Govern
    PROVE  EndsInv'
<1>0. TypeOK /\ SourceEndInv /\ TargetEndInv
  BY DEF EndsInv
<1>1. CASE ImportSourceHeader
  <2> DEFINE header == [lane |-> outLane, messages |-> outMessages]
  <2>1. header \in SourceHeader /\ importedSource \in Seq(SourceHeader)
    BY <1>0 DEF TypeOK, SourceHeader
  <2>2. importedSource' = WithHeader(importedSource, header)
    BY <1>1 DEF ImportSourceHeader
  <2> HIDE DEF header
  <2>3. importedSource' \in Seq(SourceHeader)
    BY <2>1, <2>2, WithHeaderElements
  <2>4. UNCHANGED <<outLane, outMessages, bridge, rewards, srcMode, importedTarget, sent,
                    inLane, dispatcherActive, tgtMode, dispatched>>
    BY <1>1 DEF ImportSourceHeader, sourceVars
  <2>5. TypeOK'
    BY <1>0, <2>3, <2>4 DEF TypeOK
  <2> QED
    BY <1>0, <2>4, <2>5, SourceEndUnchanged, TargetEndUnchanged DEF EndsInv
<1>2. CASE ImportTargetHeader
  <2>1. inLane \in InboundLaneData /\ importedTarget \in Seq(InboundLaneData)
    BY <1>0 DEF TypeOK
  <2>2. importedTarget' = WithHeader(importedTarget, inLane)
    BY <1>2 DEF ImportTargetHeader
  <2>3. importedTarget' \in Seq(InboundLaneData)
    BY <2>1, <2>2, WithHeaderElements
  <2>4. UNCHANGED <<outLane, outMessages, bridge, rewards, srcMode, sent,
                    inLane, dispatcherActive, tgtMode, importedSource, dispatched>>
    BY <1>2 DEF ImportTargetHeader, targetVars
  <2>5. TypeOK'
    BY <1>0, <2>3, <2>4 DEF TypeOK
  <2> QED
    BY <1>0, <2>4, <2>5, SourceEndUnchanged, TargetEndUnchanged DEF EndsInv
<1>3. CASE Govern
  <2>1. /\ UNCHANGED <<outLane, outMessages, bridge, rewards, importedTarget, sent,
                       inLane, importedSource, dispatched>>
        /\ srcMode' \in {srcMode} \cup OperatingModes
        /\ tgtMode' \in {tgtMode} \cup OperatingModes
        /\ dispatcherActive' \in {dispatcherActive} \cup BOOLEAN
    BY <1>3 DEF Govern, SetSourceMode, SetTargetMode, SetDispatcherActive, sourceVars, targetVars
  <2>2. TypeOK'
    BY <1>0, <2>1 DEF TypeOK
  <2> QED
    BY <1>0, <2>1, <2>2, SourceEndUnchanged, TargetEndUnchanged DEF EndsInv
<1> QED
  BY <1>1, <1>2, <1>3 DEF Import

LEMMA NextEnds == EndsInv /\ [Next]_vars => EndsInv'
<1> SUFFICES ASSUME EndsInv, [Next]_vars PROVE EndsInv'
  OBVIOUS
<1>1. CASE Send
  BY <1>1, SendEnds DEF Send
<1>2. CASE Deliver
  BY <1>2, DeliverEnds DEF Deliver
<1>3. CASE Confirm
  BY <1>3, ConfirmEnds DEF Confirm
<1>4. CASE Close
  <2>1. \A mayPrune \in 0 .. MaxNonce : mayPrune \in Nat
    BY MaxNonceAssumption
  <2> QED
    BY <1>4, <2>1, CloseEnds, CloseTargetEnds DEF Close
<1>5. CASE Import \/ Govern
  BY <1>5, OtherEnds
<1>6. CASE UNCHANGED vars
  <2>1. UNCHANGED <<outLane, outMessages, bridge, rewards, srcMode, importedTarget, sent,
                    inLane, dispatcherActive, tgtMode, importedSource, dispatched>>
    BY <1>6 DEF vars
  <2>2. TypeOK'
    BY <2>1 DEF EndsInv, TypeOK
  <2> QED
    BY <2>1, <2>2, SourceEndUnchanged, TargetEndUnchanged DEF EndsInv
<1> QED
  BY <1>1, <1>2, <1>3, <1>4, <1>5, <1>6 DEF Next, Service

\* A purged lane has no message left: whatever it stored is below the oldest
\* unpruned nonce, and that is above the last generated one.
LEMMA PurgedIsEmpty == SourceEndInv => NoTraces
  BY DEF SourceEndInv, PrunedBelowOldest, UnprunedMessages, NoTraces

LEMMA OpenEnds ==
    ASSUME EndsInv, OpenBridge
    PROVE  EndsInv'
<1>0. TypeOK /\ SourceEndInv /\ TargetEndInv
  BY DEF EndsInv
<1>1. /\ outLane.state = "Absent"
      /\ outLane' = OutboundLaneOpened /\ bridge' = "Opened" /\ sent' = <<>>
      /\ outMessages' = outMessages /\ rewards' = rewards /\ srcMode' = srcMode
      /\ importedTarget' = importedTarget
      /\ inLane' = inLane /\ dispatcherActive' = dispatcherActive /\ tgtMode' = tgtMode
      /\ importedSource' = importedSource /\ dispatched' = dispatched
  BY DEF OpenBridge, targetVars
<1>2. /\ outLane' \in OutboundLaneData /\ outLane'.state = "Opened"
      /\ outLane'.oldest_unpruned_nonce = 1
      /\ outLane'.latest_received_nonce = 0
      /\ outLane'.latest_generated_nonce = 0
  BY <1>1 DEF OutboundLaneOpened, OutboundLaneData, LaneStates
<1>3. \A n \in Nonces : outMessages[n] = NoMessage
  BY <1>0, <1>1, PurgedIsEmpty DEF NoTraces
<1>4. TypeOK'
  BY <1>0, <1>1, <1>2 DEF TypeOK, BridgeStates
<1>5. SourceEndInv'
  <2>1. Len(sent') = 0
    BY <1>1
  <2>2. PrunedBelowOldest' /\ StoredWereSent(outMessages', sent') /\ NothingLost'
    BY <1>1, <1>2, <1>3 DEF PrunedBelowOldest, StoredWereSent, NothingLost
  <2> QED
    BY <1>1, <1>2, <2>1, <2>2, MaxNonceAssumption DEF SourceEndInv
<1> QED
  BY <1>0, <1>1, <1>4, <1>5, TargetEndUnchanged DEF EndsInv

LEMMA OpenTargetEnds ==
    ASSUME EndsInv, OpenTargetBridge
    PROVE  EndsInv'
<1>0. TypeOK /\ SourceEndInv /\ TargetEndInv
  BY DEF EndsInv
<1>1. /\ inLane' = InboundLaneOpened /\ dispatched' = <<>>
      /\ dispatcherActive' = dispatcherActive /\ tgtMode' = tgtMode
      /\ importedSource' = importedSource
      /\ outLane' = outLane /\ outMessages' = outMessages /\ bridge' = bridge
      /\ rewards' = rewards /\ srcMode' = srcMode /\ importedTarget' = importedTarget
      /\ sent' = sent
  BY DEF OpenTargetBridge, sourceVars
<1>2. /\ inLane' \in InboundLaneData
      /\ inLane'.last_confirmed_nonce = 0 /\ inLane'.relayers = <<>>
      /\ LastDeliveredNonce(inLane') = 0
  BY <1>1 DEF InboundLaneOpened, InboundLaneData, LastDeliveredNonce
<1>3. TypeOK'
  BY <1>0, <1>1, <1>2 DEF TypeOK
<1>4. TargetEndInv'
  <2>1. WellFormed(inLane')
    <3>1. Len(inLane'.relayers) = 0 /\ DOMAIN inLane'.relayers = {}
      BY <1>2
    <3> QED
      BY <1>2, <3>1, LimitsAssumption DEF WellFormed
  <2>2. Len(dispatched') = 0 /\ DOMAIN dispatched' = {}
    BY <1>1
  <2> QED
    BY <1>2, <2>1, <2>2 DEF TargetEndInv
<1> QED
  BY <1>0, <1>1, <1>3, <1>4, SourceEndUnchanged DEF EndsInv

\* close_bridge leaves no message behind for the next lifetime to inherit.
THEOREM PurgeLeavesNoTraces == Spec => []NoTraces
<1>1. EndsInv => NoTraces
  BY PurgedIsEmpty DEF EndsInv
<1> QED
  BY <1>1, EndsInitially, NextEnds, PTL DEF Spec

\* However often the two ends are closed and opened, and whatever proofs of
\* former lifetimes reach them, each end stays sound by itself: the source
\* keeps what it has not been shown to be received and nothing else, and the
\* target dispatches consecutive nonces and records who delivered them.
THEOREM EachEndStaysSound == ReopeningSpec => []EndsInv
<1>1. ReopeningInit => EndsInv
  BY EndsInitially DEF ReopeningInit
<1>2. EndsInv /\ [ReopeningNext]_lifetimeVars => EndsInv'
  <2> SUFFICES ASSUME EndsInv, [ReopeningNext]_lifetimeVars PROVE EndsInv'
    OBVIOUS
  <2>1. CASE LaneStep \/ UNCHANGED lifetimeVars
    BY <2>1, NextEnds DEF LaneStep, lifetimeVars
  <2> QED
    BY <2>1, OpenEnds, OpenTargetEnds DEF ReopeningNext
<1> QED
  BY <1>1, <1>2, PTL DEF ReopeningSpec
=============================================================================
