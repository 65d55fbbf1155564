---------------------------- MODULE LaneTheorems ----------------------------
(***************************************************************************)
(* What the proofs of several components rest on: the operations of the    *)
(* inbound lane keep its shape, for every lane, relayer and limit; and     *)
(* facts about sums.                                                       *)
(***************************************************************************)
EXTENDS InboundLane, Functions, FiniteSetTheorems, WellFoundedInduction, SequenceTheorems, TLAPS

\* A non-empty set of naturals has a least element.  This is the induction
\* that the while loop of receive_state_update needs.
LEMMA LeastElement ==
    ASSUME NEW T \in SUBSET Nat, T # {}
    PROVE  \E m \in T : \A y \in T : m <= y
<1> DEFINE R == OpToRel(<, Nat)
<1>1. IsWellFoundedOn(R, Nat)
  BY NatLessThanWellFounded, Zenon
<1>2. \A a, b \in Nat : a < b => <<a, b>> \in R
  BY DEF OpToRel
<1> HIDE DEF R
<1>3. PICK m \in T : \A y \in T : ~ (<<y, m>> \in R)
  BY <1>1, WFMin, Zenon
<1>4. \A y \in T : ~ (y < m)
  BY <1>2, <1>3
<1> QED
  BY <1>4

\* What the type of the unrewarded relayers queue says of its entries.
LEMMA EntryTypes ==
    ASSUME NEW relayers \in Seq(UnrewardedRelayer)
    PROVE  /\ Len(relayers) \in Nat
           /\ DOMAIN relayers = 1 .. Len(relayers)
           /\ relayers = <<>> <=> Len(relayers) = 0
           /\ \A i \in 1 .. Len(relayers) :
                /\ relayers[i] \in UnrewardedRelayer
                /\ relayers[i].relayer \in Relayers
                /\ relayers[i].begin \in Nat
                /\ relayers[i].end \in Nat
<1>1. \A i \in 1 .. Len(relayers) : relayers[i] \in UnrewardedRelayer
  BY ElementOfSeq
<1>2. \A e \in UnrewardedRelayer : e.relayer \in Relayers /\ e.begin \in Nat /\ e.end \in Nat
  BY DEF UnrewardedRelayer
<1>3. Len(relayers) \in Nat /\ DOMAIN relayers = 1 .. Len(relayers)
  BY LenProperties
<1>4. relayers = <<>> <=> Len(relayers) = 0
  BY EmptySeq
<1> QED
  BY <1>1, <1>2, <1>3, <1>4

\* The while loop of receive_state_update stops, at the first entry that ends
\* above the confirmed nonce or at the end of the queue.
LEMMA PoppedEntriesDefined ==
    ASSUME NEW relayers \in Seq(UnrewardedRelayer), NEW confirmed \in Nat
    PROVE  LET k == PoppedEntries(relayers, confirmed)
           IN  /\ k \in 0 .. Len(relayers)
               /\ \A i \in 1 .. k : relayers[i].end <= confirmed
               /\ k < Len(relayers) => relayers[k + 1].end > confirmed
<1> DEFINE Stops(k) == /\ \A i \in 1 .. k : relayers[i].end <= confirmed
                       /\ k < Len(relayers) => relayers[k + 1].end > confirmed
           T == {i \in 1 .. Len(relayers) : relayers[i].end > confirmed}
<1>1. Len(relayers) \in Nat /\ \A i \in 1 .. Len(relayers) : relayers[i].end \in Nat
  BY EntryTypes
<1>2. \E k \in 0 .. Len(relayers) : Stops(k)
  <2>1. CASE T = {}
    <3>1. Stops(Len(relayers))
      BY <1>1, <2>1
    <3> QED
      BY <1>1, <3>1
  <2>2. CASE T # {}
    <3>1. T \in SUBSET Nat
      BY <1>1
    <3>2. PICK m \in T : \A y \in T : m <= y
      BY <2>2, <3>1, LeastElement
    <3>3. m - 1 \in 0 .. Len(relayers) /\ Stops(m - 1)
      BY <1>1, <3>2
    <3> QED
      BY <3>3
  <2> QED
    BY <2>1, <2>2
<1> QED
  BY <1>2 DEF PoppedEntries
\* The last delivered nonce is a nonce, whether or not entries are left.
LEMMA LastDeliveredType ==
    ASSUME NEW data \in InboundLaneData
    PROVE  /\ data.relayers \in Seq(UnrewardedRelayer)
           /\ data.last_confirmed_nonce \in Nat
           /\ data.state \in {"Opened", "Closed", "Absent"}
           /\ LastDeliveredNonce(data) \in Nat
<1>1. /\ data.relayers \in Seq(UnrewardedRelayer)
      /\ data.last_confirmed_nonce \in Nat
      /\ data.state \in {"Opened", "Closed", "Absent"}
  BY DEF InboundLaneData
<1>2. data.relayers # <<>> => data.relayers[Len(data.relayers)].end \in Nat
  BY <1>1, EntryTypes
<1> QED
  BY <1>1, <1>2 DEF LastDeliveredNonce

\* The last delivered nonce of a well formed lane is not below the confirmed
\* one, and equals it only when no entry is left.
LEMMA LastDeliveredAboveConfirmed ==
    ASSUME NEW data \in InboundLaneData, WellFormed(data)
    PROVE  /\ data.last_confirmed_nonce <= LastDeliveredNonce(data)
           /\ data.relayers # <<>> => data.last_confirmed_nonce < LastDeliveredNonce(data)
<1> DEFINE entries == data.relayers
<1>1. entries \in Seq(UnrewardedRelayer) /\ data.last_confirmed_nonce \in Nat
  BY LastDeliveredType
<1>2. CASE entries = <<>>
  BY <1>1, <1>2 DEF LastDeliveredNonce
<1>3. CASE entries # <<>>
  <2>1. Len(entries) \in Nat /\ Len(entries) # 0 /\ 1 \in DOMAIN entries
    BY <1>1, <1>3, EntryTypes
  <2>2. entries[1].begin = data.last_confirmed_nonce + 1
    BY <1>3 DEF WellFormed
  <2>3. entries[1].begin <= entries[1].end /\ entries[1].end <= LastDeliveredNonce(data)
    BY <2>1 DEF WellFormed
  <2>4. entries[1].end \in Nat /\ LastDeliveredNonce(data) \in Nat
    BY <1>1, <2>1, EntryTypes, LastDeliveredType
  <2> QED
    BY <1>1, <2>2, <2>3, <2>4
<1> QED
  BY <1>2, <1>3
\* A trimmed entry keeps its relayer and its end.
LEMMA TrimmedEntryFields ==
    ASSUME NEW entry \in UnrewardedRelayer, NEW confirmed \in Nat
    PROVE  LET new == TrimmedEntry(entry, confirmed)
           IN  /\ new \in UnrewardedRelayer
               /\ new.relayer = entry.relayer
               /\ new.end = entry.end
               /\ new.begin = IF entry.begin <= confirmed THEN confirmed + 1
                              ELSE entry.begin
BY DEF TrimmedEntry, UnrewardedRelayer

\* The queue that receive_state_update leaves, entry by entry.
LEMMA TrimmedRelayersFields ==
    ASSUME NEW relayers \in Seq(UnrewardedRelayer), NEW confirmed \in Nat
    PROVE  LET popped == PoppedEntries(relayers, confirmed)
               new == TrimmedRelayers(relayers, confirmed)
           IN  /\ new \in Seq(UnrewardedRelayer)
               /\ Len(new) = Len(relayers) - popped
               /\ \A i \in 1 .. Len(new) :
                    new[i] = IF i = 1 THEN TrimmedEntry(relayers[popped + 1], confirmed)
                             ELSE relayers[popped + i]
<1> DEFINE popped == PoppedEntries(relayers, confirmed)
           len == Len(relayers) - popped
           new == TrimmedRelayers(relayers, confirmed)
<1>1. Len(relayers) \in Nat /\ popped \in 0 .. Len(relayers) /\ len \in Nat
  BY EntryTypes, PoppedEntriesDefined
<1>2. new = [i \in 1 .. len |->
               IF i = 1 THEN TrimmedEntry(relayers[popped + 1], confirmed)
               ELSE relayers[popped + i]]
  BY DEF TrimmedRelayers
<1>3. ASSUME NEW i \in 1 .. len
      PROVE  /\ relayers[popped + i] \in UnrewardedRelayer
             /\ i = 1 => TrimmedEntry(relayers[popped + 1], confirmed) \in UnrewardedRelayer
  <2>1. popped + i \in 1 .. Len(relayers)
    BY <1>1
  <2> HIDE DEF popped
  <2>2. relayers[popped + i] \in UnrewardedRelayer
    BY <2>1, ElementOfSeq
  <2> QED
    BY <2>2, TrimmedEntryFields
<1> HIDE DEF popped, len, new
<1>4. new \in [1 .. len -> UnrewardedRelayer]
  BY <1>2, <1>3
<1>5. new \in Seq(UnrewardedRelayer) /\ Len(new) = len
  BY <1>1, <1>4, SeqDef
<1> QED
  BY <1>2, <1>5 DEF popped, len, new
(***************************************************************************)
(* Each entry of new is, for the same relayer, part of an entry of old     *)
(* with the same end.                                                      *)
(***************************************************************************)
EntriesWithin(new, old) ==
    \A i \in DOMAIN new : \E j \in DOMAIN old :
        /\ new[i].relayer = old[j].relayer
        /\ old[j].begin <= new[i].begin
        /\ new[i].end = old[j].end

\* receive_state_update keeps a lane well formed, never changes what has been
\* delivered or to whom it is owed, and moves the confirmed nonce only forward
\* and only up to what has been delivered.
THEOREM StateUpdateCorrect ==
    ASSUME NEW data \in InboundLaneData, NEW received \in Nat, WellFormed(data)
    PROVE  LET new == ReceiveStateUpdate(data, received)
           IN  /\ new \in InboundLaneData
               /\ WellFormed(new)
               /\ LastDeliveredNonce(new) = LastDeliveredNonce(data)
               /\ new.state = data.state
               /\ \/ new.last_confirmed_nonce = data.last_confirmed_nonce
                  \/ new.last_confirmed_nonce = received
               /\ new.last_confirmed_nonce >= data.last_confirmed_nonce
               /\ EntriesWithin(new.relayers, data.relayers)
<1> DEFINE new == ReceiveStateUpdate(data, received)
           old == data.relayers
           delivered == LastDeliveredNonce(data)
<1>1. /\ old \in Seq(UnrewardedRelayer)
      /\ data.last_confirmed_nonce \in Nat
      /\ delivered \in Nat
  BY LastDeliveredType
<1>2. /\ Len(old) \in Nat
      /\ DOMAIN old = 1 .. Len(old)
      /\ old = <<>> <=> Len(old) = 0
      /\ \A i \in 1 .. Len(old) :
           old[i].relayer \in Relayers /\ old[i].begin \in Nat /\ old[i].end \in Nat
  BY <1>1, EntryTypes
<1>3. CASE received > delivered \/ received <= data.last_confirmed_nonce
  <2>1. new = data
    BY <1>3 DEF ReceiveStateUpdate
  <2>2. EntriesWithin(old, old)
    BY <1>2 DEF EntriesWithin
  <2> QED
    BY <1>1, <2>1, <2>2
<1>4. CASE received <= delivered /\ received > data.last_confirmed_nonce
  <2> DEFINE popped == PoppedEntries(old, received)
             entries == TrimmedRelayers(old, received)
  <2>1. new = [data EXCEPT !.last_confirmed_nonce = received, !.relayers = entries]
    BY <1>1, <1>4 DEF ReceiveStateUpdate
  <2>2. /\ popped \in 0 .. Len(old)
        /\ \A i \in 1 .. popped : old[i].end <= received
        /\ popped < Len(old) => old[popped + 1].end > received
    BY <1>1, PoppedEntriesDefined
  <2>3. /\ entries \in Seq(UnrewardedRelayer)
        /\ Len(entries) = Len(old) - popped
        /\ \A i \in 1 .. Len(entries) :
             entries[i] = IF i = 1 THEN TrimmedEntry(old[popped + 1], received)
                          ELSE old[popped + i]
    BY <1>1, TrimmedRelayersFields
  <2>4. /\ new \in InboundLaneData
        /\ new.relayers = entries
        /\ new.last_confirmed_nonce = received
        /\ new.state = data.state
    BY <2>1, <2>3 DEF InboundLaneData
  <2> HIDE DEF popped, entries, new
  <2>5. /\ Len(entries) \in Nat
        /\ DOMAIN entries = 1 .. Len(entries)
        /\ entries = <<>> <=> Len(entries) = 0
    BY <2>3, EntryTypes
  <2>6. old # <<>> /\ delivered = old[Len(old)].end
    BY <1>1, <1>4 DEF LastDeliveredNonce
  <2>7. /\ old[1].begin = data.last_confirmed_nonce + 1
        /\ Len(old) <= MaxUnrewardedRelayers
        /\ delivered <= data.last_confirmed_nonce + MaxUnconfirmedMessages
        /\ \A i \in 1 .. Len(old) :
             /\ old[i].begin <= old[i].end
             /\ i > 1 => old[i].begin = old[i - 1].end + 1
             /\ old[i].end <= delivered
    BY <1>2, <2>6 DEF WellFormed
  <2>8. ASSUME NEW i \in 1 .. Len(entries)
        PROVE  /\ popped + i \in 1 .. Len(old)
               /\ entries[i].relayer = old[popped + i].relayer
               /\ entries[i].end = old[popped + i].end
               /\ i = 1 => entries[i].begin = received + 1
               /\ i > 1 => entries[i].begin = old[popped + i].begin
               /\ old[popped + i].begin <= entries[i].begin
    <3>1. popped + i \in 1 .. Len(old)
      BY <1>2, <2>2, <2>3, <2>5
    <3>2. old[popped + i] \in UnrewardedRelayer
      BY <1>1, <3>1, ElementOfSeq
    <3>3. CASE i > 1
      BY <1>2, <2>3, <3>1, <3>3
    <3>4. CASE i = 1
      <4>1. entries[1] = TrimmedEntry(old[popped + 1], received)
        BY <2>3, <3>4
      <4>2. /\ entries[1].relayer = old[popped + 1].relayer
            /\ entries[1].end = old[popped + 1].end
            /\ entries[1].begin = IF old[popped + 1].begin <= received THEN received + 1
                                  ELSE old[popped + 1].begin
        <5>1. old[popped + 1] \in UnrewardedRelayer
          BY <3>2, <3>4
        <5>2. PICK e \in UnrewardedRelayer : e = old[popped + 1]
          BY <5>1
        <5>3. LET t == TrimmedEntry(e, received)
              IN  /\ t.relayer = e.relayer
                  /\ t.end = e.end
                  /\ t.begin = IF e.begin <= received THEN received + 1 ELSE e.begin
          BY TrimmedEntryFields
        <5> QED
          BY <4>1, <5>2, <5>3
      <4>3. old[popped + 1].begin <= received + 1
        <5>1. CASE popped = 0
          BY <1>1, <1>4, <2>7, <5>1
        <5>2. CASE popped > 0
          <6>1. popped \in 1 .. Len(old) /\ popped + 1 \in 1 .. Len(old)
            BY <1>2, <2>2, <3>1, <3>4, <5>2
          <6>2. old[popped].end <= received
            BY <1>2, <2>2, <6>1
          <6>3. old[popped + 1].begin = old[(popped + 1) - 1].end + 1
            BY <2>7, <6>1
          <6> QED
            BY <1>2, <6>1, <6>2, <6>3
        <5> QED
          BY <2>2, <5>1, <5>2
      <4> QED
        BY <1>2, <3>1, <3>4, <4>2, <4>3
    <3> QED
      BY <3>1, <3>3, <3>4
  <2>9. LastDeliveredNonce(new) = delivered
    <3>1. CASE popped = Len(old)
      <4>1. entries = <<>> /\ LastDeliveredNonce(new) = received
        BY <1>2, <2>3, <2>4, <2>5, <3>1 DEF LastDeliveredNonce
      <4>2. old[Len(old)].end <= received
        BY <1>2, <2>2, <2>6, <3>1
      <4> QED
        BY <1>1, <1>4, <2>6, <4>1, <4>2
    <3>2. CASE popped < Len(old)
      <4>1. Len(entries) \in 1 .. Len(entries) /\ popped + Len(entries) = Len(old)
        BY <1>2, <2>2, <2>3, <2>5, <3>2
      <4>2. entries[Len(entries)].end = old[Len(old)].end
        BY <2>8, <4>1
      <4> QED
        BY <2>4, <2>5, <2>6, <4>1, <4>2 DEF LastDeliveredNonce
    <3> QED
      BY <1>2, <2>2, <3>1, <3>2
  <2>10. ASSUME NEW i \in 1 .. Len(entries)
         PROVE  /\ entries[i].begin <= entries[i].end
                /\ i > 1 => entries[i].begin = entries[i - 1].end + 1
                /\ entries[i].end <= delivered
    <3>1. CASE i = 1
      <4>1. popped < Len(old) /\ entries[1].begin = received + 1 /\
            entries[1].end = old[popped + 1].end /\ popped + 1 \in 1 .. Len(old)
        BY <1>2, <2>2, <2>8, <3>1
      <4> QED
        BY <1>1, <1>2, <2>2, <2>7, <3>1, <4>1
    <3>2. CASE i > 1
      <4>1. /\ i - 1 \in 1 .. Len(entries)
            /\ popped + i \in 1 .. Len(old)
            /\ popped + (i - 1) = (popped + i) - 1
            /\ popped + i > 1
        BY <1>2, <2>2, <2>3, <2>5, <3>2
      <4>2. entries[i - 1].end = old[(popped + i) - 1].end
        BY <2>8, <4>1
      <4>3. entries[i].begin = old[popped + i].begin /\ entries[i].end = old[popped + i].end
        BY <2>8, <3>2
      <4> QED
        BY <2>7, <3>2, <4>1, <4>2, <4>3
    <3> QED
      BY <2>5, <3>1, <3>2
  <2>11. ASSUME NEW n \in received + 1 .. delivered
         PROVE  \E i \in 1 .. Len(entries) : n \in entries[i].begin .. entries[i].end
    <3>0. n \in data.last_confirmed_nonce + 1 .. delivered
      BY <1>1, <1>4
    <3>1. PICK j \in 1 .. Len(old) : n \in old[j].begin .. old[j].end
      <4>1. \A m \in data.last_confirmed_nonce + 1 .. delivered :
              \E j \in DOMAIN old : m \in old[j].begin .. old[j].end
        BY Zenon DEF WellFormed
      <4> HIDE DEF old, delivered
      <4> QED
        BY <1>2, <3>0, <4>1
    <3>2. j > popped
      BY <1>1, <1>2, <2>2, <3>1
    <3>3. j - popped \in 1 .. Len(entries) /\ popped + (j - popped) = j
      BY <1>2, <2>2, <2>3, <2>5, <3>1, <3>2
    <3>4. /\ entries[j - popped].end = old[j].end
          /\ j - popped = 1 => entries[j - popped].begin = received + 1
          /\ j - popped > 1 => entries[j - popped].begin = old[j].begin
      BY <2>8, <3>3
    <3> QED
      BY <1>1, <1>2, <2>5, <3>1, <3>3, <3>4
  <2>12. entries # <<>> => entries[1].begin = received + 1
    BY <2>5, <2>8
  <2>13. WellFormed(new)
    <3>1. Len(entries) <= MaxUnrewardedRelayers
      BY <1>2, <2>2, <2>3, <2>7, LimitsAssumption
    <3>2. delivered <= received + MaxUnconfirmedMessages
      BY <1>1, <1>4, <2>7, LimitsAssumption
    <3> QED
      BY <2>4, <2>5, <2>9, <2>10, <2>11, <2>12, <3>1, <3>2 DEF WellFormed
  <2>14. EntriesWithin(entries, old)
    BY <1>2, <2>5, <2>8 DEF EntriesWithin
  <2> QED
    BY <1>1, <1>4, <2>4, <2>9, <2>13, <2>14 DEF new
<1> QED
  BY <1>1, <1>3, <1>4
\* A batch is accepted from the next nonce on, within the proof and the limit
\* on unconfirmed messages, and only while there is room for an entry.
LEMMA LastAcceptedRange ==
    ASSUME NEW data \in InboundLaneData, WellFormed(data), NEW relayer \in Relayers,
           NEW start \in Nat, NEW end \in Nat
    PROVE  LET delivered == LastDeliveredNonce(data)
               accepted == LastAccepted(data, relayer, start, end)
           IN  /\ accepted \in Nat
               /\ delivered <= accepted
               /\ accepted # delivered =>
                    /\ start <= delivered + 1
                    /\ accepted <= end
                    /\ Len(data.relayers) < MaxUnrewardedRelayers
                    /\ accepted <= data.last_confirmed_nonce + MaxUnconfirmedMessages
<1> DEFINE delivered == LastDeliveredNonce(data)
           accepted == LastAccepted(data, relayer, start, end)
           mayConfirm == data.last_confirmed_nonce + MaxUnconfirmedMessages
           lastOfBatch == IF /\ Len(data.relayers) + 1 >= MaxUnrewardedRelayers
                             /\ ~ ExtendsLastEntry(data, relayer)
                          THEN delivered + 1 ELSE end
<1>1. delivered \in Nat /\ mayConfirm \in Nat /\ data.last_confirmed_nonce \in Nat
  BY LastDeliveredType, LimitsAssumption
<1>2. CASE \/ delivered + 1 \notin start .. end
           \/ ~ CanReceive(data, delivered + 1)
  <2>1. accepted = delivered
    BY <1>2 DEF LastAccepted
  <2> QED
    BY <1>1, <2>1
<1>3. CASE delivered + 1 \in start .. end /\ CanReceive(data, delivered + 1)
  <2>1. accepted = IF lastOfBatch <= mayConfirm THEN lastOfBatch ELSE mayConfirm
    BY <1>3 DEF LastAccepted
  <2>2. /\ Len(data.relayers) < MaxUnrewardedRelayers
        /\ (delivered + 1) - data.last_confirmed_nonce <= MaxUnconfirmedMessages
    BY <1>3 DEF CanReceive
  <2>3. lastOfBatch \in delivered + 1 .. end
    BY <1>1, <1>3
  <2> HIDE DEF delivered, accepted, lastOfBatch
  <2>4. delivered + 1 <= mayConfirm
    BY <1>1, <2>2, LimitsAssumption
  <2>5. /\ accepted \in Nat /\ delivered <= accepted /\ start <= delivered + 1
        /\ accepted <= end /\ accepted <= mayConfirm
    BY <1>1, <1>3, <2>1, <2>3, <2>4
  <2> QED
    BY <2>2, <2>5 DEF delivered, accepted
<1> QED
  BY <1>2, <1>3
(***************************************************************************)
(* The entries of new hold, for the messages up to delivered, the relayers *)
(* that the entries of old held, and relayer for the messages after.       *)
(***************************************************************************)
EntriesExtend(new, old, delivered, relayer) ==
    \A i \in DOMAIN new : \A n \in new[i].begin .. new[i].end :
        IF n > delivered
        THEN new[i].relayer = relayer
        ELSE \E j \in DOMAIN old :
                /\ new[i].relayer = old[j].relayer
                /\ n \in old[j].begin .. old[j].end

\* The queue with one entry more, or with its last entry grown, is still
\* consecutive, covers what was accepted and owes it to the right relayer.
LEMMA ReceiveMessagesEntries ==
    ASSUME NEW data \in InboundLaneData, WellFormed(data), NEW relayer \in Relayers,
           NEW start \in Nat, NEW end \in Nat,
           LastAccepted(data, relayer, start, end) # LastDeliveredNonce(data)
    PROVE  LET delivered == LastDeliveredNonce(data)
               accepted == LastAccepted(data, relayer, start, end)
               new == ReceiveMessages(data, relayer, start, end)
               k == Len(new.relayers)
           IN  /\ new \in InboundLaneData
               /\ new.last_confirmed_nonce = data.last_confirmed_nonce
               /\ new.state = data.state
               /\ k \in {Len(data.relayers), Len(data.relayers) + 1} /\ k > 0
               /\ \A i \in 1 .. k - 1 : new.relayers[i] = data.relayers[i]
               /\ new.relayers[k].relayer = relayer
               /\ new.relayers[k].end = accepted
               /\ \/ /\ k = Len(data.relayers) + 1
                     /\ new.relayers[k].begin = delivered + 1
                  \/ /\ k = Len(data.relayers)
                     /\ data.relayers[k].relayer = relayer
                     /\ new.relayers[k].begin = data.relayers[k].begin
<1> DEFINE delivered == LastDeliveredNonce(data)
           accepted == LastAccepted(data, relayer, start, end)
           new == ReceiveMessages(data, relayer, start, end)
           old == data.relayers
           len == Len(old)
<1>1. old \in Seq(UnrewardedRelayer) /\ delivered \in Nat /\ accepted \in Nat
  BY LastDeliveredType, LastAcceptedRange
<1>2. len \in Nat /\ (old = <<>> <=> len = 0)
  BY <1>1, EntryTypes
<1>3. CASE ExtendsLastEntry(data, relayer)
  <2> DEFINE last == [old[len] EXCEPT !.end = accepted]
  <2>1. len \in 1 .. len /\ old[len].relayer = relayer
    BY <1>2, <1>3 DEF ExtendsLastEntry
  <2>2. new = [data EXCEPT !.relayers = [old EXCEPT ![len] = last]]
    BY <1>3 DEF ReceiveMessages
  <2>3. old[len] \in UnrewardedRelayer
    BY <1>1, <2>1, ElementOfSeq
  <2>4. /\ last \in UnrewardedRelayer
        /\ last.relayer = relayer
        /\ last.end = accepted
        /\ last.begin = old[len].begin
    BY <1>1, <2>1, <2>3 DEF UnrewardedRelayer
  <2> HIDE DEF last, old
  <2>5. /\ [old EXCEPT ![len] = last] \in Seq(UnrewardedRelayer)
        /\ Len([old EXCEPT ![len] = last]) = len
        /\ \A j \in 1 .. len : [old EXCEPT ![len] = last][j] = IF j = len THEN last ELSE old[j]
    BY <1>1, <2>1, <2>4, ExceptSeq
  <2> DEFINE grown == [old EXCEPT ![len] = last]
  <2> HIDE DEF grown
  <2>6. /\ new \in InboundLaneData
        /\ new.relayers = grown
        /\ new.last_confirmed_nonce = data.last_confirmed_nonce
        /\ new.state = data.state
    BY <2>2, <2>5 DEF InboundLaneData, grown
  <2>7. /\ Len(grown) = len
        /\ \A j \in 1 .. len - 1 : grown[j] = old[j]
        /\ grown[len] = last
    <3>1. Len(grown) = len /\ \A j \in 1 .. len : grown[j] = IF j = len THEN last ELSE old[j]
      BY <2>5 DEF grown
    <3> HIDE DEF len
    <3> QED
      BY <1>2, <2>1, <3>1
  <2> QED
    BY <1>2, <2>1, <2>4, <2>6, <2>7 DEF old
<1>4. CASE ~ ExtendsLastEntry(data, relayer)
  <2> DEFINE last == [relayer |-> relayer, begin |-> delivered + 1, end |-> accepted]
             grown == Append(old, last)
  <2>1. new = [data EXCEPT !.relayers = grown]
    BY <1>4 DEF ReceiveMessages
  <2>2. last \in UnrewardedRelayer
    BY <1>1 DEF UnrewardedRelayer
  <2> HIDE DEF last, old
  <2>3. /\ grown \in Seq(UnrewardedRelayer)
        /\ Len(grown) = len + 1
        /\ \A j \in 1 .. len : grown[j] = old[j]
        /\ grown[len + 1] = last
    BY <1>1, <2>2, AppendProperties
  <2> HIDE DEF grown
  <2>4. /\ new \in InboundLaneData
        /\ new.relayers = grown
        /\ new.last_confirmed_nonce = data.last_confirmed_nonce
        /\ new.state = data.state
    BY <2>1, <2>3 DEF InboundLaneData
  <2>5. last.relayer = relayer /\ last.end = accepted /\ last.begin = delivered + 1
    BY DEF last
  <2>6. /\ len + 1 > 0
        /\ \A j \in 1 .. (len + 1) - 1 : grown[j] = old[j]
    BY <1>2, <2>3
  <2> QED
    BY <1>2, <2>3, <2>4, <2>5, <2>6 DEF old
<1> QED
  BY <1>3, <1>4
\* A batch of receive_message keeps a lane well formed and within its limits,
\* delivers up to the last accepted nonce and owes what is new to its relayer.
THEOREM ReceiveMessagesCorrect ==
    ASSUME NEW data \in InboundLaneData, WellFormed(data), NEW relayer \in Relayers,
           NEW start \in Nat, NEW end \in Nat
    PROVE  LET delivered == LastDeliveredNonce(data)
               accepted == LastAccepted(data, relayer, start, end)
               new == ReceiveMessages(data, relayer, start, end)
           IN  /\ new \in InboundLaneData
               /\ WellFormed(new)
               /\ LastDeliveredNonce(new) = accepted
               /\ new.last_confirmed_nonce = data.last_confirmed_nonce
               /\ new.state = data.state
               /\ EntriesExtend(new.relayers, data.relayers, delivered, relayer)
<1> DEFINE delivered == LastDeliveredNonce(data)
           accepted == LastAccepted(data, relayer, start, end)
           new == ReceiveMessages(data, relayer, start, end)
           old == data.relayers
           entries == new.relayers
           confirmed == data.last_confirmed_nonce
<1>1. /\ old \in Seq(UnrewardedRelayer) /\ delivered \in Nat
      /\ accepted \in Nat /\ confirmed \in Nat
  BY LastDeliveredType, LastAcceptedRange
<1>2. /\ Len(old) \in Nat
      /\ DOMAIN old = 1 .. Len(old)
      /\ old = <<>> <=> Len(old) = 0
      /\ \A i \in 1 .. Len(old) : old[i].begin \in Nat /\ old[i].end \in Nat
  BY <1>1, EntryTypes
<1>3. /\ old # <<>> => old[1].begin = confirmed + 1
      /\ \A i \in DOMAIN old :
           /\ old[i].begin <= old[i].end
           /\ i > 1 => old[i].begin = old[i - 1].end + 1
           /\ old[i].end <= delivered
  BY DEF WellFormed
<1>4. \A n \in confirmed + 1 .. delivered :
        \E i \in DOMAIN old : n \in old[i].begin .. old[i].end
  BY Zenon DEF WellFormed
<1>5. CASE accepted = delivered
  <2>1. new = data
    BY <1>5 DEF ReceiveMessages
  <2>2. EntriesExtend(old, old, delivered, relayer)
    <3> SUFFICES ASSUME NEW i \in DOMAIN old, NEW n \in old[i].begin .. old[i].end
                 PROVE  n <= delivered
      BY <1>1, <1>2 DEF EntriesExtend
    <3> QED
      BY <1>1, <1>2, <1>3
  <2> QED
    BY <1>5, <2>1, <2>2
<1>6. CASE accepted # delivered
  <2> DEFINE k == Len(entries)
  <2>1. /\ new \in InboundLaneData
        /\ new.last_confirmed_nonce = confirmed
        /\ new.state = data.state
        /\ k \in {Len(old), Len(old) + 1} /\ k > 0
        /\ \A i \in 1 .. k - 1 : entries[i] = old[i]
        /\ entries[k].relayer = relayer
        /\ entries[k].end = accepted
        /\ \/ k = Len(old) + 1 /\ entries[k].begin = delivered + 1
           \/ k = Len(old) /\ old[k].relayer = relayer /\ entries[k].begin = old[k].begin
    BY <1>6, ReceiveMessagesEntries
  <2>2. /\ delivered < accepted
        /\ Len(old) < MaxUnrewardedRelayers
        /\ accepted <= confirmed + MaxUnconfirmedMessages
    BY <1>1, <1>6, LastAcceptedRange
  <2>3. entries \in Seq(UnrewardedRelayer)
    BY <2>1, LastDeliveredType
  <2> HIDE DEF new, entries, accepted
  <2>4. k \in Nat /\ DOMAIN entries = 1 .. k /\ entries # <<>> /\ k \in 1 .. k
    BY <1>2, <2>1, <2>3, EntryTypes
  <2>5. LastDeliveredNonce(new) = accepted
    BY <2>1, <2>4 DEF LastDeliveredNonce, entries
  <2>6. delivered = IF old = <<>> THEN confirmed ELSE old[Len(old)].end
    BY DEF LastDeliveredNonce
  <2> HIDE DEF delivered, old, confirmed, k
  <2>7. \A i \in 1 .. k : entries[i].begin \in Nat /\ entries[i].end \in Nat
    BY <2>3, EntryTypes DEF k
  <2>8. k = Len(old) \/ k = Len(old) + 1
    BY <2>1
  <2>9. \A i \in 1 .. k : i < k => i \in 1 .. k - 1
    BY <2>4
  <2>10. \A i \in 1 .. k - 1 : i \in DOMAIN old
    BY <1>2, <2>4, <2>8
  <2>11. \A i \in 1 .. k : i < k => entries[i] = old[i] /\ i \in DOMAIN old
    BY <2>1, <2>9, <2>10
  <2>12. entries[k].begin <= delivered + 1 /\ entries[k].begin <= entries[k].end
    <3>1. CASE k = Len(old) + 1 /\ entries[k].begin = delivered + 1
      BY <1>1, <2>1, <2>2, <3>1
    <3>2. CASE k = Len(old) /\ entries[k].begin = old[k].begin
      <4>1. k \in DOMAIN old
        BY <1>2, <2>4, <3>2
      <4>2. old[k].begin <= old[k].end /\ old[k].end <= delivered
            /\ old[k].begin \in Nat /\ old[k].end \in Nat
        BY <1>2, <1>3, <4>1
      <4>3. entries[k].end = accepted
        BY <2>1
      <4> QED
        BY <1>1, <2>2, <3>2, <4>2, <4>3
    <3> QED
      BY <2>1, <3>1, <3>2
  <2>13. entries[1].begin = confirmed + 1
    <3>1. CASE k = 1
      BY <1>2, <1>3, <2>1, <2>6, <3>1
    <3>2. CASE k > 1
      <4>1. 1 \in 1 .. k /\ entries[1] = old[1] /\ 1 \in DOMAIN old
        BY <2>4, <2>11, <3>2
      <4> QED
        BY <1>2, <1>3, <4>1
    <3> QED
      BY <2>4, <3>1, <3>2
  <2>14. ASSUME NEW i \in 1 .. k
        PROVE  /\ entries[i].begin <= entries[i].end
               /\ i > 1 => entries[i].begin = entries[i - 1].end + 1
               /\ entries[i].end <= accepted
    <3>1. CASE i < k
      <4>1. entries[i] = old[i] /\ i \in DOMAIN old
        BY <2>11, <3>1
      <4>2. i > 1 => entries[i - 1] = old[i - 1]
        BY <2>4, <2>11, <3>1
      <4> QED
        BY <1>1, <1>2, <1>3, <2>2, <4>1, <4>2
    <3>2. CASE i = k /\ k = Len(old) + 1 /\ entries[k].begin = delivered + 1
      <4>1. i > 1 => entries[i - 1] = old[Len(old)] /\ old # <<>>
        BY <1>2, <2>1, <2>4, <3>2
      <4> QED
        BY <1>1, <2>1, <2>2, <2>6, <3>2, <4>1
    <3>3. CASE i = k /\ k = Len(old) /\ entries[k].begin = old[k].begin
      <4>1. k \in DOMAIN old
        BY <1>2, <2>4, <3>3
      <4>2. i > 1 => entries[i - 1] = old[i - 1]
        BY <2>4, <2>11, <3>3
      <4>3. entries[k].end = accepted
        BY <2>1
      <4> QED
        <5>1. i > 1 => old[i].begin = old[i - 1].end + 1
          BY <1>3, <3>3, <4>1
        <5>2. i > 1 => entries[i].begin = entries[i - 1].end + 1
          BY <3>3, <4>2, <5>1
        <5> QED
          BY <1>1, <2>12, <3>3, <4>3, <5>2
    <3> QED
      BY <2>1, <2>4, <3>1, <3>2, <3>3
  <2>15. ASSUME NEW n \in confirmed + 1 .. accepted
        PROVE  \E i \in 1 .. k : n \in entries[i].begin .. entries[i].end
    <3>1. CASE n > delivered
      <4>1. entries[k].begin <= n
        BY <1>1, <2>4, <2>7, <2>12, <3>1
      <4> QED
        BY <1>1, <2>1, <2>4, <2>7, <4>1
    <3>2. CASE n <= delivered
      <4>1. PICK j \in DOMAIN old : n \in old[j].begin .. old[j].end
        BY <1>1, <1>4, <3>2
      <4>2. j \in 1 .. k
        <5>1. j \in 1 .. Len(old) /\ Len(old) \in Nat /\ k \in Nat
          BY <1>2, <2>4
        <5> QED
          BY <2>8, <5>1
      <4>3. CASE j < k
        <5>1. entries[j] = old[j]
          BY <2>11, <4>2, <4>3
        <5> QED
          BY <4>1, <4>2, <5>1
      <4>4. CASE j = k
        <5>1. entries[k].begin = old[k].begin
          <6>1. k # Len(old) + 1
            BY <1>2, <4>4
          <6> QED
            BY <2>1, <6>1
        <5>2. entries[k].end = accepted
          BY <2>1
        <5>3. n \in entries[k].begin .. entries[k].end
          BY <1>1, <1>2, <2>2, <3>2, <4>1, <4>4, <5>1, <5>2
        <5> QED
          BY <2>4, <5>3
      <4> QED
        BY <2>4, <4>2, <4>3, <4>4
    <3> QED
      BY <1>1, <3>1, <3>2
  <2>16. WellFormed(new)
    <3>1. k <= MaxUnrewardedRelayers
      BY <1>2, <2>1, <2>2, LimitsAssumption
    <3> QED
      BY <2>1, <2>2, <2>4, <2>5, <2>13, <2>14, <2>15, <3>1 DEF WellFormed, entries, k
  <2>17. EntriesExtend(entries, old, delivered, relayer)
    <3> SUFFICES ASSUME NEW i \in 1 .. k, NEW n \in entries[i].begin .. entries[i].end
                 PROVE  IF n > delivered THEN entries[i].relayer = relayer
                        ELSE \E j \in DOMAIN old :
                                /\ entries[i].relayer = old[j].relayer
                                /\ n \in old[j].begin .. old[j].end
      BY <2>4 DEF EntriesExtend
    <3>1. CASE i < k
      <4>1. entries[i] = old[i] /\ i \in DOMAIN old
        BY <2>11, <3>1
      <4> QED
        BY <1>1, <1>2, <1>3, <4>1
    <3>2. CASE i = k
      <4>1. CASE n > delivered
        BY <2>1, <3>2, <4>1
      <4>2. CASE n <= delivered
        <5>1. k = Len(old) /\ old[k].relayer = relayer /\ entries[k].begin = old[k].begin
          BY <1>1, <2>1, <3>2, <4>2
        <5>2. k \in DOMAIN old /\ old[k].end = delivered
          BY <1>2, <2>4, <2>6, <5>1
        <5> QED
          BY <1>1, <1>2, <2>1, <3>2, <4>2, <5>1, <5>2
      <4> QED
        <5>1. n \in Int /\ delivered \in Int
          BY <1>1
        <5> QED
          BY <4>1, <4>2, <5>1
    <3> QED
      BY <2>4, <3>1, <3>2
  <2> QED
    BY <2>1, <2>5, <2>16, <2>17 DEF new, entries, accepted, delivered, old, confirmed
<1> QED
  BY <1>5, <1>6

-----------------------------------------------------------------------------
(***************************************************************************)
(* Sums of the values of a function over a finite set of indices, as the   *)
(* accounts of the pallets are summed up: SumFunctionOnSet is a recursive  *)
(* function over the subsets of the indices, and what proofs need of it is *)
(* that one index may be taken out, whichever it is.                       *)
(*                                                                         *)
(* Induction over subsets is by a minimal counterexample.                  *)
(***************************************************************************)

\* A property that some subset of a finite set lacks, a smallest one lacks.
LEMMA SmallestSubset ==
    ASSUME NEW S, IsFiniteSet(S), NEW T \in SUBSET SUBSET S, T # {}
    PROVE  \E s \in T : \A t \in T : t \subseteq s => t = s
<1>1. IsWellFoundedOn(StrictSubsetOrdering(S), SUBSET S)
  BY FS_FiniteSubsetsOfFinite, FS_StrictSubsetOrderingWellFounded
<1>2. PICK s \in T : \A t \in T : ~ (<<t, s>> \in StrictSubsetOrdering(S))
  BY <1>1, WFMin
<1>3. \A t \in T : t \subseteq s => t = s
  BY <1>2 DEF StrictSubsetOrdering
<1> QED
  BY <1>3

Choice(s) == CHOOSE x \in s : TRUE

\* sum is the function that the definition of SumFunctionOnSet describes.
IsSum(f, S, sum) ==
    sum = [s \in SUBSET S |-> IF s = {} THEN 0 ELSE f[Choice(s)] + sum[s \ {Choice(s)}]]

LEMMA SumDefinition ==
    ASSUME NEW f, NEW S
    PROVE  SumFunctionOnSet(f, S) = (CHOOSE sum : IsSum(f, S, sum))[S]
  BY Zenon DEF SumFunctionOnSet, FoldFunctionOnSet, MapThenFoldSet, IsSum, Choice

LEMMA ChoiceIsIn ==
    ASSUME NEW s, s # {}
    PROVE  Choice(s) \in s
  BY DEF Choice

\* What it says of every subset, with its consequences.
LEMMA SumAt ==
    ASSUME NEW f, NEW S, NEW sum, IsSum(f, S, sum)
    PROVE  DOMAIN sum = SUBSET S /\ sum[{}] = 0
  BY DEF IsSum

SumsUpAt(f, sum, s) == sum[s] = f[Choice(s)] + sum[s \ {Choice(s)}]

LEMMA SumStep ==
    ASSUME NEW f, NEW S, NEW sum, IsSum(f, S, sum), NEW s \in SUBSET S, s # {}
    PROVE  SumsUpAt(f, sum, s)
  BY DEF IsSum, SumsUpAt

LEMMA SumIsUnique ==
    ASSUME NEW f, NEW S, IsFiniteSet(S), NEW g, NEW h, IsSum(f, S, g), IsSum(f, S, h)
    PROVE  g = h
<1> DEFINE T == {s \in SUBSET S : g[s] # h[s]}
<1>1. CASE T # {}
  <2> HIDE DEF T
  <2>0. T \in SUBSET SUBSET S
    BY DEF T
  <2>1. PICK s \in T : \A t \in T : t \subseteq s => t = s
    BY <1>1, <2>0, SmallestSubset
  <2> USE DEF T
  <2>2. s # {} /\ s \in SUBSET S
    BY <2>1, SumAt
  <2>3. Choice(s) \in s
    BY <2>2, ChoiceIsIn
  <2>4. g[s \ {Choice(s)}] = h[s \ {Choice(s)}]
    BY <2>1, <2>2, <2>3
  <2>5. SumsUpAt(f, g, s) /\ SumsUpAt(f, h, s)
    BY <2>2, SumStep
  <2>6. g[s] # h[s]
    BY <2>1
  <2> QED
    BY <2>4, <2>5, <2>6, Zenon DEF SumsUpAt
<1>2. CASE T = {}
  <2>1. \A s \in SUBSET S : g[s] = h[s]
    BY <1>2
  <2>2. DOMAIN g = SUBSET S /\ DOMAIN h = SUBSET S
    BY SumAt
  <2>3. g = [s \in SUBSET S |-> g[s]] /\ h = [s \in SUBSET S |-> h[s]]
    BY DEF IsSum
  <2> QED
    BY <2>1, <2>3
<1> QED
  BY <1>1, <1>2

\* A subset of the indices has the restriction.
LEMMA SumOfSubset ==
    ASSUME NEW f, NEW S, NEW sum, IsSum(f, S, sum), NEW R \in SUBSET S
    PROVE  IsSum(f, R, [s \in SUBSET R |-> sum[s]])
<1> DEFINE r == [s \in SUBSET R |-> sum[s]]
<1>1. ASSUME NEW s \in SUBSET R
      PROVE  r[s] = IF s = {} THEN 0 ELSE f[Choice(s)] + r[s \ {Choice(s)}]
  <2>1. CASE s = {}
    BY <2>1, SumAt
  <2>2. CASE s # {}
    <3>1. SumsUpAt(f, sum, s)
      BY <2>2, SumStep
    <3>2. r[s] = sum[s] /\ r[s \ {Choice(s)}] = sum[s \ {Choice(s)}]
      OBVIOUS
    <3> QED
      BY <2>2, <3>1, <3>2, Zenon DEF SumsUpAt
  <2> QED
    BY <2>1, <2>2
<1>2. r = [s \in SUBSET R |-> r[s]]
  OBVIOUS
<1> HIDE DEF r
<1>3. r = [s \in SUBSET R |-> IF s = {} THEN 0 ELSE f[Choice(s)] + r[s \ {Choice(s)}]]
  BY <1>1, <1>2
<1> QED
  BY <1>3 DEF IsSum, r

LEMMA SumExists ==
    ASSUME NEW f, NEW S, IsFiniteSet(S)
    PROVE  \E sum : IsSum(f, S, sum)
<1> DEFINE T == {s \in SUBSET S : ~ \E sum : IsSum(f, s, sum)}
<1>1. CASE T # {}
  <2> HIDE DEF T
  <2>0. T \in SUBSET SUBSET S
    BY DEF T
  <2>1. PICK s \in T : \A t \in T : t \subseteq s => t = s
    BY <1>1, <2>0, SmallestSubset
  <2>2. s \in SUBSET S /\ IsFiniteSet(s) /\ ~ \E sum : IsSum(f, s, sum)
    BY <2>1, FS_Subset DEF T
  <2> DEFINE sumOf(t) == CHOOSE sum : IsSum(f, t, sum)
             value(t) == IF t = {} THEN 0 ELSE f[Choice(t)] + sumOf(t \ {Choice(t)})[t \ {Choice(t)}]
             new == [t \in SUBSET s |-> value(t)]
  <2>3. ASSUME NEW t \in SUBSET s, t # s
        PROVE  IsSum(f, t, sumOf(t))
    <3>1. t \notin T /\ t \in SUBSET S
      BY <2>1, <2>2, <2>3
    <3>2. \E sum : IsSum(f, t, sum)
      BY <3>1 DEF T
    <3> HIDE DEF IsSum
    <3> QED
      BY <3>2
  <2>4. ASSUME NEW t \in SUBSET s, t # s
        PROVE  new[t] = sumOf(t)[t]
    <3>1. CASE t = {}
      BY <2>3, <2>4, <3>1, SumAt
    <3>2. CASE t # {}
      <4> DEFINE u == t \ {Choice(t)}
      <4>1. u \in SUBSET t /\ u \in SUBSET s /\ u # s /\ IsFiniteSet(u)
        BY <2>2, <2>4, FS_Subset
      <4>2. IsSum(f, t, sumOf(t)) /\ IsSum(f, u, sumOf(u))
        BY <2>3, <2>4, <4>1
      <4> HIDE DEF u, sumOf
      <4>3. IsSum(f, u, [v \in SUBSET u |-> sumOf(t)[v]])
        BY <4>1, <4>2, SumOfSubset
      <4>4. [v \in SUBSET u |-> sumOf(t)[v]] = sumOf(u)
        BY <4>1, <4>2, <4>3, SumIsUnique
      <4>5. sumOf(t)[u] = sumOf(u)[u]
        BY <4>4
      <4>6. SumsUpAt(f, sumOf(t), t)
        BY <3>2, <4>2, SumStep
      <4>7. new[t] = f[Choice(t)] + sumOf(u)[u]
        BY <3>2 DEF u
      <4> QED
        BY <4>5, <4>6, <4>7, Zenon DEF SumsUpAt, u
    <3> QED
      BY <3>1, <3>2
  <2>5. ASSUME NEW t \in SUBSET s
        PROVE  value(t) = IF t = {} THEN 0 ELSE f[Choice(t)] + new[t \ {Choice(t)}]
    <3>1. CASE t # {}
      <4>1. t \ {Choice(t)} \in SUBSET s /\ t \ {Choice(t)} # s
        BY <3>1, ChoiceIsIn
      <4>2. new[t \ {Choice(t)}] = sumOf(t \ {Choice(t)})[t \ {Choice(t)}]
        BY <2>4, <4>1
      <4> HIDE DEF new, sumOf
      <4> QED
        BY <3>1, <4>2
    <3> HIDE DEF new, sumOf
    <3> QED
      BY <3>1
  <2>6. new = [t \in SUBSET s |-> IF t = {} THEN 0 ELSE f[Choice(t)] + new[t \ {Choice(t)}]]
    <3> HIDE DEF value
    <3>1. new = [t \in SUBSET s |-> value(t)]
      OBVIOUS
    <3> HIDE DEF new
    <3> QED
      BY <2>5, <3>1
  <2>7. IsSum(f, s, new)
    <3> HIDE DEF new
    <3> QED
      BY <2>6 DEF IsSum
  <2> QED
    BY <2>2, <2>7
<1>2. CASE T = {}
  BY <1>2
<1> QED
  BY <1>1, <1>2

\* The function that SumFunctionOnSet takes its value from.
LEMMA SumOfIndices ==
    ASSUME NEW f, NEW S, IsFiniteSet(S)
    PROVE  \E sum : IsSum(f, S, sum) /\ SumFunctionOnSet(f, S) = sum[S]
<1>1. IsSum(f, S, CHOOSE sum : IsSum(f, S, sum))
  <2> HIDE DEF IsSum
  <2> QED
    BY SumExists
<1> QED
  BY <1>1, SumDefinition, Zenon

LEMMA SumEmpty ==
    ASSUME NEW f
    PROVE  SumFunctionOnSet(f, {}) = 0
<1>1. PICK sum : IsSum(f, {}, sum) /\ SumFunctionOnSet(f, {}) = sum[{}]
  BY SumOfIndices, FS_EmptySet
<1> QED
  BY <1>1, SumAt

SumsUpByChoice(f, S) ==
    SumFunctionOnSet(f, S) = f[Choice(S)] + SumFunctionOnSet(f, S \ {Choice(S)})

LEMMA SumByChoice ==
    ASSUME NEW f, NEW S, IsFiniteSet(S), S # {}
    PROVE  SumsUpByChoice(f, S)
<1> DEFINE R == S \ {Choice(S)}
<1>1. R \in SUBSET S /\ IsFiniteSet(R)
  BY FS_Subset
<1>2. PICK sum : IsSum(f, S, sum) /\ SumFunctionOnSet(f, S) = sum[S]
  BY SumOfIndices
<1> HIDE DEF R
<1>3. PICK rest : IsSum(f, R, rest) /\ SumFunctionOnSet(f, R) = rest[R]
  BY <1>1, SumOfIndices
<1>4. IsSum(f, R, [s \in SUBSET R |-> sum[s]])
  BY <1>1, <1>2, SumOfSubset
<1>5. [s \in SUBSET R |-> sum[s]] = rest
  BY <1>1, <1>3, <1>4, SumIsUnique
<1>6. sum[R] = rest[R]
  BY <1>5
<1>7. SumsUpAt(f, sum, S)
  BY <1>2, SumStep
<1> QED
  BY <1>2, <1>3, <1>6, <1>7, Zenon DEF SumsUpAt, SumsUpByChoice, R

-----------------------------------------------------------------------------
\* Sums of integers are integers.
LEMMA SumIsInt ==
    ASSUME NEW S, IsFiniteSet(S), NEW f, \A x \in S : f[x] \in Int
    PROVE  SumFunctionOnSet(f, S) \in Int
<1> DEFINE T == {s \in SUBSET S : SumFunctionOnSet(f, s) \notin Int}
<1>1. CASE T # {}
  <2> HIDE DEF T
  <2>0. T \in SUBSET SUBSET S
    BY DEF T
  <2>1. PICK s \in T : \A t \in T : t \subseteq s => t = s
    BY <1>1, <2>0, SmallestSubset
  <2>2. s \in SUBSET S /\ IsFiniteSet(s) /\ SumFunctionOnSet(f, s) \notin Int
    BY <2>1, FS_Subset DEF T
  <2>3. s # {}
    BY <2>2, SumEmpty
  <2>4. Choice(s) \in s
    BY <2>3, ChoiceIsIn
  <2>5. SumFunctionOnSet(f, s \ {Choice(s)}) \in Int
    BY <2>1, <2>2, <2>4 DEF T
  <2>6. SumsUpByChoice(f, s)
    BY <2>2, <2>3, SumByChoice
  <2> QED
    BY <2>2, <2>4, <2>5, <2>6 DEF SumsUpByChoice
<1>2. CASE T = {}
  BY <1>2
<1> QED
  BY <1>1, <1>2

\* Sums of natural numbers are natural numbers.
LEMMA SumIsNat ==
    ASSUME NEW S, IsFiniteSet(S), NEW f, \A x \in S : f[x] \in Nat
    PROVE  SumFunctionOnSet(f, S) \in Nat
<1> DEFINE T == {s \in SUBSET S : SumFunctionOnSet(f, s) \notin Nat}
<1>1. CASE T # {}
  <2> HIDE DEF T
  <2>0. T \in SUBSET SUBSET S
    BY DEF T
  <2>1. PICK s \in T : \A t \in T : t \subseteq s => t = s
    BY <1>1, <2>0, SmallestSubset
  <2>2. s \in SUBSET S /\ IsFiniteSet(s) /\ SumFunctionOnSet(f, s) \notin Nat
    BY <2>1, FS_Subset DEF T
  <2>3. s # {}
    BY <2>2, SumEmpty
  <2>4. Choice(s) \in s
    BY <2>3, ChoiceIsIn
  <2>5. SumFunctionOnSet(f, s \ {Choice(s)}) \in Nat
    BY <2>1, <2>2, <2>4 DEF T
  <2>6. SumsUpByChoice(f, s)
    BY <2>2, <2>3, SumByChoice
  <2> QED
    BY <2>2, <2>4, <2>5, <2>6 DEF SumsUpByChoice
<1>2. CASE T = {}
  BY <1>2
<1> QED
  BY <1>1, <1>2

\* Any index may be taken out first.
LEMMA SumTakesOut ==
    ASSUME NEW S, IsFiniteSet(S), NEW f, \A x \in S : f[x] \in Int, NEW a \in S
    PROVE  SumFunctionOnSet(f, S) = f[a] + SumFunctionOnSet(f, S \ {a})
<1> DEFINE Sum(s) == SumFunctionOnSet(f, s)
           T == {s \in SUBSET S : \E x \in s : Sum(s) # f[x] + Sum(s \ {x})}
<1>1. CASE T # {}
  <2> HIDE DEF T
  <2>0. T \in SUBSET SUBSET S
    BY DEF T
  <2>1. PICK s \in T : \A t \in T : t \subseteq s => t = s
    BY <1>1, <2>0, SmallestSubset
  <2>2. s \in SUBSET S /\ IsFiniteSet(s)
    BY <2>1, FS_Subset DEF T
  <2>3. PICK x \in s : Sum(s) # f[x] + Sum(s \ {x})
    BY <2>1 DEF T
  <2> DEFINE y == Choice(s)
             r == (s \ {x}) \ {y}
  <2>4. y \in s
    BY <2>3, ChoiceIsIn
  <2>5. SumsUpByChoice(f, s)
    BY <2>2, <2>3, SumByChoice
  <2>6. Sum(s) = f[y] + Sum(s \ {y})
    BY <2>5 DEF SumsUpByChoice
  <2> HIDE DEF y, Sum
  <2>7. x # y
    BY <2>3, <2>6
  <2>8. s \ {x} \notin T /\ s \ {x} \in SUBSET S /\ y \in s \ {x}
    BY <2>1, <2>2, <2>3, <2>4, <2>7
  <2>9. Sum(s \ {x}) = f[y] + Sum(r)
    BY <2>8 DEF T
  <2>10. s \ {y} \notin T /\ s \ {y} \in SUBSET S /\ x \in s \ {y}
    BY <2>1, <2>2, <2>3, <2>4, <2>7
  <2>11. Sum(s \ {y}) = f[x] + Sum((s \ {y}) \ {x})
    BY <2>10 DEF T
  <2>12. (s \ {y}) \ {x} = r
    OBVIOUS
  <2> HIDE DEF r
  <2>13. f[x] \in Int /\ f[y] \in Int /\ IsFiniteSet(r) /\ r \in SUBSET S
    BY <2>2, <2>4, FS_Subset DEF r
  <2>14. Sum(r) \in Int
    BY <2>13, SumIsInt DEF Sum
  <2>15. Sum(s \ {y}) = f[x] + Sum(r)
    BY <2>11, <2>12, Zenon
  <2>16. f[x] + (f[y] + Sum(r)) = f[y] + (f[x] + Sum(r))
    BY <2>13, <2>14
  <2> QED
    BY <2>3, <2>6, <2>9, <2>15, <2>16, Zenon
<1>2. CASE T = {}
  <2> HIDE DEF Sum
  <2>1. \A s \in SUBSET S : \A x \in s : Sum(s) = f[x] + Sum(s \ {x})
    BY <1>2
  <2>2. Sum(S) = f[a] + Sum(S \ {a})
    BY <2>1
  <2> QED
    BY <2>2 DEF Sum
<1> QED
  BY <1>1, <1>2

\* No value is larger than the sum of all.
LEMMA SumIsAtLeast ==
    ASSUME NEW S, IsFiniteSet(S), NEW f, \A x \in S : f[x] \in Nat, NEW a \in S
    PROVE  f[a] <= SumFunctionOnSet(f, S)
<1>1. IsFiniteSet(S \ {a})
  BY FS_Subset
<1>2. SumFunctionOnSet(f, S \ {a}) \in Nat
  BY <1>1, SumIsNat
<1>3. \A x \in S : f[x] \in Int
  OBVIOUS
<1>4. SumFunctionOnSet(f, S) = f[a] + SumFunctionOnSet(f, S \ {a})
  BY <1>3, SumTakesOut
<1> QED
  BY <1>2, <1>4

\* Functions that agree on the indices have the same sum.
LEMMA SumDependsOnValues ==
    ASSUME NEW S, IsFiniteSet(S), NEW f, NEW g,
           \A x \in S : f[x] \in Int /\ f[x] = g[x]
    PROVE  SumFunctionOnSet(f, S) = SumFunctionOnSet(g, S)
<1> DEFINE T == {s \in SUBSET S : SumFunctionOnSet(f, s) # SumFunctionOnSet(g, s)}
<1>1. CASE T # {}
  <2> HIDE DEF T
  <2>0. T \in SUBSET SUBSET S
    BY DEF T
  <2>1. PICK s \in T : \A t \in T : t \subseteq s => t = s
    BY <1>1, <2>0, SmallestSubset
  <2>2. s \in SUBSET S /\ IsFiniteSet(s) /\ SumFunctionOnSet(f, s) # SumFunctionOnSet(g, s)
    BY <2>1, FS_Subset DEF T
  <2>3. s # {}
    BY <2>2, SumEmpty
  <2>4. Choice(s) \in s
    BY <2>3, ChoiceIsIn
  <2>5. SumFunctionOnSet(f, s \ {Choice(s)}) = SumFunctionOnSet(g, s \ {Choice(s)})
    BY <2>1, <2>2, <2>4 DEF T
  <2>6. SumsUpByChoice(f, s) /\ SumsUpByChoice(g, s)
    BY <2>2, <2>3, SumByChoice
  <2>7. f[Choice(s)] = g[Choice(s)]
    BY <2>2, <2>4
  <2> QED
    BY <2>2, <2>5, <2>6, <2>7, Zenon DEF SumsUpByChoice
<1>2. CASE T = {}
  BY <1>2
<1> QED
  BY <1>1, <1>2

\* One value has changed.
ChangesAt(f, g, S, a) ==
    /\ a \in S
    /\ \A x \in S : f[x] \in Int /\ g[x] \in Int
    /\ \A x \in S \ {a} : g[x] = f[x]

LEMMA SumChanges ==
    ASSUME NEW S, IsFiniteSet(S), NEW f, NEW g, NEW a, ChangesAt(f, g, S, a)
    PROVE  SumFunctionOnSet(g, S) = SumFunctionOnSet(f, S) - f[a] + g[a]
<1>0. /\ a \in S
      /\ \A x \in S : f[x] \in Int /\ g[x] \in Int
      /\ \A x \in S \ {a} : g[x] = f[x]
  BY DEF ChangesAt
<1>1. IsFiniteSet(S \ {a})
  BY FS_Subset
<1>2. /\ SumFunctionOnSet(f, S) = f[a] + SumFunctionOnSet(f, S \ {a})
      /\ SumFunctionOnSet(g, S) = g[a] + SumFunctionOnSet(g, S \ {a})
  BY <1>0, SumTakesOut
<1>3. SumFunctionOnSet(f, S \ {a}) = SumFunctionOnSet(g, S \ {a})
  BY <1>0, <1>1, SumDependsOnValues
<1>4. SumFunctionOnSet(f, S \ {a}) \in Int /\ f[a] \in Int /\ g[a] \in Int
  BY <1>0, <1>1, SumIsInt
<1> QED
  BY <1>2, <1>3, <1>4

\* All values are the same.
LEMMA SumOfConstant ==
    ASSUME NEW S, IsFiniteSet(S), NEW f, NEW c \in Int, \A x \in S : f[x] = c
    PROVE  SumFunctionOnSet(f, S) = c * Cardinality(S)
<1> DEFINE T == {s \in SUBSET S : SumFunctionOnSet(f, s) # c * Cardinality(s)}
<1>1. CASE T # {}
  <2> HIDE DEF T
  <2>0. T \in SUBSET SUBSET S
    BY DEF T
  <2>1. PICK s \in T : \A t \in T : t \subseteq s => t = s
    BY <1>1, <2>0, SmallestSubset
  <2>2. s \in SUBSET S /\ IsFiniteSet(s) /\ SumFunctionOnSet(f, s) # c * Cardinality(s)
    BY <2>1, FS_Subset DEF T
  <2>3. s # {}
    BY <2>2, SumEmpty, FS_EmptySet
  <2>4. Choice(s) \in s
    BY <2>3, ChoiceIsIn
  <2> DEFINE r == s \ {Choice(s)}
  <2>5. SumFunctionOnSet(f, r) = c * Cardinality(r)
    BY <2>1, <2>2, <2>4 DEF T
  <2>6. SumFunctionOnSet(f, s) = c + SumFunctionOnSet(f, r)
    <3>1. SumsUpByChoice(f, s)
      BY <2>2, <2>3, SumByChoice
    <3> QED
      BY <2>2, <2>4, <3>1 DEF SumsUpByChoice
  <2>7. Cardinality(s) = Cardinality(r) + 1 /\ Cardinality(r) \in Nat
    <3>1. Cardinality(r) = Cardinality(s) - 1 /\ IsFiniteSet(r)
      BY <2>2, <2>4, FS_RemoveElement
    <3>2. Cardinality(s) \in Nat /\ Cardinality(r) \in Nat
      BY <2>2, <3>1, FS_CardinalityType
    <3> QED
      BY <3>1, <3>2
  <2> HIDE DEF r
  <2>8. c * (Cardinality(r) + 1) = c * Cardinality(r) + c /\ c * Cardinality(r) \in Int
    BY <2>7
  <2> QED
    BY <2>2, <2>5, <2>6, <2>7, <2>8
<1>2. CASE T = {}
  BY <1>2
<1> QED
  BY <1>1, <1>2

=============================================================================
