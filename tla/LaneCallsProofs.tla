--------------------------- MODULE LaneCallsProofs ---------------------------
(***************************************************************************)
(* The loops of receive_messages_proof, of receive_messages_delivery_proof *)
(* and of close_bridge compute the closed forms that the lane modules      *)
(* give: for every lane, every proof and every limit.                      *)
(***************************************************************************)
EXTENDS LaneCalls, LaneTheorems

(***************************************************************************)
(* The loop over the messages of a proof.                                  *)
(***************************************************************************)

\* The queue that a batch leaves is longer by one entry, unless the last entry
\* is the same relayer's.
LEMMA BatchLength ==
    ASSUME NEW old \in InboundLaneData, NEW r \in Relayers, NEW start \in Nat, NEW m \in Nat,
           LastAccepted(old, r, start, m) # LastDeliveredNonce(old)
    PROVE  Len(ReceiveMessages(old, r, start, m).relayers)
             = IF ExtendsLastEntry(old, r) THEN Len(old.relayers) ELSE Len(old.relayers) + 1
<1> DEFINE new == ReceiveMessages(old, r, start, m)
           len == Len(old.relayers)
           last == LastAccepted(old, r, start, m)
<1>1. old.relayers \in Seq(UnrewardedRelayer)
  BY LastDeliveredType
<1>2. CASE ExtendsLastEntry(old, r)
  <2>1. new = [old EXCEPT !.relayers[len].end = last]
    BY <1>2 DEF ReceiveMessages
  <2>2. new.relayers = [old.relayers EXCEPT ![len] = [@ EXCEPT !.end = last]]
    BY <2>1 DEF InboundLaneData
  <2> HIDE DEF new, len, last
  <2>3. Len(new.relayers) = Len(old.relayers)
    BY <1>1, <2>2
  <2> QED
    BY <1>2, <2>3 DEF len, new
<1>3. CASE ~ ExtendsLastEntry(old, r)
  <2> DEFINE e == [relayer |-> r, begin |-> LastDeliveredNonce(old) + 1, end |-> last]
  <2>1. new.relayers = Append(old.relayers, e)
    BY <1>3 DEF ReceiveMessages, InboundLaneData
  <2> HIDE DEF e, new, len
  <2>2. Len(new.relayers) = Len(old.relayers) + 1
    BY <1>1, <2>1
  <2> QED
    BY <1>3, <2>2 DEF len, new
<1> QED
  BY <1>2, <1>3

\* One message more in the proof: receive_message rejects it and nothing
\* changes, or it is the next one and is accepted.
LEMMA LastAcceptedNext ==
    ASSUME NEW old \in InboundLaneData, WellFormed(old), NEW r \in Relayers,
           NEW start \in Nat, NEW n \in Nat, start <= n, n >= 1
    PROVE  LET new == ReceiveMessages(old, r, start, n - 1)
           IN  /\ Rejected(new, n) =>
                    LastAccepted(old, r, start, n) = LastAccepted(old, r, start, n - 1)
               /\ ~ Rejected(new, n) =>
                    /\ LastAccepted(old, r, start, n) = n
                    /\ LastAccepted(old, r, start, n - 1) = n - 1
<1> DEFINE new == ReceiveMessages(old, r, start, n - 1)
           d == LastDeliveredNonce(old)
           c == old.last_confirmed_nonce
           len == Len(old.relayers)
           may == c + MaxUnconfirmedMessages
           one == len + 1 >= MaxUnrewardedRelayers /\ ~ ExtendsLastEntry(old, r)
           A(m) == LastAccepted(old, r, start, m)
           can == CanReceive(old, d + 1)
<1>1. /\ d \in Nat /\ c \in Nat /\ len \in Nat /\ may \in Nat /\ n - 1 \in Nat
      /\ MaxUnrewardedRelayers \in Nat /\ MaxUnconfirmedMessages \in Nat
  BY LastDeliveredType, EntryTypes, LimitsAssumption
<1>2. ASSUME NEW m \in Nat
      PROVE  /\ (d + 1 \notin start .. m \/ ~ can) => A(m) = d
             /\ (d + 1 \in start .. m /\ can) =>
                  A(m) = LET b == IF one THEN d + 1 ELSE m
                         IN  IF b <= may THEN b ELSE may
  BY DEF LastAccepted
<1>3. can <=> len < MaxUnrewardedRelayers /\ d + 1 <= may
  <2>1. can <=> len < MaxUnrewardedRelayers /\ (d + 1) - c <= MaxUnconfirmedMessages
    BY DEF CanReceive
  <2> HIDE DEF can, d, c, len
  <2> QED
    BY <1>1, <2>1
<1>4. Rejected(new, n) <=> \/ n # A(n - 1) + 1
                           \/ Len(new.relayers) >= MaxUnrewardedRelayers
                           \/ n - c > MaxUnconfirmedMessages
  <2>1. LastDeliveredNonce(new) = A(n - 1) /\ new.last_confirmed_nonce = c
    <3> DEFINE m == n - 1
    <3>1. m \in Nat
      BY <1>1
    <3> HIDE DEF m
    <3>2. LET batch == ReceiveMessages(old, r, start, m)
          IN  /\ LastDeliveredNonce(batch) = LastAccepted(old, r, start, m)
              /\ batch.last_confirmed_nonce = old.last_confirmed_nonce
      BY <3>1, ReceiveMessagesCorrect
    <3> QED
      BY <3>2 DEF m
  <2> QED
    BY <2>1 DEF Rejected
<1>5. A(n - 1) = d => Len(new.relayers) = len
  BY DEF ReceiveMessages
<1>6. A(n - 1) # d => Len(new.relayers) = IF ExtendsLastEntry(old, r) THEN len ELSE len + 1
  <2> DEFINE m == n - 1
  <2>1. m \in Nat
    BY <1>1
  <2> HIDE DEF m
  <2>2. LastAccepted(old, r, start, m) # d =>
          Len(ReceiveMessages(old, r, start, m).relayers)
            = IF ExtendsLastEntry(old, r) THEN len ELSE len + 1
    BY <2>1, BatchLength
  <2> QED
    BY <2>2 DEF m
<1>7. d + 1 \in start .. n => d + 1 <= n
  BY <1>1
<1>8. can /\ d + 1 \in start .. n - 1 => A(n - 1) # d
  <2> HIDE DEF A, d, c, len, one
  <2> QED
    BY <1>1, <1>2, <1>3
<1> DEFINE an == A(n)
           ap == A(n - 1)
           ln == Len(new.relayers)
           ext == ExtendsLastEntry(old, r)
           rej == Rejected(new, n)
<1>9. /\ (d + 1 \notin start .. n \/ ~ can) => an = d
      /\ (d + 1 \in start .. n /\ can) =>
           an = LET b == IF one THEN d + 1 ELSE n IN IF b <= may THEN b ELSE may
      /\ (d + 1 \notin start .. n - 1 \/ ~ can) => ap = d
      /\ (d + 1 \in start .. n - 1 /\ can) =>
           ap = LET b == IF one THEN d + 1 ELSE n - 1 IN IF b <= may THEN b ELSE may
  BY <1>1, <1>2
<1>10. ext \in BOOLEAN /\ (one <=> len + 1 >= MaxUnrewardedRelayers /\ ~ ext)
  BY DEF ExtendsLastEntry
<1> HIDE DEF new, d, c, len, A, can, an, ap, ln, ext, rej, one
<1>11. /\ rej => an = ap
       /\ ~ rej => an = n /\ ap = n - 1
  <2>1. /\ ap = d => ln = len
        /\ ap # d => ln = IF ext THEN len ELSE len + 1
        /\ rej <=> \/ n # ap + 1 \/ ln >= MaxUnrewardedRelayers \/ n - c > MaxUnconfirmedMessages
        /\ can /\ d + 1 \in start .. n - 1 => ap # d
    BY <1>4, <1>5, <1>6, <1>8 DEF ap, ln, ext, rej
  <2>2. CASE d + 1 \notin start .. n
    BY <1>1, <1>9, <2>1, <2>2
  <2>3. CASE d + 1 = n
    BY <1>1, <1>3, <1>9, <2>1, <2>3
  <2>4. CASE d + 1 \in start .. n - 1 /\ ~ can
    BY <1>1, <1>9, <2>1, <2>4
  <2>5. CASE d + 1 \in start .. n - 1 /\ can
    BY <1>1, <1>3, <1>9, <1>10, <2>1, <2>5
  <2> QED
    BY <1>1, <2>2, <2>3, <2>4, <2>5
<1> QED
  BY <1>11 DEF an, ap, rej, A, new

\* Two lanes are equal when their states, confirmed nonces and entries are.
LEMMA LanesEqual ==
    ASSUME NEW x \in InboundLaneData, NEW y \in InboundLaneData,
           x.state = y.state, x.last_confirmed_nonce = y.last_confirmed_nonce,
           Len(x.relayers) = Len(y.relayers),
           \A j \in 1 .. Len(x.relayers) :
             /\ x.relayers[j].relayer = y.relayers[j].relayer
             /\ x.relayers[j].begin = y.relayers[j].begin
             /\ x.relayers[j].end = y.relayers[j].end
    PROVE  x = y
<1>1. x.relayers \in Seq(UnrewardedRelayer) /\ y.relayers \in Seq(UnrewardedRelayer)
  BY LastDeliveredType
<1>2. \A e, f \in UnrewardedRelayer :
        e.relayer = f.relayer /\ e.begin = f.begin /\ e.end = f.end => e = f
  BY DEF UnrewardedRelayer
<1>3. \A j \in 1 .. Len(x.relayers) : x.relayers[j] = y.relayers[j]
  <2> TAKE j \in 1 .. Len(x.relayers)
  <2>1. x.relayers[j] \in UnrewardedRelayer /\ y.relayers[j] \in UnrewardedRelayer
    BY <1>1, EntryTypes
  <2> QED
    BY <1>2, <2>1
<1>4. x.relayers = y.relayers
  BY <1>1, <1>3, SeqEqual
<1> QED
  BY <1>4 DEF InboundLaneData

\* What receive_message does to the lane with a message it accepts.
MessageReceived(old, r, n) ==
    IF ExtendsLastEntry(old, r)
    THEN [old EXCEPT !.relayers[Len(old.relayers)].end = @ + 1]
    ELSE [old EXCEPT !.relayers = Append(@, [relayer |-> r, begin |-> n, end |-> n])]

LEMMA MessageReceivedFields ==
    ASSUME NEW old \in InboundLaneData, NEW r \in Relayers, NEW n \in Nat
    PROVE  LET new == MessageReceived(old, r, n)
               len == Len(old.relayers)
               k == IF ExtendsLastEntry(old, r) THEN len ELSE len + 1
           IN  /\ new \in InboundLaneData
               /\ new.state = old.state
               /\ new.last_confirmed_nonce = old.last_confirmed_nonce
               /\ Len(new.relayers) = k /\ k > 0
               /\ \A j \in 1 .. k - 1 : new.relayers[j] = old.relayers[j]
               /\ new.relayers[k].relayer = r
               /\ new.relayers[k].begin = IF ExtendsLastEntry(old, r)
                                          THEN old.relayers[len].begin ELSE n
               /\ new.relayers[k].end = IF ExtendsLastEntry(old, r)
                                        THEN old.relayers[len].end + 1 ELSE n
<1> DEFINE new == MessageReceived(old, r, n)
           len == Len(old.relayers)
<1>1. old.relayers \in Seq(UnrewardedRelayer)
  BY LastDeliveredType
<1>2. CASE ExtendsLastEntry(old, r)
  <2>1. len \in Nat /\ len > 0 /\ old.relayers[len] \in UnrewardedRelayer
        /\ old.relayers[len].relayer = r
    BY <1>1, <1>2, EntryTypes DEF ExtendsLastEntry
  <2> DEFINE e == [old.relayers[len] EXCEPT !.end = @ + 1]
  <2>2. /\ e \in UnrewardedRelayer /\ e.relayer = r
        /\ e.begin = old.relayers[len].begin /\ e.end = old.relayers[len].end + 1
    BY <2>1 DEF UnrewardedRelayer
  <2>3. new = [old EXCEPT !.relayers = [old.relayers EXCEPT ![len] = e]]
    BY <1>2 DEF MessageReceived, InboundLaneData
  <2> HIDE DEF e
  <2>4. [old.relayers EXCEPT ![len] = e] \in Seq(UnrewardedRelayer)
    BY <1>1, <2>1, <2>2
  <2>5. /\ new \in InboundLaneData /\ new.state = old.state
        /\ new.last_confirmed_nonce = old.last_confirmed_nonce
        /\ new.relayers = [old.relayers EXCEPT ![len] = e]
    BY <2>3, <2>4 DEF InboundLaneData
  <2> HIDE DEF new
  <2>6. /\ Len(new.relayers) = len /\ new.relayers[len] = e
        /\ \A j \in 1 .. len - 1 : new.relayers[j] = old.relayers[j]
    BY <1>1, <2>1, <2>2, <2>5
  <2> QED
    BY <1>2, <2>1, <2>2, <2>5, <2>6 DEF new
<1>3. CASE ~ ExtendsLastEntry(old, r)
  <2> DEFINE e == [relayer |-> r, begin |-> n, end |-> n]
  <2>1. e \in UnrewardedRelayer /\ e.relayer = r /\ e.begin = n /\ e.end = n
    BY DEF UnrewardedRelayer
  <2>2. new = [old EXCEPT !.relayers = Append(old.relayers, e)]
    BY <1>3 DEF MessageReceived, InboundLaneData
  <2> HIDE DEF e
  <2>3. Append(old.relayers, e) \in Seq(UnrewardedRelayer) /\ len \in Nat
    BY <1>1, <2>1
  <2>4. /\ new \in InboundLaneData /\ new.state = old.state
        /\ new.last_confirmed_nonce = old.last_confirmed_nonce
        /\ new.relayers = Append(old.relayers, e)
    BY <2>2, <2>3 DEF InboundLaneData
  <2> HIDE DEF new
  <2>5. /\ Len(new.relayers) = len + 1 /\ new.relayers[len + 1] = e
        /\ \A j \in 1 .. len : new.relayers[j] = old.relayers[j]
    BY <1>1, <2>1, <2>4
  <2> QED
    BY <1>3, <2>1, <2>3, <2>4, <2>5 DEF new
<1> QED
  BY <1>2, <1>3

\* An accepted message gives the lane that the longer proof would have left.
LEMMA ReceiveMessagesNext ==
    ASSUME NEW old \in InboundLaneData, WellFormed(old), NEW r \in Relayers,
           NEW start \in Nat, NEW n \in Nat, start <= n, n >= 1,
           ~ Rejected(ReceiveMessages(old, r, start, n - 1), n)
    PROVE  MessageReceived(ReceiveMessages(old, r, start, n - 1), r, n)
             = ReceiveMessages(old, r, start, n)
<1> DEFINE m == n - 1
           mid == ReceiveMessages(old, r, start, m)
           x == MessageReceived(mid, r, n)
           y == ReceiveMessages(old, r, start, n)
           d == LastDeliveredNonce(old)
           len == Len(old.relayers)
<1>1. m \in Nat /\ n = m + 1 /\ m # n
  OBVIOUS
<1>2. LastAccepted(old, r, start, n) = n /\ LastAccepted(old, r, start, m) = m
  BY LastAcceptedNext
<1> HIDE DEF m
<1>3. d \in Nat /\ len \in Nat /\ old.relayers \in Seq(UnrewardedRelayer) /\ d <= m
      /\ (old.relayers = <<>> <=> len = 0)
  <2>1. d \in Nat /\ old.relayers \in Seq(UnrewardedRelayer)
    BY LastDeliveredType
  <2>2. len \in Nat /\ (old.relayers = <<>> <=> len = 0)
    BY <2>1, EntryTypes
  <2>3. d <= LastAccepted(old, r, start, m)
    BY <1>1, LastAcceptedRange
  <2> QED
    BY <1>2, <2>1, <2>2, <2>3
<1>4. mid \in InboundLaneData /\ LastDeliveredNonce(mid) = m
  BY <1>1, <1>2, ReceiveMessagesCorrect
<1> DEFINE k == Len(y.relayers)
<1>5. /\ y \in InboundLaneData
      /\ y.last_confirmed_nonce = old.last_confirmed_nonce
      /\ y.state = old.state
      /\ k \in {len, len + 1} /\ k > 0
      /\ \A j \in 1 .. k - 1 : y.relayers[j] = old.relayers[j]
      /\ y.relayers[k].relayer = r
      /\ y.relayers[k].end = n
      /\ \/ k = len + 1 /\ y.relayers[k].begin = d + 1
         \/ /\ k = len /\ old.relayers[k].relayer = r
            /\ y.relayers[k].begin = old.relayers[k].begin
  <2>1. LastAccepted(old, r, start, n) # d
    BY <1>1, <1>2, <1>3
  <2> QED
    BY <1>2, <2>1, ReceiveMessagesEntries
<1>6. x \in InboundLaneData
  BY <1>4, MessageReceivedFields
<1>7. k = IF ExtendsLastEntry(old, r) THEN len ELSE len + 1
  BY <1>1, <1>2, <1>3, BatchLength
<1>8. CASE m = d
  <2>1. mid = old
    BY <1>2, <1>8 DEF ReceiveMessages
  <2>2. ExtendsLastEntry(old, r) => old.relayers[len].end = d
    BY DEF ExtendsLastEntry, LastDeliveredNonce
  <2>3. LET z == MessageReceived(old, r, n)
        IN  /\ z.state = old.state
            /\ z.last_confirmed_nonce = old.last_confirmed_nonce
            /\ Len(z.relayers) = k
            /\ \A j \in 1 .. k - 1 : z.relayers[j] = old.relayers[j]
            /\ z.relayers[k].relayer = r
            /\ z.relayers[k].begin = IF ExtendsLastEntry(old, r)
                                     THEN old.relayers[len].begin ELSE n
            /\ z.relayers[k].end = IF ExtendsLastEntry(old, r)
                                   THEN old.relayers[len].end + 1 ELSE n
    <3>1. LET z == MessageReceived(old, r, n)
              kk == IF ExtendsLastEntry(old, r) THEN len ELSE len + 1
          IN  /\ z.state = old.state
              /\ z.last_confirmed_nonce = old.last_confirmed_nonce
              /\ Len(z.relayers) = kk
              /\ \A j \in 1 .. kk - 1 : z.relayers[j] = old.relayers[j]
              /\ z.relayers[kk].relayer = r
              /\ z.relayers[kk].begin = IF ExtendsLastEntry(old, r)
                                        THEN old.relayers[len].begin ELSE n
              /\ z.relayers[kk].end = IF ExtendsLastEntry(old, r)
                                      THEN old.relayers[len].end + 1 ELSE n
      BY MessageReceivedFields
    <3> HIDE DEF k
    <3> QED
      BY <1>7, <3>1
  <2> HIDE DEF x, y, mid
  <2>4. /\ x.state = y.state /\ x.last_confirmed_nonce = y.last_confirmed_nonce
        /\ Len(x.relayers) = k
        /\ \A j \in 1 .. k - 1 : x.relayers[j] = y.relayers[j]
        /\ x.relayers[k].relayer = y.relayers[k].relayer
        /\ x.relayers[k].begin = y.relayers[k].begin
        /\ x.relayers[k].end = y.relayers[k].end
    BY <1>1, <1>3, <1>5, <1>7, <1>8, <2>1, <2>2, <2>3 DEF x
  <2>5. \A j \in 1 .. Len(x.relayers) : j = k \/ j \in 1 .. k - 1
    BY <1>3, <1>5, <2>4
  <2> QED
    BY <1>5, <1>6, <2>4, <2>5, LanesEqual DEF x, y, mid, m
<1>9. CASE m # d
  <2>1. /\ mid.last_confirmed_nonce = old.last_confirmed_nonce
        /\ mid.state = old.state
        /\ Len(mid.relayers) = k
        /\ \A j \in 1 .. k - 1 : mid.relayers[j] = old.relayers[j]
        /\ mid.relayers[k].relayer = r
        /\ mid.relayers[k].end = m
        /\ \/ k = len + 1 /\ mid.relayers[k].begin = d + 1
           \/ k = len /\ mid.relayers[k].begin = old.relayers[k].begin
    <3>1. Len(mid.relayers) = k
      BY <1>1, <1>2, <1>7, <1>9, BatchLength
    <3>2. LET kk == Len(mid.relayers)
          IN  /\ mid.last_confirmed_nonce = old.last_confirmed_nonce
              /\ mid.state = old.state
              /\ \A j \in 1 .. kk - 1 : mid.relayers[j] = old.relayers[j]
              /\ mid.relayers[kk].relayer = r
              /\ mid.relayers[kk].end = LastAccepted(old, r, start, m)
              /\ \/ kk = len + 1 /\ mid.relayers[kk].begin = d + 1
                 \/ kk = len /\ mid.relayers[kk].begin = old.relayers[kk].begin
      BY <1>1, <1>2, <1>9, ReceiveMessagesEntries
    <3> HIDE DEF mid, k
    <3> QED
      BY <1>2, <3>1, <3>2
  <2> HIDE DEF mid
  <2>2. ExtendsLastEntry(mid, r)
    <3>1. mid.relayers # <<>>
      BY <1>3, <1>5, <2>1
    <3> QED
      BY <2>1, <3>1 DEF ExtendsLastEntry
  <2>3. /\ x.state = mid.state
        /\ x.last_confirmed_nonce = mid.last_confirmed_nonce
        /\ Len(x.relayers) = k
        /\ \A j \in 1 .. k - 1 : x.relayers[j] = mid.relayers[j]
        /\ x.relayers[k].relayer = r
        /\ x.relayers[k].begin = mid.relayers[k].begin
        /\ x.relayers[k].end = mid.relayers[k].end + 1
    BY <1>4, <2>1, <2>2, MessageReceivedFields
  <2> HIDE DEF x, y
  <2>4. /\ \A j \in 1 .. k - 1 : x.relayers[j] = y.relayers[j]
        /\ x.relayers[k].begin = y.relayers[k].begin
        /\ x.relayers[k].end = y.relayers[k].end
    BY <1>1, <1>3, <1>5, <2>1, <2>3
  <2>5. \A j \in 1 .. Len(x.relayers) : j = k \/ j \in 1 .. k - 1
    BY <1>3, <1>5, <2>3
  <2>6. x = y
    <3>1. /\ x.state = y.state /\ x.last_confirmed_nonce = y.last_confirmed_nonce
          /\ Len(x.relayers) = Len(y.relayers)
      BY <1>5, <2>1, <2>3
    <3>2. \A j \in 1 .. Len(x.relayers) :
            /\ x.relayers[j].relayer = y.relayers[j].relayer
            /\ x.relayers[j].begin = y.relayers[j].begin
            /\ x.relayers[j].end = y.relayers[j].end
      BY <1>5, <2>3, <2>4, <2>5
    <3> QED
      BY <1>5, <1>6, <3>1, <3>2, LanesEqual
  <2> QED
    BY <2>6 DEF x, y, mid, m
<1> QED
  BY <1>8, <1>9

(***************************************************************************)
(* The while loop over the confirmed entries.                              *)
(***************************************************************************)
LEMMA EntriesAfterFields ==
    ASSUME NEW s \in Seq(UnrewardedRelayer), NEW k \in 0 .. Len(s)
    PROVE  LET t == EntriesAfter(s, k)
           IN  /\ t \in Seq(UnrewardedRelayer) /\ Len(t) = Len(s) - k
               /\ t = <<>> <=> k = Len(s)
               /\ \A j \in 1 .. Len(s) - k : t[j] = s[k + j]
<1> DEFINE t == EntriesAfter(s, k)
           len == Len(s) - k
<1>1. Len(s) \in Nat /\ len \in Nat
  BY EntryTypes
<1>2. t = [j \in 1 .. len |-> s[k + j]]
  BY DEF EntriesAfter
<1>3. \A j \in 1 .. len : s[k + j] \in UnrewardedRelayer
  <2> TAKE j \in 1 .. len
  <2>1. k + j \in 1 .. Len(s)
    BY <1>1
  <2> QED
    BY <2>1, ElementOfSeq
<1> HIDE DEF t
<1>4. t \in Seq(UnrewardedRelayer) /\ Len(t) = len
  <2>1. t \in [1 .. len -> UnrewardedRelayer]
    BY <1>2, <1>3
  <2> HIDE DEF len
  <2> QED
    BY <1>1, <2>1, SeqDef
<1>5. t = <<>> <=> Len(t) = 0
  BY <1>4, EntryTypes
<1>6. t = <<>> <=> k = Len(s)
  BY <1>1, <1>4, <1>5
<1>7. \A j \in 1 .. Len(s) - k : t[j] = s[k + j]
  BY <1>1, <1>2
<1> QED
  BY <1>4, <1>6, <1>7 DEF t

\* An iteration of the loop.
LEMMA OneMorePopped ==
    ASSUME NEW s \in Seq(UnrewardedRelayer), NEW k \in 0 .. Len(s), k # Len(s)
    PROVE  Tail(EntriesAfter(s, k)) = EntriesAfter(s, k + 1)
<1> DEFINE t == EntriesAfter(s, k)
           u == EntriesAfter(s, k + 1)
<1>1. Len(s) \in Nat /\ k + 1 \in 0 .. Len(s)
  BY EntryTypes
<1>2. /\ t \in Seq(UnrewardedRelayer) /\ Len(t) = Len(s) - k
      /\ \A j \in 1 .. Len(s) - k : t[j] = s[k + j]
  BY EntriesAfterFields
<1>3. /\ u \in Seq(UnrewardedRelayer) /\ Len(u) = Len(s) - (k + 1)
      /\ \A j \in 1 .. Len(s) - (k + 1) : u[j] = s[(k + 1) + j]
  <2> DEFINE q == k + 1
  <2> HIDE DEF q
  <2>1. LET v == EntriesAfter(s, q)
        IN  /\ v \in Seq(UnrewardedRelayer) /\ Len(v) = Len(s) - q
            /\ \A j \in 1 .. Len(s) - q : v[j] = s[q + j]
    BY <1>1, EntriesAfterFields DEF q
  <2> QED
    BY <2>1 DEF q
<1> HIDE DEF t, u
<1>4. /\ Tail(t) \in Seq(UnrewardedRelayer) /\ Len(Tail(t)) = Len(t) - 1
      /\ \A j \in 1 .. Len(t) - 1 : Tail(t)[j] = t[j + 1]
  BY <1>1, <1>2
<1>5. \A j \in 1 .. Len(Tail(t)) : Tail(t)[j] = u[j]
  BY <1>1, <1>2, <1>3, <1>4
<1>6. Len(Tail(t)) = Len(u)
  BY <1>1, <1>2, <1>3, <1>4
<1>7. Tail(t) = u
  BY <1>3, <1>4, <1>5, <1>6, SeqEqual
<1> QED
  BY <1>7 DEF t, u

\* The loop stops at the number of entries that PoppedEntries gives.
LEMMA LoopStops ==
    ASSUME NEW s \in Seq(UnrewardedRelayer), NEW confirmed \in Nat, NEW k \in 0 .. Len(s),
           \A j \in 1 .. k : s[j].end <= confirmed,
           k < Len(s) => s[k + 1].end > confirmed
    PROVE  PoppedEntries(s, confirmed) = k
<1> DEFINE p == PoppedEntries(s, confirmed)
<1>1. /\ p \in 0 .. Len(s)
      /\ \A j \in 1 .. p : s[j].end <= confirmed
      /\ p < Len(s) => s[p + 1].end > confirmed
  BY PoppedEntriesDefined
<1>2. Len(s) \in Nat /\ \A j \in 1 .. Len(s) : s[j].end \in Nat
  BY EntryTypes
<1> HIDE DEF p
<1>3. CASE p < k
  <2>1. p + 1 \in 1 .. k /\ p + 1 \in 1 .. Len(s) /\ p < Len(s)
    BY <1>1, <1>2, <1>3
  <2>2. s[p + 1].end <= confirmed /\ s[p + 1].end > confirmed /\ s[p + 1].end \in Nat
    BY <1>1, <1>2, <2>1
  <2> QED
    BY <2>2
<1>4. CASE k < p
  <2>1. k + 1 \in 1 .. p /\ k + 1 \in 1 .. Len(s) /\ k < Len(s)
    BY <1>1, <1>2, <1>4
  <2>2. s[k + 1].end <= confirmed /\ s[k + 1].end > confirmed /\ s[k + 1].end \in Nat
    BY <1>1, <1>2, <2>1
  <2> QED
    BY <2>2
<1>5. CASE p = k
  BY <1>5 DEF p
<1> QED
  BY <1>1, <1>3, <1>4, <1>5

\* The types of the arguments of a call at the target.
LEMMA TargetCallTypes ==
    ASSUME before \in Lanes, args \in Calls
    PROVE  /\ before \in InboundLaneData /\ WellFormed(before)
           /\ args.relayer \in Relayers /\ args.start \in Nat /\ args.start >= 1
           /\ args.end \in Nat /\ args.end >= args.start - 1 /\ args.confirmed \in Nat
<1>1. Entry \subseteq UnrewardedRelayer
  BY NonceAssumption DEF Entry, UnrewardedRelayer
<1>2. EntryQueues \subseteq Seq(UnrewardedRelayer)
  <2> SUFFICES ASSUME NEW q \in EntryQueues PROVE q \in Seq(UnrewardedRelayer)
    OBVIOUS
  <2>1. PICK n \in 0 .. MaxUnrewardedRelayers : q \in [1 .. n -> Entry]
    BY DEF EntryQueues
  <2>2. n \in Nat
    BY LimitsAssumption
  <2>3. q \in [1 .. n -> UnrewardedRelayer]
    BY <1>1, <2>1
  <2> QED
    BY <2>2, <2>3, SeqDef
<1>3. before \in InboundLaneData /\ WellFormed(before)
  BY <1>2, NonceAssumption DEF Lanes, InboundLaneData
<1> QED
  BY <1>3, NonceAssumption DEF Calls

\* Before the first message the batch is empty.
LEMMA EmptyBatch ==
    ASSUME NEW old \in InboundLaneData, NEW r, NEW start \in Nat, start >= 1
    PROVE  /\ LastAccepted(old, r, start, start - 1) = LastDeliveredNonce(old)
           /\ ReceiveMessages(old, r, start, start - 1) = old
<1>1. LastDeliveredNonce(old) \in Nat
  BY LastDeliveredType
<1>2. LastDeliveredNonce(old) + 1 \notin start .. start - 1
  BY <1>1
<1>3. LastAccepted(old, r, start, start - 1) = LastDeliveredNonce(old)
  BY <1>2 DEF LastAccepted
<1> QED
  BY <1>3 DEF ReceiveMessages

\* receive_state_update leaves its loop invariant to that of the messages.
LEMMA ReceivingBegins ==
    ASSUME before \in Lanes, args \in Calls, before' = before, args' = args,
           data' = ReceiveStateUpdate(before, args.confirmed),
           nonce' = args.start, accepted' = <<>>
    PROVE  ReceivingInv'
<1> DEFINE updated == ReceiveStateUpdate(before, args.confirmed)
<1>1. /\ before \in InboundLaneData /\ WellFormed(before) /\ args.confirmed \in Nat
      /\ args.start \in Nat /\ args.start >= 1 /\ args.end \in Nat
      /\ args.end >= args.start - 1
  BY TargetCallTypes
<1>2. updated \in InboundLaneData
  BY <1>1, StateUpdateCorrect
<1> HIDE DEF updated
<1>3. LastDeliveredNonce(updated) \in Nat
  BY <1>2, LastDeliveredType
<1>4. /\ LastAccepted(updated, args.relayer, args.start, args.start - 1)
           = LastDeliveredNonce(updated)
      /\ ReceiveMessages(updated, args.relayer, args.start, args.start - 1) = updated
  BY <1>1, <1>2, EmptyBatch
<1> DEFINE first == LastDeliveredNonce(updated) + 1
           last == LastAccepted(updated, args.relayer, args.start, args.start - 1)
<1>5. <<>> = [j \in 1 .. (last - first + 1) |-> first + j - 1]
  <2>1. last - first + 1 = 0
    BY <1>3, <1>4
  <2> HIDE DEF first, last
  <2> QED
    BY <2>1
<1>6. args.start \in args.start .. args.end + 1
  BY <1>1
<1> QED
  BY <1>4, <1>5, <1>6 DEF ReceivingInv, updated

LEMMA SetConfirmedStep ==
    ASSUME CallInv, SetConfirmedNonce
    PROVE  CallInv'
<1>1. /\ before \in Lanes /\ args \in Calls /\ before' = before /\ args' = args
      /\ pc' = "pop_front" /\ data = before /\ nonce' = args.start /\ accepted' = <<>>
      /\ args.confirmed <= LastDeliveredNonce(before)
      /\ args.confirmed > before.last_confirmed_nonce
      /\ data' = [before EXCEPT !.last_confirmed_nonce = args.confirmed]
  BY DEF CallInv, SetConfirmedNonce
<1>2. before \in InboundLaneData /\ before.relayers \in Seq(UnrewardedRelayer)
  BY <1>1, TargetCallTypes, LastDeliveredType
<1> DEFINE s == before.relayers
           t == EntriesAfter(s, 0)
<1>3. Len(s) \in Nat /\ 0 \in 0 .. Len(s)
  BY <1>2, EntryTypes
<1>4. t = s
  <2>1. /\ t \in Seq(UnrewardedRelayer) /\ Len(t) = Len(s) - 0
        /\ \A j \in 1 .. Len(s) - 0 : t[j] = s[0 + j]
    BY <1>2, <1>3, EntriesAfterFields
  <2> HIDE DEF t, s
  <2>2. Len(t) = Len(s) /\ \A j \in 1 .. Len(t) : t[j] = s[j]
    BY <1>3, <2>1
  <2>3. s \in Seq(UnrewardedRelayer)
    BY <1>2 DEF s
  <2> QED
    BY <2>1, <2>2, <2>3, SeqEqual
<1>5. data' = [before EXCEPT !.last_confirmed_nonce = args.confirmed,
                             !.relayers = EntriesAfter(@, 0)]
  BY <1>1, <1>2, <1>4 DEF InboundLaneData
<1>6. \A j \in 1 .. 0 : before.relayers[j].end <= args.confirmed
  OBVIOUS
<1>7. PoppingInv'
  BY <1>1, <1>3, <1>5, <1>6 DEF PoppingInv
<1> QED
  BY <1>1, <1>7 DEF CallInv

\* The facts that the loop over the confirmed entries keeps.
LEMMA PoppingFacts ==
    ASSUME CallInv, pc = "pop_front"
    PROVE  /\ before \in Lanes /\ args \in Calls /\ PoppingInv
           /\ before \in InboundLaneData /\ before.relayers \in Seq(UnrewardedRelayer)
           /\ args.confirmed \in Nat /\ Len(before.relayers) \in Nat
<1>1. before \in Lanes /\ args \in Calls /\ PoppingInv
  BY DEF CallInv
<1> QED
  BY <1>1, TargetCallTypes, LastDeliveredType, EntryTypes

LEMMA PopFrontStep ==
    ASSUME CallInv, PopFront
    PROVE  CallInv'
<1> DEFINE s == before.relayers
<1>1. /\ before \in Lanes /\ args \in Calls /\ PoppingInv
      /\ before \in InboundLaneData /\ s \in Seq(UnrewardedRelayer)
      /\ args.confirmed \in Nat /\ Len(s) \in Nat
  BY PoppingFacts DEF PopFront
<1>2. PICK k \in 0 .. Len(s) :
         /\ \A j \in 1 .. k : s[j].end <= args.confirmed
         /\ data = [before EXCEPT !.last_confirmed_nonce = args.confirmed,
                                  !.relayers = EntriesAfter(@, k)]
  BY <1>1 DEF PoppingInv
<1> DEFINE t == EntriesAfter(s, k)
<1>3. /\ t \in Seq(UnrewardedRelayer) /\ (t = <<>> <=> k = Len(s))
      /\ \A j \in 1 .. Len(s) - k : t[j] = s[k + j]
  BY <1>1, EntriesAfterFields
<1>4. data.relayers = t
  BY <1>1, <1>2 DEF InboundLaneData
<1>5. k # Len(s) /\ t[1].end <= args.confirmed
  BY <1>3, <1>4 DEF PopFront, FrontIsConfirmed
<1>6. k + 1 \in 0 .. Len(s) /\ s[k + 1].end <= args.confirmed
  <2>1. 1 \in 1 .. Len(s) - k /\ k + 1 \in 0 .. Len(s)
    BY <1>1, <1>5
  <2> HIDE DEF t
  <2> QED
    BY <1>3, <1>5, <2>1
<1>7. \A j \in 1 .. k + 1 : s[j].end <= args.confirmed
  <2>1. \A j \in 1 .. k + 1 : j = k + 1 \/ j \in 1 .. k
    BY <1>1
  <2> QED
    BY <1>2, <1>6, <2>1
<1>8. data' = [before EXCEPT !.last_confirmed_nonce = args.confirmed,
                             !.relayers = EntriesAfter(@, k + 1)]
  <2> DEFINE u == EntriesAfter(s, k + 1)
  <2>1. Tail(t) = u
    BY <1>1, <1>5, OneMorePopped
  <2>2. data' = [data EXCEPT !.relayers = Tail(@)]
    BY DEF PopFront
  <2> HIDE DEF t, u
  <2>3. data = [before EXCEPT !.last_confirmed_nonce = args.confirmed, !.relayers = t]
    BY <1>1, <1>2 DEF t, InboundLaneData
  <2>4. data' = [before EXCEPT !.last_confirmed_nonce = args.confirmed, !.relayers = u]
    BY <1>1, <2>1, <2>2, <2>3 DEF InboundLaneData
  <2> QED
    BY <1>1, <2>4 DEF u, InboundLaneData
<1>9. PoppingInv'
  <2>1. before' = before /\ args' = args /\ nonce' = nonce /\ accepted' = accepted
    BY DEF PopFront
  <2> QED
    BY <1>1, <1>6, <1>7, <1>8, <2>1 DEF PoppingInv
<1> QED
  BY <1>1, <1>9 DEF CallInv, PopFront

LEMMA SkipStep ==
    ASSUME CallInv, SkipStateUpdate
    PROVE  CallInv'
<1>1. /\ before \in Lanes /\ args \in Calls /\ before' = before /\ args' = args
      /\ pc' = "receive_message" /\ data' = before /\ nonce' = args.start
      /\ accepted' = <<>>
      /\ \/ args.confirmed > LastDeliveredNonce(before)
         \/ args.confirmed <= before.last_confirmed_nonce
  BY DEF CallInv, SkipStateUpdate
<1>2. data' = ReceiveStateUpdate(before, args.confirmed)
  BY <1>1 DEF ReceiveStateUpdate
<1>3. ReceivingInv'
  BY <1>1, <1>2, ReceivingBegins
<1> QED
  BY <1>1, <1>3 DEF CallInv

\* The entry that is left in front is trimmed, and that ends the state update.
LEMMA TrimmedFront ==
    ASSUME NEW s \in Seq(UnrewardedRelayer), NEW confirmed \in Nat, NEW k \in 0 .. Len(s),
           PoppedEntries(s, confirmed) = k
    PROVE  LET t == EntriesAfter(s, k)
           IN  TrimmedRelayers(s, confirmed)
                 = IF t # <<>> /\ t[1].begin <= confirmed
                   THEN [t EXCEPT ![1] = [@ EXCEPT !.begin = confirmed + 1]]
                   ELSE t
<1> DEFINE t == EntriesAfter(s, k)
           u == TrimmedRelayers(s, confirmed)
           e == [t[1] EXCEPT !.begin = confirmed + 1]
           trim == t # <<>> /\ t[1].begin <= confirmed
           v == IF trim THEN [t EXCEPT ![1] = e] ELSE t
<1>1. /\ t \in Seq(UnrewardedRelayer) /\ Len(t) = Len(s) - k /\ (t = <<>> <=> k = Len(s))
      /\ \A j \in 1 .. Len(s) - k : t[j] = s[k + j]
  BY EntriesAfterFields
<1>2. /\ u \in Seq(UnrewardedRelayer) /\ Len(u) = Len(s) - k
      /\ \A j \in 1 .. Len(u) : u[j] = IF j = 1 THEN TrimmedEntry(s[k + 1], confirmed)
                                     ELSE s[k + j]
  BY TrimmedRelayersFields
<1>3. Len(s) \in Nat
  BY EntryTypes
<1> HIDE DEF t, u
<1>4. t # <<>> => 1 \in 1 .. Len(t) /\ t[1] \in UnrewardedRelayer /\ t[1] = s[k + 1]
  <2> SUFFICES ASSUME t # <<>>
               PROVE  1 \in 1 .. Len(t) /\ t[1] \in UnrewardedRelayer /\ t[1] = s[k + 1]
    OBVIOUS
  <2>1. 1 \in 1 .. Len(t)
    BY <1>1, <1>3
  <2>2. t[1] = s[k + 1]
    BY <1>1, <1>3, <2>1
  <2>3. t[1] \in UnrewardedRelayer
    BY <1>1, <2>1, ElementOfSeq
  <2> QED
    BY <2>1, <2>2, <2>3
<1>5. t # <<>> => TrimmedEntry(s[k + 1], confirmed) = IF trim THEN e ELSE t[1]
  BY <1>4 DEF TrimmedEntry
<1>6. trim => e \in UnrewardedRelayer
  <2>1. \A x \in UnrewardedRelayer :
          [x EXCEPT !.begin = confirmed + 1] \in UnrewardedRelayer
    BY DEF UnrewardedRelayer
  <2> QED
    BY <1>4, <2>1
<1> HIDE DEF e
<1>7. trim => t # <<>>
  OBVIOUS
<1> HIDE DEF trim
<1>8. /\ v \in Seq(UnrewardedRelayer) /\ Len(v) = Len(t)
      /\ \A j \in 1 .. Len(t) : v[j] = IF j = 1 /\ trim THEN e ELSE t[j]
  <2>1. CASE trim
    <3>1. v = [t EXCEPT ![1] = e] /\ e \in UnrewardedRelayer
      BY <1>6, <2>1
    <3>2. 1 \in 1 .. Len(t)
      BY <1>4, <1>7, <2>1
    <3> HIDE DEF v
    <3>3. v \in Seq(UnrewardedRelayer) /\ Len(v) = Len(t)
      BY <1>1, <3>1, <3>2
    <3>4. \A j \in 1 .. Len(t) : v[j] = IF j = 1 THEN e ELSE t[j]
      BY <1>1, <3>1, <3>2
    <3> QED
      BY <2>1, <3>3, <3>4
  <2>2. CASE ~ trim
    BY <1>1, <2>2
  <2> QED
    BY <2>1, <2>2
<1> HIDE DEF v
<1>9. Len(u) = Len(v)
  BY <1>1, <1>2, <1>8
<1>10. \A j \in 1 .. Len(u) : u[j] = v[j]
  <2> TAKE j \in 1 .. Len(u)
  <2>1. j \in 1 .. Len(t) /\ t # <<>> /\ t[j] = s[k + j]
    BY <1>1, <1>2, <1>3
  <2>2. CASE j = 1
    BY <1>2, <1>5, <1>8, <2>1, <2>2
  <2>3. CASE j # 1
    BY <1>2, <1>8, <2>1, <2>3
  <2> QED
    BY <2>2, <2>3
<1>11. u = v
  BY <1>2, <1>8, <1>9, <1>10, SeqEqual
<1> QED
  BY <1>11 DEF u, v, t, e, trim

LEMMA UpdateFrontStep ==
    ASSUME CallInv, UpdateFront
    PROVE  CallInv'
<1> DEFINE s == before.relayers
           c == args.confirmed
<1>1. /\ before \in Lanes /\ args \in Calls /\ PoppingInv
      /\ before \in InboundLaneData /\ s \in Seq(UnrewardedRelayer)
      /\ c \in Nat /\ Len(s) \in Nat
  BY PoppingFacts DEF UpdateFront
<1>2. PICK k \in 0 .. Len(s) :
         /\ \A j \in 1 .. k : s[j].end <= c
         /\ data = [before EXCEPT !.last_confirmed_nonce = c,
                                  !.relayers = EntriesAfter(@, k)]
  BY <1>1 DEF PoppingInv
<1> DEFINE t == EntriesAfter(s, k)
           u == TrimmedRelayers(s, c)
<1>3. /\ t \in Seq(UnrewardedRelayer) /\ (t = <<>> <=> k = Len(s))
      /\ \A j \in 1 .. Len(s) - k : t[j] = s[k + j]
  BY <1>1, EntriesAfterFields
<1>4. /\ data.relayers = t
      /\ data = [before EXCEPT !.last_confirmed_nonce = c, !.relayers = t]
  BY <1>1, <1>2 DEF InboundLaneData
<1>5. k < Len(s) => s[k + 1].end > c
  <2> SUFFICES ASSUME k < Len(s) PROVE s[k + 1].end > c
    OBVIOUS
  <2>1. 1 \in 1 .. Len(s) - k /\ k + 1 \in 1 .. Len(s) /\ t # <<>>
    BY <1>1, <1>3
  <2>2. ~ (t[1].end <= c)
    BY <1>4, <2>1 DEF UpdateFront, FrontIsConfirmed
  <2>3. s[k + 1].end \in Nat
    BY <1>1, <2>1, EntryTypes
  <2>4. t[1] = s[k + 1]
    BY <1>3, <2>1
  <2> HIDE DEF t
  <2>5. ~ (s[k + 1].end <= c)
    BY <2>2, <2>4
  <2> QED
    BY <1>1, <2>3, <2>5
<1>6. PoppedEntries(s, c) = k
  BY <1>1, <1>2, <1>5, LoopStops
<1>7. u = IF t # <<>> /\ t[1].begin <= c
          THEN [t EXCEPT ![1] = [@ EXCEPT !.begin = c + 1]] ELSE t
  BY <1>1, <1>6, TrimmedFront
<1>8. data' = IF t # <<>> /\ t[1].begin <= c
              THEN [data EXCEPT !.relayers[1].begin = c + 1] ELSE data
  BY <1>4 DEF UpdateFront
<1> DEFINE w == [t EXCEPT ![1] = [@ EXCEPT !.begin = c + 1]]
<1> HIDE DEF t, u
<1>9. data' = [before EXCEPT !.last_confirmed_nonce = c, !.relayers = u]
  <2>1. CASE t # <<>> /\ t[1].begin <= c
    <3>1. u = w /\ data' = [data EXCEPT !.relayers[1].begin = c + 1]
      BY <1>7, <1>8, <2>1
    <3>2. data' = [data EXCEPT !.relayers = w]
      BY <1>1, <1>4, <3>1 DEF InboundLaneData
    <3> HIDE DEF w
    <3> QED
      BY <1>1, <1>4, <3>1, <3>2 DEF InboundLaneData
  <2>2. CASE ~ (t # <<>> /\ t[1].begin <= c)
    BY <1>4, <1>7, <1>8, <2>2
  <2> QED
    BY <2>1, <2>2
<1>10. data' = ReceiveStateUpdate(before, c)
  <2>1. ~ (c > LastDeliveredNonce(before) \/ c <= before.last_confirmed_nonce)
    BY <1>1, LastDeliveredType DEF PoppingInv
  <2>2. ReceiveStateUpdate(before, c)
          = [before EXCEPT !.last_confirmed_nonce = c, !.relayers = TrimmedRelayers(@, c)]
    BY <2>1 DEF ReceiveStateUpdate
  <2> QED
    BY <1>1, <1>9, <2>2 DEF u, InboundLaneData
<1>11. /\ before' = before /\ args' = args /\ nonce' = args.start /\ accepted' = <<>>
       /\ pc' = "receive_message"
  BY <1>1 DEF UpdateFront, PoppingInv
<1>12. ReceivingInv'
  BY <1>1, <1>10, <1>11, ReceivingBegins
<1> QED
  BY <1>1, <1>11, <1>12 DEF CallInv

\* The nonces from a up to n, as a sequence.
NoncesFromTo(a, n) == [j \in 1 .. (n - a + 1) |-> a + j - 1]

LEMMA NoncesFromToNext ==
    ASSUME NEW a \in Nat, NEW n \in Nat, a <= n
    PROVE  Append(NoncesFromTo(a, n - 1), n) = NoncesFromTo(a, n)
<1> DEFINE x == NoncesFromTo(a, n - 1)
           y == NoncesFromTo(a, n)
           len == n - a
<1>1. len \in Nat /\ (n - 1) - a + 1 = len /\ n - a + 1 = len + 1
  OBVIOUS
<1>2. x = [j \in 1 .. len |-> a + j - 1] /\ y = [j \in 1 .. len + 1 |-> a + j - 1]
  BY <1>1 DEF NoncesFromTo
<1>3. \A j \in 1 .. len + 1 : a + j - 1 \in Int
  BY <1>1
<1>4. a + (len + 1) - 1 = n
  OBVIOUS
<1> HIDE DEF x, y, len
<1>5. x \in Seq(Int) /\ Len(x) = len
  BY <1>1, <1>2, <1>3
<1>6. y \in Seq(Int) /\ Len(y) = len + 1
  BY <1>1, <1>2, <1>3
<1>7. Append(x, n) \in Seq(Int) /\ Len(Append(x, n)) = len + 1
  BY <1>5
<1>8. \A j \in 1 .. len + 1 : Append(x, n)[j] = y[j]
  <2> TAKE j \in 1 .. len + 1
  <2>1. CASE j = len + 1
    BY <1>1, <1>2, <1>4, <1>5, <2>1
  <2>2. CASE j # len + 1
    <3>1. j \in 1 .. len
      BY <1>1, <2>2
    <3> QED
      BY <1>1, <1>2, <1>5, <3>1
  <2> QED
    BY <2>1, <2>2
<1>9. Append(x, n) = y
  BY <1>6, <1>7, <1>8, SeqEqual
<1> QED
  BY <1>9 DEF x, y

\* A message of the proof, whether or not it is accepted.
LEMMA MessageStep ==
    ASSUME CallInv, RejectMessage \/ DispatchMessage
    PROVE  CallInv'
<1> DEFINE updated == ReceiveStateUpdate(before, args.confirmed)
           r == args.relayer
           start == args.start
           n == nonce
           first == LastDeliveredNonce(updated) + 1
           mid == ReceiveMessages(updated, r, start, n - 1)
<1>1. /\ before \in Lanes /\ args \in Calls /\ ReceivingInv /\ n <= args.end
      /\ before' = before /\ args' = args /\ nonce' = n + 1 /\ pc' = "receive_message"
  BY DEF CallInv, RejectMessage, DispatchMessage
<1>2. /\ before \in InboundLaneData /\ WellFormed(before)
      /\ r \in Relayers /\ start \in Nat /\ start >= 1
      /\ args.end \in Nat /\ args.confirmed \in Nat
  BY <1>1, TargetCallTypes
<1>3. updated \in InboundLaneData /\ WellFormed(updated)
  BY <1>2, StateUpdateCorrect
<1>4. /\ n \in start .. args.end + 1
      /\ data = mid
      /\ accepted = NoncesFromTo(first, LastAccepted(updated, r, start, n - 1))
  BY <1>1 DEF ReceivingInv, NoncesFromTo
<1>5. n \in Nat /\ n >= 1 /\ start <= n /\ n - 1 \in Nat /\ (n + 1) - 1 = n
      /\ n + 1 \in start .. args.end + 1
  BY <1>1, <1>2, <1>4
<1> HIDE DEF updated
<1>6. /\ Rejected(mid, n) =>
           LastAccepted(updated, r, start, n) = LastAccepted(updated, r, start, n - 1)
      /\ ~ Rejected(mid, n) =>
           /\ LastAccepted(updated, r, start, n) = n
           /\ LastAccepted(updated, r, start, n - 1) = n - 1
  BY <1>2, <1>3, <1>5, LastAcceptedNext
<1> DEFINE new == ReceiveMessages(updated, r, start, n)
<1>7. /\ data' = new
      /\ accepted' = NoncesFromTo(first, LastAccepted(updated, r, start, n))
  <2>1. CASE Rejected(mid, n)
    <3>1. data' = mid /\ accepted' = accepted
      BY <1>4, <2>1 DEF RejectMessage, DispatchMessage
    <3>2. mid = new
      BY <1>6, <2>1 DEF ReceiveMessages
    <3> QED
      BY <1>4, <1>6, <2>1, <3>1, <3>2
  <2>2. CASE ~ Rejected(mid, n)
    <3>1. data' = MessageReceived(mid, r, n) /\ accepted' = Append(accepted, n)
      BY <1>4, <2>2 DEF RejectMessage, DispatchMessage, MessageReceived
    <3>2. MessageReceived(mid, r, n) = new
      BY <1>2, <1>3, <1>5, <2>2, ReceiveMessagesNext
    <3>3. first \in Nat /\ first <= n
      <4>1. LastDeliveredNonce(updated) \in Nat
        BY <1>3, LastDeliveredType
      <4>2. LastDeliveredNonce(updated) <= LastAccepted(updated, r, start, n - 1)
        BY <1>2, <1>3, <1>5, LastAcceptedRange
      <4> QED
        BY <1>5, <1>6, <2>2, <4>1, <4>2
    <3> HIDE DEF first
    <3>4. Append(NoncesFromTo(first, n - 1), n) = NoncesFromTo(first, n)
      BY <1>5, <3>3, NoncesFromToNext
    <3> QED
      BY <1>4, <1>6, <2>2, <3>1, <3>2, <3>4
  <2> QED
    BY <2>1, <2>2
<1>8. ReceivingInv'
  <2>1. nonce' - 1 = n /\ nonce' \in start .. args.end + 1
    BY <1>1, <1>5
  <2> QED
    BY <1>1, <1>7, <2>1 DEF ReceivingInv, updated, NoncesFromTo
<1> QED
  BY <1>1, <1>8 DEF CallInv

LEMMA ReturnStep ==
    ASSUME CallInv, Return
    PROVE  CallInv'
<1>1. /\ before \in Lanes /\ args \in Calls /\ ReceivingInv /\ nonce > args.end
      /\ before' = before /\ args' = args /\ nonce' = nonce /\ pc' = "returned"
      /\ data' = data /\ accepted' = accepted
  BY DEF CallInv, Return
<1>2. nonce' = args'.end + 1
  BY <1>1, TargetCallTypes DEF ReceivingInv
<1>3. ReceivingInv'
  BY <1>1 DEF ReceivingInv
<1> QED
  BY <1>1, <1>2, <1>3 DEF CallInv

LEMMA TargetStep ==
    ASSUME CallInv, Next
    PROVE  CallInv'
BY SkipStep, SetConfirmedStep, PopFrontStep, UpdateFrontStep, MessageStep, ReturnStep DEF Next

\* When the call returns, the loops have computed the closed forms.
LEMMA TargetMatches ==
    ASSUME CallInv
    PROVE  CallMatchesClosedForm
<1> SUFFICES ASSUME pc = "returned"
             PROVE  CallMatchesClosedForm
  BY DEF CallMatchesClosedForm
<1>1. before \in Lanes /\ args \in Calls /\ ReceivingInv /\ nonce = args.end + 1
  BY DEF CallInv
<1>2. nonce - 1 = args.end
  BY <1>1, TargetCallTypes
<1> QED
  BY <1>1, <1>2 DEF ReceivingInv, CallMatchesClosedForm

-----------------------------------------------------------------------------
(***************************************************************************)
(* The source.                                                             *)
(***************************************************************************)

\* The instance counts as FiniteSets does.
LEMMA SourceCardinality ==
    ASSUME NEW S
    PROVE  Source!Cardinality(S) = Cardinality(S)
BY Zenon DEF Source!Cardinality, Cardinality

\* The types of the lane that a call at the source finds.
LEMMA SourceLaneTypes ==
    ASSUME srcBefore \in Source!Lanes
    PROVE  /\ srcBefore.oldest_unpruned_nonce \in Nat
           /\ srcBefore.latest_received_nonce \in Nat
           /\ srcBefore.latest_generated_nonce \in Nat
           /\ srcBefore.latest_generated_nonce <= MaxSourceNonce
           /\ srcBefore.oldest_unpruned_nonce > srcBefore.latest_received_nonce
           /\ srcBefore.oldest_unpruned_nonce <= srcBefore.latest_generated_nonce + 1
           /\ srcBefore \in Source!OutboundLaneData
BY SourceAssumption DEF Source!Lanes, Source!OutboundLaneData, Source!LaneStates

\* The types of the lane data that a delivery proof shows.
LEMMA ProvedTypes ==
    ASSUME proved \in Source!ProvedLanes
    PROVE  /\ proved.relayers \in Seq(UnrewardedRelayer)
           /\ Len(proved.relayers) \in Nat
           /\ DOMAIN proved.relayers = 1 .. Len(proved.relayers)
           /\ proved.relayers = <<>> <=> Len(proved.relayers) = 0
           /\ \A j \in 1 .. Len(proved.relayers) :
                /\ proved.relayers[j].relayer \in Relayers
                /\ proved.relayers[j].begin \in Nat
                /\ proved.relayers[j].end \in Nat
           /\ Source!LastDeliveredNonce(proved) \in Nat
<1>1. Source!Entry \subseteq UnrewardedRelayer
  BY SourceAssumption DEF Source!Entry, Source!Nonces, UnrewardedRelayer
<1>2. Source!EntryQueues \subseteq Seq(UnrewardedRelayer)
  <2> SUFFICES ASSUME NEW q \in Source!EntryQueues PROVE q \in Seq(UnrewardedRelayer)
    OBVIOUS
  <2>1. PICK n \in 0 .. MaxUnrewardedRelayers : q \in [1 .. n -> Source!Entry]
    BY DEF Source!EntryQueues
  <2>2. n \in Nat
    BY LimitsAssumption
  <2>3. q \in [1 .. n -> UnrewardedRelayer]
    BY <1>1, <2>1
  <2> QED
    BY <2>2, <2>3, SeqDef
<1>3. proved \in InboundLaneData
  BY <1>2, SourceAssumption DEF Source!ProvedLanes, InboundLaneData
<1>4. Source!LastDeliveredNonce(proved) = LastDeliveredNonce(proved)
  BY DEF Source!LastDeliveredNonce, LastDeliveredNonce
<1> QED
  BY <1>3, <1>4, LastDeliveredType, EntryTypes

\* The range that is confirmed, and its length.
LEMMA RangeFacts ==
    ASSUME srcBefore \in Source!Lanes, proved \in Source!ProvedLanes
    PROVE  LET d == Source!LastDeliveredNonce(proved)
               received == srcBefore.latest_received_nonce
           IN  /\ Source!Range = {} <=> Source!NothingToConfirm(srcBefore, d)
               /\ Source!Range # {} => Cardinality(Source!Range) = d - received
<1> DEFINE d == Source!LastDeliveredNonce(proved)
           received == srcBefore.latest_received_nonce
<1>1. d \in Nat /\ received \in Nat
  BY SourceLaneTypes, ProvedTypes
<1>2. Source!Range = received + 1 .. d
  BY DEF Source!Range
<1>3. Source!NothingToConfirm(srcBefore, d) <=> d <= received
  BY DEF Source!NothingToConfirm
<1> HIDE DEF d, received
<1>4. received + 1 .. d = {} <=> d <= received
  <2>1. d > received => d \in received + 1 .. d
    BY <1>1
  <2> QED
    BY <1>1, <2>1
<1>5. Cardinality(received + 1 .. d) = IF received + 1 > d THEN 0 ELSE d - (received + 1) + 1
  <2>1. received + 1 \in Int /\ d \in Int
    BY <1>1
  <2> QED
    BY <2>1, FS_Interval
<1>6. d > received => Cardinality(received + 1 .. d) = d - received
  BY <1>1, <1>5
<1> QED
  BY <1>1, <1>2, <1>3, <1>4, <1>6 DEF d, received

\* The checks on the entries, up to the k-th.
LEMMA CanConfirmMeans ==
    ASSUME srcBefore \in Source!Lanes, proved \in Source!ProvedLanes
    PROVE  Source!Confirming <=>
             /\ Source!Range # {}
             /\ Source!LastDeliveredNonce(proved) <= srcBefore.latest_generated_nonce
             /\ Cardinality(Source!Range) <= Source!TotalUnrewardedMessages(proved)
             /\ Source!UnrewardedRelayersAreCorrect(Source!LastDeliveredNonce(proved),
                                                    proved.relayers)
<1> DEFINE d == Source!LastDeliveredNonce(proved)
           received == srcBefore.latest_received_nonce
           total == Source!TotalUnrewardedMessages(proved)
           correct == Source!UnrewardedRelayersAreCorrect(d, proved.relayers)
<1>1. /\ Source!Range = {} <=> Source!NothingToConfirm(srcBefore, d)
      /\ Source!Range # {} => Cardinality(Source!Range) = d - received
  BY RangeFacts
<1>2. Source!Confirming <=>
        /\ ~ Source!NothingToConfirm(srcBefore, d)
        /\ d <= srcBefore.latest_generated_nonce
        /\ d - received <= total
        /\ correct
  BY DEF Source!Confirming, Source!CanConfirm
<1> HIDE DEF d, received, total, correct
<1>3. CASE Source!Range = {}
  BY <1>1, <1>2, <1>3
<1>4. CASE Source!Range # {}
  BY <1>1, <1>2, <1>4 DEF d, total, correct
<1> QED
  BY <1>3, <1>4

\* What a call that ends leaves alone.
LEMMA CallEnds ==
    ASSUME NEW result, Source!EndCall(result)
    PROVE  /\ srcPc' = result /\ srcBefore' = srcBefore /\ proved' = proved
           /\ mayPrune' = mayPrune /\ lane' = lane /\ stored' = stored /\ i' = i
           /\ expected' = expected /\ paid' = paid
           /\ Source!Range' = Source!Range /\ (Source!Confirming' <=> Source!Confirming)
           /\ (Source!Untouched' <=> Source!Untouched)
           /\ (Source!RewardingInv' <=> Source!RewardingInv)
           /\ (Source!PruningInv' <=> Source!PruningInv)
           /\ (Source!MorePruningAllowed' <=> Source!MorePruningAllowed)
<1>1. /\ srcPc' = result /\ srcBefore' = srcBefore /\ proved' = proved
      /\ mayPrune' = mayPrune /\ lane' = lane /\ stored' = stored /\ i' = i
      /\ expected' = expected /\ paid' = paid
  BY DEF Source!EndCall
<1>2. Source!Range' = Source!Range
  BY <1>1 DEF Source!Range
<1>3. Source!Confirming' <=> Source!Confirming
  BY <1>1 DEF Source!Confirming
<1>4. Source!Untouched' <=> Source!Untouched
  BY <1>1 DEF Source!Untouched
<1>5. Source!RewardingInv' <=> Source!RewardingInv
  BY <1>1, <1>2 DEF Source!RewardingInv, Source!CreditedMessages
<1>6. Source!PruningInv' <=> Source!PruningInv
  BY <1>1 DEF Source!PruningInv
<1>7. Source!MorePruningAllowed' <=> Source!MorePruningAllowed
  BY <1>1 DEF Source!MorePruningAllowed
<1> QED
  BY <1>1, <1>2, <1>3, <1>4, <1>5, <1>6, <1>7

\* A call of receive_messages_delivery_proof that has not checked anything yet.
LEMMA NothingChecked ==
    ASSUME Source!CallInv, srcPc = "confirm_delivery"
    PROVE  /\ srcBefore \in Source!Lanes /\ proved \in Source!ProvedLanes
           /\ Source!Untouched /\ lane = srcBefore
<1>1. srcBefore \in Source!Lanes /\ proved \in Source!ProvedLanes /\ Source!Untouched
  BY DEF Source!CallInv
<1> QED
  BY <1>1 DEF Source!Untouched

LEMMA ConfirmNothingStep ==
    ASSUME Source!CallInv, Source!ConfirmNothing
    PROVE  Source!CallInv'
<1>1. /\ srcBefore \in Source!Lanes /\ proved \in Source!ProvedLanes
      /\ Source!Untouched /\ Source!Range = {} /\ Source!EndCall("nothing")
  BY DEF Source!CallInv, Source!ConfirmNothing
<1> QED
  BY <1>1, CallEnds DEF Source!CallInv

LEMMA TooManyStep ==
    ASSUME Source!CallInv, Source!TooManyMessages
    PROVE  Source!CallInv'
<1>1. /\ srcBefore \in Source!Lanes /\ proved \in Source!ProvedLanes
      /\ Source!Untouched /\ Source!Range # {} /\ Source!EndCall("error")
      /\ \/ Source!LastDeliveredNonce(proved) > srcBefore.latest_generated_nonce
         \/ Cardinality(Source!Range) > Source!TotalUnrewardedMessages(proved)
  BY NothingChecked, SourceCardinality DEF Source!TooManyMessages
<1>2. ~ Source!Confirming
  <2>1. /\ Source!LastDeliveredNonce(proved) \in Nat
        /\ srcBefore.latest_generated_nonce \in Nat
        /\ srcBefore.latest_received_nonce \in Nat
        /\ Cardinality(Source!Range) \in Int
    BY <1>1, ProvedTypes, SourceLaneTypes, RangeFacts
  <2>2. Source!TotalUnrewardedMessages(proved) \in Int
    <3>1. /\ proved.relayers # <<>> =>
                /\ proved.relayers[1].begin \in Nat
                /\ proved.relayers[Len(proved.relayers)].end \in Nat
      BY <1>1, ProvedTypes
    <3> QED
      BY <3>1 DEF Source!TotalUnrewardedMessages
  <2>3. \/ ~ (Source!LastDeliveredNonce(proved) <= srcBefore.latest_generated_nonce)
        \/ ~ (Cardinality(Source!Range) <= Source!TotalUnrewardedMessages(proved))
    BY <1>1, <2>1, <2>2
  <2> QED
    BY <1>1, <2>3, CanConfirmMeans
<1> QED
  BY <1>1, <1>2, CallEnds DEF Source!CallInv

LEMMA BeginVerificationStep ==
    ASSUME Source!CallInv, Source!BeginVerification
    PROVE  Source!CallInv'
<1>1. /\ srcBefore \in Source!Lanes /\ proved \in Source!ProvedLanes
      /\ Source!Untouched /\ Source!Range # {}
      /\ Source!LastDeliveredNonce(proved) <= srcBefore.latest_generated_nonce
      /\ Cardinality(Source!Range) <= Source!TotalUnrewardedMessages(proved)
      /\ srcPc' = "ensure_unrewarded_relayers_are_correct" /\ i' = 1
      /\ expected' = IF proved.relayers = <<>> THEN 0 ELSE proved.relayers[1].begin
      /\ srcBefore' = srcBefore /\ proved' = proved /\ mayPrune' = mayPrune
      /\ lane' = lane /\ stored' = stored /\ paid' = paid
  BY NothingChecked, SourceCardinality DEF Source!BeginVerification
<1>2. Source!Range' = Source!Range
  BY <1>1 DEF Source!Range
<1>3. Source!Untouched'
  BY <1>1 DEF Source!Untouched
<1>4. Source!VerifyingInv'
  <2>1. Len(proved.relayers) \in Nat
    BY <1>1, ProvedTypes
  <2>2. /\ Source!LastDeliveredNonce(proved)' = Source!LastDeliveredNonce(proved)
        /\ Source!TotalUnrewardedMessages(proved)' = Source!TotalUnrewardedMessages(proved)
    BY <1>1
  <2>3. i' \in 1 .. Len(proved'.relayers) + 1 /\ \A j \in 1 .. i' - 1 : FALSE
    BY <1>1, <2>1
  <2>4. expected' = IF proved'.relayers = <<>> THEN 0
                    ELSE IF i' = 1 THEN proved'.relayers[1].begin
                    ELSE proved'.relayers[i' - 1].end + 1
    BY <1>1
  <2> QED
    BY <1>1, <1>2, <2>2, <2>3, <2>4, SourceCardinality DEF Source!VerifyingInv
<1> QED
  BY <1>1, <1>3, <1>4 DEF Source!CallInv

\* The entry of index k is as the check wants it.
CorrectEntry(k) ==
    /\ proved.relayers[k].begin <= proved.relayers[k].end
    /\ k > 1 => proved.relayers[k].begin = proved.relayers[k - 1].end + 1
    /\ proved.relayers[k].end <= Source!LastDeliveredNonce(proved)

\* The loop over the entries.
LEMMA Verifying ==
    ASSUME Source!CallInv, srcPc = "ensure_unrewarded_relayers_are_correct"
    PROVE  /\ srcBefore \in Source!Lanes /\ proved \in Source!ProvedLanes
           /\ Source!Untouched /\ Source!Range # {}
           /\ Source!LastDeliveredNonce(proved) <= srcBefore.latest_generated_nonce
           /\ Cardinality(Source!Range) <= Source!TotalUnrewardedMessages(proved)
           /\ Len(proved.relayers) \in Nat
           /\ i \in 1 .. Len(proved.relayers) + 1
           /\ \A j \in 1 .. i - 1 : CorrectEntry(j)
           /\ i <= Len(proved.relayers) =>
                (Source!EntryIsCorrect(proved.relayers[i], expected) <=> CorrectEntry(i))
           /\ Source!UnrewardedRelayersAreCorrect(Source!LastDeliveredNonce(proved),
                                                  proved.relayers)
                <=> \A j \in 1 .. Len(proved.relayers) : CorrectEntry(j)
<1>1. /\ srcBefore \in Source!Lanes /\ proved \in Source!ProvedLanes
      /\ Source!Untouched /\ Source!VerifyingInv
  BY DEF Source!CallInv
<1>2. /\ Source!Range # {}
      /\ Source!LastDeliveredNonce(proved) <= srcBefore.latest_generated_nonce
      /\ Cardinality(Source!Range) <= Source!TotalUnrewardedMessages(proved)
      /\ i \in 1 .. Len(proved.relayers) + 1
      /\ \A j \in 1 .. i - 1 : CorrectEntry(j)
      /\ expected = IF proved.relayers = <<>> THEN 0
                    ELSE IF i = 1 THEN proved.relayers[1].begin
                    ELSE proved.relayers[i - 1].end + 1
  BY <1>1, SourceCardinality DEF Source!VerifyingInv, CorrectEntry
<1>3. /\ Len(proved.relayers) \in Nat
      /\ DOMAIN proved.relayers = 1 .. Len(proved.relayers)
      /\ proved.relayers = <<>> <=> Len(proved.relayers) = 0
  BY <1>1, ProvedTypes
<1>4. i <= Len(proved.relayers) =>
        (Source!EntryIsCorrect(proved.relayers[i], expected) <=> CorrectEntry(i))
  <2> SUFFICES ASSUME i <= Len(proved.relayers)
               PROVE  Source!EntryIsCorrect(proved.relayers[i], expected) <=> CorrectEntry(i)
    OBVIOUS
  <2>1. proved.relayers # <<>>
    BY <1>2, <1>3
  <2>2. CASE i = 1
    BY <1>2, <2>1, <2>2 DEF Source!EntryIsCorrect, CorrectEntry
  <2>3. CASE i # 1
    <3>1. i > 1
      BY <1>2, <1>3, <2>3
    <3> QED
      BY <1>2, <2>1, <2>3, <3>1 DEF Source!EntryIsCorrect, CorrectEntry
  <2> QED
    BY <2>2, <2>3
<1>5. Source!UnrewardedRelayersAreCorrect(Source!LastDeliveredNonce(proved), proved.relayers)
        <=> \A j \in 1 .. Len(proved.relayers) : CorrectEntry(j)
  BY <1>3 DEF Source!UnrewardedRelayersAreCorrect, CorrectEntry
<1> QED
  BY <1>1, <1>2, <1>3, <1>4, <1>5

LEMMA VerifyEntryStep ==
    ASSUME Source!CallInv, Source!VerifyEntry
    PROVE  Source!CallInv'
<1>1. /\ i <= Len(proved.relayers)
      /\ Source!EntryIsCorrect(proved.relayers[i], expected)
      /\ expected' = proved.relayers[i].end + 1 /\ i' = i + 1
      /\ srcBefore' = srcBefore /\ proved' = proved /\ mayPrune' = mayPrune
      /\ srcPc = "ensure_unrewarded_relayers_are_correct" /\ srcPc' = srcPc
      /\ lane' = lane /\ stored' = stored /\ paid' = paid
  BY DEF Source!VerifyEntry
<1>2. /\ srcBefore \in Source!Lanes /\ proved \in Source!ProvedLanes
      /\ Source!Untouched /\ Source!Range # {}
      /\ Source!LastDeliveredNonce(proved) <= srcBefore.latest_generated_nonce
      /\ Cardinality(Source!Range) <= Source!TotalUnrewardedMessages(proved)
      /\ Len(proved.relayers) \in Nat
      /\ i \in 1 .. Len(proved.relayers) + 1
      /\ \A j \in 1 .. i - 1 : CorrectEntry(j)
      /\ CorrectEntry(i)
  BY <1>1, Verifying
<1>3. Source!Range' = Source!Range
  BY <1>1 DEF Source!Range
<1>4. Source!Untouched'
  BY <1>1, <1>2 DEF Source!Untouched
<1>5. /\ i + 1 \in 1 .. Len(proved.relayers) + 1 /\ (i + 1) - 1 = i /\ i + 1 # 1
      /\ \A j \in 1 .. i : j = i \/ j \in 1 .. i - 1
      /\ Len(proved.relayers) # 0
  BY <1>1, <1>2
<1>6. \A j \in 1 .. i : CorrectEntry(j)
  BY <1>2, <1>5
<1>7. proved.relayers # <<>>
  BY <1>2, <1>5, ProvedTypes
<1>8. Source!VerifyingInv'
  <2>1. \A j \in 1 .. i' - 1 :
          /\ proved.relayers[j].begin <= proved.relayers[j].end
          /\ j > 1 => proved.relayers[j].begin = proved.relayers[j - 1].end + 1
          /\ proved.relayers[j].end <= Source!LastDeliveredNonce(proved)
    BY <1>1, <1>5, <1>6 DEF CorrectEntry
  <2>2. expected' = IF proved.relayers = <<>> THEN 0
                    ELSE IF i' = 1 THEN proved.relayers[1].begin
                    ELSE proved.relayers[i' - 1].end + 1
    BY <1>1, <1>5, <1>7
  <2>3. i' \in 1 .. Len(proved.relayers) + 1
    BY <1>1, <1>5
  <2>4. /\ Source!Range' # {}
        /\ Source!LastDeliveredNonce(proved') <= srcBefore'.latest_generated_nonce
        /\ Source!Cardinality(Source!Range)' <= Source!TotalUnrewardedMessages(proved')
    BY <1>1, <1>2, <1>3, SourceCardinality
  <2> QED
    BY <1>1, <2>1, <2>2, <2>3, <2>4 DEF Source!VerifyingInv
<1> QED
  BY <1>1, <1>2, <1>4, <1>8 DEF Source!CallInv

LEMMA BadEntryStep ==
    ASSUME Source!CallInv, Source!BadEntry
    PROVE  Source!CallInv'
<1>1. /\ srcPc = "ensure_unrewarded_relayers_are_correct"
      /\ i <= Len(proved.relayers)
      /\ ~ Source!EntryIsCorrect(proved.relayers[i], expected)
      /\ Source!EndCall("error")
  BY DEF Source!BadEntry
<1>2. /\ srcBefore \in Source!Lanes /\ proved \in Source!ProvedLanes
      /\ Source!Untouched /\ Source!Range # {}
      /\ Len(proved.relayers) \in Nat /\ i \in 1 .. Len(proved.relayers) + 1
      /\ ~ CorrectEntry(i)
      /\ Source!UnrewardedRelayersAreCorrect(Source!LastDeliveredNonce(proved),
                                             proved.relayers)
           <=> \A j \in 1 .. Len(proved.relayers) : CorrectEntry(j)
  BY <1>1, Verifying
<1>3. i \in 1 .. Len(proved.relayers)
  BY <1>1, <1>2
<1>4. ~ Source!Confirming
  BY <1>2, <1>3, CanConfirmMeans
<1> QED
  BY <1>1, <1>2, <1>4, CallEnds DEF Source!CallInv

LEMMA BeginPruningStep ==
    ASSUME Source!CallInv, Source!BeginPruning
    PROVE  Source!CallInv'
<1>1. /\ srcPc = "ensure_unrewarded_relayers_are_correct" /\ srcPc' = "remove_message"
      /\ i > Len(proved.relayers) /\ i' = srcBefore.latest_received_nonce + 1
      /\ srcBefore' = srcBefore /\ proved' = proved /\ mayPrune' = mayPrune
      /\ lane' = lane /\ stored' = stored /\ paid' = paid
  BY DEF Source!BeginPruning
<1>2. /\ srcBefore \in Source!Lanes /\ proved \in Source!ProvedLanes
      /\ Source!Untouched /\ Source!Range # {}
      /\ Source!LastDeliveredNonce(proved) <= srcBefore.latest_generated_nonce
      /\ Cardinality(Source!Range) <= Source!TotalUnrewardedMessages(proved)
      /\ Len(proved.relayers) \in Nat
      /\ i \in 1 .. Len(proved.relayers) + 1
      /\ \A j \in 1 .. i - 1 : CorrectEntry(j)
      /\ Source!UnrewardedRelayersAreCorrect(Source!LastDeliveredNonce(proved),
                                             proved.relayers)
           <=> \A j \in 1 .. Len(proved.relayers) : CorrectEntry(j)
  BY <1>1, Verifying
<1>3. i - 1 = Len(proved.relayers)
  BY <1>1, <1>2
<1>4. Source!Confirming
  BY <1>2, <1>3, CanConfirmMeans
<1>5. Source!Confirming'
  BY <1>1, <1>4 DEF Source!Confirming
<1>6. Source!RemovingInv'
  <2> DEFINE received == srcBefore.latest_received_nonce
             d == Source!LastDeliveredNonce(proved)
  <2>1. received \in Nat /\ d \in Nat /\ ~ (d <= received)
    BY <1>2, SourceLaneTypes, ProvedTypes, RangeFacts DEF Source!NothingToConfirm
  <2> HIDE DEF received, d
  <2>2. received + 1 \in received + 1 .. d + 1 /\ received + 1 .. (received + 1) - 1 = {}
    BY <2>1
  <2>3. stored' = Source!UnprunedMessages(srcBefore)
    BY <1>1, <1>2 DEF Source!Untouched
  <2> QED
    BY <1>1, <2>2, <2>3 DEF Source!RemovingInv, received, d
<1>7. lane' = srcBefore' /\ paid' = [r \in Relayers |-> 0]
  BY <1>1, <1>2 DEF Source!Untouched
<1> QED
  BY <1>1, <1>2, <1>5, <1>6, <1>7 DEF Source!CallInv

\* The loop that removes the confirmed messages.
LEMMA Removing ==
    ASSUME Source!CallInv, srcPc = "remove_message"
    PROVE  /\ srcBefore \in Source!Lanes /\ proved \in Source!ProvedLanes
           /\ Source!Confirming /\ Source!RemovingInv
           /\ lane = srcBefore /\ paid = [r \in Relayers |-> 0]
           /\ srcBefore.latest_received_nonce \in Nat
           /\ Source!LastDeliveredNonce(proved) \in Nat
           /\ Source!Range = srcBefore.latest_received_nonce + 1
                               .. Source!LastDeliveredNonce(proved)
<1>1. /\ srcBefore \in Source!Lanes /\ proved \in Source!ProvedLanes
      /\ Source!Confirming /\ Source!RemovingInv
      /\ lane = srcBefore /\ paid = [r \in Relayers |-> 0]
  BY DEF Source!CallInv
<1> QED
  BY <1>1, SourceLaneTypes, ProvedTypes DEF Source!Range

LEMMA RemoveMessageStep ==
    ASSUME Source!CallInv, Source!RemoveMessage
    PROVE  Source!CallInv'
<1> DEFINE received == srcBefore.latest_received_nonce
           d == Source!LastDeliveredNonce(proved)
           unpruned == Source!UnprunedMessages(srcBefore)
<1>1. /\ srcPc = "remove_message" /\ srcPc' = srcPc /\ i \in Source!Range
      /\ stored' = stored \ {i} /\ i' = i + 1
      /\ srcBefore' = srcBefore /\ proved' = proved /\ mayPrune' = mayPrune
      /\ lane' = lane /\ paid' = paid
  BY DEF Source!RemoveMessage
<1>2. /\ srcBefore \in Source!Lanes /\ proved \in Source!ProvedLanes
      /\ Source!Confirming /\ lane = srcBefore /\ paid = [r \in Relayers |-> 0]
      /\ received \in Nat /\ d \in Nat /\ Source!Range = received + 1 .. d
      /\ i \in received + 1 .. d + 1 /\ stored = unpruned \ (received + 1 .. i - 1)
  BY <1>1, Removing DEF Source!RemovingInv
<1>3. Source!Confirming'
  BY <1>1, <1>2 DEF Source!Confirming
<1>4. Source!RemovingInv'
  <2> HIDE DEF received, d, unpruned
  <2>1. i + 1 \in received + 1 .. d + 1
    BY <1>1, <1>2
  <2>2. (received + 1 .. i - 1) \cup {i} = received + 1 .. (i + 1) - 1
    BY <1>1, <1>2
  <2>3. stored' = unpruned \ (received + 1 .. (i + 1) - 1)
    BY <1>1, <1>2, <2>2
  <2> QED
    BY <1>1, <2>1, <2>3 DEF Source!RemovingInv, received, d, unpruned
<1> QED
  BY <1>1, <1>2, <1>3, <1>4 DEF Source!CallInv

LEMMA SetReceivedStep ==
    ASSUME Source!CallInv, Source!SetReceivedNonce
    PROVE  Source!CallInv'
<1> DEFINE received == srcBefore.latest_received_nonce
           d == Source!LastDeliveredNonce(proved)
<1>1. /\ srcPc = "remove_message" /\ srcPc' = "calc_relayers_rewards"
      /\ i \notin Source!Range /\ i' = 1 /\ lane' = Source!ConfirmedLane(lane, d)
      /\ srcBefore' = srcBefore /\ proved' = proved /\ mayPrune' = mayPrune
      /\ stored' = stored /\ paid' = paid
  BY DEF Source!SetReceivedNonce
<1>2. /\ srcBefore \in Source!Lanes /\ proved \in Source!ProvedLanes
      /\ Source!Confirming /\ lane = srcBefore /\ paid = [r \in Relayers |-> 0]
      /\ received \in Nat /\ d \in Nat /\ Source!Range = received + 1 .. d
      /\ i \in received + 1 .. d + 1
      /\ stored = Source!UnprunedMessages(srcBefore) \ (received + 1 .. i - 1)
  BY <1>1, Removing DEF Source!RemovingInv
<1>3. Source!Confirming' /\ Source!Range' = Source!Range
  BY <1>1, <1>2 DEF Source!Confirming, Source!Range
<1>4. i - 1 = d
  <2> HIDE DEF received, d
  <2> QED
    BY <1>1, <1>2
<1>5. stored' = Source!UnprunedMessages(srcBefore) \ Source!Range
  BY <1>1, <1>2, <1>4
<1>6. paid' = [r \in Relayers |-> Source!Cardinality(Source!CreditedMessages(0, r))]
  <2>1. ASSUME NEW r \in Relayers
        PROVE  Source!Cardinality(Source!CreditedMessages(0, r)) = 0
    <3>1. Source!CreditedMessages(0, r) = {}
      BY DEF Source!CreditedMessages
    <3> QED
      BY <3>1, SourceCardinality, FS_EmptySet
  <2> QED
    BY <1>1, <1>2, <2>1
<1>7. Source!RewardingInv'
  <2>1. /\ i' \in 1 .. Len(proved.relayers) + 1 /\ i' - 1 = 0
        /\ \A j \in 1 .. i' - 1 : FALSE
    BY <1>1, <1>2, ProvedTypes
  <2>2. \A r : Source!CreditedMessages(i - 1, r)' = Source!CreditedMessages(0, r)
    BY <1>1, <1>3, <2>1 DEF Source!CreditedMessages
  <2>3. (paid = [r \in Relayers |-> Source!Cardinality(Source!CreditedMessages(i - 1, r))])'
    BY <1>6, <2>2
  <2> QED
    BY <1>1, <1>2, <1>3, <1>5, <2>1, <2>3 DEF Source!RewardingInv
<1> QED
  BY <1>1, <1>2, <1>3, <1>7 DEF Source!CallInv

LEMMA EndConfirmationStep ==
    ASSUME Source!CallInv, Source!EndConfirmation
    PROVE  Source!CallInv'
<1>1. /\ srcPc = "calc_relayers_rewards" /\ i > Len(proved.relayers)
      /\ Source!EndCall("confirmed")
  BY DEF Source!EndConfirmation
<1>2. /\ srcBefore \in Source!Lanes /\ proved \in Source!ProvedLanes
      /\ Source!Confirming /\ Source!RewardingInv
  BY <1>1 DEF Source!CallInv
<1>3. i = Len(proved.relayers) + 1
  BY <1>1, <1>2, ProvedTypes DEF Source!RewardingInv
<1>4. /\ srcPc' = "confirmed" /\ srcBefore' = srcBefore /\ proved' = proved /\ i' = i
      /\ Source!Confirming' /\ Source!RewardingInv'
  BY <1>1, <1>2, CallEnds
<1> QED
  BY <1>2, <1>3, <1>4 DEF Source!CallInv

LEMMA PruneOldestStep ==
    ASSUME Source!CallInv, Source!PruneOldest
    PROVE  Source!CallInv'
<1> DEFINE oldest == srcBefore.oldest_unpruned_nonce
           unpruned == Source!UnprunedMessages(srcBefore)
<1>1. /\ srcPc = "close_bridge" /\ srcPc' = srcPc /\ Source!MorePruningAllowed
      /\ stored' = stored \ {lane.oldest_unpruned_nonce}
      /\ lane' = [lane EXCEPT !.oldest_unpruned_nonce = @ + 1]
      /\ i' = i + 1 /\ srcBefore' = srcBefore /\ proved' = proved
      /\ mayPrune' = mayPrune /\ paid' = paid
  BY DEF Source!PruneOldest
<1>2. /\ srcBefore \in Source!Lanes /\ mayPrune \in 0 .. MaxSourceNonce /\ Source!PruningInv
  BY <1>1 DEF Source!CallInv
<1>3. /\ oldest \in Nat /\ srcBefore \in Source!OutboundLaneData
      /\ srcBefore.latest_generated_nonce \in Nat /\ mayPrune \in Nat
  BY <1>2, SourceLaneTypes, SourceAssumption
<1>4. /\ i \in 0 .. mayPrune
      /\ lane = [srcBefore EXCEPT !.oldest_unpruned_nonce = oldest + i]
      /\ stored = unpruned \ (oldest .. oldest + i - 1)
  BY <1>2 DEF Source!PruningInv
<1>5. i < mayPrune /\ i < Source!Cardinality(unpruned)
  BY <1>1 DEF Source!MorePruningAllowed
<1>6. Source!Cardinality(unpruned) \in Int
  <2>1. unpruned = oldest .. srcBefore.latest_generated_nonce
    BY DEF Source!UnprunedMessages
  <2>2. oldest \in Int /\ srcBefore.latest_generated_nonce \in Int
    BY <1>3
  <2>3. Cardinality(unpruned) \in Int
    BY <2>1, <2>2, FS_Interval
  <2> QED
    BY <2>3, SourceCardinality
<1>7. i + 1 \in 0 .. mayPrune /\ i + 1 <= Source!Cardinality(unpruned)
  BY <1>3, <1>4, <1>5, <1>6
<1>8. lane' = [srcBefore EXCEPT !.oldest_unpruned_nonce = oldest + (i + 1)]
      /\ lane.oldest_unpruned_nonce = oldest + i
  <2> DEFINE x == oldest + i
             y == oldest + (i + 1)
  <2>1. x + 1 = y
    BY <1>3, <1>4
  <2>2. lane = [srcBefore EXCEPT !.oldest_unpruned_nonce = x]
    BY <1>4
  <2> HIDE DEF x, y
  <2>3. lane.oldest_unpruned_nonce = x
    BY <1>3, <2>2 DEF Source!OutboundLaneData
  <2>4. lane' = [lane EXCEPT !.oldest_unpruned_nonce = y]
    BY <1>1, <2>1, <2>3
  <2>5. lane' = [srcBefore EXCEPT !.oldest_unpruned_nonce = y]
    BY <1>3, <2>2, <2>4 DEF Source!OutboundLaneData
  <2> QED
    BY <2>3, <2>5 DEF x, y
<1>9. stored' = unpruned \ (oldest .. oldest + (i + 1) - 1)
  <2>1. (oldest .. oldest + i - 1) \cup {oldest + i} = oldest .. oldest + (i + 1) - 1
    BY <1>3, <1>4
  <2> HIDE DEF oldest, unpruned
  <2> QED
    BY <1>1, <1>4, <1>8, <2>1
<1>10. Source!PruningInv'
  BY <1>1, <1>7, <1>8, <1>9 DEF Source!PruningInv
<1> QED
  BY <1>1, <1>2, <1>10 DEF Source!CallInv

LEMMA EndPruningStep ==
    ASSUME Source!CallInv, Source!EndPruning
    PROVE  Source!CallInv'
<1>1. /\ srcPc = "close_bridge" /\ ~ Source!MorePruningAllowed /\ Source!EndCall("pruned")
  BY DEF Source!EndPruning
<1>2. /\ srcBefore \in Source!Lanes /\ mayPrune \in 0 .. MaxSourceNonce /\ Source!PruningInv
  BY <1>1 DEF Source!CallInv
<1>3. /\ srcPc' = "pruned" /\ srcBefore' = srcBefore /\ mayPrune' = mayPrune
      /\ Source!PruningInv' /\ ~ Source!MorePruningAllowed'
  BY <1>1, <1>2, CallEnds
<1> QED
  BY <1>2, <1>3 DEF Source!CallInv

\* The entries of a delivery proof that has been verified.
LEMMA VerifiedEntries ==
    ASSUME srcBefore \in Source!Lanes, proved \in Source!ProvedLanes, Source!Confirming
    PROVE  \A j \in 1 .. Len(proved.relayers) : CorrectEntry(j)
<1>1. DOMAIN proved.relayers = 1 .. Len(proved.relayers)
  BY ProvedTypes
<1>2. Source!UnrewardedRelayersAreCorrect(Source!LastDeliveredNonce(proved), proved.relayers)
  BY CanConfirmMeans
<1> QED
  BY <1>1, <1>2 DEF Source!UnrewardedRelayersAreCorrect, CorrectEntry

\* One entry more: its relayer is credited with its part of the range, which
\* no entry before it covers.
LEMMA CreditedNext ==
    ASSUME srcBefore \in Source!Lanes, proved \in Source!ProvedLanes, Source!Confirming,
           NEW k \in 1 .. Len(proved.relayers),
           \A j \in 1 .. k - 1 : proved.relayers[j].end < proved.relayers[k].begin,
           NEW r
    PROVE  LET e == proved.relayers[k]
               first == srcBefore.latest_received_nonce + 1
               d == Source!LastDeliveredNonce(proved)
               b == IF e.begin >= first THEN e.begin ELSE first
               f == IF e.end <= d THEN e.end ELSE d
               old == Cardinality(Source!CreditedMessages(k - 1, r))
           IN  /\ old \in Nat /\ b \in Nat /\ f \in Nat
               /\ Cardinality(Source!CreditedMessages(k, r))
                    = IF r = e.relayer /\ f >= b THEN old + f - b + 1 ELSE old
<1> DEFINE e == proved.relayers[k]
           first == srcBefore.latest_received_nonce + 1
           d == Source!LastDeliveredNonce(proved)
           b == IF e.begin >= first THEN e.begin ELSE first
           f == IF e.end <= d THEN e.end ELSE d
           old == Source!CreditedMessages(k - 1, r)
           new == Source!CreditedMessages(k, r)
<1>1. /\ d \in Nat /\ first \in Nat /\ e.begin \in Nat /\ e.end \in Nat
      /\ Len(proved.relayers) \in Nat /\ k \in Nat
      /\ \A j \in 1 .. Len(proved.relayers) :
           proved.relayers[j].begin \in Nat /\ proved.relayers[j].end \in Nat
  BY SourceLaneTypes, ProvedTypes
<1>2. Source!Range = first .. d
  BY DEF Source!Range
<1>3. b \in Nat /\ f \in Nat
  BY <1>1
<1>4. \A n \in Source!Range : n \in e.begin .. e.end <=> n \in b .. f
  <2> HIDE DEF e, d, first
  <2> QED
    BY <1>1, <1>2
<1>5. b .. f \subseteq Source!Range
  <2> HIDE DEF e, d, first
  <2> QED
    BY <1>1, <1>2
<1>6. /\ IsFiniteSet(old) /\ IsFiniteSet(b .. f) /\ Cardinality(old) \in Nat
      /\ Cardinality(b .. f) = IF b > f THEN 0 ELSE f - b + 1
  <2>1. IsFiniteSet(Source!Range)
    BY <1>1, <1>2, FS_Interval
  <2>2. old \subseteq Source!Range
    BY DEF Source!CreditedMessages
  <2>3. IsFiniteSet(old)
    BY <2>1, <2>2, FS_Subset
  <2>4. Cardinality(old) \in Nat
    BY <2>3, FS_CardinalityType
  <2>5. IsFiniteSet(b .. f) /\ Cardinality(b .. f) = IF b > f THEN 0 ELSE f - b + 1
    <3>1. b \in Int /\ f \in Int
      BY <1>3
    <3> HIDE DEF b, f
    <3> QED
      BY <3>1, FS_Interval
  <2> QED
    BY <2>3, <2>4, <2>5
<1>7. \A j \in 1 .. k : j = k \/ j \in 1 .. k - 1
  BY <1>1
<1>8. 1 .. k - 1 \subseteq 1 .. k /\ k \in 1 .. k /\ 1 .. k \subseteq 1 .. Len(proved.relayers)
  BY <1>1
<1>9. CASE r # e.relayer
  <2>1. new = old
    BY <1>7, <1>8, <1>9 DEF Source!CreditedMessages
  <2> HIDE DEF new, old
  <2>2. Cardinality(new) = Cardinality(old)
    BY <2>1
  <2> QED
    BY <1>3, <1>6, <1>9, <2>2 DEF new, old
<1>10. CASE r = e.relayer
  <2>1. new = old \cup (b .. f)
    <3>1. ASSUME NEW n \in new PROVE n \in old \cup (b .. f)
      <4>1. PICK j \in 1 .. k : /\ proved.relayers[j].relayer = r /\ n \in Source!Range
                                /\ n \in proved.relayers[j].begin .. proved.relayers[j].end
        BY <3>1 DEF Source!CreditedMessages
      <4>2. CASE j = k
        BY <1>4, <4>1, <4>2
      <4>3. CASE j \in 1 .. k - 1
        BY <4>1, <4>3 DEF Source!CreditedMessages
      <4> QED
        BY <1>7, <4>2, <4>3
    <3>2. ASSUME NEW n \in old PROVE n \in new
      BY <1>8, <3>2 DEF Source!CreditedMessages
    <3>3. ASSUME NEW n \in b .. f PROVE n \in new
      <4>1. n \in Source!Range /\ n \in e.begin .. e.end
        BY <1>4, <1>5, <3>3
      <4> QED
        BY <1>8, <1>10, <4>1 DEF Source!CreditedMessages
    <3> HIDE DEF new, old, b, f
    <3> QED
      BY <3>1, <3>2, <3>3
  <2>2. old \cap (b .. f) = {}
    <3> SUFFICES ASSUME NEW n \in old, n \in b .. f PROVE FALSE
      OBVIOUS
    <3>1. PICK j \in 1 .. k - 1 : n \in proved.relayers[j].begin .. proved.relayers[j].end
      BY DEF Source!CreditedMessages
    <3>2. /\ proved.relayers[j].end \in Nat /\ proved.relayers[j].begin \in Nat
          /\ proved.relayers[j].end < e.begin
      BY <1>1, <1>8, <3>1
    <3>3. n <= proved.relayers[j].end /\ e.begin <= n /\ n \in Int
      <4>1. e.begin <= b
        BY <1>1
      <4> HIDE DEF e, b, f
      <4> QED
        BY <1>1, <1>3, <3>1, <3>2, <4>1
    <3> HIDE DEF e
    <3> QED
      BY <1>1, <3>2, <3>3
  <2> HIDE DEF new, old, b, f
  <2>3. Cardinality(new) = Cardinality(old) + Cardinality(b .. f) - Cardinality(old \cap (b .. f))
    BY <1>6, <2>1, FS_Union
  <2>4. Cardinality(old \cap (b .. f)) = 0
    BY <2>2, FS_EmptySet
  <2>5. Cardinality(new) = IF f >= b THEN Cardinality(old) + f - b + 1 ELSE Cardinality(old)
    BY <1>3, <1>6, <2>3, <2>4
  <2> QED
    BY <1>3, <1>6, <1>10, <2>5 DEF new, old, b, f
<1> QED
  BY <1>9, <1>10

LEMMA RewardEntryStep ==
    ASSUME Source!CallInv, Source!RewardEntry
    PROVE  Source!CallInv'
<1> DEFINE e == proved.relayers[i]
           first == srcBefore.latest_received_nonce + 1
           d == Source!LastDeliveredNonce(proved)
           b == IF e.begin >= first THEN e.begin ELSE first
           f == IF e.end <= d THEN e.end ELSE d
           credit(k, r) == Source!Cardinality(Source!CreditedMessages(k, r))
<1>1. /\ srcPc = "calc_relayers_rewards" /\ srcPc' = srcPc /\ i <= Len(proved.relayers)
      /\ paid' = IF f >= b THEN [paid EXCEPT ![e.relayer] = @ + f - b + 1] ELSE paid
      /\ i' = i + 1 /\ srcBefore' = srcBefore /\ proved' = proved /\ mayPrune' = mayPrune
      /\ lane' = lane /\ stored' = stored
  BY DEF Source!RewardEntry
<1>2. /\ srcBefore \in Source!Lanes /\ proved \in Source!ProvedLanes
      /\ Source!Confirming /\ Source!RewardingInv
  BY <1>1 DEF Source!CallInv
<1>3. /\ lane = Source!ConfirmedLane(srcBefore, d)
      /\ stored = Source!UnprunedMessages(srcBefore) \ Source!Range
      /\ i \in 1 .. Len(proved.relayers) + 1
      /\ \A j \in 1 .. i - 1 : proved.relayers[j].end < proved.relayers[i].begin
      /\ paid = [r \in Relayers |-> credit(i - 1, r)]
  BY <1>1, <1>2 DEF Source!RewardingInv
<1>4. /\ Len(proved.relayers) \in Nat
      /\ \A j \in 1 .. Len(proved.relayers) :
           /\ proved.relayers[j].relayer \in Relayers
           /\ proved.relayers[j].begin \in Nat
           /\ proved.relayers[j].end \in Nat
  BY <1>2, ProvedTypes
<1>5. /\ i \in 1 .. Len(proved.relayers) /\ (i + 1) - 1 = i
      /\ i + 1 \in 1 .. Len(proved.relayers) + 1
  BY <1>1, <1>3, <1>4
<1>6. \A r : /\ credit(i - 1, r) \in Nat /\ b \in Nat /\ f \in Nat
             /\ credit(i, r) = IF r = e.relayer /\ f >= b THEN credit(i - 1, r) + f - b + 1
                               ELSE credit(i - 1, r)
  BY <1>2, <1>3, <1>5, CreditedNext, SourceCardinality
<1>7. e.relayer \in Relayers
  BY <1>4, <1>5
<1> HIDE DEF credit, e, b, f
<1>8. paid' = [r \in Relayers |-> credit(i, r)]
  <2>1. CASE f >= b
    <3>1. paid' = [paid EXCEPT ![e.relayer] = paid[e.relayer] + f - b + 1]
      BY <1>1, <2>1
    <3>2. paid[e.relayer] = credit(i - 1, e.relayer)
      BY <1>3, <1>7
    <3> QED
      BY <1>3, <1>6, <1>7, <2>1, <3>1, <3>2
  <2>2. CASE ~ (f >= b)
    BY <1>1, <1>3, <1>6, <2>2
  <2> QED
    BY <2>1, <2>2
<1>9. i + 1 <= Len(proved.relayers) =>
        \A j \in 1 .. i : proved.relayers[j].end < proved.relayers[i + 1].begin
  <2> SUFFICES ASSUME i + 1 <= Len(proved.relayers), NEW j \in 1 .. i
               PROVE  proved.relayers[j].end < proved.relayers[i + 1].begin
    OBVIOUS
  <2>1. i + 1 \in 1 .. Len(proved.relayers) /\ j \in 1 .. Len(proved.relayers) /\ i + 1 > 1
    BY <1>4, <1>5
  <2>2. CorrectEntry(i) /\ CorrectEntry(i + 1)
    BY <1>2, <1>5, <2>1, VerifiedEntries
  <2>3. /\ proved.relayers[i].begin <= proved.relayers[i].end
        /\ proved.relayers[i + 1].begin = proved.relayers[i].end + 1
    BY <1>5, <2>1, <2>2 DEF CorrectEntry
  <2>4. j = i \/ proved.relayers[j].end < proved.relayers[i].begin
    BY <1>3, <1>5
  <2>5. /\ proved.relayers[j].end \in Nat /\ proved.relayers[i].end \in Nat
        /\ proved.relayers[i].begin \in Nat
    BY <1>4, <1>5, <2>1
  <2> DEFINE ej == proved.relayers[j].end
             ei == proved.relayers[i].end
             bi == proved.relayers[i].begin
             bn == proved.relayers[i + 1].begin
  <2>6. /\ ej \in Nat /\ ei \in Nat /\ bi \in Nat /\ bi <= ei /\ bn = ei + 1
        /\ j = i => ej = ei
        /\ j # i => ej < bi
    BY <2>3, <2>4, <2>5
  <2> HIDE DEF ej, ei, bi, bn
  <2>7. ej < bn
    BY <2>6
  <2> QED
    BY <2>7 DEF ej, bn
<1>10. Source!Confirming' /\ Source!Range' = Source!Range
  BY <1>1, <1>2 DEF Source!Confirming, Source!Range
<1>11. Source!RewardingInv'
  <2>1. i' - 1 = i /\ i' = i + 1
    BY <1>1, <1>5
  <2>2. \A r : Source!CreditedMessages(i - 1, r)' = Source!CreditedMessages(i, r)
    BY <1>1, <1>10, <2>1 DEF Source!CreditedMessages
  <2>3. (paid = [r \in Relayers |-> Source!Cardinality(Source!CreditedMessages(i - 1, r))])'
    BY <1>8, <2>2 DEF credit
  <2> QED
    BY <1>1, <1>3, <1>5, <1>9, <1>10, <2>1, <2>3 DEF Source!RewardingInv
<1> QED
  BY <1>1, <1>2, <1>10, <1>11 DEF Source!CallInv

LEMMA SourceStep ==
    ASSUME Source!CallInv, Source!Next
    PROVE  Source!CallInv'
BY ConfirmNothingStep, TooManyStep, BeginVerificationStep, VerifyEntryStep, BadEntryStep,
   BeginPruningStep, RemoveMessageStep, SetReceivedStep, RewardEntryStep,
   EndConfirmationStep, PruneOldestStep, EndPruningStep DEF Source!Next

\* How many messages close_bridge finds to prune.
LEMMA UnprunedFacts ==
    ASSUME srcBefore \in Source!Lanes
    PROVE  LET oldest == srcBefore.oldest_unpruned_nonce
               generated == srcBefore.latest_generated_nonce
           IN  /\ Source!UnprunedMessages(srcBefore) = oldest .. generated
               /\ Source!UnprunedMessages(srcBefore) \subseteq Source!Nonces
               /\ Source!Cardinality(Source!UnprunedMessages(srcBefore))
                    = generated - oldest + 1
<1> DEFINE oldest == srcBefore.oldest_unpruned_nonce
           generated == srcBefore.latest_generated_nonce
<1>1. /\ oldest \in Nat /\ generated \in Nat /\ generated <= MaxSourceNonce
      /\ srcBefore.latest_received_nonce \in Nat /\ MaxSourceNonce \in Nat
      /\ oldest > srcBefore.latest_received_nonce /\ oldest <= generated + 1
  BY SourceLaneTypes, SourceAssumption
<1>2. Source!UnprunedMessages(srcBefore) = oldest .. generated
  BY DEF Source!UnprunedMessages
<1> HIDE DEF oldest, generated
<1>3. Cardinality(oldest .. generated) = IF oldest > generated THEN 0 ELSE generated - oldest + 1
  <2>1. oldest \in Int /\ generated \in Int
    BY <1>1
  <2> QED
    BY <2>1, FS_Interval
<1>4. Cardinality(oldest .. generated) = generated - oldest + 1
  BY <1>1, <1>3
<1>5. oldest .. generated \subseteq 1 .. MaxSourceNonce
  BY <1>1
<1> QED
  BY <1>2, <1>4, <1>5, SourceCardinality DEF Source!Nonces, oldest, generated

\* RemovedMessages leaves what was stored outside the range.
LEMMA KeptMeans ==
    ASSUME srcBefore \in Source!Lanes, NEW from, NEW to
    PROVE  Source!Kept(from, to) = Source!UnprunedMessages(srcBefore) \ (from .. to)
<1> DEFINE payload == CHOOSE p \in Payloads : TRUE
           unpruned == Source!UnprunedMessages(srcBefore)
           messages == [n \in Source!Nonces |-> IF n \in unpruned THEN payload ELSE NoMessage]
           removed == [n \in Source!Nonces |-> IF n \in from .. to THEN NoMessage
                                               ELSE messages[n]]
<1>1. payload # NoMessage
  BY SourceAssumption
<1>2. unpruned \subseteq Source!Nonces
  BY UnprunedFacts
<1>3. Source!Kept(from, to) = {n \in Source!Nonces : removed[n] # NoMessage}
  BY DEF Source!Kept, Source!RemovedMessages
<1>4. ASSUME NEW n \in Source!Nonces
      PROVE  removed[n] # NoMessage <=> n \in unpruned /\ n \notin from .. to
  <2> HIDE DEF payload, unpruned
  <2> QED
    BY <1>1
<1> HIDE DEF removed, unpruned
<1>5. {n \in Source!Nonces : removed[n] # NoMessage} = unpruned \ (from .. to)
  BY <1>2, <1>4
<1> QED
  BY <1>3, <1>5 DEF unpruned

\* When receive_messages_delivery_proof returns, its loops have computed the
\* closed forms; when it fails, it has touched nothing.
LEMMA ConfirmationMatches ==
    ASSUME Source!CallInv
    PROVE  Source!ConfirmationMatchesClosedForm
<1> DEFINE d == Source!LastDeliveredNonce(proved)
           first == srcBefore.latest_received_nonce + 1
           nothing == Source!NothingToConfirm(srcBefore, d)
<1>1. srcPc = "nothing" => nothing /\ lane = srcBefore
  <2> SUFFICES ASSUME srcPc = "nothing" PROVE nothing /\ lane = srcBefore
    OBVIOUS
  <2>1. /\ srcBefore \in Source!Lanes /\ proved \in Source!ProvedLanes
        /\ Source!Untouched /\ Source!Range = {}
    BY DEF Source!CallInv
  <2> QED
    BY <2>1, RangeFacts DEF Source!Untouched
<1>2. srcPc = "error" => /\ ~ nothing /\ ~ Source!Confirming /\ lane = srcBefore
                         /\ stored = Source!UnprunedMessages(srcBefore)
  <2> SUFFICES ASSUME srcPc = "error"
               PROVE  /\ ~ nothing /\ ~ Source!Confirming /\ lane = srcBefore
                      /\ stored = Source!UnprunedMessages(srcBefore)
    OBVIOUS
  <2>1. /\ srcBefore \in Source!Lanes /\ proved \in Source!ProvedLanes
        /\ Source!Untouched /\ Source!Range # {} /\ ~ Source!Confirming
    BY DEF Source!CallInv
  <2> QED
    BY <2>1, RangeFacts DEF Source!Untouched
<1>3. srcPc = "confirmed" =>
        /\ Source!Confirming
        /\ lane = Source!ConfirmedLane(srcBefore, d)
        /\ stored = Source!Kept(first, d)
        /\ paid = [r \in Relayers |-> Source!RelayerReward(proved.relayers, first, d, r)]
  <2> SUFFICES ASSUME srcPc = "confirmed"
               PROVE  /\ Source!Confirming
                      /\ lane = Source!ConfirmedLane(srcBefore, d)
                      /\ stored = Source!Kept(first, d)
                      /\ paid = [r \in Relayers |->
                                   Source!RelayerReward(proved.relayers, first, d, r)]
    OBVIOUS
  <2>1. /\ srcBefore \in Source!Lanes /\ proved \in Source!ProvedLanes
        /\ Source!Confirming /\ Source!RewardingInv /\ i = Len(proved.relayers) + 1
    BY DEF Source!CallInv
  <2>2. /\ lane = Source!ConfirmedLane(srcBefore, d)
        /\ stored = Source!UnprunedMessages(srcBefore) \ Source!Range
        /\ paid = [r \in Relayers |-> Source!Cardinality(Source!CreditedMessages(i - 1, r))]
    BY <2>1 DEF Source!RewardingInv
  <2>3. Source!Range = first .. d
    BY DEF Source!Range
  <2>4. DOMAIN proved.relayers = 1 .. i - 1
    BY <2>1, ProvedTypes
  <2>5. \A r : Source!RelayerReward(proved.relayers, first, d, r)
               = Source!Cardinality(Source!CreditedMessages(i - 1, r))
    BY <2>3, <2>4 DEF Source!RelayerReward, Source!CreditedMessages
  <2>6. stored = Source!Kept(first, d)
    BY <2>1, <2>2, <2>3, KeptMeans
  <2>7. paid = [r \in Relayers |-> Source!RelayerReward(proved.relayers, first, d, r)]
    BY <2>2, <2>5
  <2> QED
    BY <2>1, <2>2, <2>6, <2>7
<1> QED
  BY <1>1, <1>2, <1>3 DEF Source!ConfirmationMatchesClosedForm, Source!Confirming

\* When close_bridge's loop ends, it has pruned what PrunedLane says.
LEMMA PruningMatches ==
    ASSUME Source!CallInv
    PROVE  Source!PruningMatchesClosedForm
<1> SUFFICES ASSUME srcPc = "pruned"
             PROVE  Source!PruningMatchesClosedForm
  BY DEF Source!PruningMatchesClosedForm
<1> DEFINE oldest == srcBefore.oldest_unpruned_nonce
           generated == srcBefore.latest_generated_nonce
           new == oldest + i
<1>1. /\ srcBefore \in Source!Lanes /\ mayPrune \in 0 .. MaxSourceNonce
      /\ Source!PruningInv /\ ~ Source!MorePruningAllowed
  BY DEF Source!CallInv
<1>2. /\ oldest \in Nat /\ generated \in Nat /\ oldest <= generated + 1
      /\ srcBefore \in Source!OutboundLaneData /\ mayPrune \in Nat
  BY <1>1, SourceLaneTypes, SourceAssumption
<1>3. /\ Source!UnprunedMessages(srcBefore) = oldest .. generated
      /\ Source!Cardinality(Source!UnprunedMessages(srcBefore)) = generated - oldest + 1
  BY <1>1, UnprunedFacts
<1>4. /\ i \in 0 .. mayPrune /\ i <= generated - oldest + 1
      /\ lane = [srcBefore EXCEPT !.oldest_unpruned_nonce = new]
      /\ stored = (oldest .. generated) \ (oldest .. oldest + i - 1)
      /\ ~ (i < mayPrune /\ i < generated - oldest + 1)
  BY <1>1, <1>3 DEF Source!PruningInv, Source!MorePruningAllowed
<1>5. Source!OldestAfterPruning(srcBefore, mayPrune) = new
  <2>1. Source!OldestAfterPruning(srcBefore, mayPrune)
          = IF oldest > generated THEN oldest
            ELSE IF oldest + mayPrune > generated THEN generated + 1
            ELSE oldest + mayPrune
    BY DEF Source!OldestAfterPruning
  <2> HIDE DEF oldest, generated
  <2> QED
    BY <1>2, <1>4, <2>1
<1>6. lane = Source!PrunedLane(srcBefore, mayPrune)
  BY <1>4, <1>5 DEF Source!PrunedLane
<1>7. lane.oldest_unpruned_nonce = new /\ lane.latest_generated_nonce = generated
  BY <1>2, <1>4 DEF Source!OutboundLaneData
<1>8. stored = Source!UnprunedMessages(lane)
  <2>1. Source!UnprunedMessages(lane) = new .. generated
    BY <1>7 DEF Source!UnprunedMessages
  <2> HIDE DEF oldest, generated
  <2>2. (oldest .. generated) \ (oldest .. oldest + i - 1) = new .. generated
    BY <1>2, <1>4
  <2> QED
    BY <1>4, <2>1, <2>2
<1>9. stored = Source!Kept(oldest, lane.oldest_unpruned_nonce - 1)
  <2>1. Source!Kept(oldest, lane.oldest_unpruned_nonce - 1)
          = (oldest .. generated) \ (oldest .. lane.oldest_unpruned_nonce - 1)
    BY <1>1, <1>3, KeptMeans
  <2>2. lane.oldest_unpruned_nonce - 1 = oldest + i - 1
    BY <1>2, <1>4, <1>7
  <2> HIDE DEF oldest, generated
  <2> QED
    BY <1>4, <2>1, <2>2, Zenon
<1> QED
  BY <1>6, <1>8, <1>9 DEF Source!PruningMatchesClosedForm

LEMMA SourceInitially ==
    ASSUME Source!Init
    PROVE  Source!CallInv
<1>1. /\ srcBefore \in Source!Lanes /\ lane = srcBefore /\ i = 0
      /\ stored = Source!UnprunedMessages(srcBefore) /\ paid = [r \in Relayers |-> 0]
      /\ \/ srcPc = "confirm_delivery" /\ proved \in Source!ProvedLanes
         \/ srcPc = "close_bridge" /\ mayPrune \in 0 .. MaxSourceNonce
  BY DEF Source!Init
<1>2. CASE srcPc = "confirm_delivery" /\ proved \in Source!ProvedLanes
  BY <1>1, <1>2 DEF Source!CallInv, Source!Untouched
<1>3. CASE srcPc = "close_bridge" /\ mayPrune \in 0 .. MaxSourceNonce
  <2> DEFINE oldest == srcBefore.oldest_unpruned_nonce
             generated == srcBefore.latest_generated_nonce
  <2>1. /\ oldest \in Nat /\ generated \in Nat /\ oldest <= generated + 1
        /\ srcBefore \in Source!OutboundLaneData /\ mayPrune \in Nat
        /\ Source!Cardinality(Source!UnprunedMessages(srcBefore)) = generated - oldest + 1
    BY <1>1, <1>3, SourceLaneTypes, SourceAssumption, UnprunedFacts
  <2>2. i \in 0 .. mayPrune /\ i <= Source!Cardinality(Source!UnprunedMessages(srcBefore))
    BY <1>1, <2>1
  <2>3. oldest + i = oldest /\ oldest .. oldest + i - 1 = {}
    BY <1>1, <2>1
  <2>4. lane = [srcBefore EXCEPT !.oldest_unpruned_nonce = oldest + i]
    BY <1>1, <2>1, <2>3 DEF Source!OutboundLaneData
  <2>5. Source!PruningInv
    BY <1>1, <2>2, <2>3, <2>4 DEF Source!PruningInv
  <2> QED
    BY <1>1, <1>3, <2>5 DEF Source!CallInv
<1> QED
  BY <1>1, <1>2, <1>3

-----------------------------------------------------------------------------
(***************************************************************************)
(* The two ends.                                                           *)
(***************************************************************************)

\* The loop invariants of receive_messages_proof, receive_messages_delivery_proof
\* and close_bridge hold in every iteration, for every lane and argument.
THEOREM CallsInvariant == CallsSpec => []CallsInv
<1>1. CallsInit => CallsInv
  <2>1. ASSUME Init PROVE CallInv
    BY <2>1 DEF Init, CallInv
  <2> QED
    BY <2>1, SourceInitially DEF CallsInit, CallsInv
<1>2. ASSUME CallsInv, [CallsNext]_<<at, vars, sourceVars>> PROVE CallsInv'
  <2>1. CASE at = "target" /\ Next /\ UNCHANGED sourceVars /\ UNCHANGED at
    <3>1. CallInv /\ SourceIdle
      BY <1>2, <2>1 DEF CallsInv
    <3>2. CallInv'
      BY <2>1, <3>1, TargetStep
    <3>3. SourceIdle'
      BY <2>1, <3>1 DEF sourceVars, SourceIdle
    <3> QED
      BY <2>1, <3>2, <3>3 DEF CallsInv
  <2>2. CASE at = "source" /\ Source!Next /\ UNCHANGED vars /\ UNCHANGED at
    <3>1. Source!CallInv /\ TargetIdle
      BY <1>2, <2>2 DEF CallsInv
    <3>2. Source!CallInv'
      BY <2>2, <3>1, SourceStep
    <3>3. TargetIdle'
      BY <2>2, <3>1 DEF vars, TargetIdle
    <3> QED
      BY <2>2, <3>2, <3>3 DEF CallsInv
  <2>3. CASE UNCHANGED <<at, vars, sourceVars>>
    <3>1. UNCHANGED at /\ UNCHANGED vars /\ UNCHANGED sourceVars
      BY <2>3
    <3>2. CallInv => CallInv'
      BY <3>1 DEF vars, CallInv, PoppingInv, ReceivingInv
    <3>3. Source!CallInv => Source!CallInv'
      BY <3>1 DEF sourceVars, Source!CallInv, Source!Untouched, Source!VerifyingInv,
        Source!Confirming, Source!RemovingInv, Source!RewardingInv, Source!PruningInv,
        Source!CreditedMessages, Source!Range, Source!MorePruningAllowed
    <3>4. (SourceIdle => SourceIdle') /\ (TargetIdle => TargetIdle')
      BY <3>1 DEF vars, sourceVars, SourceIdle, TargetIdle
    <3> QED
      BY <1>2, <3>1, <3>2, <3>3, <3>4 DEF CallsInv
  <2> QED
    BY <1>2, <2>1, <2>2, <2>3 DEF CallsNext
<1> QED
  BY <1>1, <1>2, PTL DEF CallsSpec

\* The loops of receive_messages_proof compute ReceiveStateUpdate and
\* ReceiveMessages, and dispatch the messages those accept, in nonce order.
THEOREM TargetLoopsMatch == CallsSpec => []TargetCallMatches
<1>1. CallsInv => TargetCallMatches
  BY TargetMatches DEF CallsInv, TargetCallMatches
<1> QED
  BY <1>1, CallsInvariant, PTL

\* The loops of receive_messages_delivery_proof compute the confirmed lane, the
\* stored messages and the rewards of OutboundLane, from any lane data that a
\* proof may show; and a call that fails has not touched the storage.
THEOREM ConfirmationLoopsMatch == CallsSpec => []SourceConfirmationMatches
<1>1. CallsInv => SourceConfirmationMatches
  BY ConfirmationMatches DEF CallsInv, SourceConfirmationMatches
<1> QED
  BY <1>1, CallsInvariant, PTL

\* The pruning loop of close_bridge computes PrunedLane, and afterwards the
\* stored messages are the unpruned ones.
THEOREM PruningLoopMatches == CallsSpec => []SourcePruningMatches
<1>1. CallsInv => SourcePruningMatches
  BY PruningMatches DEF CallsInv, SourcePruningMatches
<1> QED
  BY <1>1, CallsInvariant, PTL
=============================================================================
