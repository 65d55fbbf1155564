------------------------- MODULE MessageQueueProofs -------------------------
(***************************************************************************)
(* Proofs about the message queue pallet, for every number of queues and   *)
(* messages, every size of a page and every weight.                        *)
(***************************************************************************)
EXTENDS MessageQueue, SequenceTheorems, FiniteSetTheorems, TLAPS

-----------------------------------------------------------------------------
(***************************************************************************)
(* Rings, as functions from their members to the neighbours.               *)
(***************************************************************************)

\* ring is linked in both directions, and no part of it is a ring.
IsRing(ring, next, prev) ==
    /\ \A o \in ring : /\ next[o] \in ring /\ prev[next[o]] = o
                       /\ prev[o] \in ring /\ next[prev[o]] = o
    /\ \A part \in SUBSET ring :
         part # {} /\ (\A o \in part : next[o] \in part) => part = ring

\* next and prev with o put in before head.
NextWithMember(next, prev, head, o) == [next EXCEPT ![prev[head]] = o, ![o] = head]
PrevWithMember(next, prev, head, o) == [prev EXCEPT ![head] = o, ![o] = prev[head]]

LEMMA RingOfOne ==
    ASSUME NEW o, NEW next, NEW prev, next[o] = o, prev[o] = o
    PROVE  IsRing({o}, next, prev)
  BY DEF IsRing

LEMMA RingGrows ==
    ASSUME NEW ring \in SUBSET Origins, NEW next \in [Origins -> Origins \cup {NoOrigin}],
           NEW prev \in [Origins -> Origins \cup {NoOrigin}], IsRing(ring, next, prev),
           NEW head \in ring, NEW o \in Origins \ ring
    PROVE  IsRing(ring \cup {o}, NextWithMember(next, prev, head, o),
                                 PrevWithMember(next, prev, head, o))
<1> DEFINE nx == NextWithMember(next, prev, head, o)
           pv == PrevWithMember(next, prev, head, o)
           tail == prev[head]
<1>0. tail \in ring /\ tail \in Origins /\ head \in Origins /\ next[tail] = head
  BY DEF IsRing
<1>1. nx[o] = head /\ pv[o] = tail /\ nx[tail] = o /\ pv[head] = o
  BY <1>0 DEF NextWithMember, PrevWithMember
<1>2. \A x \in ring \ {tail} : nx[x] = next[x]
  BY <1>0 DEF NextWithMember
<1>3. \A x \in ring \ {head} : pv[x] = prev[x]
  BY <1>0 DEF PrevWithMember
<1> HIDE DEF nx, pv
<1>4. ASSUME NEW x \in ring \cup {o}
      PROVE  /\ nx[x] \in ring \cup {o} /\ pv[nx[x]] = x
             /\ pv[x] \in ring \cup {o} /\ nx[pv[x]] = x
  BY <1>0, <1>1, <1>2, <1>3 DEF IsRing
<1>5. ASSUME NEW part \in SUBSET (ring \cup {o}), part # {}, \A x \in part : nx[x] \in part
      PROVE  part = ring \cup {o}
  <2> DEFINE old == part \ {o}
  <2>1. old \in SUBSET ring /\ old # {}
    BY <1>1, <1>5, <1>0
  <2>2. ASSUME NEW x \in old PROVE next[x] \in old
    <3>1. CASE x = tail
      BY <1>0, <1>1, <1>5, <3>1
    <3>2. CASE x # tail
      BY <1>2, <1>5, <2>1, <3>2 DEF IsRing
    <3> QED
      BY <3>1, <3>2
  <2>3. old = ring
    BY <2>1, <2>2 DEF IsRing
  <2>4. o \in part
    BY <1>0, <1>1, <1>5, <2>3
  <2> QED
    BY <2>3, <2>4
<1> QED
  BY <1>4, <1>5 DEF IsRing, nx, pv

\* next and prev with o taken out.
NextWithout(next, prev, o) == [next EXCEPT ![prev[o]] = next[o]]
PrevWithout(next, prev, o) == [prev EXCEPT ![next[o]] = prev[o]]

LEMMA RingShrinks ==
    ASSUME NEW ring \in SUBSET Origins, NEW next \in [Origins -> Origins \cup {NoOrigin}],
           NEW prev \in [Origins -> Origins \cup {NoOrigin}], IsRing(ring, next, prev),
           NEW o \in ring, next[o] # o
    PROVE  IsRing(ring \ {o}, NextWithout(next, prev, o), PrevWithout(next, prev, o))
<1> DEFINE nx == NextWithout(next, prev, o)
           pv == PrevWithout(next, prev, o)
<1>0. /\ prev[o] \in ring \ {o} /\ next[o] \in ring \ {o}
      /\ next[prev[o]] = o /\ prev[next[o]] = o
  BY DEF IsRing
<1>1. nx[prev[o]] = next[o] /\ pv[next[o]] = prev[o]
  BY <1>0 DEF NextWithout, PrevWithout
<1>2. \A x \in ring : x # prev[o] => nx[x] = next[x]
  BY <1>0 DEF NextWithout
<1>3. \A x \in ring : x # next[o] => pv[x] = prev[x]
  BY <1>0 DEF PrevWithout
<1> HIDE DEF nx, pv
<1>4. ASSUME NEW x \in ring \ {o}
      PROVE  /\ nx[x] \in ring \ {o} /\ pv[nx[x]] = x
             /\ pv[x] \in ring \ {o} /\ nx[pv[x]] = x
  BY <1>0, <1>1, <1>2, <1>3 DEF IsRing
<1>5. ASSUME NEW part \in SUBSET (ring \ {o}), part # {}, \A x \in part : nx[x] \in part
      PROVE  part = ring \ {o}
  <2>1. CASE prev[o] \in part
    <3> DEFINE old == part \cup {o}
    <3>1. \A x \in old : next[x] \in old
      BY <1>0, <1>1, <1>2, <1>5, <2>1
    <3>2. old \in SUBSET ring /\ old # {}
      OBVIOUS
    <3>3. old = ring
      BY <3>1, <3>2 DEF IsRing
    <3> QED
      BY <3>3
  <2>2. CASE prev[o] \notin part
    <3>1. \A x \in part : next[x] \in part
      BY <1>2, <1>5, <2>2
    <3>2. part = ring
      BY <3>1, <1>5 DEF IsRing
    <3> QED
      BY <3>2, <1>0, <2>2
  <2> QED
    BY <2>1, <2>2
<1> QED
  BY <1>4, <1>5 DEF IsRing, nx, pv

-----------------------------------------------------------------------------
(***************************************************************************)
(* Whose turn comes first in a ring.                                       *)
(***************************************************************************)

\* part goes on from each of its members until the turn is at the head again.
GoesOn(part, next, head) == \A x \in part : next[x] \in part \cup {head}

\* o and the members that follow it up to the last one.
Later(ring, next, head, o) ==
    {q \in ring : \A part \in SUBSET ring : o \in part /\ GoesOn(part, next, head) => q \in part}

\* The last member is among those that follow any other.
LEMMA LastIsLater ==
    ASSUME NEW ring, NEW next, NEW prev, IsRing(ring, next, prev),
           NEW head \in ring, NEW part \in SUBSET ring, part # {}, GoesOn(part, next, head)
    PROVE  prev[head] \in part
<1>1. SUFFICES ASSUME prev[head] \notin part
               PROVE  FALSE
  OBVIOUS
<1>2. ASSUME NEW x \in part PROVE next[x] \in part
  BY <1>1 DEF GoesOn, IsRing
<1>3. part = ring
  BY <1>2 DEF IsRing
<1> QED
  BY <1>1, <1>3 DEF IsRing

\* A new member comes after all the others.
LEMMA NewMemberIsLater ==
    ASSUME NEW ring \in SUBSET Origins, NEW next \in [Origins -> Origins \cup {NoOrigin}],
           NEW prev \in [Origins -> Origins \cup {NoOrigin}], IsRing(ring, next, prev),
           NEW head \in ring, NEW new \in Origins \ ring, NEW o \in ring
    PROVE  Later(ring, next, head, o) \cup {new}
           \subseteq Later(ring \cup {new}, NextWithMember(next, prev, head, new), head, o)
<1> DEFINE nx == NextWithMember(next, prev, head, new)
           tail == prev[head]
<1>0. tail \in ring /\ tail \in Origins /\ head \in Origins /\ next[tail] = head
  BY DEF IsRing
<1>1. nx[tail] = new
  BY <1>0 DEF NextWithMember
<1>2. \A x \in ring \ {tail} : nx[x] = next[x]
  BY <1>0 DEF NextWithMember
<1> HIDE DEF nx
<1>3. SUFFICES ASSUME NEW part \in SUBSET (ring \cup {new}), o \in part,
                      GoesOn(part, nx, head),
                      NEW q \in Later(ring, next, head, o) \cup {new}
               PROVE  q \in part
  BY DEF Later, nx
<1> DEFINE old == part \ {new}
<1>4. old \in SUBSET ring /\ o \in old
  BY <1>3
<1>5. GoesOn(old, next, head)
  <2> SUFFICES ASSUME NEW x \in old PROVE next[x] \in old \cup {head}
    BY DEF GoesOn
  <2>1. CASE x = tail
    BY <1>0, <2>1
  <2>2. CASE x # tail
    BY <1>2, <1>3, <1>4, <2>2 DEF GoesOn, IsRing
  <2> QED
    BY <2>1, <2>2
<1>6. CASE q # new
  BY <1>3, <1>4, <1>5, <1>6 DEF Later
<1>7. CASE q = new
  <2>1. tail \in old
    BY <1>4, <1>5, LastIsLater
  <2> QED
    BY <1>1, <1>3, <1>7, <2>1 DEF GoesOn
<1> QED
  BY <1>6, <1>7

\* Taking a member out puts nobody back; a head that goes is succeeded by the
\* next one.
LEMMA LaterWithoutMember ==
    ASSUME NEW ring \in SUBSET Origins, NEW next \in [Origins -> Origins \cup {NoOrigin}],
           NEW prev \in [Origins -> Origins \cup {NoOrigin}], IsRing(ring, next, prev),
           NEW head \in ring, NEW gone \in ring, next[gone] # gone, NEW o \in ring \ {gone}
    PROVE  Later(ring, next, head, o) \ {gone}
           \subseteq Later(ring \ {gone}, NextWithout(next, prev, gone),
                           IF head = gone THEN next[gone] ELSE head, o)
<1> DEFINE nx == NextWithout(next, prev, gone)
           first == IF head = gone THEN next[gone] ELSE head
<1>0. /\ prev[gone] \in ring \ {gone} /\ next[gone] \in ring \ {gone}
      /\ next[prev[gone]] = gone /\ prev[next[gone]] = gone
  BY DEF IsRing
<1>1. nx[prev[gone]] = next[gone]
  BY <1>0 DEF NextWithout
<1>2. \A x \in ring : x # prev[gone] => nx[x] = next[x]
  BY <1>0 DEF NextWithout
<1> HIDE DEF nx
<1>3. SUFFICES ASSUME NEW part \in SUBSET (ring \ {gone}), o \in part,
                      GoesOn(part, nx, first),
                      NEW q \in Later(ring, next, head, o) \ {gone}
               PROVE  q \in part
  BY DEF Later, nx
<1>4. \A x \in part : x # prev[gone] => next[x] \in part \cup {head}
  BY <1>0, <1>2, <1>3 DEF GoesOn, IsRing
<1>5. CASE prev[gone] \in part /\ head # gone
  <2> DEFINE old == part \cup {gone}
  <2>1. old \in SUBSET ring /\ o \in old
    BY <1>3
  <2>2. next[gone] \in old \cup {head}
    BY <1>1, <1>3, <1>5 DEF GoesOn
  <2>3. GoesOn(old, next, head)
    BY <1>0, <1>4, <2>2 DEF GoesOn
  <2> QED
    BY <1>3, <2>1, <2>3 DEF Later
<1>6. CASE prev[gone] \notin part \/ head = gone
  <2>1. GoesOn(part, next, head)
    BY <1>0, <1>4, <1>6 DEF GoesOn
  <2> QED
    BY <1>3, <2>1 DEF Later
<1> QED
  BY <1>5, <1>6

\* When the turn goes to the next, the old head is the last one for everybody
\* else.
LEMMA LaterThanBumped ==
    ASSUME NEW ring, NEW next, NEW prev, IsRing(ring, next, prev),
           NEW head \in ring, NEW o \in ring \ {head}
    PROVE  /\ Later(ring, next, head, o) \cup {head} \subseteq Later(ring, next, next[head], o)
           /\ head \notin Later(ring, next, head, o)
<1>0. \A x \in ring : next[x] = next[head] => x = head
  BY DEF IsRing
<1>1. ASSUME NEW part \in SUBSET ring, o \in part, GoesOn(part, next, next[head])
      PROVE  Later(ring, next, head, o) \cup {head} \subseteq part
  <2>1. head \in part
    <3>1. next[head] \in ring /\ prev[next[head]] = head
      BY DEF IsRing
    <3> QED
      BY <1>1, <3>1, LastIsLater
  <2>2. GoesOn(part \ {head}, next, head)
    BY <1>0, <1>1 DEF GoesOn
  <2> QED
    BY <1>1, <2>1, <2>2 DEF Later
<1>2. GoesOn(ring \ {head}, next, head)
  BY DEF GoesOn, IsRing
<1>3. head \notin Later(ring, next, head, o)
  BY <1>2 DEF Later
<1> QED
  BY <1>1, <1>3 DEF Later

-----------------------------------------------------------------------------
(***************************************************************************)
(* The ready ring.                                                         *)
(***************************************************************************)
NextOf(s) == [o \in Origins |-> s.book[o].ready.next]
PrevOf(s) == [o \in Origins |-> s.book[o].ready.prev]

HeadIsReady(s) == IF ReadyQueues(s) = {} THEN s.head = NoOrigin ELSE s.head \in ReadyQueues(s)

LEMMA RingInvMeans ==
    ASSUME NEW s
    PROVE  RingInv(s) <=> HeadIsReady(s) /\ IsRing(ReadyQueues(s), NextOf(s), PrevOf(s))
<1>1. \A o \in ReadyQueues(s) : /\ NextOf(s)[o] = s.book[o].ready.next
                                /\ PrevOf(s)[o] = s.book[o].ready.prev
                                /\ o \in Origins
  BY DEF NextOf, PrevOf, ReadyQueues
<1> DEFINE ring == ReadyQueues(s)
<1> HIDE DEF ring
<1>2. \A o \in ring : /\ NextOf(s)[o] = s.book[o].ready.next
                      /\ PrevOf(s)[o] = s.book[o].ready.prev
  BY <1>1 DEF ring
<1>3. (/\ \A o \in ring : /\ s.book[o].ready.next \in ring
                          /\ s.book[s.book[o].ready.next].ready.prev = o
                          /\ s.book[o].ready.prev \in ring
                          /\ s.book[s.book[o].ready.prev].ready.next = o
       /\ \A part \in SUBSET ring :
            part # {} /\ (\A o \in part : s.book[o].ready.next \in part) => part = ring)
      <=> IsRing(ring, NextOf(s), PrevOf(s))
  <2>1. \A part \in SUBSET ring :
            (\A o \in part : s.book[o].ready.next \in part)
            <=> (\A o \in part : NextOf(s)[o] \in part)
    BY <1>2
  <2>2. (\A part \in SUBSET ring :
            part # {} /\ (\A o \in part : s.book[o].ready.next \in part) => part = ring)
        <=> (\A part \in SUBSET ring :
               part # {} /\ (\A o \in part : NextOf(s)[o] \in part) => part = ring)
    BY <2>1, Zenon
  <2>3. (\A o \in ring : /\ s.book[o].ready.next \in ring
                         /\ s.book[s.book[o].ready.next].ready.prev = o
                         /\ s.book[o].ready.prev \in ring
                         /\ s.book[s.book[o].ready.prev].ready.next = o)
        <=> (\A o \in ring : /\ NextOf(s)[o] \in ring /\ PrevOf(s)[NextOf(s)[o]] = o
                             /\ PrevOf(s)[o] \in ring /\ NextOf(s)[PrevOf(s)[o]] = o)
    BY <1>2
  <2> QED
    BY <2>2, <2>3, Zenon DEF IsRing
<1> QED
  BY <1>3, Zenon DEF RingInv, HeadIsReady, ring

LEMMA NotBeforeIsLater ==
    ASSUME NEW s, NEW o
    PROVE  NotBefore(s, o) = Later(ReadyQueues(s), NextOf(s), s.head, o)
<1>1. \A x \in ReadyQueues(s) : NextOf(s)[x] = s.book[x].ready.next
  BY DEF NextOf, ReadyQueues
<1> QED
  BY <1>1 DEF NotBefore, Later, GoesOn

\* The books but for the neighbours, and the pages.
SameQueues(s, t) ==
    /\ t.pages = s.pages
    /\ \A o \in Origins : /\ t.book[o].begin = s.book[o].begin
                          /\ t.book[o].end = s.book[o].end
                          /\ t.book[o].count = s.book[o].count
                          /\ t.book[o].message_count = s.book[o].message_count

\* s with the neighbours of o replaced.
WithReady(s, o, ready) == [s EXCEPT !.book[o].ready = ready]

LEMMA WithReadyFields ==
    ASSUME NEW s, StorageTypeOK(s), NEW o \in Origins, NEW ready \in Neighbours
    PROVE  LET t == WithReady(s, o, ready)
           IN  /\ StorageTypeOK(t) /\ SameQueues(s, t) /\ t.head = s.head
               /\ t.book[o].ready = ready
               /\ \A x \in Origins : x # o => t.book[x] = s.book[x]
<1> DEFINE b == [s.book[o] EXCEPT !.ready = ready]
           books == [s.book EXCEPT ![o] = b]
           t == WithReady(s, o, ready)
<1>1. b \in Books /\ b.ready = ready
      /\ b.begin = s.book[o].begin /\ b.end = s.book[o].end
      /\ b.count = s.book[o].count /\ b.message_count = s.book[o].message_count
  BY DEF StorageTypeOK, Books
<1>2. t = [s EXCEPT !.book = books]
  BY DEF WithReady
<1> HIDE DEF b
<1>3. books \in [Origins -> Books] /\ books[o] = b /\ \A x \in Origins : x # o => books[x] = s.book[x]
  BY <1>1 DEF StorageTypeOK
<1> HIDE DEF books, t
<1>4. t.book = books /\ t.pages = s.pages /\ t.head = s.head
      /\ t = [book |-> t.book, pages |-> t.pages, head |-> t.head]
  BY <1>2 DEF StorageTypeOK
<1>5. StorageTypeOK(t)
  BY <1>3, <1>4 DEF StorageTypeOK
<1>6. SameQueues(s, t)
  BY <1>1, <1>3, <1>4 DEF SameQueues
<1> QED
  BY <1>1, <1>3, <1>4, <1>5, <1>6 DEF t

\* s with another head.
LEMMA WithHeadFields ==
    ASSUME NEW s, StorageTypeOK(s), NEW head \in Origins \cup {NoOrigin}
    PROVE  LET t == [s EXCEPT !.head = head]
           IN  StorageTypeOK(t) /\ SameQueues(s, t) /\ t.head = head /\ t.book = s.book
<1> DEFINE t == [s EXCEPT !.head = head]
<1>1. t.book = s.book /\ t.pages = s.pages /\ t.head = head
      /\ t = [book |-> t.book, pages |-> t.pages, head |-> t.head]
  BY DEF StorageTypeOK
<1> HIDE DEF t
<1>2. StorageTypeOK(t) /\ SameQueues(s, t)
  BY <1>1 DEF StorageTypeOK, SameQueues
<1> QED
  BY <1>1, <1>2 DEF t

LEMMA SameQueuesTransitive ==
    ASSUME NEW s, NEW t, NEW u, SameQueues(s, t), SameQueues(t, u)
    PROVE  SameQueues(s, u)
  BY DEF SameQueues

LEMMA ReadyTypes ==
    ASSUME NEW s, StorageTypeOK(s)
    PROVE  /\ NextOf(s) \in [Origins -> Origins \cup {NoOrigin}]
           /\ PrevOf(s) \in [Origins -> Origins \cup {NoOrigin}]
           /\ ReadyQueues(s) \in SUBSET Origins
           /\ \A o \in Origins : s.book[o].ready \in Neighbours
  BY DEF StorageTypeOK, Books, Neighbours, NextOf, PrevOf, ReadyQueues

\* What it takes that o has been knitted in, or taken out.
IsKnitted(s, o, t) ==
    /\ StorageTypeOK(t) /\ SameQueues(s, t) /\ RingInv(t)
    /\ ReadyQueues(t) = ReadyQueues(s) \cup {o}
    /\ \A x \in ReadyQueues(s) : Before(t, x) \subseteq Before(s, x)

LEMMA KnitIntoNothing ==
    ASSUME NEW s, StorageTypeOK(s), RingInv(s), NEW o \in Origins, ~IsReady(s, o),
           s.head = NoOrigin
    PROVE  IsKnitted(s, o, Knit(s, o))
<1> DEFINE r == [prev |-> o, next |-> o]
           t == WithReady(s, o, r)
           u == [t EXCEPT !.head = o]
<1>0. r \in Neighbours /\ r.prev = o /\ r.next = o /\ r # NoNeighbours /\ o # NoOrigin
  BY QueueAssumption DEF Neighbours, NoNeighbours
<1> HIDE DEF r
<1>1. Knit(s, o) = [s EXCEPT !.head = o, !.book[o].ready = [prev |-> o, next |-> o]]
  BY DEF Knit
<1>2. Knit(s, o) = u
  BY <1>1 DEF WithReady, StorageTypeOK, r
<1>3. /\ StorageTypeOK(t) /\ SameQueues(s, t) /\ t.head = s.head /\ t.book[o].ready = r
      /\ \A x \in Origins : x # o => t.book[x] = s.book[x]
  BY <1>0, WithReadyFields
<1> HIDE DEF t
<1>4. StorageTypeOK(u) /\ SameQueues(t, u) /\ u.head = o /\ u.book = t.book
  BY <1>3, WithHeadFields
<1> HIDE DEF u
<1>5. ReadyQueues(s) = {}
  BY QueueAssumption, RingInvMeans DEF HeadIsReady, ReadyQueues
<1>6. ReadyQueues(u) = {o}
  BY <1>0, <1>3, <1>4, <1>5 DEF ReadyQueues, IsReady
<1>7. NextOf(u)[o] = o /\ PrevOf(u)[o] = o
  BY <1>0, <1>3, <1>4 DEF NextOf, PrevOf
<1>8. RingInv(u)
  <2>1. HeadIsReady(u)
    BY <1>4, <1>6 DEF HeadIsReady
  <2>2. IsRing(ReadyQueues(u), NextOf(u), PrevOf(u))
    BY <1>6, <1>7, RingOfOne
  <2> QED
    BY <2>1, <2>2, RingInvMeans
<1>9. SameQueues(s, u)
  BY <1>3, <1>4, SameQueuesTransitive
<1> QED
  BY <1>2, <1>4, <1>5, <1>6, <1>8, <1>9 DEF IsKnitted

LEMMA KnitIntoRing ==
    ASSUME NEW s, StorageTypeOK(s), RingInv(s), NEW o \in Origins, ~IsReady(s, o),
           s.head # NoOrigin
    PROVE  IsKnitted(s, o, Knit(s, o))
<1> DEFINE head == s.head
           tail == s.book[head].ready.prev
           next == NextOf(s)
           prev == PrevOf(s)
           ring == ReadyQueues(s)
           r1 == [s.book[head].ready EXCEPT !.prev = o]
           t1 == WithReady(s, head, r1)
           r2 == [t1.book[tail].ready EXCEPT !.next = o]
           t2 == WithReady(t1, tail, r2)
           r3 == [prev |-> tail, next |-> head]
           t3 == WithReady(t2, o, r3)
<1>1. /\ next \in [Origins -> Origins \cup {NoOrigin}]
      /\ prev \in [Origins -> Origins \cup {NoOrigin}]
      /\ ring \in SUBSET Origins
      /\ \A x \in Origins : s.book[x].ready \in Neighbours
  BY ReadyTypes
<1>2. HeadIsReady(s) /\ IsRing(ring, next, prev)
  BY RingInvMeans
<1>3. head \in ring /\ head \in Origins
  BY <1>2, <1>1 DEF HeadIsReady
<1>4. tail = prev[head] /\ tail \in ring /\ tail \in Origins
  BY <1>1, <1>2, <1>3 DEF IsRing, PrevOf
<1>5. o \notin ring /\ o # head /\ o # tail
  BY <1>3, <1>4 DEF ReadyQueues
<1>6. r1 \in Neighbours /\ r1.prev = o /\ r1.next = s.book[head].ready.next
      /\ r1 # NoNeighbours
  BY <1>1, <1>3, QueueAssumption DEF Neighbours, NoNeighbours
<1>7. /\ StorageTypeOK(t1) /\ SameQueues(s, t1) /\ t1.head = head
      /\ t1.book[head].ready = r1
      /\ \A x \in Origins : x # head => t1.book[x] = s.book[x]
  <2> HIDE DEF r1
  <2> QED
    BY <1>3, <1>6, WithReadyFields
<1>8. t1 = [s EXCEPT !.book[head].ready.prev = o]
  BY DEF WithReady
<1>9. Knit(s, o) = [t1 EXCEPT !.book[tail].ready.next = o,
                              !.book[o].ready = [prev |-> tail, next |-> head]]
  <2>1. IsReady(s, head)
    BY <1>3 DEF ReadyQueues
  <2>2. IsReady(t1, tail)
    <3> HIDE DEF r1, t1
    <3>1. CASE tail = head
      BY <1>6, <1>7, <3>1 DEF IsReady
    <3>2. CASE tail # head
      BY <1>4, <1>7, <3>2 DEF IsReady, ReadyQueues
    <3> QED
      BY <3>1, <3>2
  <2> QED
    BY <1>8, <2>1, <2>2 DEF Knit
<1>10. r2 \in Neighbours /\ r2.next = o /\ r2.prev = t1.book[tail].ready.prev
       /\ r2 # NoNeighbours
  <2> HIDE DEF t1
  <2>1. t1.book[tail].ready \in Neighbours
    BY <1>4, <1>7, ReadyTypes
  <2> QED
    BY <2>1, QueueAssumption DEF Neighbours, NoNeighbours
<1>11. /\ StorageTypeOK(t2) /\ SameQueues(t1, t2) /\ t2.head = head
       /\ t2.book[tail].ready = r2
       /\ \A x \in Origins : x # tail => t2.book[x] = t1.book[x]
  <2> HIDE DEF r2, t1
  <2> QED
    BY <1>4, <1>7, <1>10, WithReadyFields
<1>12. r3 \in Neighbours /\ r3.prev = tail /\ r3.next = head /\ r3 # NoNeighbours
  BY <1>3, <1>4, QueueAssumption DEF Neighbours, NoNeighbours
<1>13. /\ StorageTypeOK(t3) /\ SameQueues(t2, t3) /\ t3.head = head
       /\ t3.book[o].ready = r3
       /\ \A x \in Origins : x # o => t3.book[x] = t2.book[x]
  <2> HIDE DEF r3, t2, head, tail
  <2>1. StorageTypeOK(t2) /\ r3 \in Neighbours /\ t2.head = head
    BY <1>11, <1>12
  <2> QED
    BY <2>1, WithReadyFields
<1>14. Knit(s, o) = t3
  <2> HIDE DEF t1
  <2> QED
    BY <1>5, <1>9, <1>4, <1>7 DEF WithReady, StorageTypeOK
<1> HIDE DEF t1, t2, t3, r1, r2, r3
<1>15. NextOf(t3) = NextWithMember(next, prev, head, o)
  <2> SUFFICES ASSUME NEW x \in Origins
               PROVE  t3.book[x].ready.next = NextWithMember(next, prev, head, o)[x]
    BY <1>1 DEF NextOf, NextWithMember
  <2>1. CASE x = o
    BY <1>1, <1>3, <1>4, <1>12, <1>13, <2>1 DEF NextWithMember
  <2>2. CASE x # o /\ x = tail
    BY <1>1, <1>3, <1>4, <1>10, <1>11, <1>13, <2>2 DEF NextWithMember
  <2>3. CASE x # o /\ x # tail
    <3>1. t3.book[x] = t1.book[x]
      BY <1>11, <1>13, <2>3
    <3>2. t1.book[x].ready.next = s.book[x].ready.next
      BY <1>6, <1>7
    <3> QED
      BY <1>1, <1>4, <2>3, <3>1, <3>2 DEF NextWithMember, NextOf
  <2> QED
    BY <2>1, <2>2, <2>3
<1>16. PrevOf(t3) = PrevWithMember(next, prev, head, o)
  <2> SUFFICES ASSUME NEW x \in Origins
               PROVE  t3.book[x].ready.prev = PrevWithMember(next, prev, head, o)[x]
    BY <1>1 DEF PrevOf, PrevWithMember
  <2>1. CASE x = o
    BY <1>1, <1>3, <1>4, <1>12, <1>13, <2>1 DEF PrevWithMember
  <2>2. CASE x # o
    <3>1. t3.book[x] = t2.book[x]
      BY <1>13, <2>2
    <3>2. t2.book[x].ready.prev = t1.book[x].ready.prev
      BY <1>10, <1>11
    <3>3. CASE x = head
      BY <1>1, <1>3, <1>6, <1>7, <2>2, <3>1, <3>2, <3>3 DEF PrevWithMember
    <3>4. CASE x # head
      BY <1>1, <1>7, <2>2, <3>1, <3>2, <3>4 DEF PrevWithMember, PrevOf
    <3> QED
      BY <3>3, <3>4
  <2> QED
    BY <2>1, <2>2
<1>17. ReadyQueues(t3) = ring \cup {o}
  <2>1. IsReady(t3, o)
    BY <1>12, <1>13 DEF IsReady
  <2>2. ASSUME NEW x \in Origins \ {o} PROVE IsReady(t3, x) <=> IsReady(s, x)
    <3>1. t3.book[x] = t2.book[x]
      BY <1>13
    <3>2. CASE x = tail
      BY <1>4, <1>10, <1>11, <3>1, <3>2 DEF IsReady, ReadyQueues
    <3>3. CASE x # tail /\ x = head
      BY <1>3, <1>6, <1>7, <1>11, <3>1, <3>3 DEF IsReady, ReadyQueues
    <3>4. CASE x # tail /\ x # head
      BY <1>7, <1>11, <3>1, <3>4 DEF IsReady
    <3> QED
      BY <3>2, <3>3, <3>4
  <2> QED
    BY <2>1, <2>2 DEF ReadyQueues
<1>18. SameQueues(s, t3)
  BY <1>7, <1>11, <1>13, SameQueuesTransitive
<1> HIDE DEF head, tail, ring, next, prev
<1>19. RingInv(t3)
  <2>1. HeadIsReady(t3)
    BY <1>3, <1>13, <1>17 DEF HeadIsReady
  <2>2. IsRing(ReadyQueues(t3), NextOf(t3), PrevOf(t3))
    BY <1>1, <1>2, <1>3, <1>5, <1>15, <1>16, <1>17, RingGrows
  <2> QED
    BY <2>1, <2>2, RingInvMeans
<1>20. ASSUME NEW x \in ring PROVE Before(t3, x) \subseteq Before(s, x)
  <2>1. NotBefore(t3, x) = Later(ring \cup {o}, NextWithMember(next, prev, head, o), head, x)
    BY <1>13, <1>15, <1>17, NotBeforeIsLater
  <2>2. NotBefore(s, x) = Later(ring, next, head, x)
    BY NotBeforeIsLater DEF ring, next, head
  <2>3. NotBefore(s, x) \cup {o} \subseteq NotBefore(t3, x)
    BY <1>1, <1>2, <1>3, <1>5, <2>1, <2>2, NewMemberIsLater
  <2> QED
    BY <1>17, <2>3 DEF Before, ring
<1> QED
  BY <1>13, <1>14, <1>17, <1>18, <1>19, <1>20 DEF IsKnitted, ring

LEMMA KnittedIn ==
    ASSUME NEW s, StorageTypeOK(s), RingInv(s), NEW o \in Origins, ~IsReady(s, o)
    PROVE  IsKnitted(s, o, Knit(s, o))
  BY KnitIntoNothing, KnitIntoRing

\* What happens outside of a ring does not matter to it.
LEMMA SameLinks ==
    ASSUME NEW ring, NEW next, NEW prev, NEW nx, NEW pv,
           \A x \in ring : nx[x] = next[x] /\ pv[x] = prev[x]
    PROVE  /\ IsRing(ring, next, prev) => IsRing(ring, nx, pv)
           /\ \A head, o : Later(ring, next, head, o) = Later(ring, nx, head, o)
<1>1. IsRing(ring, next, prev) => IsRing(ring, nx, pv)
  <2>1. \A part \in SUBSET ring :
          (\A o \in part : next[o] \in part) <=> (\A o \in part : nx[o] \in part)
    OBVIOUS
  <2>2. (\A part \in SUBSET ring : part # {} /\ (\A o \in part : next[o] \in part) => part = ring)
        => (\A part \in SUBSET ring : part # {} /\ (\A o \in part : nx[o] \in part) => part = ring)
    BY <2>1, Zenon
  <2> QED
    BY <2>2 DEF IsRing
<1>2. \A part \in SUBSET ring : \A head : GoesOn(part, next, head) <=> GoesOn(part, nx, head)
  BY DEF GoesOn
<1> QED
  BY <1>1, <1>2 DEF Later

LEMMA SameRing ==
    ASSUME NEW s, NEW t, t.head = s.head, \A o \in Origins : t.book[o].ready = s.book[o].ready
    PROVE  /\ ReadyQueues(t) = ReadyQueues(s)
           /\ RingInv(s) => RingInv(t)
           /\ \A o : Before(t, o) = Before(s, o)
<1>1. ReadyQueues(t) = ReadyQueues(s) /\ NextOf(t) = NextOf(s) /\ PrevOf(t) = PrevOf(s)
  BY DEF ReadyQueues, NextOf, PrevOf, IsReady
<1>2. HeadIsReady(s) => HeadIsReady(t)
  BY <1>1 DEF HeadIsReady
<1>3. \A o : NotBefore(t, o) = NotBefore(s, o)
  BY <1>1, NotBeforeIsLater
<1> QED
  BY <1>1, <1>2, <1>3, RingInvMeans DEF Before

IsUnknitted(s, o, t) ==
    /\ StorageTypeOK(t) /\ SameQueues(s, t) /\ RingInv(t)
    /\ ReadyQueues(t) = ReadyQueues(s) \ {o}
    /\ \A x \in ReadyQueues(t) : Before(t, x) \subseteq Before(s, x)

LEMMA UnknitTheLast ==
    ASSUME NEW s, StorageTypeOK(s), RingInv(s), NEW o \in Origins, IsReady(s, o),
           s.book[o].ready.next = o
    PROVE  IsUnknitted(s, o, Unknit(s, o))
<1> DEFINE t == WithReady(s, o, NoNeighbours)
           u == [t EXCEPT !.head = NoOrigin]
<1>0. NoNeighbours \in Neighbours
  BY DEF NoNeighbours, Neighbours
<1>1. Unknit(s, o) = u
  BY DEF Unknit, WithReady
<1>2. /\ StorageTypeOK(t) /\ SameQueues(s, t) /\ t.head = s.head /\ t.book[o].ready = NoNeighbours
      /\ \A x \in Origins : x # o => t.book[x] = s.book[x]
  BY <1>0, WithReadyFields
<1> HIDE DEF t
<1>3. StorageTypeOK(u) /\ SameQueues(t, u) /\ u.head = NoOrigin /\ u.book = t.book
  BY <1>2, WithHeadFields
<1> HIDE DEF u
<1>4. IsRing(ReadyQueues(s), NextOf(s), PrevOf(s)) /\ NextOf(s)[o] = o /\ o \in ReadyQueues(s)
  BY RingInvMeans DEF NextOf, ReadyQueues
<1>5. ReadyQueues(s) = {o}
  <2>1. {o} \in SUBSET ReadyQueues(s) /\ {o} # {} /\ \A x \in {o} : NextOf(s)[x] \in {o}
    BY <1>4
  <2> QED
    BY <1>4, <2>1 DEF IsRing
<1>6. ReadyQueues(u) = {}
  BY <1>2, <1>3, <1>5 DEF ReadyQueues, IsReady
<1>7. RingInv(u)
  <2>1. IsRing({}, NextOf(u), PrevOf(u))
    BY DEF IsRing
  <2> QED
    BY <1>3, <1>6, <2>1, RingInvMeans DEF HeadIsReady
<1> QED
  BY <1>1, <1>2, <1>3, <1>5, <1>6, <1>7, SameQueuesTransitive DEF IsUnknitted

LEMMA UnknitOneOfMany ==
    ASSUME NEW s, StorageTypeOK(s), RingInv(s), NEW o \in Origins, IsReady(s, o),
           s.book[o].ready.next # o
    PROVE  IsUnknitted(s, o, Unknit(s, o))
<1> DEFINE next == NextOf(s)
           prev == PrevOf(s)
           ring == ReadyQueues(s)
           after == s.book[o].ready.next
           before == s.book[o].ready.prev
           head == IF s.head = o THEN after ELSE s.head
           t == WithReady(s, o, NoNeighbours)
           r1 == [t.book[after].ready EXCEPT !.prev = before]
           u1 == WithReady(t, after, r1)
           r2 == [u1.book[before].ready EXCEPT !.next = after]
           u2 == WithReady(u1, before, r2)
           u == [u2 EXCEPT !.head = head]
<1>1. /\ next \in [Origins -> Origins \cup {NoOrigin}]
      /\ prev \in [Origins -> Origins \cup {NoOrigin}]
      /\ ring \in SUBSET Origins
      /\ \A x \in Origins : s.book[x].ready \in Neighbours
  BY ReadyTypes
<1>2. HeadIsReady(s) /\ IsRing(ring, next, prev)
  BY RingInvMeans
<1>3. o \in ring /\ after = next[o] /\ before = prev[o]
  BY DEF ReadyQueues, NextOf, PrevOf
<1>4. /\ after \in ring \ {o} /\ before \in ring \ {o} /\ s.head \in ring
      /\ after \in Origins /\ before \in Origins /\ head \in ring \ {o}
  BY <1>1, <1>2, <1>3 DEF IsRing, HeadIsReady
<1>5. /\ StorageTypeOK(t) /\ SameQueues(s, t) /\ t.head = s.head /\ t.book[o].ready = NoNeighbours
      /\ \A x \in Origins : x # o => t.book[x] = s.book[x]
  <2>1. NoNeighbours \in Neighbours
    BY DEF NoNeighbours, Neighbours
  <2> QED
    BY <2>1, WithReadyFields
<1>6. Unknit(s, o) = [t EXCEPT !.book[after].ready.prev = before,
                               !.book[before].ready.next = after, !.head = head]
  <2>1. t = [s EXCEPT !.book[o].ready = NoNeighbours]
    BY DEF WithReady
  <2> HIDE DEF t
  <2>2. IsReady(t, after) /\ IsReady(t, before)
    BY <1>4, <1>5 DEF IsReady, ReadyQueues
  <2> QED
    BY <1>5, <2>1, <2>2 DEF Unknit
<1>7. r1 \in Neighbours /\ r1.prev = before /\ r1.next = s.book[after].ready.next
      /\ r1 # NoNeighbours
  <2> HIDE DEF t
  <2>1. t.book[after].ready = s.book[after].ready /\ s.book[after].ready \in Neighbours
    BY <1>1, <1>4, <1>5
  <2> QED
    BY <1>4, <2>1, QueueAssumption DEF Neighbours, NoNeighbours
<1>8. /\ StorageTypeOK(u1) /\ SameQueues(t, u1) /\ u1.head = s.head
      /\ u1.book[after].ready = r1
      /\ \A x \in Origins : x # after => u1.book[x] = t.book[x]
  <2> HIDE DEF t, r1, after
  <2> QED
    BY <1>4, <1>5, <1>7, WithReadyFields
<1>9. r2 \in Neighbours /\ r2.next = after /\ r2.prev = u1.book[before].ready.prev
      /\ r2 # NoNeighbours
  <2> HIDE DEF u1
  <2>1. u1.book[before].ready \in Neighbours
    BY <1>4, <1>8, ReadyTypes
  <2> QED
    BY <1>4, <2>1, QueueAssumption DEF Neighbours, NoNeighbours
<1>10. /\ StorageTypeOK(u2) /\ SameQueues(u1, u2) /\ u2.head = s.head
       /\ u2.book[before].ready = r2
       /\ \A x \in Origins : x # before => u2.book[x] = u1.book[x]
  <2> HIDE DEF u1, r2, before, after
  <2>1. StorageTypeOK(u1) /\ r2 \in Neighbours /\ u1.head = s.head /\ before \in Origins
    BY <1>4, <1>8, <1>9
  <2> QED
    BY <2>1, WithReadyFields
<1>11. StorageTypeOK(u) /\ SameQueues(u2, u) /\ u.head = head /\ u.book = u2.book
  <2> HIDE DEF u2, head
  <2> QED
    BY <1>1, <1>4, <1>10, WithHeadFields
<1>12. Unknit(s, o) = u
  <2> HIDE DEF t, head, after, before
  <2> QED
    BY <1>6, <1>4, <1>5 DEF WithReady, StorageTypeOK
<1> HIDE DEF t, u1, u2, u, r1, r2
<1>13. ASSUME NEW x \in ring \ {o}
       PROVE  /\ NextOf(u)[x] = NextWithout(next, prev, o)[x]
              /\ PrevOf(u)[x] = PrevWithout(next, prev, o)[x]
  <2>0. x \in Origins /\ t.book[x] = s.book[x] /\ u.book[x] = u2.book[x]
    BY <1>1, <1>5, <1>11
  <2>1. u.book[x].ready.next = IF x = before THEN after ELSE s.book[x].ready.next
    BY <1>7, <1>8, <1>9, <1>10, <2>0
  <2>2. u.book[x].ready.prev = IF x = after THEN before ELSE s.book[x].ready.prev
    BY <1>7, <1>8, <1>9, <1>10, <2>0
  <2>3. NextWithout(next, prev, o)[x] = IF x = before THEN after ELSE s.book[x].ready.next
    BY <1>1, <1>3, <2>0 DEF NextWithout, NextOf
  <2>4. PrevWithout(next, prev, o)[x] = IF x = after THEN before ELSE s.book[x].ready.prev
    BY <1>1, <1>3, <2>0 DEF PrevWithout, PrevOf
  <2> QED
    BY <2>0, <2>1, <2>2, <2>3, <2>4 DEF NextOf, PrevOf
<1>14. ReadyQueues(u) = ring \ {o}
  <2>1. ~IsReady(u, o)
    BY <1>4, <1>5, <1>8, <1>10, <1>11 DEF IsReady
  <2>2. ASSUME NEW x \in Origins \ {o} PROVE IsReady(u, x) <=> IsReady(s, x)
    <3>0. u.book[x] = u2.book[x] /\ t.book[x] = s.book[x]
      BY <1>5, <1>11
    <3>1. CASE x = before
      BY <1>4, <1>9, <1>10, <3>0, <3>1 DEF IsReady, ReadyQueues
    <3>2. CASE x # before /\ x = after
      BY <1>4, <1>7, <1>8, <1>10, <3>0, <3>2 DEF IsReady, ReadyQueues
    <3>3. CASE x # before /\ x # after
      BY <1>8, <1>10, <3>0, <3>3 DEF IsReady
    <3> QED
      BY <3>1, <3>2, <3>3
  <2> QED
    BY <2>1, <2>2 DEF ReadyQueues
<1>15. SameQueues(s, u)
  BY <1>5, <1>8, <1>10, <1>11, SameQueuesTransitive
<1>16. next[o] # o
  BY <1>3
<1>17. head = IF s.head = o THEN next[o] ELSE s.head
  BY <1>3
<1> HIDE DEF head, after, before, ring, next, prev
<1>18. RingInv(u)
  <2>1. HeadIsReady(u)
    BY <1>4, <1>11, <1>14 DEF HeadIsReady
  <2>2. IsRing(ring \ {o}, NextWithout(next, prev, o), PrevWithout(next, prev, o))
    BY <1>1, <1>2, <1>3, <1>16, RingShrinks
  <2>3. IsRing(ReadyQueues(u), NextOf(u), PrevOf(u))
    BY <1>13, <1>14, <2>2, SameLinks
  <2> QED
    BY <2>1, <2>3, RingInvMeans
<1>19. ASSUME NEW x \in ring \ {o} PROVE Before(u, x) \subseteq Before(s, x)
  <2>1. NotBefore(u, x) = Later(ring \ {o}, NextOf(u), head, x)
    BY <1>11, <1>14, NotBeforeIsLater
  <2>2. Later(ring \ {o}, NextWithout(next, prev, o), head, x)
        = Later(ring \ {o}, NextOf(u), head, x)
    BY <1>13, SameLinks
  <2>3. NotBefore(s, x) = Later(ring, next, s.head, x)
    BY NotBeforeIsLater DEF ring, next
  <2>4. Later(ring, next, s.head, x) \ {o}
        \subseteq Later(ring \ {o}, NextWithout(next, prev, o), head, x)
    BY <1>1, <1>2, <1>3, <1>4, <1>16, <1>17, LaterWithoutMember
  <2> QED
    BY <1>14, <2>1, <2>2, <2>3, <2>4 DEF Before, ring
<1> QED
  BY <1>11, <1>12, <1>14, <1>15, <1>18, <1>19 DEF IsUnknitted, ring

LEMMA TakenOut ==
    ASSUME NEW s, StorageTypeOK(s), RingInv(s), NEW o \in Origins, IsReady(s, o)
    PROVE  IsUnknitted(s, o, Unknit(s, o))
  BY UnknitTheLast, UnknitOneOfMany

\* The head moves on.
LEMMA HeadBumped ==
    ASSUME NEW s, StorageTypeOK(s), RingInv(s), s.head # NoOrigin
    PROVE  LET t == BumpServiceHead(s)
           IN  /\ StorageTypeOK(t) /\ SameQueues(s, t) /\ RingInv(t)
               /\ ReadyQueues(t) = ReadyQueues(s)
               /\ \A o \in ReadyQueues(s) \ {s.head} :
                    /\ Before(t, o) \subseteq Before(s, o)
                    /\ s.head \in Before(s, o) \ Before(t, o)
<1> DEFINE t == BumpServiceHead(s)
           next == NextOf(s)
           prev == PrevOf(s)
           ring == ReadyQueues(s)
<1>1. HeadIsReady(s) /\ IsRing(ring, next, prev)
  BY RingInvMeans
<1>2. s.head \in ring /\ s.head \in Origins /\ s.book[s.head].ready.next = next[s.head]
  BY <1>1 DEF HeadIsReady, ReadyQueues, NextOf
<1>3. next[s.head] \in ring
  BY <1>1, <1>2 DEF IsRing
<1>4. StorageTypeOK(t) /\ SameQueues(s, t) /\ t.head = next[s.head] /\ t.book = s.book
  <2> DEFINE head == s.book[s.head].ready.next
  <2>1. head \in Origins \cup {NoOrigin}
    BY <1>2, <1>3 DEF ReadyQueues
  <2>2. t = [s EXCEPT !.head = head]
    BY DEF BumpServiceHead
  <2>3. head = next[s.head]
    BY <1>2
  <2> HIDE DEF head, t
  <2> QED
    BY <2>1, <2>2, <2>3, WithHeadFields
<1> HIDE DEF t
<1>5. ReadyQueues(t) = ring /\ NextOf(t) = next /\ PrevOf(t) = prev
  BY <1>4 DEF ReadyQueues, IsReady, NextOf, PrevOf
<1>6. RingInv(t)
  BY <1>1, <1>3, <1>4, <1>5, RingInvMeans DEF HeadIsReady
<1> HIDE DEF ring, next, prev
<1>7. ASSUME NEW o \in ring \ {s.head}
      PROVE  Before(t, o) \subseteq Before(s, o) /\ s.head \in Before(s, o) \ Before(t, o)
  <2>1. NotBefore(t, o) = Later(ring, next, next[s.head], o)
    BY <1>4, <1>5, NotBeforeIsLater
  <2>2. NotBefore(s, o) = Later(ring, next, s.head, o)
    BY NotBeforeIsLater DEF ring, next
  <2>3. /\ NotBefore(s, o) \cup {s.head} \subseteq NotBefore(t, o)
        /\ s.head \notin NotBefore(s, o)
    BY <1>1, <1>2, <2>1, <2>2, LaterThanBumped
  <2> QED
    BY <1>2, <1>5, <2>3 DEF Before, ring
<1> QED
  BY <1>4, <1>5, <1>6, <1>7 DEF t, ring

-----------------------------------------------------------------------------
(***************************************************************************)
(* One queue: its pages and its messages.                                  *)
(***************************************************************************)
PageTable(pages) == IsFunction(pages) /\ \A p \in DOMAIN pages : pages[p] \in PageRecords

\* Place i of page p is yet to be reached by the service loop.
IsWaiting(book, pages, p, i) ==
    p \in book.begin .. book.end - 1 /\ pages[p].first < i

LEMMA PageFacts ==
    ASSUME NEW pages, PageTable(pages), NEW p \in DOMAIN pages
    PROVE  /\ pages[p].items \in Seq(Messages) /\ pages[p].first \in Nat
           /\ pages[p].remaining \in Int
           /\ DOMAIN pages[p].items = 1 .. Len(pages[p].items)
           /\ Len(pages[p].items) \in Nat
           /\ \A i \in DOMAIN pages[p].items :
                /\ pages[p].items[i] \in Messages
                /\ pages[p].items[i].id \in Nat
                /\ pages[p].items[i].processed \in BOOLEAN
                /\ i \in Nat
<1>1. /\ pages[p].items \in Seq(Messages) /\ pages[p].first \in Nat
      /\ pages[p].remaining \in Int
  BY DEF PageTable, PageRecords
<1>2. /\ DOMAIN pages[p].items = 1 .. Len(pages[p].items)
      /\ Len(pages[p].items) \in Nat
      /\ \A i \in DOMAIN pages[p].items : pages[p].items[i] \in Messages
  BY <1>1, ElementOfSeq, LenProperties
<1> QED
  BY <1>1, <1>2 DEF Messages

\* The place that the service loop is at.
LEMMA FirstPlace ==
    ASSUME NEW pages, PageTable(pages), NEW p \in DOMAIN pages
    PROVE  /\ pages[p].first + 1 \in Nat
           /\ pages[p].first < Len(pages[p].items)
              <=> pages[p].first + 1 \in DOMAIN pages[p].items
<1> DEFINE page == pages[p]
<1>1. /\ page.first \in Nat /\ Len(page.items) \in Nat
      /\ DOMAIN page.items = 1 .. Len(page.items)
  BY PageFacts
<1> HIDE DEF page
<1>2. /\ page.first + 1 \in Nat
      /\ page.first < Len(page.items) <=> page.first + 1 \in DOMAIN page.items
  BY <1>1
<1> QED
  BY <1>2 DEF page

LEMMA InUnprocessed ==
    ASSUME NEW pages, PageTable(pages), NEW x
    PROVE  x \in Unprocessed(pages)
           <=> \E p \in DOMAIN pages : \E i \in DOMAIN pages[p].items :
                 ~pages[p].items[i].processed /\ x = pages[p].items[i].id
  BY DEF Unprocessed, Range

LEMMA InWaiting ==
    ASSUME NEW book \in Books, NEW pages, PageTable(pages), NEW m
    PROVE  m \in Waiting(book, pages)
           <=> \E p \in DOMAIN pages : \E i \in DOMAIN pages[p].items :
                 IsWaiting(book, pages, p, i) /\ m = pages[p].items[i]
<1>1. \A p \in DOMAIN pages : \A i :
        i \in pages[p].first + 1 .. Len(pages[p].items)
        <=> i \in DOMAIN pages[p].items /\ pages[p].first < i
  BY PageFacts
<1>2. m \in Waiting(book, pages)
      <=> \E p \in DOMAIN pages \cap book.begin .. book.end - 1 :
            \E i \in pages[p].first + 1 .. Len(pages[p].items) : m = pages[p].items[i]
  BY DEF Waiting
<1> QED
  BY <1>1, <1>2 DEF IsWaiting

\* All but served messages are waiting, and they are unprocessed.
WaitingFrom(book, pages, n, served) ==
    /\ \A p \in DOMAIN pages : \A i \in DOMAIN pages[p].items :
         IsWaiting(book, pages, p, i) =>
           ~pages[p].items[i].processed /\ pages[p].items[i].id \in served + 1 .. n
    /\ \A x \in served + 1 .. n :
         \E p \in DOMAIN pages : \E i \in DOMAIN pages[p].items :
           IsWaiting(book, pages, p, i) /\ x = pages[p].items[i].id

LEMMA WaitingMeans ==
    ASSUME NEW book \in Books, NEW pages, PageTable(pages), NEW n \in Nat
    PROVE  (/\ \A m \in Waiting(book, pages) : ~m.processed
            /\ \E served \in 0 .. n : {m.id : m \in Waiting(book, pages)} = served + 1 .. n)
           <=> \E served \in 0 .. n : WaitingFrom(book, pages, n, served)
<1>1. \A m : m \in Waiting(book, pages)
             <=> \E p \in DOMAIN pages : \E i \in DOMAIN pages[p].items :
                   IsWaiting(book, pages, p, i) /\ m = pages[p].items[i]
  BY InWaiting
<1>2. (\A m \in Waiting(book, pages) : ~m.processed)
      <=> \A p \in DOMAIN pages : \A i \in DOMAIN pages[p].items :
            IsWaiting(book, pages, p, i) => ~pages[p].items[i].processed
  BY <1>1
<1>3. ASSUME NEW served \in 0 .. n
      PROVE  {m.id : m \in Waiting(book, pages)} = served + 1 .. n
             <=> (/\ \A p \in DOMAIN pages : \A i \in DOMAIN pages[p].items :
                       IsWaiting(book, pages, p, i) => pages[p].items[i].id \in served + 1 .. n
                  /\ \A x \in served + 1 .. n :
                       \E p \in DOMAIN pages : \E i \in DOMAIN pages[p].items :
                         IsWaiting(book, pages, p, i) /\ x = pages[p].items[i].id)
  <2> DEFINE rest == served + 1 .. n
             ids == {m.id : m \in Waiting(book, pages)}
  <2>1. \A x : x \in ids
               <=> \E p \in DOMAIN pages : \E i \in DOMAIN pages[p].items :
                     IsWaiting(book, pages, p, i) /\ x = pages[p].items[i].id
    BY <1>1
  <2> HIDE DEF rest, ids
  <2> SUFFICES ids = rest
               <=> (/\ \A p \in DOMAIN pages : \A i \in DOMAIN pages[p].items :
                          IsWaiting(book, pages, p, i) => pages[p].items[i].id \in rest
                    /\ \A x \in rest :
                          \E p \in DOMAIN pages : \E i \in DOMAIN pages[p].items :
                            IsWaiting(book, pages, p, i) /\ x = pages[p].items[i].id)
    BY DEF rest, ids
  <2>2. ids \subseteq rest
        <=> \A p \in DOMAIN pages : \A i \in DOMAIN pages[p].items :
              IsWaiting(book, pages, p, i) => pages[p].items[i].id \in rest
    BY <2>1, SMT
  <2>3. rest \subseteq ids
        <=> \A x \in rest : \E p \in DOMAIN pages : \E i \in DOMAIN pages[p].items :
              IsWaiting(book, pages, p, i) /\ x = pages[p].items[i].id
    BY <2>1, Zenon
  <2> QED
    BY <2>2, <2>3, Zenon
<1> QED
  BY <1>2, <1>3, Zenon DEF WaitingFrom

\* No two messages of a queue have the same number.
LEMMA NumbersDiffer ==
    ASSUME NEW pages, PageTable(pages), DOMAIN pages \subseteq Nat, IsInOrder(pages),
           NEW p \in DOMAIN pages, NEW q \in DOMAIN pages,
           NEW i \in DOMAIN pages[p].items, NEW j \in DOMAIN pages[q].items,
           pages[p].items[i].id = pages[q].items[j].id
    PROVE  p = q /\ i = j
<1>1. p \in Nat /\ q \in Nat /\ i \in Nat /\ j \in Nat
      /\ pages[p].items[i].id \in Nat /\ pages[q].items[j].id \in Nat
  BY PageFacts
<1>2. /\ p < q \/ (p = q /\ i < j) => pages[p].items[i].id < pages[q].items[j].id
      /\ q < p \/ (q = p /\ j < i) => pages[q].items[j].id < pages[p].items[i].id
  BY DEF IsInOrder
<1> QED
  BY <1>1, <1>2

\* Places of a page with messages that are still to be processed.
ToDo(page) == {i \in DOMAIN page.items : ~page.items[i].processed}

\* The parts of PagesInv that are about the pages, about the counters, and about
\* what became of the messages.
PlacesInv(book, pages, n) ==
    /\ book.begin <= book.end
    /\ DOMAIN pages \subseteq 0 .. book.end - 1
    /\ (book.begin + 1) .. (book.end - 1) \subseteq DOMAIN pages
    /\ \A p \in DOMAIN pages :
         /\ pages[p].first <= Len(pages[p].items)
         /\ \A i \in DOMAIN pages[p].items : pages[p].items[i].id \in 1 .. n
    /\ IsInOrder(pages)
    /\ \E served \in 0 .. n : WaitingFrom(book, pages, n, served)

CountersInv(book, pages) ==
    /\ book.count = Cardinality(DOMAIN pages)
    /\ book.message_count = Cardinality(Unprocessed(pages))
    /\ \A p \in DOMAIN pages : pages[p].remaining = Cardinality(ToDo(pages[p]))

FatesInv(pages, n, done, gone) ==
    /\ done \cup Unprocessed(pages) \cup gone = 1 .. n
    /\ Unprocessed(pages) \cap done = {}
    /\ gone \cap (done \cup Unprocessed(pages)) = {}

LEMMA PagesInvMeans ==
    ASSUME NEW book \in Books, NEW pages, PageTable(pages), NEW n \in Nat, NEW done, NEW gone
    PROVE  PagesInv(book, pages, n, done, gone)
           <=> /\ PlacesInv(book, pages, n) /\ CountersInv(book, pages)
               /\ FatesInv(pages, n, done, gone)
<1>1. (/\ \A m \in Waiting(book, pages) : ~m.processed
       /\ \E served \in 0 .. n : {m.id : m \in Waiting(book, pages)} = served + 1 .. n)
      <=> \E served \in 0 .. n : WaitingFrom(book, pages, n, served)
  BY WaitingMeans
<1> QED
  BY <1>1, Zenon DEF PagesInv, PlacesInv, CountersInv, FatesInv, ToDo

LEMMA QueueIsFinite ==
    ASSUME NEW book \in Books, NEW pages, PageTable(pages), NEW n \in Nat, PlacesInv(book, pages, n)
    PROVE  /\ DOMAIN pages \subseteq Nat /\ IsFiniteSet(DOMAIN pages)
           /\ Unprocessed(pages) \subseteq 1 .. n /\ IsFiniteSet(Unprocessed(pages))
           /\ \A p \in DOMAIN pages : IsFiniteSet(ToDo(pages[p]))
<1>0. book.end \in Nat
  BY DEF Books
<1>1. DOMAIN pages \subseteq Nat /\ IsFiniteSet(DOMAIN pages)
  <2>1. DOMAIN pages \in SUBSET (0 .. book.end - 1) /\ IsFiniteSet(0 .. book.end - 1)
    <3>1. 0 \in Int /\ book.end - 1 \in Int
      BY <1>0
    <3>2. IsFiniteSet(0 .. book.end - 1)
      BY <3>1, FS_Interval
    <3> QED
      BY <3>2 DEF PlacesInv
  <2> QED
    BY <1>0, <2>1, FS_Subset
<1>2. Unprocessed(pages) \subseteq 1 .. n
  BY InUnprocessed DEF PlacesInv
<1>3. IsFiniteSet(Unprocessed(pages))
  BY <1>2, FS_Interval, FS_Subset
<1>4. ASSUME NEW p \in DOMAIN pages PROVE IsFiniteSet(ToDo(pages[p]))
  <2>1. ToDo(pages[p]) \in SUBSET (1 .. Len(pages[p].items)) /\ Len(pages[p].items) \in Nat
    BY PageFacts DEF ToDo
  <2>2. IsFiniteSet(1 .. Len(pages[p].items))
    BY <2>1, FS_Interval
  <2> QED
    BY <2>1, <2>2, FS_Subset
<1> QED
  BY <1>1, <1>2, <1>3, <1>4

\* The numbers of the messages of page p that are still to be processed.
NumbersToDo(page) == {m.id : m \in {n \in Range(page.items) : ~n.processed}}

LEMMA InNumbersToDo ==
    ASSUME NEW page, NEW x
    PROVE  x \in NumbersToDo(page) <=> \E i \in ToDo(page) : x = page.items[i].id
  BY DEF NumbersToDo, Range, ToDo

LEMMA CountOfPage ==
    ASSUME NEW book \in Books, NEW pages, PageTable(pages), NEW n \in Nat,
           PlacesInv(book, pages, n), NEW p \in DOMAIN pages
    PROVE  Cardinality(NumbersToDo(pages[p])) = Cardinality(ToDo(pages[p]))
<1> DEFINE todo == ToDo(pages[p])
           numbers == NumbersToDo(pages[p])
           f == [i \in todo |-> pages[p].items[i].id]
<1>1. IsFiniteSet(todo) /\ DOMAIN pages \subseteq Nat
  BY QueueIsFinite
<1>2. \A x : x \in numbers <=> \E i \in todo : x = pages[p].items[i].id
  BY InNumbersToDo
<1>3. \A i, j \in todo : f[i] = f[j] => i = j
  BY <1>1, NumbersDiffer DEF PlacesInv, ToDo
<1> HIDE DEF todo, numbers
<1>4. f \in [todo -> numbers] /\ \A x \in numbers : \E i \in todo : f[i] = x
  BY <1>2
<1> HIDE DEF f
<1>5. f \in Bijection(todo, numbers)
  BY <1>3, <1>4 DEF Bijection, Injection, Surjection, IsInjective
<1> QED
  BY <1>1, <1>5, FS_Bijection DEF ExistsBijection, todo, numbers

\* A page that is behind, or has nothing to be processed, is removed.
LEMMA PageRemoved ==
    ASSUME NEW book \in Books, NEW pages, PageTable(pages), NEW n \in Nat, NEW done, NEW gone,
           PagesInv(book, pages, n, done, gone), NEW p \in DOMAIN pages,
           p < book.begin \/ (p = book.begin /\ pages[p].remaining = 0),
           NEW book2 \in Books, book2.begin = book.begin, book2.end = book.end,
           book2.count = book.count - 1,
           book2.message_count = book.message_count - pages[p].remaining
    PROVE  /\ PageTable(WithoutPage(pages, p))
           /\ PagesInv(book2, WithoutPage(pages, p), n, done, gone \cup NumbersToDo(pages[p]))
<1> DEFINE pages2 == WithoutPage(pages, p)
           numbers == NumbersToDo(pages[p])
<1>0. book.begin \in Nat /\ book.end \in Nat /\ book.count \in Int /\ book.message_count \in Int
  BY DEF Books
<1>1. PlacesInv(book, pages, n) /\ CountersInv(book, pages) /\ FatesInv(pages, n, done, gone)
  BY PagesInvMeans
<1>2. DOMAIN pages2 = DOMAIN pages \ {p} /\ \A q \in DOMAIN pages \ {p} : pages2[q] = pages[q]
  BY DEF WithoutPage, Restrict
<1>3. PageTable(pages2)
  <2>1. IsFunction(pages2)
    BY DEF WithoutPage, Restrict, IsFunction
  <2> QED
    BY <1>2, <2>1 DEF PageTable
<1> HIDE DEF pages2
<1>4. /\ DOMAIN pages \subseteq Nat /\ IsFiniteSet(DOMAIN pages)
      /\ Unprocessed(pages) \subseteq 1 .. n /\ IsFiniteSet(Unprocessed(pages))
      /\ \A q \in DOMAIN pages : IsFiniteSet(ToDo(pages[q]))
  BY <1>1, QueueIsFinite
<1>5. \A x : x \in numbers <=> \E i \in ToDo(pages[p]) : x = pages[p].items[i].id
  BY InNumbersToDo
<1>6. Cardinality(numbers) = pages[p].remaining
  BY <1>1, CountOfPage DEF CountersInv
<1> HIDE DEF numbers
<1>7. numbers \subseteq Unprocessed(pages)
  BY <1>5, InUnprocessed DEF ToDo
<1>8. Unprocessed(pages2) = Unprocessed(pages) \ numbers
  <2>1. ASSUME NEW x \in Unprocessed(pages2) PROVE x \in Unprocessed(pages) \ numbers
    <3>1. PICK q \in DOMAIN pages \ {p} : \E i \in DOMAIN pages[q].items :
            ~pages[q].items[i].processed /\ x = pages[q].items[i].id
      BY <1>2, <1>3, <2>1, InUnprocessed
    <3>2. x \in Unprocessed(pages)
      BY <3>1, InUnprocessed
    <3>3. PICK i \in DOMAIN pages[q].items : x = pages[q].items[i].id
      BY <3>1
    <3>4. ASSUME NEW j \in ToDo(pages[p]) PROVE x # pages[p].items[j].id
      <4>1. IsInOrder(pages) /\ j \in DOMAIN pages[p].items /\ q \in DOMAIN pages /\ q # p
        BY <1>1 DEF PlacesInv, ToDo
      <4> QED
        BY <1>4, <3>3, <4>1, NumbersDiffer
    <3>5. x \notin numbers
      BY <1>5, <3>4
    <3> QED
      BY <3>2, <3>5
  <2>2. ASSUME NEW x \in Unprocessed(pages) \ numbers PROVE x \in Unprocessed(pages2)
    <3>1. PICK q \in DOMAIN pages : \E i \in DOMAIN pages[q].items :
            ~pages[q].items[i].processed /\ x = pages[q].items[i].id
      BY <2>2, InUnprocessed
    <3>2. q # p
      BY <1>5, <2>2, <3>1 DEF ToDo
    <3> QED
      BY <1>2, <1>3, <3>1, <3>2, InUnprocessed
  <2> QED
    BY <2>1, <2>2
<1>9. CountersInv(book2, pages2)
  <2>1. book2.count = Cardinality(DOMAIN pages2)
    BY <1>1, <1>2, <1>4, FS_RemoveElement DEF CountersInv
  <2>2. book2.message_count = Cardinality(Unprocessed(pages2))
    <3>1. Unprocessed(pages) \cap numbers = numbers /\ IsFiniteSet(numbers)
      BY <1>4, <1>7, FS_Subset
    <3>2. Cardinality(Unprocessed(pages) \ numbers)
          = Cardinality(Unprocessed(pages)) - Cardinality(Unprocessed(pages) \cap numbers)
      BY <1>4, <3>1, FS_Difference
    <3> QED
      BY <1>1, <1>6, <1>8, <3>1, <3>2 DEF CountersInv
  <2> QED
    BY <1>1, <1>2, <2>1, <2>2 DEF CountersInv
<1>10. FatesInv(pages2, n, done, gone \cup numbers)
  BY <1>1, <1>7, <1>8 DEF FatesInv
<1>11. \A i \in DOMAIN pages[p].items : ~IsWaiting(book, pages, p, i)
  <2>1. CASE p < book.begin
    BY <1>0, <1>4, <2>1 DEF IsWaiting
  <2>2. CASE pages[p].remaining = 0
    <3>1. ToDo(pages[p]) = {}
      BY <1>1, <1>4, <2>2, FS_EmptySet DEF CountersInv
    <3> QED
      BY <1>1, <3>1 DEF PlacesInv, WaitingFrom, ToDo
  <2> QED
    BY <2>1, <2>2
<1>12. PlacesInv(book2, pages2, n)
  <2>1. IsInOrder(pages2)
    BY <1>1, <1>2 DEF PlacesInv, IsInOrder
  <2>2. (book2.begin + 1) .. (book2.end - 1) \subseteq DOMAIN pages2
    BY <1>0, <1>1, <1>2, <1>4 DEF PlacesInv
  <2>3. PICK served \in 0 .. n : WaitingFrom(book, pages, n, served)
    BY <1>1 DEF PlacesInv
  <2>4. \A q \in DOMAIN pages2 : \A i : IsWaiting(book2, pages2, q, i) <=> IsWaiting(book, pages, q, i)
    BY <1>2 DEF IsWaiting
  <2>5. WaitingFrom(book2, pages2, n, served)
    BY <1>2, <1>11, <2>3, <2>4 DEF WaitingFrom
  <2> QED
    BY <1>1, <1>2, <2>1, <2>2, <2>5 DEF PlacesInv
<1> QED
  BY <1>3, <1>9, <1>10, <1>12, PagesInvMeans DEF pages2, numbers

\* A page with nothing to be processed is removed.
LEMMA EmptyPageRemoved ==
    ASSUME NEW book \in Books, NEW pages, PageTable(pages), NEW n \in Nat, NEW done, NEW gone,
           PagesInv(book, pages, n, done, gone), NEW p \in DOMAIN pages,
           p < book.begin \/ p = book.begin, pages[p].remaining = 0,
           NEW book2 \in Books, book2.begin = book.begin, book2.end = book.end,
           book2.count = book.count - 1, book2.message_count = book.message_count
    PROVE  /\ PageTable(WithoutPage(pages, p))
           /\ PagesInv(book2, WithoutPage(pages, p), n, done, gone)
<1>1. PlacesInv(book, pages, n) /\ CountersInv(book, pages)
  BY PagesInvMeans
<1>2. ToDo(pages[p]) = {}
  BY <1>1, QueueIsFinite, FS_EmptySet DEF CountersInv
<1>3. gone \cup NumbersToDo(pages[p]) = gone
  BY <1>2, InNumbersToDo
<1>4. book2.message_count = book.message_count - pages[p].remaining
  BY DEF Books
<1>5. /\ PageTable(WithoutPage(pages, p))
      /\ PagesInv(book2, WithoutPage(pages, p), n, done, gone \cup NumbersToDo(pages[p]))
  BY <1>4, PageRemoved
<1> QED
  BY <1>3, <1>5

\* The service loop goes on to the next page.
LEMMA PagePassed ==
    ASSUME NEW book \in Books, NEW pages, PageTable(pages), NEW n \in Nat, NEW done, NEW gone,
           PagesInv(book, pages, n, done, gone), book.begin < book.end,
           book.begin \in DOMAIN pages =>
             pages[book.begin].first = Len(pages[book.begin].items),
           NEW book2 \in Books, book2.begin = book.begin + 1, book2.end = book.end,
           book2.count = book.count, book2.message_count = book.message_count
    PROVE  PagesInv(book2, pages, n, done, gone)
<1>0. book.begin \in Nat /\ book.end \in Nat
  BY DEF Books
<1>1. PlacesInv(book, pages, n) /\ CountersInv(book, pages) /\ FatesInv(pages, n, done, gone)
  BY PagesInvMeans
<1>2. DOMAIN pages \subseteq Nat
  BY <1>1, QueueIsFinite
<1>3. ASSUME NEW p \in DOMAIN pages, NEW i \in DOMAIN pages[p].items
      PROVE  IsWaiting(book2, pages, p, i) <=> IsWaiting(book, pages, p, i)
  <2>1. i \in Nat /\ pages[p].first \in Nat /\ i <= Len(pages[p].items)
        /\ Len(pages[p].items) \in Nat
    BY PageFacts
  <2>2. p \in Nat
    BY <1>2
  <2>3. CASE p = book.begin
    BY <1>0, <2>1, <2>3 DEF IsWaiting
  <2>4. CASE p # book.begin
    BY <1>0, <2>2, <2>4 DEF IsWaiting
  <2> QED
    BY <2>3, <2>4
<1>4. \E served \in 0 .. n : WaitingFrom(book2, pages, n, served)
  BY <1>1, <1>3 DEF PlacesInv, WaitingFrom
<1>5. (book2.begin + 1) .. (book2.end - 1) \subseteq DOMAIN pages
  BY <1>0, <1>1 DEF PlacesInv
<1>6. PlacesInv(book2, pages, n)
  BY <1>0, <1>1, <1>4, <1>5 DEF PlacesInv
<1>7. CountersInv(book2, pages)
  BY <1>1 DEF CountersInv
<1> QED
  BY <1>1, <1>6, <1>7, PagesInvMeans

\* All pages become stale.
LEMMA AllPassed ==
    ASSUME NEW book \in Books, NEW pages, PageTable(pages), NEW n \in Nat, NEW done, NEW gone,
           PagesInv(book, pages, n, done, gone),
           NEW book2 \in Books, book2.begin = book.end, book2.end = book.end,
           book2.count = book.count, book2.message_count = book.message_count
    PROVE  PagesInv(book2, pages, n, done, gone)
<1>0. book.begin \in Nat /\ book.end \in Nat
  BY DEF Books
<1>1. PlacesInv(book, pages, n) /\ CountersInv(book, pages) /\ FatesInv(pages, n, done, gone)
  BY PagesInvMeans
<1>2. \A p, i : ~IsWaiting(book2, pages, p, i)
  BY <1>0 DEF IsWaiting
<1>3. WaitingFrom(book2, pages, n, n)
  BY <1>2 DEF WaitingFrom
<1>4. (book2.begin + 1) .. (book2.end - 1) = {}
  BY <1>0
<1>5. PlacesInv(book2, pages, n)
  BY <1>0, <1>1, <1>3, <1>4 DEF PlacesInv
<1>6. CountersInv(book2, pages)
  BY <1>1 DEF CountersInv
<1> QED
  BY <1>1, <1>5, <1>6, PagesInvMeans

\* The service loop goes on to the next message of the first page.
LEMMA FirstSkipped ==
    ASSUME NEW book \in Books, NEW pages, PageTable(pages), NEW n \in Nat, NEW done, NEW gone,
           PagesInv(book, pages, n, done, gone), NEW p \in DOMAIN pages, p = book.begin,
           pages[p].first < Len(pages[p].items),
           NEW pages2, PageTable(pages2), DOMAIN pages2 = DOMAIN pages,
           \A q \in DOMAIN pages : q # p => pages2[q] = pages[q],
           pages2[p].items = pages[p].items, pages2[p].remaining = pages[p].remaining,
           pages2[p].first = pages[p].first + 1
    PROVE  PagesInv(book, pages2, n, done, gone)
<1>0. book.begin \in Nat /\ book.end \in Nat
  BY DEF Books
<1>1. PlacesInv(book, pages, n) /\ CountersInv(book, pages) /\ FatesInv(pages, n, done, gone)
  BY PagesInvMeans
<1>2. DOMAIN pages \subseteq Nat
  BY <1>1, QueueIsFinite
<1>3. \A q \in DOMAIN pages : pages2[q].items = pages[q].items
                              /\ pages2[q].remaining = pages[q].remaining
  OBVIOUS
<1>4. Unprocessed(pages2) = Unprocessed(pages)
  BY <1>3 DEF Unprocessed
<1>5. CountersInv(book, pages2) /\ FatesInv(pages2, n, done, gone)
  BY <1>1, <1>3, <1>4 DEF CountersInv, FatesInv, ToDo
<1> DEFINE k == pages[p].first + 1
<1>6. k \in DOMAIN pages[p].items /\ k \in Nat /\ pages[p].first \in Nat
      /\ pages[p].items[k].id \in Nat /\ Len(pages[p].items) \in Nat
  BY PageFacts
<1>7. IsWaiting(book, pages, p, k)
  BY <1>0, <1>1, <1>6 DEF IsWaiting, PlacesInv
<1>8. ASSUME NEW q \in DOMAIN pages, NEW i \in DOMAIN pages[q].items
      PROVE  IsWaiting(book, pages2, q, i) <=> IsWaiting(book, pages, q, i) /\ ~(q = p /\ i = k)
  <2>1. i \in Nat
    BY PageFacts
  <2>2. CASE q = p
    BY <1>6, <2>1, <2>2 DEF IsWaiting
  <2>3. CASE q # p
    BY <2>3 DEF IsWaiting
  <2> QED
    BY <2>2, <2>3
<1>9. PICK served \in 0 .. n : WaitingFrom(book, pages, n, served)
  BY <1>1 DEF PlacesInv
<1>10. ASSUME NEW q \in DOMAIN pages, NEW i \in DOMAIN pages[q].items,
              IsWaiting(book, pages2, q, i)
       PROVE  pages[p].items[k].id < pages[q].items[i].id
  <2>1. IsWaiting(book, pages, q, i) /\ ~(q = p /\ i = k)
    BY <1>8, <1>10
  <2>2. i \in Nat /\ q \in Nat /\ q >= p /\ (q = p => i > k)
    BY <1>0, <1>2, <1>6, <2>1, PageFacts DEF IsWaiting
  <2> QED
    <3>1. p < q \/ (p = q /\ k < i)
      BY <1>0, <1>6, <2>2
    <3>2. IsInOrder(pages) /\ k \in DOMAIN pages[p].items
      BY <1>1, <1>6 DEF PlacesInv
    <3> HIDE DEF k
    <3> QED
      BY <3>1, <3>2, SMT DEF IsInOrder
<1>11. pages[p].items[k].id = served + 1
  <2>1. pages[p].items[k].id \in served + 1 .. n
    BY <1>6, <1>7, <1>9 DEF WaitingFrom
  <2>2. PICK q \in DOMAIN pages : \E i \in DOMAIN pages[q].items :
          IsWaiting(book, pages, q, i) /\ served + 1 = pages[q].items[i].id
    <3>1. served + 1 \in served + 1 .. n
      BY <2>1
    <3> QED
      BY <1>9, <3>1 DEF WaitingFrom
  <2>3. PICK i \in DOMAIN pages[q].items :
          IsWaiting(book, pages, q, i) /\ served + 1 = pages[q].items[i].id
    BY <2>2
  <2>4. CASE q = p /\ i = k
    BY <2>3, <2>4
  <2>5. CASE ~(q = p /\ i = k)
    <3>1. pages[p].items[k].id < served + 1
      BY <1>8, <1>10, <2>3, <2>5
    <3> QED
      BY <2>1, <3>1
  <2> QED
    BY <2>4, <2>5
<1>12. served + 1 \in 0 .. n
  BY <1>6, <1>7, <1>9, <1>11 DEF WaitingFrom
<1>13. WaitingFrom(book, pages2, n, served + 1)
  <2>1. ASSUME NEW q \in DOMAIN pages, NEW i \in DOMAIN pages[q].items,
               IsWaiting(book, pages2, q, i)
        PROVE  ~pages[q].items[i].processed /\ pages[q].items[i].id \in served + 1 + 1 .. n
    <3>1. ~pages[q].items[i].processed /\ pages[q].items[i].id \in served + 1 .. n
      BY <1>8, <1>9, <2>1 DEF WaitingFrom
    <3> QED
      BY <1>10, <1>11, <2>1, <3>1
  <2>2. ASSUME NEW x \in served + 1 + 1 .. n
        PROVE  \E q \in DOMAIN pages : \E i \in DOMAIN pages[q].items :
                 IsWaiting(book, pages2, q, i) /\ x = pages[q].items[i].id
    <3>1. x \in served + 1 .. n /\ x # served + 1
      OBVIOUS
    <3>2. PICK q \in DOMAIN pages : \E i \in DOMAIN pages[q].items :
            IsWaiting(book, pages, q, i) /\ x = pages[q].items[i].id
      BY <1>9, <3>1 DEF WaitingFrom
    <3> QED
      BY <1>8, <1>11, <3>1, <3>2
  <2> QED
    BY <1>3, <2>1, <2>2 DEF WaitingFrom
<1>14. IsInOrder(pages2)
  BY <1>1, <1>3 DEF PlacesInv, IsInOrder
<1>15. \A q \in DOMAIN pages2 : pages2[q].first <= Len(pages2[q].items)
  BY <1>1, <1>6 DEF PlacesInv
<1>16. PlacesInv(book, pages2, n)
  BY <1>1, <1>3, <1>12, <1>13, <1>14, <1>15 DEF PlacesInv
<1> QED
  BY <1>5, <1>16, PagesInvMeans

\* The pages with the message at place (p, k) processed.
IsMarked(pages, p, k, pages2) ==
    /\ PageTable(pages2) /\ DOMAIN pages2 = DOMAIN pages
    /\ \A q \in DOMAIN pages : q # p => pages2[q] = pages[q]
    /\ DOMAIN pages2[p].items = DOMAIN pages[p].items
    /\ \A i \in DOMAIN pages[p].items : i # k => pages2[p].items[i] = pages[p].items[i]
    /\ pages2[p].items[k].id = pages[p].items[k].id
    /\ ~pages[p].items[k].processed /\ pages2[p].items[k].processed
    /\ pages2[p].remaining = pages[p].remaining - 1 /\ pages2[p].first = pages[p].first

\* A message that the service loop has passed is processed.
LEMMA MessageMarked ==
    ASSUME NEW book \in Books, NEW pages, PageTable(pages), NEW n \in Nat, NEW done, NEW gone,
           PagesInv(book, pages, n, done, gone),
           NEW p \in DOMAIN pages, NEW k \in DOMAIN pages[p].items,
           p < book.begin \/ k <= pages[p].first,
           NEW book2 \in Books, book2.begin = book.begin, book2.end = book.end,
           book2.count = book.count, book2.message_count = book.message_count - 1,
           NEW pages2, IsMarked(pages, p, k, pages2)
    PROVE  PagesInv(book2, pages2, n, done \cup {pages[p].items[k].id}, gone)
<1> USE DEF IsMarked
<1> DEFINE id == pages[p].items[k].id
<1>0. book.begin \in Nat /\ book.end \in Nat
  BY DEF Books
<1>1. PlacesInv(book, pages, n) /\ CountersInv(book, pages) /\ FatesInv(pages, n, done, gone)
  BY PagesInvMeans
<1>2. /\ DOMAIN pages \subseteq Nat
      /\ Unprocessed(pages) \subseteq 1 .. n /\ IsFiniteSet(Unprocessed(pages))
      /\ \A q \in DOMAIN pages : IsFiniteSet(ToDo(pages[q]))
  BY <1>1, QueueIsFinite
<1>3. \A q \in DOMAIN pages :
        /\ DOMAIN pages2[q].items = DOMAIN pages[q].items
        /\ pages2[q].first = pages[q].first
        /\ \A i \in DOMAIN pages[q].items :
             /\ pages2[q].items[i].id = pages[q].items[i].id
             /\ ~(q = p /\ i = k) => pages2[q].items[i] = pages[q].items[i]
  OBVIOUS
<1>4. id \in Unprocessed(pages)
  BY InUnprocessed
<1>5. Unprocessed(pages2) = Unprocessed(pages) \ {id}
  <2>1. ASSUME NEW x \in Unprocessed(pages2) PROVE x \in Unprocessed(pages) \ {id}
    <3>1. PICK q \in DOMAIN pages : \E i \in DOMAIN pages[q].items :
            ~pages2[q].items[i].processed /\ x = pages2[q].items[i].id
      BY <1>3, <2>1, InUnprocessed
    <3>2. PICK i \in DOMAIN pages[q].items :
            ~pages2[q].items[i].processed /\ x = pages2[q].items[i].id
      BY <3>1
    <3>3. ~(q = p /\ i = k)
      BY <3>2
    <3>4. x \in Unprocessed(pages)
      BY <1>3, <3>2, <3>3, InUnprocessed
    <3>5. x # id
      BY <1>1, <1>2, <1>3, <3>2, <3>3, NumbersDiffer DEF PlacesInv
    <3> QED
      BY <3>4, <3>5
  <2>2. ASSUME NEW x \in Unprocessed(pages) \ {id} PROVE x \in Unprocessed(pages2)
    <3>1. PICK q \in DOMAIN pages : \E i \in DOMAIN pages[q].items :
            ~pages[q].items[i].processed /\ x = pages[q].items[i].id
      BY <2>2, InUnprocessed
    <3>2. PICK i \in DOMAIN pages[q].items :
            ~pages[q].items[i].processed /\ x = pages[q].items[i].id
      BY <3>1
    <3>3. ~(q = p /\ i = k)
      BY <2>2, <3>2
    <3> QED
      BY <1>3, <3>2, <3>3, InUnprocessed
  <2> QED
    BY <2>1, <2>2
<1>6. ToDo(pages2[p]) = ToDo(pages[p]) \ {k} /\ k \in ToDo(pages[p])
  BY DEF ToDo
<1>7. CountersInv(book2, pages2)
  <2>1. book2.message_count = Cardinality(Unprocessed(pages2))
    <3> HIDE DEF id
    <3>1. Cardinality(Unprocessed(pages) \ {id}) = Cardinality(Unprocessed(pages)) - 1
      BY <1>2, <1>4, FS_RemoveElement
    <3>2. book.message_count = Cardinality(Unprocessed(pages))
      BY <1>1 DEF CountersInv
    <3> QED
      BY <1>5, <3>1, <3>2
  <2>2. pages2[p].remaining = Cardinality(ToDo(pages2[p]))
    <3>1. Cardinality(ToDo(pages[p]) \ {k}) = Cardinality(ToDo(pages[p])) - 1
      BY <1>2, <1>6, FS_RemoveElement
    <3>2. pages[p].remaining = Cardinality(ToDo(pages[p]))
      BY <1>1 DEF CountersInv
    <3> QED
      BY <1>6, <3>1, <3>2
  <2> QED
    BY <1>1, <2>1, <2>2 DEF CountersInv
<1> HIDE DEF id
<1>8. FatesInv(pages2, n, done \cup {id}, gone)
  BY <1>1, <1>4, <1>5 DEF FatesInv
<1>9. \A q \in DOMAIN pages : \A i : IsWaiting(book2, pages2, q, i) <=> IsWaiting(book, pages, q, i)
  BY <1>3 DEF IsWaiting
<1>10. ~IsWaiting(book, pages, p, k)
  <2>1. p \in Nat /\ k \in Nat /\ pages[p].first \in Nat
    BY <1>2, PageFacts
  <2> QED
    BY <1>0, <2>1 DEF IsWaiting
<1>11. PICK served \in 0 .. n : WaitingFrom(book, pages, n, served)
  BY <1>1 DEF PlacesInv
<1>12. WaitingFrom(book2, pages2, n, served)
  BY <1>3, <1>9, <1>10, <1>11 DEF WaitingFrom
<1>13. IsInOrder(pages2)
  BY <1>1, <1>3 DEF PlacesInv, IsInOrder
<1>14. \A q \in DOMAIN pages : Len(pages2[q].items) = Len(pages[q].items)
  <2> SUFFICES ASSUME NEW q \in DOMAIN pages PROVE Len(pages2[q].items) = Len(pages[q].items)
    OBVIOUS
  <2>1. /\ 1 .. Len(pages2[q].items) = 1 .. Len(pages[q].items)
        /\ Len(pages2[q].items) \in Nat /\ Len(pages[q].items) \in Nat
    BY <1>3, PageFacts
  <2> QED
    BY <2>1
<1>15. PlacesInv(book2, pages2, n)
  <2>1. DOMAIN pages2 = DOMAIN pages
    OBVIOUS
  <2> HIDE DEF IsMarked
  <2>2. ASSUME NEW q \in DOMAIN pages
        PROVE  /\ pages2[q].first <= Len(pages2[q].items)
               /\ \A i \in DOMAIN pages2[q].items : pages2[q].items[i].id \in 1 .. n
    BY <1>1, <1>3, <1>14 DEF PlacesInv
  <2>3. /\ book2.begin <= book2.end /\ DOMAIN pages \subseteq 0 .. book2.end - 1
        /\ (book2.begin + 1) .. (book2.end - 1) \subseteq DOMAIN pages
    BY <1>1 DEF PlacesInv
  <2> QED
    BY <1>12, <1>13, <2>1, <2>2, <2>3 DEF PlacesInv
<1> QED
  BY <1>7, <1>8, <1>15, PagesInvMeans DEF id

\* What the queue is with one more message at place (p, k).
LEMMA MessageAdded ==
    ASSUME NEW book \in Books, NEW pages, PageTable(pages), NEW n \in Nat, NEW done, NEW gone,
           PagesInv(book, pages, n, done, gone),
           NEW book2 \in Books, NEW pages2, PageTable(pages2), NEW p \in Nat, NEW k \in Nat,
           book2.begin = book.begin, book2.message_count = book.message_count + 1,
           book2.end >= book.end, p = book2.end - 1, p >= book.begin,
           DOMAIN pages2 = DOMAIN pages \cup {p}, book2.count = Cardinality(DOMAIN pages2),
           (book2.begin + 1) .. (book2.end - 1) \subseteq DOMAIN pages2,
           \A q \in DOMAIN pages : pages2[q].first = pages[q].first,
           \A q \in DOMAIN pages : q # p => pages2[q] = pages[q],
           \A q \in DOMAIN pages : q # p => q < p,
           DOMAIN pages2[p].items = 1 .. k, k > 0, pages2[p].first < k,
           ~pages2[p].items[k].processed, pages2[p].items[k].id = n + 1,
           IF p \in DOMAIN pages
           THEN /\ DOMAIN pages[p].items = 1 .. k - 1
                /\ \A i \in 1 .. k - 1 : pages2[p].items[i] = pages[p].items[i]
                /\ pages2[p].remaining = pages[p].remaining + 1
           ELSE k = 1 /\ pages2[p].remaining = 1
    PROVE  PagesInv(book2, pages2, n + 1, done, gone)
<1>0. book.begin \in Nat /\ book.end \in Nat /\ book2.end \in Nat
  BY DEF Books
<1>1. PlacesInv(book, pages, n) /\ CountersInv(book, pages) /\ FatesInv(pages, n, done, gone)
  BY PagesInvMeans
<1>2. /\ DOMAIN pages \subseteq Nat
      /\ Unprocessed(pages) \subseteq 1 .. n /\ IsFiniteSet(Unprocessed(pages))
      /\ \A q \in DOMAIN pages : IsFiniteSet(ToDo(pages[q]))
  BY <1>1, QueueIsFinite
\* The places are the old ones and the new one.
<1>3. \A q \in DOMAIN pages2 : \A i \in DOMAIN pages2[q].items :
        \/ q = p /\ i = k
        \/ /\ q \in DOMAIN pages /\ i \in DOMAIN pages[q].items
           /\ pages2[q].items[i] = pages[q].items[i] /\ pages2[q].first = pages[q].first
  OBVIOUS
<1>4. \A q \in DOMAIN pages : q \in DOMAIN pages2 /\ \A i \in DOMAIN pages[q].items :
        /\ i \in DOMAIN pages2[q].items /\ pages2[q].items[i] = pages[q].items[i]
        /\ ~(q = p /\ i = k)
  OBVIOUS
<1>5. p \in DOMAIN pages2 /\ k \in DOMAIN pages2[p].items
  OBVIOUS
<1>6. Unprocessed(pages2) = Unprocessed(pages) \cup {n + 1}
  <2>1. ASSUME NEW x \in Unprocessed(pages2) PROVE x \in Unprocessed(pages) \cup {n + 1}
    <3>1. PICK q \in DOMAIN pages2 : \E i \in DOMAIN pages2[q].items :
            ~pages2[q].items[i].processed /\ x = pages2[q].items[i].id
      BY <2>1, InUnprocessed
    <3>2. PICK i \in DOMAIN pages2[q].items :
            ~pages2[q].items[i].processed /\ x = pages2[q].items[i].id
      BY <3>1
    <3>3. CASE q = p /\ i = k
      BY <3>2, <3>3
    <3>4. CASE ~(q = p /\ i = k)
      BY <1>3, <3>2, <3>4, InUnprocessed
    <3> QED
      BY <3>3, <3>4
  <2>2. ASSUME NEW x \in Unprocessed(pages) PROVE x \in Unprocessed(pages2)
    <3>1. PICK q \in DOMAIN pages : \E i \in DOMAIN pages[q].items :
            ~pages[q].items[i].processed /\ x = pages[q].items[i].id
      BY <2>2, InUnprocessed
    <3> QED
      BY <1>4, <3>1, InUnprocessed
  <2>3. n + 1 \in Unprocessed(pages2)
    BY <1>5, InUnprocessed
  <2> QED
    BY <2>1, <2>2, <2>3
<1>7. n + 1 \notin Unprocessed(pages)
  BY <1>2
<1>8. CountersInv(book2, pages2)
  <2>1. book2.message_count = Cardinality(Unprocessed(pages2))
    <3>1. Cardinality(Unprocessed(pages) \cup {n + 1}) = Cardinality(Unprocessed(pages)) + 1
      BY <1>2, <1>7, FS_AddElement
    <3>2. book.message_count = Cardinality(Unprocessed(pages))
      BY <1>1 DEF CountersInv
    <3> QED
      BY <1>6, <3>1, <3>2
  <2>2. pages2[p].remaining = Cardinality(ToDo(pages2[p]))
    <3>1. CASE p \in DOMAIN pages
      <4>1. ToDo(pages2[p]) = ToDo(pages[p]) \cup {k} /\ k \notin ToDo(pages[p])
        <5>1. /\ DOMAIN pages2[p].items = 1 .. k /\ DOMAIN pages[p].items = 1 .. k - 1
              /\ \A i \in 1 .. k - 1 : pages2[p].items[i] = pages[p].items[i]
              /\ ~pages2[p].items[k].processed
          BY <3>1
        <5>2. 1 .. k = (1 .. k - 1) \cup {k} /\ k \notin 1 .. k - 1
          OBVIOUS
        <5> QED
          BY <5>1, <5>2 DEF ToDo
      <4>2. Cardinality(ToDo(pages[p]) \cup {k}) = Cardinality(ToDo(pages[p])) + 1
        BY <1>2, <3>1, <4>1, FS_AddElement
      <4>3. pages[p].remaining = Cardinality(ToDo(pages[p]))
        BY <1>1, <3>1 DEF CountersInv
      <4> QED
        BY <3>1, <4>1, <4>2, <4>3
    <3>2. CASE p \notin DOMAIN pages
      <4>1. ToDo(pages2[p]) = {k} /\ pages2[p].remaining = 1
        BY <3>2 DEF ToDo
      <4>2. Cardinality({k}) = 1
        BY FS_Singleton
      <4> QED
        BY <4>1, <4>2
    <3> QED
      BY <3>1, <3>2
  <2>3. \A q \in DOMAIN pages2 : q # p => pages2[q].remaining = Cardinality(ToDo(pages2[q]))
    BY <1>1 DEF CountersInv
  <2> QED
    BY <2>1, <2>2, <2>3 DEF CountersInv
<1>9. FatesInv(pages2, n + 1, done, gone)
  <2>1. 1 .. n + 1 = (1 .. n) \cup {n + 1} /\ n + 1 \notin 1 .. n
    OBVIOUS
  <2> QED
    BY <1>1, <1>6, <2>1 DEF FatesInv
<1>10. \A q \in DOMAIN pages : \A i \in DOMAIN pages[q].items : pages[q].items[i].id \in 1 .. n
  BY <1>1 DEF PlacesInv
<1>11. IsInOrder(pages2)
  <2> SUFFICES ASSUME NEW q \in DOMAIN pages2, NEW r \in DOMAIN pages2,
                      NEW i \in DOMAIN pages2[q].items, NEW j \in DOMAIN pages2[r].items,
                      q < r \/ (q = r /\ i < j)
               PROVE  pages2[q].items[i].id < pages2[r].items[j].id
    BY DEF IsInOrder
  <2>0. q \in Nat /\ r \in Nat /\ i \in Nat /\ j \in Nat
    BY <1>2, PageFacts
  <2>1. ~(q = p /\ i = k)
    <3>1. r <= p /\ (r = p => j <= k)
      BY <1>2, <2>0
    <3> QED
      BY <2>0, <3>1
  <2>2. CASE r = p /\ j = k
    <3>1. pages2[q].items[i].id \in 1 .. n
      BY <1>3, <1>10, <2>1
    <3> QED
      BY <2>2, <3>1
  <2>3. CASE ~(r = p /\ j = k)
    <3>1. /\ q \in DOMAIN pages /\ i \in DOMAIN pages[q].items
          /\ pages2[q].items[i] = pages[q].items[i]
          /\ r \in DOMAIN pages /\ j \in DOMAIN pages[r].items
          /\ pages2[r].items[j] = pages[r].items[j]
      BY <1>3, <2>1, <2>3
    <3>2. IsInOrder(pages)
      BY <1>1 DEF PlacesInv
    <3>3. pages[q].items[i].id < pages[r].items[j].id
      BY <3>1, <3>2 DEF IsInOrder
    <3> QED
      BY <3>1, <3>3
  <2> QED
    BY <2>2, <2>3
<1>12. PICK served \in 0 .. n : WaitingFrom(book, pages, n, served)
  BY <1>1 DEF PlacesInv
<1>13. ASSUME NEW q \in DOMAIN pages, NEW i \in DOMAIN pages[q].items
       PROVE  IsWaiting(book2, pages2, q, i) <=> IsWaiting(book, pages, q, i)
  <2>1. q < book.end /\ q \in Nat
    BY <1>0, <1>1, <1>2 DEF PlacesInv
  <2> QED
    BY <1>0, <2>1 DEF IsWaiting
<1>14. IsWaiting(book2, pages2, p, k)
  BY <1>0 DEF IsWaiting
<1>15. WaitingFrom(book2, pages2, n + 1, served)
  <2>1. ASSUME NEW q \in DOMAIN pages2, NEW i \in DOMAIN pages2[q].items,
               IsWaiting(book2, pages2, q, i)
        PROVE  ~pages2[q].items[i].processed /\ pages2[q].items[i].id \in served + 1 .. n + 1
    <3>1. CASE q = p /\ i = k
      BY <3>1
    <3>2. CASE ~(q = p /\ i = k)
      <4>1. ~pages[q].items[i].processed /\ pages[q].items[i].id \in served + 1 .. n
        BY <1>3, <1>12, <1>13, <2>1, <3>2 DEF WaitingFrom
      <4> QED
        BY <1>3, <3>2, <4>1
    <3> QED
      BY <3>1, <3>2
  <2>2. ASSUME NEW x \in served + 1 .. n + 1
        PROVE  \E q \in DOMAIN pages2 : \E i \in DOMAIN pages2[q].items :
                 IsWaiting(book2, pages2, q, i) /\ x = pages2[q].items[i].id
    <3>1. CASE x = n + 1
      BY <1>5, <1>14, <3>1
    <3>2. CASE x # n + 1
      <4>1. x \in served + 1 .. n
        BY <3>2
      <4>2. PICK q \in DOMAIN pages : \E i \in DOMAIN pages[q].items :
              IsWaiting(book, pages, q, i) /\ x = pages[q].items[i].id
        BY <1>12, <4>1 DEF WaitingFrom
      <4> QED
        BY <1>4, <1>13, <4>2
    <3> QED
      BY <3>1, <3>2
  <2> QED
    BY <2>1, <2>2 DEF WaitingFrom
<1>16. \A q \in DOMAIN pages2 :
         /\ pages2[q].first <= Len(pages2[q].items)
         /\ \A i \in DOMAIN pages2[q].items : pages2[q].items[i].id \in 1 .. n + 1
  <2> SUFFICES ASSUME NEW q \in DOMAIN pages2
               PROVE  /\ pages2[q].first <= Len(pages2[q].items)
                      /\ \A i \in DOMAIN pages2[q].items : pages2[q].items[i].id \in 1 .. n + 1
    OBVIOUS
  <2>1. pages2[q].first <= Len(pages2[q].items)
    <3>1. CASE q = p
      <4>1. /\ 1 .. Len(pages2[p].items) = 1 .. k /\ Len(pages2[p].items) \in Nat
            /\ pages2[p].first \in Nat
        BY <1>5, PageFacts
      <4> QED
        BY <3>1, <4>1
    <3>2. CASE q # p
      BY <1>1, <3>2 DEF PlacesInv
    <3> QED
      BY <3>1, <3>2
  <2>2. ASSUME NEW i \in DOMAIN pages2[q].items PROVE pages2[q].items[i].id \in 1 .. n + 1
    BY <1>3, <1>10
  <2> QED
    BY <2>1, <2>2
<1>17. PlacesInv(book2, pages2, n + 1)
  <2>1. DOMAIN pages2 \subseteq 0 .. book2.end - 1
    BY <1>0, <1>1 DEF PlacesInv
  <2>2. book2.begin <= book2.end /\ served \in 0 .. n + 1
    BY <1>0, <1>1 DEF PlacesInv
  <2> QED
    BY <1>11, <1>15, <1>16, <2>1, <2>2 DEF PlacesInv
<1> QED
  BY <1>8, <1>9, <1>17, PagesInvMeans

-----------------------------------------------------------------------------
(***************************************************************************)
(* The storage.                                                            *)
(***************************************************************************)
LEMMA NeighboursDoNotMatter ==
    ASSUME NEW book, NEW book2, NEW pages, NEW n, NEW done, NEW gone,
           PagesInv(book, pages, n, done, gone),
           book2.begin = book.begin, book2.end = book.end,
           book2.count = book.count, book2.message_count = book.message_count
    PROVE  PagesInv(book2, pages, n, done, gone)
<1>1. Waiting(book2, pages) = Waiting(book, pages)
  BY DEF Waiting
<1> QED
  BY <1>1 DEF PagesInv

LEMMA StorageFacts ==
    ASSUME NEW s, StorageTypeOK(s), NEW o \in Origins
    PROVE  /\ s.book[o] \in Books /\ PageTable(s.pages[o])
           /\ s.book[o].begin \in Nat /\ s.book[o].end \in Nat
           /\ s.book[o].count \in Int /\ s.book[o].message_count \in Int
           /\ s.book[o].ready \in Neighbours
  BY DEF StorageTypeOK, Books, PageTable

\* Queue o is now book and pages; the other queues and the ring are as before.
IsReplaced(s, o, book, pages, t) ==
    /\ StorageTypeOK(t) /\ t.head = s.head
    /\ t.book[o] = book /\ t.pages[o] = pages
    /\ \A x \in Origins : x # o => t.book[x] = s.book[x] /\ t.pages[x] = s.pages[x]

LEMMA QueueReplaced ==
    ASSUME NEW s, StorageTypeOK(s), NEW o \in Origins, NEW book \in Books, NEW pages,
           PageTable(pages)
    PROVE  IsReplaced(s, o, book, pages, [s EXCEPT !.book[o] = book, !.pages[o] = pages])
<1> DEFINE t == [s EXCEPT !.book[o] = book, !.pages[o] = pages]
           books == [s.book EXCEPT ![o] = book]
           tables == [s.pages EXCEPT ![o] = pages]
<1>1. /\ books \in [Origins -> Books] /\ books[o] = book
      /\ \A x \in Origins : x # o => books[x] = s.book[x]
  BY DEF StorageTypeOK
<1>2. /\ IsFunction(tables) /\ DOMAIN tables = Origins /\ tables[o] = pages
      /\ \A x \in Origins : x # o => tables[x] = s.pages[x]
  BY DEF StorageTypeOK, IsFunction
<1>3. t = [s EXCEPT !.book = books, !.pages = tables]
  OBVIOUS
<1> HIDE DEF t, books, tables
<1>4. t.head = s.head /\ t.book = books /\ t.pages = tables
      /\ t = [book |-> t.book, pages |-> t.pages, head |-> t.head]
  BY <1>3 DEF StorageTypeOK
<1>5. StorageTypeOK(t)
  BY <1>1, <1>2, <1>4 DEF StorageTypeOK, PageTable
<1> QED
  BY <1>1, <1>2, <1>4, <1>5 DEF IsReplaced, t

\* What is asked of a step in storage: the types, the ring and that nobody gets
\* before a ready queue.
IsSound(s, t) ==
    /\ StorageTypeOK(t) /\ RingInv(t)
    /\ \A x \in ReadyQueues(s) \cap ReadyQueues(t) : Before(t, x) \subseteq Before(s, x)

OthersStay(s, o, t) ==
    \A x \in Origins : x # o =>
        /\ t.pages[x] = s.pages[x]
        /\ t.book[x].begin = s.book[x].begin /\ t.book[x].end = s.book[x].end
        /\ t.book[x].count = s.book[x].count
        /\ t.book[x].message_count = s.book[x].message_count

LEMMA ReplacedIsSound ==
    ASSUME NEW s, StorageTypeOK(s), RingInv(s), NEW o \in Origins, NEW book, NEW pages,
           book.ready = s.book[o].ready, NEW t, IsReplaced(s, o, book, pages, t)
    PROVE  IsSound(s, t) /\ ReadyQueues(t) = ReadyQueues(s) /\ OthersStay(s, o, t)
<1>1. t.head = s.head /\ \A x \in Origins : t.book[x].ready = s.book[x].ready
  BY DEF IsReplaced
<1>2. /\ ReadyQueues(t) = ReadyQueues(s) /\ RingInv(t)
      /\ \A x : Before(t, x) = Before(s, x)
  BY <1>1, SameRing
<1> QED
  BY <1>2 DEF IsSound, OthersStay, IsReplaced

\* The parts of a book and of a page, and how they change.
IsBook(book, begin, end, count, messages, ready) ==
    /\ book \in Books /\ book.begin = begin /\ book.end = end
    /\ book.count = count /\ book.message_count = messages /\ book.ready = ready

LEMMA BookParts ==
    ASSUME NEW book \in Books
    PROVE  IsBook(book, book.begin, book.end, book.count, book.message_count, book.ready)
  BY DEF IsBook

LEMMA BookChanges ==
    ASSUME NEW book, NEW b, NEW e, NEW c, NEW m, NEW r, IsBook(book, b, e, c, m, r)
    PROVE  /\ \A x \in Nat : IsBook([book EXCEPT !.begin = x], x, e, c, m, r)
           /\ \A x \in Nat : IsBook([book EXCEPT !.end = x], b, x, c, m, r)
           /\ \A x \in Int : IsBook([book EXCEPT !.count = x], b, e, x, m, r)
           /\ \A x \in Int : IsBook([book EXCEPT !.message_count = x], b, e, c, x, r)
  BY DEF IsBook, Books

IsPage(page, items, first, remaining) ==
    /\ page \in PageRecords /\ page.items = items /\ page.first = first
    /\ page.remaining = remaining

LEMMA PageParts ==
    ASSUME NEW page \in PageRecords
    PROVE  IsPage(page, page.items, page.first, page.remaining)
  BY DEF IsPage

LEMMA PageChanges ==
    ASSUME NEW page, NEW i, NEW f, NEW r, IsPage(page, i, f, r)
    PROVE  /\ \A x \in Seq(Messages) : IsPage([page EXCEPT !.items = x], x, f, r)
           /\ \A x \in Nat : IsPage([page EXCEPT !.first = x], i, x, r)
           /\ \A x \in Int : IsPage([page EXCEPT !.remaining = x], i, f, x)
  BY DEF IsPage, PageRecords

\* A page that is added or replaced.
IsWithPage(pages, p, page, pages2) ==
    /\ PageTable(pages2) /\ DOMAIN pages2 = DOMAIN pages \cup {p}
    /\ pages2[p] = page
    /\ \A q \in DOMAIN pages : q # p => pages2[q] = pages[q]

LEMMA WithPageFields ==
    ASSUME NEW pages, PageTable(pages), NEW p, NEW page \in PageRecords
    PROVE  IsWithPage(pages, p, page, WithPage(pages, p, page))
  BY DEF IsWithPage, WithPage, PageTable, IsFunction

\* The places of pages are places of pages2 with the same messages.
KeepsPlaces(pages, pages2) ==
    \A p \in DOMAIN pages :
        /\ p \in DOMAIN pages2 /\ pages2[p].first = pages[p].first
        /\ \A i \in DOMAIN pages[p].items :
             i \in DOMAIN pages2[p].items /\ pages2[p].items[i] = pages[p].items[i]

\* The book and the pages of o when a message has been added to them.
IsEnqueued(book, pages, book2, pages2, n, done, gone) ==
    /\ book2 \in Books /\ PageTable(pages2) /\ book2.ready = book.ready
    /\ book2.begin = book.begin /\ book2.begin < book2.end
    /\ KeepsPlaces(pages, pages2)
    /\ PagesInv(book2, pages2, n + 1, done, gone)

LEMMA EnqueuedOnLastPage ==
    ASSUME NEW book \in Books, NEW pages, PageTable(pages), NEW n \in Nat, NEW done, NEW gone,
           PagesInv(book, pages, n, done, gone),
           NEW message \in Messages, message.id = n + 1, ~message.processed,
           book.end > book.begin, book.end - 1 \in DOMAIN pages, NEW book2,
           IsBook(book2, book.begin, book.end, book.count, book.message_count + 1, book.ready)
    PROVE  LET page == [pages[book.end - 1] EXCEPT !.items = Append(@, message),
                                                   !.remaining = @ + 1]
           IN  IsEnqueued(book, pages, book2, WithPage(pages, book.end - 1, page), n, done, gone)
<1> DEFINE p == book.end - 1
           old == pages[p]
           page == [old EXCEPT !.items = Append(@, message), !.remaining = @ + 1]
           pages2 == WithPage(pages, p, page)
           k == Len(old.items) + 1
<1>0. book.begin \in Nat /\ book.end \in Nat /\ book.count \in Int /\ book.message_count \in Int
  BY DEF Books
<1>1. /\ book2 \in Books /\ book2.begin = book.begin /\ book2.end = book.end
      /\ book2.count = book.count /\ book2.message_count = book.message_count + 1
      /\ book2.ready = book.ready
  BY DEF IsBook
<1>2. p \in DOMAIN pages /\ p \in Nat /\ p = book.end - 1 /\ p >= book.begin
  BY <1>0
<1> HIDE DEF p
<1>3. /\ old \in PageRecords /\ old.items \in Seq(Messages) /\ old.first \in Nat
      /\ old.remaining \in Int /\ Len(old.items) \in Nat
      /\ DOMAIN old.items = 1 .. Len(old.items)
  BY <1>2, PageFacts DEF PageTable
<1>4. /\ page \in PageRecords /\ page.items = Append(old.items, message)
      /\ page.first = old.first /\ page.remaining = old.remaining + 1
  <2> DEFINE items == Append(old.items, message)
             more == [old EXCEPT !.items = items]
  <2>1. page = [more EXCEPT !.remaining = old.remaining + 1]
    BY <1>3 DEF PageRecords
  <2>2. items \in Seq(Messages) /\ old.remaining + 1 \in Int
    BY <1>3, AppendProperties
  <2> HIDE DEF items, page, old
  <2>3. IsPage(more, items, old.first, old.remaining)
    BY <1>3, <2>2, PageParts, PageChanges
  <2> HIDE DEF more
  <2>4. IsPage(page, items, old.first, old.remaining + 1)
    BY <2>1, <2>2, <2>3, PageChanges
  <2> QED
    BY <2>4 DEF IsPage, items
<1> HIDE DEF page
<1>5. /\ PageTable(pages2) /\ DOMAIN pages2 = DOMAIN pages \cup {p} /\ pages2[p] = page
      /\ \A q \in DOMAIN pages : q # p => pages2[q] = pages[q]
  <2>1. page \in PageRecords
    BY <1>4
  <2>2. IsWithPage(pages, p, page, pages2)
    BY <2>1, WithPageFields
  <2> QED
    BY <2>2 DEF IsWithPage
<1> HIDE DEF pages2
<1>6. /\ DOMAIN page.items = 1 .. k /\ page.items[k] = message
      /\ \A i \in 1 .. k - 1 : page.items[i] = old.items[i]
      /\ DOMAIN old.items = 1 .. k - 1 /\ k \in Nat /\ k > 0
  <2>1. /\ page.items \in Seq(Messages) /\ Len(page.items) = k
        /\ page.items[k] = message
        /\ \A i \in 1 .. Len(old.items) : page.items[i] = old.items[i]
    BY <1>3, <1>4, AppendProperties
  <2>2. k - 1 = Len(old.items) /\ k \in Nat /\ k > 0
    BY <1>3
  <2>3. DOMAIN page.items = 1 .. Len(page.items)
    BY <2>1, LenProperties
  <2> QED
    BY <1>3, <2>1, <2>2, <2>3
<1>7. old.first < k
  BY <1>2, <1>3, PagesInvMeans DEF PlacesInv
<1> HIDE DEF k, old
<1>8. PlacesInv(book, pages, n) /\ CountersInv(book, pages)
  BY PagesInvMeans
<1>9. /\ DOMAIN pages2 = DOMAIN pages
      /\ book2.count = Cardinality(DOMAIN pages2)
      /\ (book2.begin + 1) .. (book2.end - 1) \subseteq DOMAIN pages2
  BY <1>1, <1>2, <1>5, <1>8 DEF PlacesInv, CountersInv
<1>10. \A q \in DOMAIN pages : q # p => q < p
  BY <1>0, <1>2, <1>8 DEF PlacesInv
<1>11. KeepsPlaces(pages, pages2)
  <2>1. ASSUME NEW q \in DOMAIN pages, q # p
        PROVE  q \in DOMAIN pages2 /\ pages2[q] = pages[q]
    BY <1>5, <2>1
  <2>2. ASSUME NEW i \in DOMAIN old.items
        PROVE  i \in DOMAIN page.items /\ page.items[i] = old.items[i]
    BY <1>6
  <2>3. p \in DOMAIN pages2 /\ pages2[p] = page /\ page.first = old.first /\ pages[p] = old
    BY <1>4, <1>5 DEF old
  <2> QED
    BY <2>1, <2>2, <2>3 DEF KeepsPlaces
<1>12. \A q \in DOMAIN pages : pages2[q].first = pages[q].first
  BY <1>4, <1>5 DEF old
<1>13. PagesInv(book2, pages2, n + 1, done, gone)
  <2>1. /\ book2.end >= book.end /\ p = book2.end - 1
        /\ DOMAIN pages2[p].items = 1 .. k /\ pages2[p].first < k
        /\ ~pages2[p].items[k].processed /\ pages2[p].items[k].id = n + 1
        /\ DOMAIN pages[p].items = 1 .. k - 1
        /\ \A i \in 1 .. k - 1 : pages2[p].items[i] = pages[p].items[i]
        /\ pages2[p].remaining = pages[p].remaining + 1
    <3>1. book2.end >= book.end /\ p = book2.end - 1 /\ pages[p] = old
      BY <1>0, <1>1, <1>2 DEF old
    <3>2. pages2[p].first < k /\ pages2[p].remaining = pages[p].remaining + 1
      BY <1>4, <1>5, <1>7, <3>1
    <3> QED
      BY <1>5, <1>6, <3>1, <3>2
  <2> QED
    BY <1>1, <1>2, <1>5, <1>6, <1>9, <1>10, <1>12, <2>1, MessageAdded
<1>14. book2.begin < book2.end
  BY <1>1
<1> QED
  BY <1>1, <1>5, <1>11, <1>13, <1>14 DEF IsEnqueued, pages2, page, p, old

LEMMA EnqueuedOnNewPage ==
    ASSUME NEW book \in Books, NEW pages, PageTable(pages), NEW n \in Nat, NEW done, NEW gone,
           PagesInv(book, pages, n, done, gone),
           NEW message \in Messages, message.id = n + 1, ~message.processed, NEW book2,
           IsBook(book2, book.begin, book.end + 1, book.count + 1, book.message_count + 1,
                  book.ready)
    PROVE  LET page == [items |-> <<message>>, first |-> 0, remaining |-> 1]
           IN  IsEnqueued(book, pages, book2, WithPage(pages, book.end, page), n, done, gone)
<1> DEFINE p == book.end
           page == [items |-> <<message>>, first |-> 0, remaining |-> 1]
           pages2 == WithPage(pages, p, page)
<1>0. book.begin \in Nat /\ book.end \in Nat /\ book.count \in Int /\ book.message_count \in Int
  BY DEF Books
<1>1. /\ book2 \in Books /\ book2.begin = book.begin /\ book2.end = book.end + 1
      /\ book2.count = book.count + 1 /\ book2.message_count = book.message_count + 1
      /\ book2.ready = book.ready
  BY DEF IsBook
<1>2. PlacesInv(book, pages, n) /\ CountersInv(book, pages)
  BY PagesInvMeans
<1>3. p \notin DOMAIN pages /\ p \in Nat /\ p = book2.end - 1 /\ p >= book.begin
      /\ \A q \in DOMAIN pages : q < p
  BY <1>0, <1>1, <1>2 DEF PlacesInv
<1>4. /\ page \in PageRecords /\ page.items = <<message>> /\ page.first = 0
      /\ page.remaining = 1
  BY DEF PageRecords
<1> HIDE DEF page
<1>5. DOMAIN page.items = 1 .. 1 /\ page.items[1] = message
  BY <1>4
<1>6. /\ PageTable(pages2) /\ DOMAIN pages2 = DOMAIN pages \cup {p} /\ pages2[p] = page
      /\ \A q \in DOMAIN pages : q # p => pages2[q] = pages[q]
  <2>1. page \in PageRecords
    BY <1>4
  <2>2. IsWithPage(pages, p, page, pages2)
    BY <2>1, WithPageFields
  <2> QED
    BY <2>2 DEF IsWithPage
<1> HIDE DEF pages2
<1>7. book2.count = Cardinality(DOMAIN pages2)
  <2>1. IsFiniteSet(DOMAIN pages)
    BY <1>2, QueueIsFinite
  <2>2. Cardinality(DOMAIN pages \cup {p}) = Cardinality(DOMAIN pages) + 1
    BY <1>3, <2>1, FS_AddElement
  <2>3. book.count = Cardinality(DOMAIN pages)
    BY <1>2 DEF CountersInv
  <2> QED
    BY <1>1, <1>6, <2>2, <2>3
<1>8. (book2.begin + 1) .. (book2.end - 1) \subseteq DOMAIN pages2
  BY <1>0, <1>1, <1>2, <1>6 DEF PlacesInv
<1>9. KeepsPlaces(pages, pages2)
  BY <1>3, <1>6 DEF KeepsPlaces
<1>10. PagesInv(book2, pages2, n + 1, done, gone)
  <2>1. /\ book2.end >= book.end
        /\ DOMAIN pages2[p].items = 1 .. 1 /\ pages2[p].first < 1
        /\ ~pages2[p].items[1].processed /\ pages2[p].items[1].id = n + 1
        /\ pages2[p].remaining = 1
    BY <1>0, <1>1, <1>4, <1>5, <1>6
  <2>2. \A q \in DOMAIN pages : q # p => q < p
    BY <1>3
  <2>3. \A q \in DOMAIN pages : pages2[q].first = pages[q].first
    BY <1>3, <1>6
  <2> DEFINE k == 1
  <2>4. k \in Nat /\ k > 0 /\ k = 1
    OBVIOUS
  <2> HIDE DEF k, p
  <2> QED
    BY <1>1, <1>3, <1>6, <1>7, <1>8, <2>1, <2>2, <2>3, <2>4, MessageAdded
<1>11. book2.begin < book2.end
  BY <1>0, <1>1, <1>2 DEF PlacesInv
<1> QED
  BY <1>1, <1>6, <1>9, <1>10, <1>11 DEF IsEnqueued, pages2, page

\* What is known of storage when a message has been enqueued for o.
HasEnqueued(s, o, t, n, done, gone) ==
    /\ IsSound(s, t) /\ OthersStay(s, o, t)
    /\ ReadyQueues(t) = ReadyQueues(s) \cup {o}
    /\ t.book[o].begin = s.book[o].begin /\ t.book[o].begin < t.book[o].end
    /\ KeepsPlaces(s.pages[o], t.pages[o])
    /\ PagesInv(t.book[o], t.pages[o], n + 1, done, gone)

LEMMA EnqueuedInStorage ==
    ASSUME NEW s, StorageTypeOK(s), RingInv(s), NEW o \in Origins,
           NEW n \in Nat, NEW done, NEW gone, PagesInv(s.book[o], s.pages[o], n, done, gone),
           NEW message \in Messages, message.id = n + 1, ~message.processed
    PROVE  HasEnqueued(s, o, Enqueue(s, o, message), n, done, gone)
<1> DEFINE b == s.book[o]
           old == s.pages[o]
           last == b.end - 1
           fits == /\ b.end > b.begin
                   /\ last \in DOMAIN s.pages[o]
                   /\ Len(s.pages[o][last].items) < HeapSize
           page == IF fits
                   THEN [s.pages[o][last] EXCEPT !.items = Append(@, message),
                                                 !.remaining = @ + 1]
                   ELSE [items |-> <<message>>, first |-> 0, remaining |-> 1]
           pages2 == WithPage(old, IF fits THEN last ELSE b.end, page)
           b1 == [b EXCEPT !.end = IF fits THEN b.end ELSE b.end + 1]
           b2 == [b1 EXCEPT !.count = IF fits THEN b.count ELSE b.count + 1]
           b3 == [b2 EXCEPT !.message_count = b.message_count + 1]
           added == [s EXCEPT !.book[o] = b3, !.pages[o] = pages2]
<1>0. /\ b \in Books /\ PageTable(old) /\ b.begin \in Nat /\ b.end \in Nat
      /\ b.count \in Int /\ b.message_count \in Int
  BY StorageFacts
<1>1. Enqueue(s, o, message) = IF IsReady(added, o) THEN added ELSE Knit(added, o)
  <2>1. AddMessage(s, o, message) = added
    <3> DEFINE book == [b EXCEPT !.end = IF fits THEN @ ELSE @ + 1,
                                 !.count = IF fits THEN @ ELSE @ + 1,
                                 !.message_count = @ + 1]
    <3>1. AddMessage(s, o, message) = [s EXCEPT !.book[o] = book, !.pages[o] = pages2]
      BY DEF AddMessage
    <3> HIDE DEF fits, page, pages2
    <3>2. book = b3
      BY <1>0 DEF Books
    <3> HIDE DEF book, b3
    <3> QED
      BY <3>1, <3>2
  <2> HIDE DEF added
  <2> QED
    BY <2>1 DEF Enqueue
<1> HIDE DEF added
<1>2. IsEnqueued(b, old, b3, pages2, n, done, gone)
  <2>1. CASE fits
    <3> DEFINE c1 == [b EXCEPT !.end = b.end]
               c2 == [c1 EXCEPT !.count = b.count]
               c3 == [c2 EXCEPT !.message_count = b.message_count + 1]
               page2 == [old[b.end - 1] EXCEPT !.items = Append(@, message), !.remaining = @ + 1]
    <3>1. b3 = c3 /\ pages2 = WithPage(old, b.end - 1, page2)
          /\ b.end > b.begin /\ b.end - 1 \in DOMAIN old
      BY <2>1
    <3> HIDE DEF b3, pages2, b, old, fits, page
    <3>2. IsBook(c1, b.begin, b.end, b.count, b.message_count, b.ready)
      BY <1>0, BookParts, BookChanges
    <3> HIDE DEF c1
    <3>3. IsBook(c2, b.begin, b.end, b.count, b.message_count, b.ready)
      BY <1>0, <3>2, BookChanges
    <3> HIDE DEF c2
    <3>4. b.message_count + 1 \in Int
      BY <1>0
    <3>5. IsBook(c3, b.begin, b.end, b.count, b.message_count + 1, b.ready)
      BY <3>3, <3>4, BookChanges
    <3> HIDE DEF c3
    <3>6. PagesInv(b, old, n, done, gone)
      BY DEF b, old
    <3>7. IsEnqueued(b, old, c3, WithPage(old, b.end - 1, page2), n, done, gone)
      BY <1>0, <3>1, <3>5, <3>6, EnqueuedOnLastPage
    <3> QED
      BY <3>1, <3>7
  <2>2. CASE ~fits
    <3> DEFINE c1 == [b EXCEPT !.end = b.end + 1]
               c2 == [c1 EXCEPT !.count = b.count + 1]
               c3 == [c2 EXCEPT !.message_count = b.message_count + 1]
               page2 == [items |-> <<message>>, first |-> 0, remaining |-> 1]
    <3>1. b3 = c3 /\ pages2 = WithPage(old, b.end, page2)
      BY <2>2
    <3> HIDE DEF b3, pages2, b, old, fits, page
    <3>2. b.end + 1 \in Nat /\ b.count + 1 \in Int /\ b.message_count + 1 \in Int
      BY <1>0
    <3>3. IsBook(c1, b.begin, b.end + 1, b.count, b.message_count, b.ready)
      BY <1>0, <3>2, BookParts, BookChanges
    <3> HIDE DEF c1
    <3>4. IsBook(c2, b.begin, b.end + 1, b.count + 1, b.message_count, b.ready)
      BY <3>2, <3>3, BookChanges
    <3> HIDE DEF c2
    <3>5. IsBook(c3, b.begin, b.end + 1, b.count + 1, b.message_count + 1, b.ready)
      BY <3>2, <3>4, BookChanges
    <3> HIDE DEF c3
    <3>6. PagesInv(b, old, n, done, gone)
      BY DEF b, old
    <3>7. IsEnqueued(b, old, c3, WithPage(old, b.end, page2), n, done, gone)
      BY <1>0, <3>5, <3>6, EnqueuedOnNewPage
    <3> QED
      BY <3>1, <3>7
  <2> QED
    BY <2>1, <2>2
<1> HIDE DEF b3, pages2, fits, page
<1>3. IsReplaced(s, o, b3, pages2, added)
  BY <1>2, QueueReplaced DEF IsEnqueued, added
<1>4. b3.ready = b.ready
  BY <1>2 DEF IsEnqueued
<1>5. IsSound(s, added) /\ ReadyQueues(added) = ReadyQueues(s) /\ OthersStay(s, o, added)
  BY <1>3, <1>4, ReplacedIsSound
<1>6. added.book[o] = b3 /\ added.pages[o] = pages2
  BY <1>3 DEF IsReplaced
<1>7. CASE IsReady(added, o)
  <2>1. o \in ReadyQueues(s)
    BY <1>5, <1>7 DEF ReadyQueues
  <2>2. HasEnqueued(s, o, added, n, done, gone)
    BY <1>2, <1>5, <1>6, <2>1 DEF HasEnqueued, IsEnqueued
  <2> QED
    BY <1>1, <1>7, <2>2
<1>8. CASE ~IsReady(added, o)
  <2> DEFINE t == Knit(added, o)
  <2>1. IsKnitted(added, o, t)
    BY <1>5, <1>8, KnittedIn DEF IsSound
  <2> HIDE DEF t
  <2>2. /\ ReadyQueues(t) = ReadyQueues(s) \cup {o} /\ IsSound(s, t)
    BY <1>5, <2>1 DEF IsKnitted, IsSound
  <2>3. /\ t.pages = added.pages
        /\ \A x \in Origins : /\ t.book[x].begin = added.book[x].begin
                              /\ t.book[x].end = added.book[x].end
                              /\ t.book[x].count = added.book[x].count
                              /\ t.book[x].message_count = added.book[x].message_count
    BY <2>1 DEF IsKnitted, SameQueues
  <2>4. OthersStay(s, o, t)
    BY <1>5, <2>3 DEF OthersStay
  <2>5. PagesInv(t.book[o], t.pages[o], n + 1, done, gone)
    BY <1>2, <1>6, <2>3, NeighboursDoNotMatter DEF IsEnqueued
  <2>6. HasEnqueued(s, o, t, n, done, gone)
    BY <1>2, <1>6, <2>2, <2>3, <2>4, <2>5 DEF HasEnqueued, IsEnqueued
  <2> QED
    BY <1>1, <1>8, <2>6 DEF t
<1> QED
  BY <1>7, <1>8

\* items with the message at place k processed.
LEMMA MarkedItems ==
    ASSUME NEW items \in Seq(Messages), NEW k \in DOMAIN items
    PROVE  LET items2 == [items EXCEPT ![k].processed = TRUE]
           IN  /\ items2 \in Seq(Messages) /\ DOMAIN items2 = DOMAIN items
               /\ Len(items2) = Len(items)
               /\ items2[k].id = items[k].id /\ items2[k].processed
               /\ \A i \in DOMAIN items : i # k => items2[i] = items[i]
<1> DEFINE m == [items[k] EXCEPT !.processed = TRUE]
           items2 == [items EXCEPT ![k] = m]
<1>1. items[k] \in Messages /\ k \in 1 .. Len(items)
  BY ElementOfSeq, LenProperties
<1>2. m \in Messages /\ m.id = items[k].id /\ m.processed
  BY <1>1 DEF Messages
<1> HIDE DEF m
<1>3. items2 \in Seq(Messages) /\ Len(items2) = Len(items)
  BY <1>1, <1>2, ExceptSeq
<1>4. DOMAIN items2 = DOMAIN items /\ items2[k] = m
      /\ \A i \in DOMAIN items : i # k => items2[i] = items[i]
  OBVIOUS
<1> QED
  BY <1>2, <1>3, <1>4 DEF m

\* The message of the service loop has been processed.
HasProcessed(s, o, p, t, n, done, gone) ==
    /\ IsSound(s, t) /\ ReadyQueues(t) = ReadyQueues(s) /\ OthersStay(s, o, t)
    /\ t.book[o].begin = s.book[o].begin /\ t.book[o].end = s.book[o].end
    /\ p \in DOMAIN t.pages[o]
    /\ PagesInv(t.book[o], t.pages[o], n, done, gone)

LEMMA ProcessedInStorage ==
    ASSUME NEW s, StorageTypeOK(s), RingInv(s), NEW o \in Origins,
           NEW n \in Nat, NEW done, NEW gone, PagesInv(s.book[o], s.pages[o], n, done, gone),
           NEW p \in DOMAIN s.pages[o], p = s.book[o].begin,
           s.pages[o][p].first < Len(s.pages[o][p].items)
    PROVE  HasProcessed(s, o, p, ItemProcessed(s, o, p), n,
                        done \cup {s.pages[o][p].items[s.pages[o][p].first + 1].id}, gone)
<1> DEFINE b == s.book[o]
           pages == s.pages[o]
           page == pages[p]
           k == page.first + 1
           items == [page.items EXCEPT ![k].processed = TRUE]
           page1 == [page EXCEPT !.first = k]
           pages1 == WithPage(pages, p, page1)
           page2 == [page EXCEPT !.items = items, !.remaining = page.remaining - 1, !.first = k]
           pages2 == WithPage(pages, p, page2)
           b2 == [b EXCEPT !.message_count = b.message_count - 1]
           t == [s EXCEPT !.book[o] = b2, !.pages[o] = pages2]
<1>0. /\ b \in Books /\ PageTable(pages) /\ b.begin \in Nat /\ b.end \in Nat
      /\ b.count \in Int /\ b.message_count \in Int
  BY StorageFacts
<1>1. ItemProcessed(s, o, p) = t
  <2> DEFINE changed == [page EXCEPT !.items[k].processed = TRUE, !.remaining = @ - 1, !.first = @ + 1]
  <2>1. changed = page2
    OBVIOUS
  <2>2. ItemProcessed(s, o, p) = [s EXCEPT !.book[o].message_count = @ - 1,
                                           !.pages[o] = WithPage(@, p, changed)]
    BY DEF ItemProcessed
  <2> HIDE DEF changed, page2
  <2> QED
    BY <2>1, <2>2 DEF StorageTypeOK
<1>2. /\ page \in PageRecords /\ page.items \in Seq(Messages) /\ page.first \in Nat
      /\ page.remaining \in Int /\ DOMAIN page.items = 1 .. Len(page.items)
      /\ Len(page.items) \in Nat
  BY <1>0, PageFacts DEF PageTable
<1>3. k \in DOMAIN page.items /\ k \in Nat /\ page.remaining - 1 \in Int
  <2>1. page.first < Len(page.items)
    OBVIOUS
  <2> HIDE DEF page
  <2>2. /\ page.first \in Nat /\ page.remaining \in Int /\ Len(page.items) \in Nat
        /\ DOMAIN page.items = 1 .. Len(page.items)
    BY <1>2
  <2> QED
    BY <2>1, <2>2
<1> HIDE DEF t
<1>4. /\ items \in Seq(Messages) /\ DOMAIN items = DOMAIN page.items
      /\ items[k].id = page.items[k].id /\ items[k].processed
      /\ \A i \in DOMAIN page.items : i # k => items[i] = page.items[i]
  <2> HIDE DEF k, page
  <2> QED
    BY <1>2, <1>3, MarkedItems
<1> HIDE DEF items
<1>5. IsPage(page1, page.items, k, page.remaining)
  <2> HIDE DEF k, page
  <2> QED
    BY <1>2, <1>3, PageParts, PageChanges
<1>6. IsPage(page2, items, k, page.remaining - 1)
  <2> DEFINE q1 == [page EXCEPT !.items = items]
             q2 == [q1 EXCEPT !.remaining = page.remaining - 1]
  <2>1. page2 = [q2 EXCEPT !.first = k]
    OBVIOUS
  <2> HIDE DEF k, page, page2
  <2>2. IsPage(q1, items, page.first, page.remaining)
    BY <1>2, <1>4, PageParts, PageChanges
  <2> HIDE DEF q1
  <2>3. IsPage(q2, items, page.first, page.remaining - 1)
    BY <1>3, <2>2, PageChanges
  <2> HIDE DEF q2
  <2> QED
    BY <1>3, <2>1, <2>3, PageChanges
<1> HIDE DEF page1, page2
<1>7. IsWithPage(pages, p, page1, pages1) /\ IsWithPage(pages, p, page2, pages2)
  <2>1. page1 \in PageRecords /\ page2 \in PageRecords
    BY <1>5, <1>6 DEF IsPage
  <2> QED
    BY <1>0, <2>1, WithPageFields
<1> HIDE DEF pages1, pages2
<1>8. PagesInv(b, pages1, n, done, gone)
  <2>1. /\ PageTable(pages1) /\ DOMAIN pages1 = DOMAIN pages
        /\ \A q \in DOMAIN pages : q # p => pages1[q] = pages[q]
        /\ pages1[p].items = pages[p].items /\ pages1[p].remaining = pages[p].remaining
        /\ pages1[p].first = pages[p].first + 1
    BY <1>5, <1>7 DEF IsWithPage, IsPage
  <2> HIDE DEF b, pages
  <2>2. PagesInv(b, pages, n, done, gone) /\ p = b.begin /\ p \in DOMAIN pages
        /\ pages[p].first < Len(pages[p].items)
    BY DEF b, pages
  <2> QED
    BY <1>0, <2>1, <2>2, FirstSkipped
<1>9. ~page.items[k].processed
  <2>1. PlacesInv(b, pages, n)
    BY <1>0, PagesInvMeans
  <2>2. IsWaiting(b, pages, p, k)
    <3>1. p \in b.begin .. b.end - 1
      <4>1. p = b.begin /\ p \in DOMAIN pages
        OBVIOUS
      <4> HIDE DEF b, pages
      <4>2. DOMAIN pages \subseteq 0 .. b.end - 1
        BY <2>1 DEF PlacesInv
      <4> QED
        BY <1>0, <4>1, <4>2
    <3>2. page.first < k
      <4>1. page.first \in Nat
        BY <1>2
      <4> HIDE DEF page
      <4> QED
        BY <4>1
    <3> QED
      BY <3>1, <3>2 DEF IsWaiting
  <2> QED
    BY <1>3, <2>1, <2>2 DEF PlacesInv, WaitingFrom
<1>10. IsBook(b2, b.begin, b.end, b.count, b.message_count - 1, b.ready)
  <2>1. b.message_count - 1 \in Int
    BY <1>0
  <2> HIDE DEF b
  <2> QED
    BY <1>0, <2>1, BookParts, BookChanges
<1> HIDE DEF b2
<1>11. PagesInv(b2, pages2, n, done \cup {page.items[k].id}, gone)
  <2>1. /\ p \in DOMAIN pages1 /\ k \in DOMAIN pages1[p].items /\ k <= pages1[p].first
        /\ PageTable(pages1) /\ PageTable(pages2) /\ DOMAIN pages2 = DOMAIN pages1
        /\ \A q \in DOMAIN pages1 : q # p => pages2[q] = pages1[q]
        /\ pages1[p].items = page.items
    <3>1. pages1[p].first = k /\ pages1[p].items = page.items
      BY <1>5, <1>7 DEF IsWithPage, IsPage
    <3>2. /\ PageTable(pages1) /\ PageTable(pages2) /\ p \in DOMAIN pages1
          /\ DOMAIN pages2 = DOMAIN pages1
          /\ \A q \in DOMAIN pages1 : q # p => pages2[q] = pages1[q]
      BY <1>7 DEF IsWithPage
    <3> HIDE DEF k, page
    <3> QED
      BY <1>3, <3>1, <3>2
  <2>2. /\ pages2[p].items = items /\ pages2[p].remaining = pages1[p].remaining - 1
        /\ pages2[p].first = pages1[p].first
    BY <1>5, <1>6, <1>7 DEF IsWithPage, IsPage
  <2>3. /\ b2 \in Books /\ b2.begin = b.begin /\ b2.end = b.end
        /\ b2.count = b.count /\ b2.message_count = b.message_count - 1
    BY <1>10 DEF IsBook
  <2>4. /\ DOMAIN pages2[p].items = DOMAIN pages1[p].items
        /\ \A i \in DOMAIN pages1[p].items : i # k => pages2[p].items[i] = pages1[p].items[i]
        /\ pages2[p].items[k].id = pages1[p].items[k].id /\ pages2[p].items[k].processed
        /\ ~pages1[p].items[k].processed
    <3> HIDE DEF k, page, pages
    <3> QED
      BY <1>4, <1>9, <2>1, <2>2
  <2> HIDE DEF b, k, page, pages
  <2>5. b \in Books /\ (p < b.begin \/ k <= pages1[p].first)
    BY <1>0, <2>1
  <2>6. pages2[p].remaining = pages1[p].remaining - 1 /\ pages2[p].first = pages1[p].first
    BY <2>2
  <2>7. IsMarked(pages1, p, k, pages2)
    BY <2>1, <2>4, <2>6 DEF IsMarked
  <2>8. PageTable(pages1) /\ p \in DOMAIN pages1 /\ k \in DOMAIN pages1[p].items
    BY <2>1
  <2>9. PagesInv(b2, pages2, n, done \cup {pages1[p].items[k].id}, gone)
    BY <1>8, <2>3, <2>5, <2>7, <2>8, MessageMarked
  <2> QED
    BY <2>1, <2>9
<1>12. IsReplaced(s, o, b2, pages2, t)
  <2>1. b2 \in Books /\ PageTable(pages2)
    BY <1>7, <1>10 DEF IsBook, IsWithPage
  <2> QED
    BY <2>1, QueueReplaced DEF t
<1>13. b2.ready = b.ready
  BY <1>10 DEF IsBook
<1>14. IsSound(s, t) /\ ReadyQueues(t) = ReadyQueues(s) /\ OthersStay(s, o, t)
  BY <1>12, <1>13, ReplacedIsSound
<1>15. t.book[o] = b2 /\ t.pages[o] = pages2 /\ p \in DOMAIN pages2
       /\ b2.begin = b.begin /\ b2.end = b.end
  BY <1>7, <1>10, <1>12 DEF IsReplaced, IsBook, IsWithPage
<1> QED
  BY <1>1, <1>11, <1>14, <1>15 DEF HasProcessed

-----------------------------------------------------------------------------
(***************************************************************************)
(* The invariant, of the values of the variables.                          *)
(***************************************************************************)
Stages == {"idle", "queue", "page", "item", "leave"}

Loops ==
    [at : Stages,
     queue : Origins \cup {NoOrigin}, weight : Int, limit : Int,
     progressed : BOOLEAN, last : Origins \cup {NoOrigin}]

HistoryOK(n, done, gone) ==
    /\ n \in [Origins -> Nat]
    /\ done \in [Origins -> SUBSET Nat]
    /\ gone \in [Origins -> SUBSET Nat]

PagesOK(s, n, done, gone) ==
    \A o \in Origins : PagesInv(s.book[o], s.pages[o], n[o], done[o], gone[o])

WaitingAreReady(s) ==
    \A o \in Origins : s.book[o].begin < s.book[o].end => o \in ReadyQueues(s)

ReadyAreServed(s, l) ==
    \A o \in ReadyQueues(s) :
        s.book[o].begin = s.book[o].end => l.queue = o /\ l.at \in {"page", "item", "leave"}

PlaceOK(s, l) ==
    /\ l.at = "idle" <=> l.queue = NoOrigin
    /\ l.at = "item" => s.book[l.queue].begin \in DOMAIN s.pages[l.queue]

StateInv(s, l, n, done, gone) ==
    /\ StorageTypeOK(s) /\ RingInv(s) /\ l \in Loops /\ HistoryOK(n, done, gone)
    /\ PagesOK(s, n, done, gone)
    /\ WaitingAreReady(s) /\ ReadyAreServed(s, l)
    /\ PlaceOK(s, l)

LEMMA InvOfState ==
    ASSUME QueueInv
    PROVE  StateInv(storage, loop, sent, executed, reaped)
<1>1. StorageTypeOK(storage) /\ RingInv(storage) /\ loop \in Loops
      /\ HistoryOK(sent, executed, reaped)
  BY DEF QueueInv, QueueTypeOK, Loops, Stages, HistoryOK
<1>2. PagesOK(storage, sent, executed, reaped)
  BY DEF QueueInv, PagesOK
<1>3. WaitingAreReady(storage) /\ ReadyAreServed(storage, loop)
  BY DEF QueueInv, ReadyInv, WaitingAreReady, ReadyAreServed, ReadyQueues
<1>4. PlaceOK(storage, loop)
  BY DEF QueueInv, LoopInv, PlaceOK, Book
<1> QED
  BY <1>1, <1>2, <1>3, <1>4 DEF StateInv

LEMMA InvOfNextState ==
    ASSUME StateInv(storage', loop', sent', executed', reaped')
    PROVE  QueueInv'
<1>1. QueueTypeOK' /\ RingInv(storage)'
  BY DEF StateInv, QueueTypeOK, Loops, Stages, HistoryOK
<1>2. ASSUME NEW o \in Origins
      PROVE  /\ PagesInv(storage'.book[o], storage'.pages[o], sent'[o], executed'[o], reaped'[o])
             /\ ReadyInv(o)'
  <2>1. PagesInv(storage'.book[o], storage'.pages[o], sent'[o], executed'[o], reaped'[o])
    BY DEF StateInv, PagesOK
  <2>2. ReadyInv(o)'
    BY DEF StateInv, WaitingAreReady, ReadyAreServed, ReadyQueues, ReadyInv
  <2> QED
    BY <2>1, <2>2
<1>3. LoopInv'
  BY DEF StateInv, PlaceOK, LoopInv, Book
<1> QED
  BY <1>1, <1>2, <1>3 DEF QueueInv

\* Only queue o has changed.
LEMMA OneQueueChanged ==
    ASSUME NEW s, NEW t, NEW n, NEW done, NEW gone, NEW n2, NEW done2, NEW gone2,
           PagesOK(s, n, done, gone), NEW o \in Origins, OthersStay(s, o, t),
           \A x \in Origins : x # o => n2[x] = n[x] /\ done2[x] = done[x] /\ gone2[x] = gone[x],
           PagesInv(t.book[o], t.pages[o], n2[o], done2[o], gone2[o])
    PROVE  PagesOK(t, n2, done2, gone2)
<1> SUFFICES ASSUME NEW x \in Origins
             PROVE  PagesInv(t.book[x], t.pages[x], n2[x], done2[x], gone2[x])
  BY DEF PagesOK
<1>1. CASE x = o
  BY <1>1
<1>2. CASE x # o
  <2>1. PagesInv(s.book[x], s.pages[x], n[x], done[x], gone[x])
    BY DEF PagesOK
  <2>2. /\ t.pages[x] = s.pages[x]
        /\ t.book[x].begin = s.book[x].begin /\ t.book[x].end = s.book[x].end
        /\ t.book[x].count = s.book[x].count /\ t.book[x].message_count = s.book[x].message_count
        /\ n2[x] = n[x] /\ done2[x] = done[x] /\ gone2[x] = gone[x]
    BY <1>2 DEF OthersStay
  <2>3. PagesInv(t.book[x], s.pages[x], n[x], done[x], gone[x])
    BY <2>1, <2>2, NeighboursDoNotMatter
  <2> QED
    BY <2>2, <2>3
<1> QED
  BY <1>1, <1>2

\* What is known of storage when the requests of a message have been served.
ServedOK(s, l, n, done, gone, t, n2) ==
    /\ IsSound(s, t) /\ n2 \in [Origins -> Nat]
    /\ PagesOK(t, n2, done, gone)
    /\ WaitingAreReady(t) /\ ReadyAreServed(t, l)
    /\ \A o \in Origins : /\ t.book[o].begin = s.book[o].begin
                          /\ KeepsPlaces(s.pages[o], t.pages[o])

LEMMA NoRequest ==
    ASSUME NEW s, NEW l, NEW n, NEW done, NEW gone, StateInv(s, l, n, done, gone)
    PROVE  ServedOK(s, l, n, done, gone, s, n)
<1>1. IsSound(s, s)
  BY DEF StateInv, IsSound
<1> QED
  BY <1>1 DEF StateInv, ServedOK, HistoryOK, KeepsPlaces

LEMMA OneRequest ==
    ASSUME NEW s, NEW l, NEW n, NEW done, NEW gone, StateInv(s, l, n, done, gone),
           NEW o \in Origins, NEW message \in Messages, message.id = n[o] + 1, ~message.processed
    PROVE  ServedOK(s, l, n, done, gone, Enqueue(s, o, message), [n EXCEPT ![o] = @ + 1])
<1> DEFINE t == Enqueue(s, o, message)
           n2 == [n EXCEPT ![o] = @ + 1]
<1>1. StorageTypeOK(s) /\ RingInv(s) /\ n \in [Origins -> Nat] /\ PagesOK(s, n, done, gone)
      /\ WaitingAreReady(s) /\ ReadyAreServed(s, l)
  BY DEF StateInv, HistoryOK
<1>2. HasEnqueued(s, o, t, n[o], done[o], gone[o])
  <2>1. n[o] \in Nat /\ PagesInv(s.book[o], s.pages[o], n[o], done[o], gone[o])
    BY <1>1 DEF PagesOK
  <2> QED
    BY <1>1, <2>1, EnqueuedInStorage
<1> HIDE DEF t
<1>3. n2 \in [Origins -> Nat] /\ n2[o] = n[o] + 1 /\ \A x \in Origins : x # o => n2[x] = n[x]
  BY <1>1
<1> HIDE DEF n2
<1>4. PagesOK(t, n2, done, gone)
  <2>1. OthersStay(s, o, t) /\ PagesInv(t.book[o], t.pages[o], n2[o], done[o], gone[o])
    BY <1>2, <1>3 DEF HasEnqueued
  <2> QED
    BY <1>1, <1>3, <2>1, OneQueueChanged
<1>5. /\ IsSound(s, t) /\ ReadyQueues(t) = ReadyQueues(s) \cup {o}
      /\ \A x \in Origins : t.book[x].begin = s.book[x].begin
      /\ \A x \in Origins : x # o => t.book[x].end = s.book[x].end /\ t.pages[x] = s.pages[x]
      /\ KeepsPlaces(s.pages[o], t.pages[o]) /\ t.book[o].begin < t.book[o].end
  BY <1>2 DEF HasEnqueued, OthersStay
<1>6. WaitingAreReady(t)
  BY <1>1, <1>5 DEF WaitingAreReady
<1>7. ReadyAreServed(t, l)
  <2>1. t.book[o].begin \in Nat /\ t.book[o].end \in Nat
    BY <1>5, StorageFacts DEF IsSound
  <2> SUFFICES ASSUME NEW x \in ReadyQueues(t), t.book[x].begin = t.book[x].end
               PROVE  l.queue = x /\ l.at \in {"page", "item", "leave"}
    BY DEF ReadyAreServed
  <2>2. x # o /\ x \in ReadyQueues(s) /\ x \in Origins
    BY <1>5, <2>1 DEF ReadyQueues
  <2>3. s.book[x].begin = s.book[x].end
    BY <1>5, <2>2
  <2> QED
    BY <1>1, <2>2, <2>3 DEF ReadyAreServed
<1>8. \A x \in Origins : KeepsPlaces(s.pages[x], t.pages[x])
  BY <1>5 DEF KeepsPlaces
<1> QED
  BY <1>3, <1>4, <1>5, <1>6, <1>7, <1>8 DEF ServedOK, t, n2

\* Served, with the count of what was sent.
LEMMA RequestServed ==
    ASSUME QueueInv, NEW request \in Requests, NoteSent(request)
    PROVE  ServedOK(storage, loop, sent, executed, reaped, Served(storage, request), sent')
<1>1. StateInv(storage, loop, sent, executed, reaped)
  BY InvOfState
<1>2. CASE request = <<>>
  <2>1. Served(storage, request) = storage /\ sent' = sent
    BY <1>2 DEF Served, NoteSent
  <2> QED
    BY <1>1, <2>1, NoRequest
<1>3. CASE request # <<>>
  <2> DEFINE o == request[1]
             message == NewMessage(request)
  <2>1. request \in Origins \X MessageWeights
    BY <1>3 DEF Requests
  <2>2. o \in Origins /\ request[2] \in Nat /\ sent[o] \in Nat
    BY <1>1, <2>1, QueueAssumption DEF StateInv, HistoryOK
  <2>3. message \in Messages /\ message.id = sent[o] + 1 /\ ~message.processed
    BY <2>2 DEF NewMessage, Messages
  <2>4. /\ Served(storage, request) = Enqueue(storage, o, message)
        /\ sent' = [sent EXCEPT ![o] = @ + 1]
    BY <1>3 DEF Served, NoteSent
  <2> HIDE DEF o, message
  <2> QED
    <3>1. ServedOK(storage, loop, sent, executed, reaped, Enqueue(storage, o, message),
                   [sent EXCEPT ![o] = @ + 1])
      BY <1>1, <2>2, <2>3, OneRequest
    <3> QED
      BY <2>4, <3>1
<1> QED
  BY <1>2, <1>3

-----------------------------------------------------------------------------
(***************************************************************************)
(* The steps.                                                              *)
(***************************************************************************)

\* What every step but StartService and ForceSetHead does.
StepOK ==
    /\ QueueInv'
    /\ IsSound(storage, storage')
    /\ loop.at # "idle" \/ loop' = loop

IsLoop(l, at, queue, weight, limit, progressed, last) ==
    /\ l \in Loops /\ l.at = at /\ l.queue = queue /\ l.weight = weight /\ l.limit = limit
    /\ l.progressed = progressed /\ l.last = last

LEMMA LoopParts ==
    ASSUME NEW l \in Loops
    PROVE  IsLoop(l, l.at, l.queue, l.weight, l.limit, l.progressed, l.last)
  BY DEF IsLoop

LEMMA LoopChanges ==
    ASSUME NEW l, NEW a, NEW q, NEW w, NEW m, NEW p, NEW z, IsLoop(l, a, q, w, m, p, z)
    PROVE  /\ \A x \in Stages : IsLoop([l EXCEPT !.at = x], x, q, w, m, p, z)
           /\ \A x \in Origins \cup {NoOrigin} : IsLoop([l EXCEPT !.queue = x], a, x, w, m, p, z)
           /\ \A x \in Int : IsLoop([l EXCEPT !.weight = x], a, q, x, m, p, z)
           /\ \A x \in Int : IsLoop([l EXCEPT !.limit = x], a, q, w, x, p, z)
           /\ \A x \in BOOLEAN : IsLoop([l EXCEPT !.progressed = x], a, q, w, m, x, z)
           /\ \A x \in Origins \cup {NoOrigin} : IsLoop([l EXCEPT !.last = x], a, q, w, m, p, x)
<1>1. \A x \in Stages : IsLoop([l EXCEPT !.at = x], x, q, w, m, p, z)
  BY DEF IsLoop, Loops
<1>2. \A x \in Origins \cup {NoOrigin} : IsLoop([l EXCEPT !.queue = x], a, x, w, m, p, z)
  BY DEF IsLoop, Loops
<1>3. \A x \in Int : IsLoop([l EXCEPT !.weight = x], a, q, x, m, p, z)
  BY DEF IsLoop, Loops
<1>4. \A x \in Int : IsLoop([l EXCEPT !.limit = x], a, q, w, x, p, z)
  BY DEF IsLoop, Loops
<1>5. \A x \in BOOLEAN : IsLoop([l EXCEPT !.progressed = x], a, q, w, m, x, z)
  BY DEF IsLoop, Loops
<1>6. \A x \in Origins \cup {NoOrigin} : IsLoop([l EXCEPT !.last = x], a, q, w, m, p, x)
  BY DEF IsLoop, Loops
<1> QED
  BY <1>1, <1>2, <1>3, <1>4, <1>5, <1>6

LEMMA IdleLoop == IsLoop(Idle, "idle", NoOrigin, 0, 0, FALSE, NoOrigin)
  BY DEF IsLoop, Idle, Loops, Stages

\* Two fields that change together.
LEMMA LoopMovesOn ==
    ASSUME NEW l \in Loops, NEW at \in Stages, NEW w \in Int
    PROVE  IsLoop([l EXCEPT !.at = at, !.weight = w],
                  at, l.queue, w, l.limit, l.progressed, l.last)
<1> DEFINE l1 == [l EXCEPT !.at = at]
           l2 == [l1 EXCEPT !.weight = w]
<1>1. IsLoop(l, l.at, l.queue, l.weight, l.limit, l.progressed, l.last)
  BY LoopParts
<1>2. IsLoop(l1, at, l.queue, l.weight, l.limit, l.progressed, l.last)
  BY <1>1, LoopChanges
<1>3. [l EXCEPT !.at = at, !.weight = w] = l2
  OBVIOUS
<1> HIDE DEF l1
<1>4. IsLoop(l2, at, l.queue, w, l.limit, l.progressed, l.last)
  BY <1>2, LoopChanges
<1> QED
  BY <1>3, <1>4

LEMMA NextQueueOK ==
    ASSUME NEW l \in Loops, NEW next \in Origins \cup {NoOrigin}
    PROVE  LET l2 == NextQueue(l, next)
           IN  /\ l2 \in Loops /\ l2.at \in {"idle", "queue"}
               /\ l2.at = "idle" <=> l2.queue = NoOrigin
<1> DEFINE l2 == NextQueue(l, next)
           a1 == [l EXCEPT !.at = "queue"]
           a2 == [a1 EXCEPT !.queue = next]
           a3 == [a2 EXCEPT !.progressed = FALSE]
           a4 == [a3 EXCEPT !.last = NoOrigin]
           last == IF l.last = NoOrigin THEN l.queue ELSE l.last
           a5 == [a2 EXCEPT !.last = last]
<1>1. \/ l2 = Idle
      \/ next # NoOrigin /\ l2 = a4
      \/ next # NoOrigin /\ l2 = a5
  BY DEF NextQueue
<1> HIDE DEF l2
<1>2. IsLoop(a1, "queue", l.queue, l.weight, l.limit, l.progressed, l.last)
  <2>1. "queue" \in Stages
    BY DEF Stages
  <2> QED
    BY <2>1, LoopParts, LoopChanges
<1> HIDE DEF a1
<1>3. IsLoop(a2, "queue", next, l.weight, l.limit, l.progressed, l.last)
  BY <1>2, LoopChanges
<1> HIDE DEF a2
<1>4. IsLoop(a3, "queue", next, l.weight, l.limit, FALSE, l.last)
  BY <1>3, LoopChanges
<1> HIDE DEF a3
<1>5. IsLoop(a4, "queue", next, l.weight, l.limit, FALSE, NoOrigin)
  BY <1>4, LoopChanges
<1>6. last \in Origins \cup {NoOrigin}
  BY DEF Loops
<1> HIDE DEF last
<1>7. IsLoop(a5, "queue", next, l.weight, l.limit, l.progressed, last)
  BY <1>3, <1>6, LoopChanges
<1> HIDE DEF a4, a5
<1>8. CASE l2 = Idle
  BY <1>8, IdleLoop DEF IsLoop, l2
<1>9. CASE next # NoOrigin /\ l2 = a4
  BY <1>5, <1>9 DEF IsLoop, l2
<1>10. CASE next # NoOrigin /\ l2 = a5
  BY <1>7, <1>10 DEF IsLoop, l2
<1> QED
  BY <1>1, <1>8, <1>9, <1>10

LEMMA LargerOfTwo ==
    ASSUME NEW x \in Int, NEW y \in Int
    PROVE  Max({x, y}) \in Int
<1>1. \E z \in {x, y} : \A v \in {x, y} : z >= v
  OBVIOUS
<1>2. Max({x, y}) \in {x, y}
  BY <1>1 DEF Max
<1> QED
  BY <1>2

LEMMA OverweightLimitType ==
    ASSUME NEW limit \in Limits
    PROVE  limit \in Int /\ OverweightLimit(limit) \in Int /\ limit - BumpWeight \in Int
<1>1. /\ limit \in Int /\ MaxServiceWeight \in Int /\ BumpWeight \in Int /\ QueueWeight \in Int
      /\ PageWeight \in Int /\ ItemWeight \in Int
  BY QueueAssumption
<1> DEFINE most == IF MaxServiceWeight = 0 THEN limit ELSE MaxServiceWeight
           rest == most - (BumpWeight + QueueWeight + PageWeight + ItemWeight)
<1>2. rest \in Int /\ 0 \in Int
  BY <1>1
<1>3. OverweightLimit(limit) = Max({0, rest})
  BY DEF OverweightLimit
<1> HIDE DEF rest
<1> QED
  BY <1>1, <1>2, <1>3, LargerOfTwo

\* Steps that leave the storage alone.
LEMMA LoopStep ==
    ASSUME QueueInv, storage' = storage, sent' = sent, executed' = executed, reaped' = reaped,
           loop' \in Loops, ReadyAreServed(storage, loop'), PlaceOK(storage, loop'),
           loop.at # "idle" \/ loop' = loop
    PROVE  StepOK
<1>1. StateInv(storage, loop, sent, executed, reaped)
  BY InvOfState
<1>2. StateInv(storage', loop', sent', executed', reaped')
  BY <1>1 DEF StateInv
<1>3. IsSound(storage, storage')
  BY <1>1 DEF StateInv, IsSound
<1> QED
  BY <1>2, <1>3, InvOfNextState DEF StepOK

\* The queue that the loop serves.
LEMMA LoopFacts ==
    ASSUME QueueInv, loop.at # "idle"
    PROVE  LET o == loop.queue
           IN  /\ o \in Origins /\ loop.weight \in Int
               /\ StateInv(storage, loop, sent, executed, reaped) /\ loop \in Loops
               /\ StorageTypeOK(storage) /\ RingInv(storage)
               /\ sent[o] \in Nat
               /\ PagesInv(storage.book[o], storage.pages[o], sent[o], executed[o], reaped[o])
               /\ Book = storage.book[o] /\ Book \in Books /\ PageTable(storage.pages[o])
               /\ Book.begin \in Nat /\ Book.end \in Nat /\ Book.begin <= Book.end
               /\ Book.ready.next \in Origins \cup {NoOrigin}
               /\ loop.at = "item" => /\ Book.begin \in DOMAIN storage.pages[o]
                                      /\ Page \in PageRecords /\ Book.begin < Book.end
                                      /\ Page = storage.pages[o][Book.begin]
<1> DEFINE o == loop.queue
<1>1. /\ StateInv(storage, loop, sent, executed, reaped) /\ loop \in Loops
      /\ StorageTypeOK(storage) /\ RingInv(storage)
  BY InvOfState DEF StateInv
<1>2. o \in Origins /\ loop.weight \in Int
  BY <1>1 DEF StateInv, PlaceOK, Loops
<1>3. /\ sent[o] \in Nat
      /\ PagesInv(storage.book[o], storage.pages[o], sent[o], executed[o], reaped[o])
  BY <1>1, <1>2 DEF StateInv, HistoryOK, PagesOK
<1>4. /\ Book = storage.book[o] /\ Book \in Books /\ PageTable(storage.pages[o])
      /\ Book.begin \in Nat /\ Book.end \in Nat /\ Book.ready \in Neighbours
  BY <1>1, <1>2, StorageFacts DEF Book
<1>5. Book.begin <= Book.end /\ DOMAIN storage.pages[o] \subseteq 0 .. Book.end - 1
  BY <1>3, <1>4 DEF PagesInv
<1>6. loop.at = "item" => /\ Book.begin \in DOMAIN storage.pages[o]
                          /\ Page \in PageRecords /\ Book.begin < Book.end
                          /\ Page = storage.pages[o][Book.begin]
  BY <1>1, <1>4, <1>5 DEF StateInv, PlaceOK, Page, PageTable
<1> QED
  BY <1>1, <1>2, <1>3, <1>4, <1>5, <1>6 DEF Neighbours

LEMMA ServiceQueueStep ==
    ASSUME QueueInv, ServiceQueue
    PROVE  StepOK
<1>1. loop.at = "queue" /\ storage' = storage /\ sent' = sent /\ executed' = executed
      /\ reaped' = reaped
  BY DEF ServiceQueue
<1>2. /\ loop.queue \in Origins /\ loop.weight \in Int /\ loop \in Loops
      /\ StateInv(storage, loop, sent, executed, reaped)
      /\ Book.ready.next \in Origins \cup {NoOrigin}
  BY <1>1, LoopFacts
<1>3. \A o \in ReadyQueues(storage) : storage.book[o].begin # storage.book[o].end
  BY <1>1, <1>2 DEF StateInv, ReadyAreServed
<1>4. loop.weight - QueueWeight \in Int
  BY <1>2, QueueAssumption
<1>5. loop' \in Loops /\ PlaceOK(storage, loop')
  <2>1. CASE loop' = Idle
    BY <2>1, IdleLoop DEF IsLoop, PlaceOK
  <2>2. CASE loop' = NextQueue([loop EXCEPT !.weight = @ - QueueWeight], Book.ready.next)
    <3> DEFINE l == [loop EXCEPT !.weight = @ - QueueWeight]
    <3>1. l \in Loops
      BY <1>2, <1>4, LoopParts, LoopChanges DEF IsLoop
    <3> HIDE DEF l
    <3>2. /\ NextQueue(l, Book.ready.next) \in Loops
          /\ NextQueue(l, Book.ready.next).at \in {"idle", "queue"}
          /\ NextQueue(l, Book.ready.next).at = "idle"
             <=> NextQueue(l, Book.ready.next).queue = NoOrigin
      BY <1>2, <3>1, NextQueueOK
    <3> QED
      BY <2>2, <3>2 DEF PlaceOK, l
  <2>3. CASE loop' = [loop EXCEPT !.at = "page", !.weight = @ - QueueWeight]
    <3> DEFINE w == loop.weight - QueueWeight
    <3>0. loop' = [loop EXCEPT !.at = "page", !.weight = w]
      BY <2>3
    <3> HIDE DEF w
    <3>1. "page" \in Stages /\ w \in Int
      BY <1>4 DEF Stages, w
    <3>2. IsLoop(loop', "page", loop.queue, w, loop.limit, loop.progressed, loop.last)
      BY <1>2, <3>0, <3>1, LoopMovesOn
    <3> QED
      BY <1>2, <3>2, QueueAssumption DEF PlaceOK, IsLoop
  <2> QED
    BY <2>1, <2>2, <2>3 DEF ServiceQueue
<1>6. ReadyAreServed(storage, loop')
  BY <1>3 DEF ReadyAreServed
<1> QED
  BY <1>1, <1>5, <1>6, LoopStep

\* The loop goes on with the same queue.
LEMMA SameQueueServed ==
    ASSUME QueueInv, loop.at \in {"page", "item", "leave"},
           storage' = storage, sent' = sent, executed' = executed, reaped' = reaped,
           loop' \in Loops, loop'.queue = loop.queue, loop'.at \in {"page", "item", "leave"},
           loop'.at = "item" => Book.begin \in DOMAIN storage.pages[loop.queue]
    PROVE  StepOK
<1>1. /\ loop.queue \in Origins /\ StateInv(storage, loop, sent, executed, reaped)
      /\ Book = storage.book[loop.queue]
  BY LoopFacts
<1>2. ReadyAreServed(storage, loop')
  BY <1>1 DEF StateInv, ReadyAreServed
<1>3. PlaceOK(storage, loop')
  BY <1>1, QueueAssumption DEF PlaceOK
<1> QED
  BY <1>2, <1>3, LoopStep

LEMMA BailOutStep ==
    ASSUME QueueInv, BailOut
    PROVE  StepOK
<1>1. /\ loop.at = "item" /\ loop' = [loop EXCEPT !.at = "leave"]
      /\ storage' = storage /\ sent' = sent /\ executed' = executed /\ reaped' = reaped
  BY DEF BailOut
<1>2. loop \in Loops
  BY <1>1, LoopFacts
<1>3. IsLoop(loop', "leave", loop.queue, loop.weight, loop.limit, loop.progressed, loop.last)
  <2>1. "leave" \in Stages
    BY DEF Stages
  <2> QED
    BY <1>1, <1>2, <2>1, LoopParts, LoopChanges
<1> QED
  BY <1>1, <1>3, SameQueueServed DEF IsLoop

LEMMA PostponeItemStep ==
    ASSUME QueueInv, PostponeItem
    PROVE  StepOK
<1>1. /\ loop.at = "item" /\ loop' = [loop EXCEPT !.at = "leave", !.weight = WeightForItem]
      /\ storage' = storage /\ sent' = sent /\ executed' = executed /\ reaped' = reaped
  BY DEF PostponeItem, HasItem
<1>2. loop \in Loops /\ WeightForItem \in Int
  BY <1>1, LoopFacts, QueueAssumption DEF WeightForItem
<1>3. IsLoop(loop', "leave", loop.queue, WeightForItem, loop.limit, loop.progressed, loop.last)
  <2>1. "leave" \in Stages
    BY DEF Stages
  <2> QED
    BY <1>1, <1>2, <2>1, LoopMovesOn
<1> QED
  BY <1>1, <1>3, SameQueueServed DEF IsLoop

LEMMA SetPausedStep ==
    ASSUME QueueInv, NEW o \in Origins, SetPaused(o)
    PROVE  StepOK
<1>1. storage' = storage /\ loop' = loop /\ sent' = sent /\ executed' = executed /\ reaped' = reaped
  BY DEF SetPaused
<1>2. loop \in Loops /\ ReadyAreServed(storage, loop) /\ PlaceOK(storage, loop)
  BY InvOfState DEF StateInv
<1> QED
  BY <1>1, <1>2, LoopStep

\* Steps that change one queue and not the ring.
LEMMA QueueStep ==
    ASSUME QueueInv, NEW o \in Origins, NEW book \in Books, NEW pages, PageTable(pages),
           IsReplaced(storage, o, book, pages, storage'),
           book.ready = storage.book[o].ready, book.end = storage.book[o].end,
           \/ book.begin = storage.book[o].begin
           \/ /\ book.begin >= storage.book[o].begin /\ loop.queue = o
              /\ loop.at \in {"page", "item", "leave"},
           PagesInv(book, pages, sent'[o], executed'[o], reaped'[o]),
           HistoryOK(sent', executed', reaped'),
           \A x \in Origins : x # o =>
             sent'[x] = sent[x] /\ executed'[x] = executed[x] /\ reaped'[x] = reaped[x],
           \/ loop' = loop
           \/ /\ loop' \in Loops /\ loop'.queue = loop.queue
              /\ loop.at \in {"page", "item", "leave"} /\ loop'.at \in {"page", "item", "leave"},
           PlaceOK(storage', loop')
    PROVE  StepOK
<1>1. StateInv(storage, loop, sent, executed, reaped)
  BY InvOfState
<1>2. StorageTypeOK(storage) /\ RingInv(storage) /\ PagesOK(storage, sent, executed, reaped)
      /\ WaitingAreReady(storage) /\ ReadyAreServed(storage, loop) /\ loop \in Loops
  BY <1>1 DEF StateInv
<1>3. /\ IsSound(storage, storage') /\ ReadyQueues(storage') = ReadyQueues(storage)
      /\ OthersStay(storage, o, storage')
  BY <1>2, ReplacedIsSound
<1>4. storage'.book[o] = book /\ storage'.pages[o] = pages
  BY DEF IsReplaced
<1>5. PagesOK(storage', sent', executed', reaped')
  BY <1>2, <1>3, <1>4, OneQueueChanged
<1>6. /\ storage.book[o].begin \in Nat /\ storage.book[o].end \in Nat
      /\ book.begin \in Nat /\ book.end \in Nat
  BY <1>2, StorageFacts DEF Books
<1>7. WaitingAreReady(storage')
  <2> SUFFICES ASSUME NEW x \in Origins, storage'.book[x].begin < storage'.book[x].end
               PROVE  x \in ReadyQueues(storage)
    BY <1>3 DEF WaitingAreReady
  <2>1. storage.book[x].begin < storage.book[x].end
    BY <1>3, <1>4, <1>6 DEF OthersStay
  <2> QED
    BY <1>2, <2>1 DEF WaitingAreReady
<1>8. ReadyAreServed(storage', loop')
  <2> SUFFICES ASSUME NEW x \in ReadyQueues(storage), storage'.book[x].begin = storage'.book[x].end
               PROVE  loop'.queue = x /\ loop'.at \in {"page", "item", "leave"}
    BY <1>3 DEF ReadyAreServed
  <2>1. x \in Origins
    BY DEF ReadyQueues
  <2>2. loop.queue = x /\ loop.at \in {"page", "item", "leave"}
    <3>1. CASE storage.book[x].begin = storage.book[x].end
      BY <1>2, <3>1 DEF ReadyAreServed
    <3>2. CASE storage.book[x].begin # storage.book[x].end
      BY <1>3, <1>4, <2>1, <3>2 DEF OthersStay
    <3> QED
      BY <3>1, <3>2
  <2> QED
    BY <2>2
<1>9. loop' \in Loops /\ (loop.at # "idle" \/ loop' = loop)
  BY <1>2
<1>10. StateInv(storage', loop', sent', executed', reaped')
  BY <1>3, <1>5, <1>7, <1>8, <1>9 DEF StateInv, IsSound
<1> QED
  BY <1>3, <1>9, <1>10, InvOfNextState DEF StepOK

LEMMA ServicePageStep ==
    ASSUME QueueInv, ServicePage
    PROVE  StepOK
<1> DEFINE o == loop.queue
<1>0. loop.at = "page" /\ sent' = sent /\ executed' = executed /\ reaped' = reaped
  BY DEF ServicePage
<1>1. /\ o \in Origins /\ loop.weight \in Int /\ loop \in Loops
      /\ StateInv(storage, loop, sent, executed, reaped) /\ StorageTypeOK(storage)
      /\ sent[o] \in Nat
      /\ PagesInv(storage.book[o], storage.pages[o], sent[o], executed[o], reaped[o])
      /\ Book = storage.book[o] /\ Book \in Books /\ PageTable(storage.pages[o])
      /\ Book.begin \in Nat /\ Book.end \in Nat
  BY <1>0, LoopFacts
<1>2. loop.weight - PageWeight \in Int /\ "item" \in Stages /\ "leave" \in Stages
  BY <1>1, QueueAssumption DEF Stages
<1>3. CASE loop' = [loop EXCEPT !.at = "leave"] /\ UNCHANGED storage
  <2>1. IsLoop(loop', "leave", loop.queue, loop.weight, loop.limit, loop.progressed, loop.last)
    BY <1>1, <1>2, <1>3, LoopParts, LoopChanges
  <2> QED
    BY <1>0, <1>3, <2>1, SameQueueServed DEF IsLoop
<1>4. CASE /\ Book.begin \in DOMAIN storage.pages[loop.queue]
           /\ loop' = [loop EXCEPT !.at = "item", !.weight = @ - PageWeight]
           /\ UNCHANGED storage
  <2> DEFINE w == loop.weight - PageWeight
  <2>1. loop' = [loop EXCEPT !.at = "item", !.weight = w]
    BY <1>4
  <2>2. w \in Int
    BY <1>2
  <2> HIDE DEF w
  <2>3. IsLoop(loop', "item", loop.queue, w, loop.limit, loop.progressed, loop.last)
    BY <1>1, <1>2, <2>1, <2>2, LoopMovesOn
  <2> QED
    BY <1>0, <1>4, <2>3, SameQueueServed DEF IsLoop
<1>5. CASE /\ Book.end > Book.begin
           /\ Book.begin \notin DOMAIN storage.pages[loop.queue]
           /\ loop' = [loop EXCEPT !.weight = @ - PageWeight]
           /\ storage' = [storage EXCEPT !.book[loop.queue].begin = @ + 1]
  <2> DEFINE b == storage.book[o]
             book == [b EXCEPT !.begin = b.begin + 1]
             pages == storage.pages[o]
             t == [storage EXCEPT !.book[o] = book, !.pages[o] = pages]
  <2>1. storage' = t
    BY <1>1, <1>5 DEF StorageTypeOK, IsFunction
  <2>2. b.begin + 1 \in Nat
    BY <1>1
  <2> HIDE DEF b, o, pages, t
  <2>3. IsBook(book, b.begin + 1, b.end, b.count, b.message_count, b.ready)
    BY <1>1, <2>2, BookParts, BookChanges DEF b
  <2> HIDE DEF book
  <2>4. IsReplaced(storage, o, book, pages, storage')
    BY <1>1, <2>1, <2>3, QueueReplaced DEF IsBook, t, pages
  <2>5. PagesInv(book, pages, sent[o], executed[o], reaped[o])
    <3>1. b.begin < b.end /\ b.begin \notin DOMAIN pages
      BY <1>1, <1>5 DEF b, pages, o
    <3>2. /\ book \in Books /\ book.begin = b.begin + 1 /\ book.end = b.end
          /\ book.count = b.count /\ book.message_count = b.message_count
      BY <2>3 DEF IsBook
    <3>3. PagesInv(b, pages, sent[o], executed[o], reaped[o]) /\ b \in Books /\ PageTable(pages)
      BY <1>1 DEF b, pages
    <3> QED
      BY <1>1, <3>1, <3>2, <3>3, PagePassed
  <2>6. IsLoop(loop', loop.at, loop.queue, loop.weight - PageWeight, loop.limit,
               loop.progressed, loop.last)
    BY <1>1, <1>2, <1>5, LoopParts, LoopChanges
  <2>7. PlaceOK(storage', loop')
    BY <1>0, <1>1, <2>6, QueueAssumption DEF PlaceOK, IsLoop, o
  <2>8. HistoryOK(sent', executed', reaped')
    BY <1>0, <1>1 DEF StateInv
  <2>9. /\ book.begin >= storage.book[o].begin /\ loop.queue = o /\ book \in Books
        /\ book.ready = storage.book[o].ready /\ book.end = storage.book[o].end
    BY <1>1, <2>3 DEF IsBook, b, o
  <2>10. loop' \in Loops /\ loop'.queue = loop.queue /\ loop'.at = "page"
    BY <1>0, <2>6 DEF IsLoop
  <2> QED
    BY <1>0, <1>1, <2>4, <2>5, <2>7, <2>8, <2>9, <2>10, QueueStep DEF pages
<1> QED
  BY <1>3, <1>4, <1>5 DEF ServicePage

LEMMA EndPageStep ==
    ASSUME QueueInv, EndPage
    PROVE  StepOK
<1> DEFINE o == loop.queue
           b == storage.book[o]
           p == b.begin
           old == storage.pages[o]
           empty == old[p].remaining = 0
           count == IF empty THEN b.count - 1 ELSE b.count
           pages == IF empty THEN WithoutPage(old, p) ELSE old
           b1 == [b EXCEPT !.count = count]
           book == [b1 EXCEPT !.begin = b.begin + 1]
           w == IF empty THEN loop.weight ELSE loop.weight - ItemWeight
<1>0. loop.at = "item" /\ sent' = sent /\ executed' = executed /\ reaped' = reaped
  BY DEF EndPage
<1>1. /\ o \in Origins /\ loop.weight \in Int /\ loop \in Loops
      /\ StateInv(storage, loop, sent, executed, reaped) /\ StorageTypeOK(storage)
      /\ sent[o] \in Nat
      /\ PagesInv(b, old, sent[o], executed[o], reaped[o])
      /\ Book = b /\ b \in Books /\ PageTable(old)
      /\ b.begin \in Nat /\ b.end \in Nat /\ b.begin < b.end
      /\ p \in DOMAIN old /\ Page = old[p] /\ old[p] \in PageRecords
  BY <1>0, LoopFacts
<1>2. w \in Int /\ "page" \in Stages
  <2>1. loop.weight \in Int /\ ItemWeight \in Nat
    BY <1>1, QueueAssumption
  <2> HIDE DEF empty
  <2> QED
    BY <2>1 DEF Stages
<1>3. loop' = [loop EXCEPT !.at = "page", !.weight = w]
  BY <1>1 DEF EndPage
<1>4. storage' = [storage EXCEPT !.book[o] = book, !.pages[o] = pages]
  <2>1. storage' = [storage EXCEPT !.pages[o] = pages, !.book[o].count = count,
                                   !.book[o].begin = b.begin + 1]
    BY <1>1 DEF EndPage
  <2> HIDE DEF pages, count, o, empty
  <2> QED
    BY <1>1, <2>1 DEF StorageTypeOK
<1>5. empty \/ old[p].first = Len(old[p].items)
  BY <1>1 DEF EndPage
<1>6. b.count \in Int /\ count \in Int /\ b.begin + 1 \in Nat
  <2> HIDE DEF b, empty
  <2>1. b.count \in Int /\ b.begin \in Nat
    BY <1>1 DEF Books
  <2> QED
    BY <2>1
<1> HIDE DEF w, o
<1>7. IsLoop(loop', "page", loop.queue, w, loop.limit, loop.progressed, loop.last)
  BY <1>1, <1>2, <1>3, LoopMovesOn
<1>8. /\ IsBook(b1, b.begin, b.end, count, b.message_count, b.ready)
      /\ IsBook(book, b.begin + 1, b.end, count, b.message_count, b.ready)
  <2> HIDE DEF b, count
  <2>1. IsBook(b1, b.begin, b.end, count, b.message_count, b.ready)
    BY <1>1, <1>6, BookParts, BookChanges
  <2> HIDE DEF b1
  <2> QED
    BY <1>6, <2>1, BookChanges
<1> HIDE DEF b1, book
<1>9. PageTable(pages) /\ PagesInv(book, pages, sent[o], executed[o], reaped[o])
  <2>1. CASE empty
    <3>1. /\ b1 \in Books /\ b1.begin = b.begin /\ b1.end = b.end
          /\ b1.count = b.count - 1 /\ b1.message_count = b.message_count
      BY <1>8, <2>1 DEF IsBook
    <3>2. p = b.begin /\ old[p].remaining = 0
      BY <2>1
    <3>3. pages = WithoutPage(old, p)
      BY <2>1
    <3> HIDE DEF b, p, old, pages, empty
    <3>4. PagesInv(b1, pages, sent[o], executed[o], reaped[o]) /\ PageTable(pages)
      BY <1>1, <3>1, <3>2, <3>3, EmptyPageRemoved
    <3>5. b1.begin \notin DOMAIN pages
      BY <3>1, <3>2, <3>3 DEF WithoutPage, Restrict
    <3>6. /\ book \in Books /\ book.begin = b1.begin + 1 /\ book.end = b1.end
          /\ book.count = b1.count /\ book.message_count = b1.message_count
          /\ b1.begin < b1.end
      BY <1>1, <1>8 DEF IsBook
    <3> QED
      BY <1>1, <3>1, <3>4, <3>5, <3>6, PagePassed
  <2>2. CASE ~empty
    <3>1. pages = old /\ old[p].first = Len(old[p].items) /\ p = b.begin /\ count = b.count
      BY <1>5, <2>2
    <3> HIDE DEF b, p, old, pages, empty, count
    <3>2. /\ book \in Books /\ book.begin = b.begin + 1 /\ book.end = b.end
          /\ book.count = b.count /\ book.message_count = b.message_count
      BY <1>8, <3>1 DEF IsBook
    <3> QED
      BY <1>1, <3>1, <3>2, PagePassed
  <2> QED
    BY <2>1, <2>2
<1> HIDE DEF pages, count, empty
<1>10. IsReplaced(storage, o, book, pages, storage')
  <2>1. book \in Books
    BY <1>8 DEF IsBook
  <2> QED
    BY <1>1, <1>4, <1>9, <2>1, QueueReplaced
<1>11. PlaceOK(storage', loop')
  BY <1>1, <1>7, QueueAssumption DEF PlaceOK, IsLoop, o
<1>12. HistoryOK(sent', executed', reaped')
  BY <1>0, <1>1 DEF StateInv
<1>13. /\ book.begin >= storage.book[o].begin /\ loop.queue = o /\ book \in Books
       /\ book.ready = storage.book[o].ready /\ book.end = storage.book[o].end
  BY <1>1, <1>8 DEF IsBook, o
<1>14. loop' \in Loops /\ loop'.queue = loop.queue /\ loop'.at = "page"
  BY <1>7 DEF IsLoop
<1> QED
  BY <1>0, <1>1, <1>9, <1>10, <1>11, <1>12, <1>13, <1>14, QueueStep

LEMMA EnqueueMessageStep ==
    ASSUME QueueInv, NEW request \in Requests, EnqueueMessage(request)
    PROVE  StepOK
<1>1. /\ loop.at = "idle" /\ storage' = Served(storage, request) /\ NoteSent(request)
      /\ loop' = loop /\ executed' = executed /\ reaped' = reaped
  BY DEF EnqueueMessage
<1>2. StateInv(storage, loop, sent, executed, reaped)
  BY InvOfState
<1>3. ServedOK(storage, loop, sent, executed, reaped, storage', sent')
  BY <1>1, RequestServed
<1>4. HistoryOK(sent', executed', reaped') /\ loop' \in Loops /\ PlaceOK(storage', loop')
  BY <1>1, <1>2, <1>3 DEF StateInv, HistoryOK, ServedOK, PlaceOK
<1>5. StateInv(storage', loop', sent', executed', reaped')
  BY <1>1, <1>3, <1>4 DEF StateInv, ServedOK, IsSound
<1> QED
  BY <1>1, <1>3, <1>5, InvOfNextState DEF StepOK, ServedOK

LEMMA SkipItemStep ==
    ASSUME QueueInv, SkipItem
    PROVE  StepOK
<1> DEFINE o == loop.queue
           b == storage.book[o]
           p == b.begin
           old == storage.pages[o]
           page == [old[p] EXCEPT !.first = old[p].first + 1]
           pages == WithPage(old, p, page)
<1>0. /\ loop.at = "item" /\ sent' = sent /\ executed' = executed /\ reaped' = reaped
      /\ loop' = [loop EXCEPT !.weight = WeightForItem]
  BY DEF SkipItem, HasItem
<1>1. /\ o \in Origins /\ loop.weight \in Int /\ loop \in Loops
      /\ StateInv(storage, loop, sent, executed, reaped) /\ StorageTypeOK(storage)
      /\ sent[o] \in Nat
      /\ PagesInv(b, old, sent[o], executed[o], reaped[o])
      /\ Book = b /\ b \in Books /\ PageTable(old)
      /\ p \in DOMAIN old /\ Page = old[p] /\ old[p] \in PageRecords
  BY <1>0, LoopFacts
<1>2. WeightForItem \in Int
  BY <1>1, QueueAssumption DEF WeightForItem
<1>3. old[p].first < Len(old[p].items)
  BY <1>1 DEF SkipItem, HasItem
<1>4. old[p].first + 1 \in Nat
  BY <1>1, FirstPlace
<1>5. storage' = [storage EXCEPT !.book[o] = b, !.pages[o] = pages]
  <2>1. storage' = [storage EXCEPT !.pages[o] = pages]
    BY <1>1 DEF SkipItem
  <2> HIDE DEF pages, o
  <2> QED
    BY <1>1, <2>1 DEF StorageTypeOK
<1> HIDE DEF o, b, old, p
<1>6. IsPage(page, old[p].items, old[p].first + 1, old[p].remaining)
  BY <1>1, <1>4, PageParts, PageChanges
<1> HIDE DEF page
<1>7. IsWithPage(old, p, page, pages)
  <2>1. page \in PageRecords
    BY <1>6 DEF IsPage
  <2> QED
    BY <1>1, <2>1, WithPageFields
<1> HIDE DEF pages
<1>8. /\ PageTable(pages) /\ DOMAIN pages = DOMAIN old
      /\ \A q \in DOMAIN old : q # p => pages[q] = old[q]
      /\ pages[p].items = old[p].items /\ pages[p].remaining = old[p].remaining
      /\ pages[p].first = old[p].first + 1
  BY <1>1, <1>6, <1>7 DEF IsWithPage, IsPage
<1>9. PagesInv(b, pages, sent[o], executed[o], reaped[o])
  <2>1. p = b.begin
    BY DEF p
  <2> QED
    BY <1>1, <1>3, <1>8, <2>1, FirstSkipped
<1>10. IsReplaced(storage, o, b, pages, storage')
  BY <1>1, <1>5, <1>8, QueueReplaced
<1>11. IsLoop(loop', loop.at, loop.queue, WeightForItem, loop.limit, loop.progressed, loop.last)
  BY <1>0, <1>1, <1>2, LoopParts, LoopChanges
<1>12. loop' \in Loops /\ loop'.queue = loop.queue /\ loop'.at = "item" /\ loop.queue = o
  BY <1>0, <1>11 DEF IsLoop, o
<1>13. PlaceOK(storage', loop')
  <2>1. storage'.book[o] = b /\ storage'.pages[o] = pages
    BY <1>10 DEF IsReplaced
  <2> QED
    BY <1>1, <1>8, <1>12, <2>1, QueueAssumption DEF PlaceOK, p
<1>14. HistoryOK(sent', executed', reaped')
  BY <1>0, <1>1 DEF StateInv
<1>15. b = storage.book[o]
  BY DEF b
<1> QED
  BY <1>0, <1>1, <1>8, <1>9, <1>10, <1>12, <1>13, <1>14, <1>15, QueueStep

LEMMA ProcessItemStep ==
    ASSUME QueueInv, NEW request \in Requests, ProcessItem(request)
    PROVE  StepOK
<1> DEFINE o == loop.queue
           p == storage.book[o].begin
           s == Served(storage, request)
           id == storage.pages[o][p].items[storage.pages[o][p].first + 1].id
           done == [executed EXCEPT ![o] = @ \cup {id}]
           w == WeightForItem - Item.weight
<1>0. loop.at = "item" /\ NoteSent(request) /\ reaped' = reaped
  BY DEF ProcessItem, HasItem
<1>1. /\ o \in Origins /\ loop.weight \in Int /\ loop \in Loops
      /\ StateInv(storage, loop, sent, executed, reaped) /\ StorageTypeOK(storage)
      /\ Book = storage.book[o] /\ PageTable(storage.pages[o])
      /\ p \in DOMAIN storage.pages[o] /\ Page = storage.pages[o][p]
  BY <1>0, LoopFacts
<1>2. /\ storage.pages[o][p].first < Len(storage.pages[o][p].items)
      /\ storage' = ItemProcessed(s, o, p)
      /\ Item.id = id
  BY <1>1 DEF ProcessItem, HasItem, Restored, Item
<1>3. executed' = done /\ loop' = [loop EXCEPT !.progressed = TRUE, !.weight = w]
  BY <1>2 DEF ProcessItem
<1>4. ServedOK(storage, loop, sent, executed, reaped, s, sent')
  BY <1>0, RequestServed
<1> HIDE DEF s
<1>5. /\ IsSound(storage, s) /\ StorageTypeOK(s) /\ RingInv(s) /\ sent' \in [Origins -> Nat]
      /\ PagesOK(s, sent', executed, reaped) /\ WaitingAreReady(s) /\ ReadyAreServed(s, loop)
      /\ s.book[o].begin = p /\ KeepsPlaces(storage.pages[o], s.pages[o])
  BY <1>1, <1>4 DEF ServedOK, IsSound
<1> DEFINE k == storage.pages[o][p].first + 1
<1>6. /\ k \in DOMAIN storage.pages[o][p].items /\ k \in Nat
      /\ storage.pages[o][p].items[k].id \in Nat
      /\ storage.pages[o][p].items[k].weight \in Int
  <2>1. k \in DOMAIN storage.pages[o][p].items /\ k \in Nat
    BY <1>1, <1>2, FirstPlace
  <2> HIDE DEF k
  <2>2. storage.pages[o][p].items[k] \in Messages
    BY <1>1, <2>1, PageFacts
  <2> DEFINE m == storage.pages[o][p].items[k]
  <2> HIDE DEF m
  <2>3. m \in Messages
    BY <2>2 DEF m
  <2>4. m.id \in Nat /\ m.weight \in Int
    BY <2>3 DEF Messages
  <2> QED
    BY <2>1, <2>4 DEF m
<1>7. /\ p \in DOMAIN s.pages[o] /\ s.pages[o][p].first + 1 = k
      /\ k \in DOMAIN s.pages[o][p].items
      /\ s.pages[o][p].items[k] = storage.pages[o][p].items[k]
  BY <1>1, <1>5, <1>6 DEF KeepsPlaces
<1>8. s.pages[o][p].first < Len(s.pages[o][p].items)
  <2>1. PageTable(s.pages[o])
    BY <1>1, <1>5, StorageFacts
  <2> QED
    BY <1>7, <2>1, FirstPlace
<1>9. id = s.pages[o][p].items[s.pages[o][p].first + 1].id /\ id \in Nat
  BY <1>6, <1>7
<1> HIDE DEF k, id, p, o
<1>10. /\ IsSound(s, storage') /\ ReadyQueues(storage') = ReadyQueues(s)
       /\ OthersStay(s, o, storage')
       /\ storage'.book[o].begin = s.book[o].begin /\ storage'.book[o].end = s.book[o].end
       /\ p \in DOMAIN storage'.pages[o]
       /\ PagesInv(storage'.book[o], storage'.pages[o], sent'[o], executed[o] \cup {id}, reaped[o])
  <2>1. sent'[o] \in Nat /\ PagesInv(s.book[o], s.pages[o], sent'[o], executed[o], reaped[o])
    BY <1>1, <1>5 DEF PagesOK
  <2>2. p = s.book[o].begin
    BY <1>5
  <2>3. HasProcessed(s, o, p, ItemProcessed(s, o, p), sent'[o],
                     executed[o] \cup {s.pages[o][p].items[s.pages[o][p].first + 1].id}, reaped[o])
    BY <1>1, <1>5, <1>7, <1>8, <2>1, <2>2, ProcessedInStorage
  <2> QED
    BY <1>2, <1>9, <2>3 DEF HasProcessed
<1>11. /\ executed' \in [Origins -> SUBSET Nat] /\ executed'[o] = executed[o] \cup {id}
       /\ \A x \in Origins : x # o => executed'[x] = executed[x]
  BY <1>1, <1>3, <1>9 DEF StateInv, HistoryOK
<1>12. PagesOK(storage', sent', executed', reaped')
  <2>1. PagesInv(storage'.book[o], storage'.pages[o], sent'[o], executed'[o], reaped'[o])
    BY <1>0, <1>10, <1>11
  <2>2. \A x \in Origins : x # o =>
          sent'[x] = sent'[x] /\ executed'[x] = executed[x] /\ reaped'[x] = reaped[x]
    BY <1>0, <1>11
  <2> QED
    BY <1>1, <1>5, <1>10, <2>1, <2>2, OneQueueChanged
<1>13. w \in Int
  <2>1. Item.weight = storage.pages[o][p].items[k].weight
    BY <1>1 DEF Item, k
  <2>2. WeightForItem \in Int
    BY <1>1, QueueAssumption DEF WeightForItem
  <2> QED
    BY <1>6, <2>1, <2>2
<1> HIDE DEF w
<1>14. IsLoop(loop', loop.at, loop.queue, w, loop.limit, TRUE, loop.last)
  <2> DEFINE l == [loop EXCEPT !.progressed = TRUE]
  <2>1. loop' = [l EXCEPT !.weight = w]
    BY <1>3
  <2>2. IsLoop(l, loop.at, loop.queue, loop.weight, loop.limit, TRUE, loop.last)
    BY <1>1, LoopParts, LoopChanges
  <2> HIDE DEF l
  <2> QED
    BY <1>13, <2>1, <2>2, LoopChanges
<1>15. loop' \in Loops /\ loop'.at = "item" /\ loop'.queue = o /\ loop.queue = o
  BY <1>0, <1>14 DEF IsLoop, o
<1>16. \A x \in Origins : storage'.book[x].begin = s.book[x].begin
                          /\ storage'.book[x].end = s.book[x].end
  BY <1>10 DEF OthersStay
<1>17. WaitingAreReady(storage') /\ ReadyAreServed(storage', loop')
  <2>1. WaitingAreReady(storage')
    BY <1>5, <1>10, <1>16 DEF WaitingAreReady
  <2>2. ReadyAreServed(storage', loop')
    BY <1>0, <1>5, <1>10, <1>15, <1>16 DEF ReadyAreServed, ReadyQueues
  <2> QED
    BY <2>1, <2>2
<1>18. PlaceOK(storage', loop')
  BY <1>1, <1>5, <1>10, <1>15, QueueAssumption DEF PlaceOK
<1>19. HistoryOK(sent', executed', reaped')
  BY <1>0, <1>1, <1>5, <1>11 DEF StateInv, HistoryOK
<1>20. StateInv(storage', loop', sent', executed', reaped')
  BY <1>10, <1>12, <1>15, <1>17, <1>18, <1>19 DEF StateInv, IsSound
<1>21. IsSound(storage, storage')
  <2>1. ReadyQueues(storage) \cap ReadyQueues(storage') \subseteq ReadyQueues(s)
    BY <1>10
  <2> QED
    BY <1>5, <1>10, <2>1 DEF IsSound
<1> QED
  BY <1>0, <1>20, <1>21, InvOfNextState DEF StepOK

LEMMA LeaveQueueStep ==
    ASSUME QueueInv, LeaveQueue
    PROVE  StepOK
<1> DEFINE o == loop.queue
<1>0. /\ loop.at = "leave" /\ sent' = sent /\ executed' = executed /\ reaped' = reaped
      /\ loop' = NextQueue(loop, Book.ready.next)
  BY DEF LeaveQueue
<1>1. /\ o \in Origins /\ loop \in Loops
      /\ StateInv(storage, loop, sent, executed, reaped) /\ StorageTypeOK(storage)
      /\ RingInv(storage) /\ Book = storage.book[o]
      /\ Book.begin \in Nat /\ Book.end \in Nat /\ Book.begin <= Book.end
      /\ Book.ready.next \in Origins \cup {NoOrigin}
  BY <1>0, LoopFacts
<1>2. /\ loop' \in Loops /\ loop'.at \in {"idle", "queue"}
      /\ loop'.at = "idle" <=> loop'.queue = NoOrigin
  BY <1>0, <1>1, NextQueueOK
<1>3. \A t : PlaceOK(t, loop')
  BY <1>2 DEF PlaceOK
<1>4. CASE Book.begin >= Book.end /\ IsReady(storage, o)
  <2>1. storage' = Unknit(storage, o)
    BY <1>4 DEF LeaveQueue
  <2>2. IsUnknitted(storage, o, storage')
    BY <1>1, <1>4, <2>1, TakenOut
  <2>3. /\ IsSound(storage, storage') /\ SameQueues(storage, storage')
        /\ ReadyQueues(storage') = ReadyQueues(storage) \ {o}
    BY <2>2 DEF IsUnknitted, IsSound
  <2>4. OthersStay(storage, o, storage')
    BY <2>3 DEF SameQueues, OthersStay
  <2>5. PagesOK(storage', sent', executed', reaped')
    <3>1. PagesInv(storage.book[o], storage.pages[o], sent[o], executed[o], reaped[o])
          /\ PagesOK(storage, sent, executed, reaped)
      BY <1>1 DEF StateInv, PagesOK
    <3>2. /\ storage'.pages[o] = storage.pages[o]
          /\ storage'.book[o].begin = storage.book[o].begin
          /\ storage'.book[o].end = storage.book[o].end
          /\ storage'.book[o].count = storage.book[o].count
          /\ storage'.book[o].message_count = storage.book[o].message_count
      BY <1>1, <2>3 DEF SameQueues
    <3>3. PagesInv(storage'.book[o], storage.pages[o], sent[o], executed[o], reaped[o])
      BY <3>1, <3>2, NeighboursDoNotMatter
    <3>4. PagesInv(storage'.book[o], storage'.pages[o], sent'[o], executed'[o], reaped'[o])
      BY <1>0, <3>2, <3>3
    <3> QED
      BY <1>0, <1>1, <2>4, <3>1, <3>4, OneQueueChanged
  <2>6. \A x \in Origins : storage'.book[x].begin = storage.book[x].begin
                           /\ storage'.book[x].end = storage.book[x].end
    BY <2>3 DEF SameQueues
  <2>7. WaitingAreReady(storage')
    BY <1>1, <1>4, <2>3, <2>6 DEF StateInv, WaitingAreReady
  <2>8. ReadyAreServed(storage', loop')
    BY <1>1, <2>3, <2>6 DEF StateInv, ReadyAreServed, ReadyQueues
  <2>9. StateInv(storage', loop', sent', executed', reaped')
    BY <1>0, <1>1, <1>2, <1>3, <2>3, <2>5, <2>7, <2>8 DEF StateInv, IsSound
  <2> QED
    BY <1>0, <2>3, <2>9, InvOfNextState DEF StepOK
<1>5. CASE ~(Book.begin >= Book.end /\ IsReady(storage, o))
  <2>1. storage' = storage
    BY <1>5 DEF LeaveQueue
  <2>2. ReadyAreServed(storage, loop')
    BY <1>1, <1>5 DEF StateInv, ReadyAreServed, ReadyQueues
  <2> QED
    BY <1>0, <1>2, <1>3, <2>1, <2>2, LoopStep
<1> QED
  BY <1>4, <1>5

\* The facts about a queue that a call from outside of the service loop changes.
LEMMA CallFacts ==
    ASSUME QueueInv, NEW o \in Origins
    PROVE  /\ StateInv(storage, loop, sent, executed, reaped)
           /\ StorageTypeOK(storage) /\ RingInv(storage) /\ loop \in Loops
           /\ sent[o] \in Nat
           /\ PagesInv(storage.book[o], storage.pages[o], sent[o], executed[o], reaped[o])
           /\ storage.book[o] \in Books /\ PageTable(storage.pages[o])
           /\ storage.book[o].begin \in Nat /\ storage.book[o].end \in Nat
           /\ storage.book[o].count \in Int /\ storage.book[o].message_count \in Int
<1>1. /\ StateInv(storage, loop, sent, executed, reaped)
      /\ StorageTypeOK(storage) /\ RingInv(storage) /\ loop \in Loops
  BY InvOfState DEF StateInv
<1> QED
  BY <1>1, StorageFacts DEF StateInv, HistoryOK, PagesOK

LEMMA ExecuteOverweightStep ==
    ASSUME QueueInv, NEW o \in Origins, NEW p \in DOMAIN storage.pages[o],
           NEW i \in DOMAIN storage.pages[o][p].items, ExecuteOverweight(o, p, i, <<>>)
    PROVE  StepOK
<1> DEFINE b == storage.book[o]
           old == storage.pages[o]
           page == old[p]
           drained == page.remaining = 1
           items == [page.items EXCEPT ![i].processed = TRUE]
           kept == [page EXCEPT !.items = items, !.remaining = page.remaining - 1]
           marked == WithPage(old, p, kept)
           pages == IF drained THEN WithoutPage(old, p) ELSE marked
           b1 == [b EXCEPT !.message_count = b.message_count - 1]
           count == IF drained THEN b.count - 1 ELSE b.count
           book == [b1 EXCEPT !.count = count]
           id == page.items[i].id
<1>0. /\ loop.at = "idle" /\ loop' = loop /\ sent' = sent /\ reaped' = reaped
      /\ executed' = [executed EXCEPT ![o] = @ \cup {id}]
      /\ p < b.begin \/ (p = b.begin /\ i <= page.first)
      /\ ~page.items[i].processed
  BY DEF ExecuteOverweight, NoteSent
<1>1. /\ StateInv(storage, loop, sent, executed, reaped)
      /\ StorageTypeOK(storage) /\ RingInv(storage) /\ loop \in Loops /\ sent[o] \in Nat
      /\ PagesInv(b, old, sent[o], executed[o], reaped[o])
      /\ b \in Books /\ PageTable(old)
      /\ b.begin \in Nat /\ b.end \in Nat /\ b.count \in Int /\ b.message_count \in Int
  BY CallFacts
<1>2. storage' = [storage EXCEPT !.book[o] = book, !.pages[o] = pages]
  <2> DEFINE changed == [page EXCEPT !.items[i].processed = TRUE, !.remaining = @ - 1]
             bk == [b EXCEPT !.message_count = @ - 1, !.count = IF drained THEN @ - 1 ELSE @]
  <2>1. changed = kept
    OBVIOUS
  <2>2. bk = book
    <3> HIDE DEF drained
    <3> QED
      BY <1>1 DEF Books
  <2>3. storage' = [storage EXCEPT
                      !.pages[o] = IF drained THEN WithoutPage(@, p) ELSE WithPage(@, p, changed),
                      !.book[o] = bk]
    BY DEF ExecuteOverweight, Served
  <2> HIDE DEF changed, bk, kept, book, drained
  <2> QED
    BY <1>1, <2>1, <2>2, <2>3 DEF StorageTypeOK
<1>3. /\ page \in PageRecords /\ page.items \in Seq(Messages) /\ page.first \in Nat
      /\ page.remaining \in Int /\ id \in Nat
  BY <1>1, PageFacts DEF PageTable
<1>4. page.remaining - 1 \in Int /\ b.message_count - 1 \in Int /\ count \in Int
  <2>1. page.remaining \in Int
    BY <1>3
  <2> HIDE DEF page
  <2> QED
    BY <1>1, <2>1
<1>5. /\ items \in Seq(Messages) /\ DOMAIN items = DOMAIN page.items
      /\ items[i].id = page.items[i].id /\ items[i].processed
      /\ \A j \in DOMAIN page.items : j # i => items[j] = page.items[j]
  <2> HIDE DEF page
  <2>1. i \in DOMAIN page.items
    BY DEF page
  <2> QED
    BY <1>3, <2>1, MarkedItems
<1> HIDE DEF items
<1>6. IsPage(kept, items, page.first, page.remaining - 1)
  <2> DEFINE q1 == [page EXCEPT !.items = items]
  <2>1. kept = [q1 EXCEPT !.remaining = page.remaining - 1]
    OBVIOUS
  <2> HIDE DEF page, kept
  <2>2. IsPage(q1, items, page.first, page.remaining)
    BY <1>3, <1>5, PageParts, PageChanges
  <2> HIDE DEF q1
  <2> QED
    BY <1>4, <2>1, <2>2, PageChanges
<1>7. IsWithPage(old, p, kept, marked)
  <2> HIDE DEF kept
  <2>1. kept \in PageRecords
    BY <1>6 DEF IsPage
  <2> QED
    BY <1>1, <2>1, WithPageFields
<1>8. /\ IsBook(b1, b.begin, b.end, b.count, b.message_count - 1, b.ready)
      /\ IsBook(book, b.begin, b.end, count, b.message_count - 1, b.ready)
  <2> HIDE DEF b, count
  <2>1. IsBook(b1, b.begin, b.end, b.count, b.message_count - 1, b.ready)
    BY <1>1, <1>4, BookParts, BookChanges
  <2> HIDE DEF b1
  <2> QED
    BY <1>4, <2>1, BookChanges
<1> HIDE DEF b1, book, marked, kept
<1>9. /\ PageTable(marked) /\ DOMAIN marked = DOMAIN old
      /\ \A q \in DOMAIN old : q # p => marked[q] = old[q]
      /\ marked[p].items = items /\ marked[p].first = old[p].first
      /\ marked[p].remaining = old[p].remaining - 1
  BY <1>6, <1>7 DEF IsWithPage, IsPage
<1>10. PagesInv(b1, marked, sent[o], executed[o] \cup {id}, reaped[o])
  <2>1. /\ DOMAIN marked[p].items = DOMAIN old[p].items
        /\ \A j \in DOMAIN old[p].items : j # i => marked[p].items[j] = old[p].items[j]
        /\ marked[p].items[i].id = old[p].items[i].id /\ marked[p].items[i].processed
        /\ ~old[p].items[i].processed
        /\ p < b.begin \/ i <= old[p].first
    BY <1>0, <1>5, <1>9
  <2>2. /\ b1 \in Books /\ b1.begin = b.begin /\ b1.end = b.end /\ b1.count = b.count
        /\ b1.message_count = b.message_count - 1
    BY <1>8 DEF IsBook
  <2>3. p \in DOMAIN old /\ i \in DOMAIN old[p].items
    OBVIOUS
  <2> HIDE DEF b, old
  <2>4. IsMarked(old, p, i, marked)
    BY <1>9, <2>1 DEF IsMarked
  <2>5. PagesInv(b1, marked, sent[o], executed[o] \cup {old[p].items[i].id}, reaped[o])
    BY <1>1, <2>1, <2>2, <2>3, <2>4, MessageMarked
  <2> QED
    BY <2>5
<1>11. PageTable(pages) /\ PagesInv(book, pages, sent[o], executed[o] \cup {id}, reaped[o])
  <2>1. CASE drained
    <3>1. pages = WithoutPage(marked, p)
      BY <1>9, <2>1 DEF WithoutPage, Restrict
    <3>2. marked[p].remaining = 0 /\ (p < b1.begin \/ p = b1.begin) /\ p \in DOMAIN marked
      BY <1>0, <1>8, <1>9, <2>1 DEF IsBook
    <3>3. /\ b1 \in Books /\ book \in Books /\ book.begin = b1.begin /\ book.end = b1.end
          /\ book.count = b1.count - 1 /\ book.message_count = b1.message_count
      BY <1>8, <2>1 DEF IsBook
    <3> HIDE DEF id, pages
    <3> QED
      BY <1>1, <1>9, <1>10, <3>1, <3>2, <3>3, EmptyPageRemoved
  <2>2. CASE ~drained
    <3>1. pages = marked /\ count = b.count
      BY <2>2
    <3>2. /\ book.begin = b1.begin /\ book.end = b1.end
          /\ book.count = b1.count /\ book.message_count = b1.message_count
      BY <1>8, <3>1 DEF IsBook
    <3> HIDE DEF id, pages
    <3> QED
      BY <1>9, <1>10, <3>1, <3>2, NeighboursDoNotMatter
  <2> QED
    BY <2>1, <2>2
<1> HIDE DEF pages, id, count
<1>12. /\ book \in Books /\ book.begin = b.begin /\ book.end = b.end /\ book.ready = b.ready
  BY <1>8 DEF IsBook
<1>13. IsReplaced(storage, o, book, pages, storage')
  BY <1>1, <1>2, <1>11, <1>12, QueueReplaced
<1>14. /\ executed' \in [Origins -> SUBSET Nat] /\ executed'[o] = executed[o] \cup {id}
       /\ \A x \in Origins : x # o => executed'[x] = executed[x]
  BY <1>0, <1>1, <1>3 DEF StateInv, HistoryOK
<1>15. HistoryOK(sent', executed', reaped')
  BY <1>0, <1>1, <1>14 DEF StateInv, HistoryOK
<1>16. PlaceOK(storage', loop')
  BY <1>0, <1>1 DEF StateInv, PlaceOK
<1>17. PagesInv(book, pages, sent'[o], executed'[o], reaped'[o])
  BY <1>0, <1>11, <1>14
<1>18. \A x \in Origins : x # o =>
         sent'[x] = sent[x] /\ executed'[x] = executed[x] /\ reaped'[x] = reaped[x]
  BY <1>0, <1>14
<1> QED
  BY <1>0, <1>11, <1>12, <1>13, <1>15, <1>16, <1>17, <1>18, QueueStep

LEMMA ReapPageStep ==
    ASSUME QueueInv, NEW o \in Origins, NEW p \in DOMAIN storage.pages[o], ReapPage(o, p)
    PROVE  StepOK
<1> DEFINE b == storage.book[o]
           old == storage.pages[o]
           page == old[p]
           numbers == NumbersToDo(page)
           pages == WithoutPage(old, p)
           b1 == [b EXCEPT !.count = b.count - 1]
           book == [b1 EXCEPT !.message_count = b.message_count - page.remaining]
<1>0. /\ loop.at = "idle" /\ loop' = loop /\ sent' = sent /\ executed' = executed
      /\ reaped' = [reaped EXCEPT ![o] = @ \cup numbers]
      /\ p < b.begin
  BY DEF ReapPage, NumbersToDo
<1>1. /\ StateInv(storage, loop, sent, executed, reaped)
      /\ StorageTypeOK(storage) /\ RingInv(storage) /\ loop \in Loops /\ sent[o] \in Nat
      /\ PagesInv(b, old, sent[o], executed[o], reaped[o])
      /\ b \in Books /\ PageTable(old)
      /\ b.begin \in Nat /\ b.end \in Nat /\ b.count \in Int /\ b.message_count \in Int
  BY CallFacts
<1>2. storage' = [storage EXCEPT !.book[o] = book, !.pages[o] = pages]
  <2>1. storage' = [storage EXCEPT !.pages[o] = pages, !.book[o].count = b.count - 1,
                                   !.book[o].message_count = b.message_count - page.remaining]
    BY <1>1 DEF ReapPage, StorageTypeOK
  <2> HIDE DEF pages
  <2> QED
    BY <1>1, <2>1 DEF StorageTypeOK
<1>3. b.count - 1 \in Int /\ b.message_count - page.remaining \in Int
  <2>1. page.remaining \in Int
    BY <1>1, PageFacts
  <2> HIDE DEF page
  <2> QED
    BY <1>1, <2>1
<1>4. IsBook(book, b.begin, b.end, b.count - 1, b.message_count - page.remaining, b.ready)
  <2> HIDE DEF b, page
  <2>1. IsBook(b1, b.begin, b.end, b.count - 1, b.message_count, b.ready)
    BY <1>1, <1>3, BookParts, BookChanges
  <2> HIDE DEF b1
  <2> QED
    BY <1>3, <2>1, BookChanges
<1> HIDE DEF b1, book
<1>5. /\ book \in Books /\ book.begin = b.begin /\ book.end = b.end /\ book.ready = b.ready
      /\ book.count = b.count - 1 /\ book.message_count = b.message_count - page.remaining
  BY <1>4 DEF IsBook
<1>6. PageTable(pages) /\ PagesInv(book, pages, sent[o], executed[o], reaped[o] \cup numbers)
  <2>1. p \in DOMAIN old
    OBVIOUS
  <2> HIDE DEF b, old
  <2> QED
    BY <1>0, <1>1, <1>5, <2>1, PageRemoved
<1>7. numbers \subseteq Nat
  <2>1. \A i \in ToDo(page) : page.items[i].id \in Nat
    BY <1>1, PageFacts DEF ToDo
  <2> QED
    BY <2>1, InNumbersToDo
<1> HIDE DEF pages, numbers, page
<1>8. IsReplaced(storage, o, book, pages, storage')
  BY <1>1, <1>2, <1>5, <1>6, QueueReplaced
<1>9. /\ reaped' \in [Origins -> SUBSET Nat] /\ reaped'[o] = reaped[o] \cup numbers
      /\ \A x \in Origins : x # o => reaped'[x] = reaped[x]
  BY <1>0, <1>1, <1>7 DEF StateInv, HistoryOK
<1>10. HistoryOK(sent', executed', reaped')
  BY <1>0, <1>1, <1>9 DEF StateInv, HistoryOK
<1>11. PlaceOK(storage', loop')
  BY <1>0, <1>1 DEF StateInv, PlaceOK
<1>12. PagesInv(book, pages, sent'[o], executed'[o], reaped'[o])
  BY <1>0, <1>6, <1>9
<1>13. \A x \in Origins : x # o =>
         sent'[x] = sent[x] /\ executed'[x] = executed[x] /\ reaped'[x] = reaped[x]
  BY <1>0, <1>9
<1> QED
  BY <1>0, <1>5, <1>6, <1>8, <1>10, <1>11, <1>12, <1>13, QueueStep

\* A change of the ring alone.
LEMMA OnlyTheRingChanged ==
    ASSUME NEW s, NEW t, NEW n, NEW done, NEW gone, PagesOK(s, n, done, gone), SameQueues(s, t)
    PROVE  PagesOK(t, n, done, gone)
<1> SUFFICES ASSUME NEW x \in Origins
             PROVE  PagesInv(t.book[x], t.pages[x], n[x], done[x], gone[x])
  BY DEF PagesOK
<1>1. PagesInv(s.book[x], s.pages[x], n[x], done[x], gone[x])
  BY DEF PagesOK
<1>2. /\ t.pages[x] = s.pages[x]
      /\ t.book[x].begin = s.book[x].begin /\ t.book[x].end = s.book[x].end
      /\ t.book[x].count = s.book[x].count /\ t.book[x].message_count = s.book[x].message_count
  BY DEF SameQueues
<1>3. PagesInv(t.book[x], s.pages[x], n[x], done[x], gone[x])
  BY <1>1, <1>2, NeighboursDoNotMatter
<1> QED
  BY <1>2, <1>3

LEMMA SweepQueueStep ==
    ASSUME QueueInv, NEW o \in Origins, SweepQueue(o)
    PROVE  StepOK
<1> DEFINE b == storage.book[o]
           old == storage.pages[o]
           book == [b EXCEPT !.begin = b.end]
           swept == [storage EXCEPT !.book[o] = book, !.pages[o] = old]
<1>0. /\ loop.at = "idle" /\ loop' = loop /\ sent' = sent /\ executed' = executed
      /\ reaped' = reaped /\ IsReady(storage, o)
  BY DEF SweepQueue
<1>1. /\ StateInv(storage, loop, sent, executed, reaped)
      /\ StorageTypeOK(storage) /\ RingInv(storage) /\ loop \in Loops /\ sent[o] \in Nat
      /\ PagesInv(b, old, sent[o], executed[o], reaped[o])
      /\ b \in Books /\ PageTable(old) /\ b.begin \in Nat /\ b.end \in Nat
  BY CallFacts
<1>2. storage' = Unknit(swept, o)
  <2>1. storage' = Unknit([storage EXCEPT !.book[o].begin = b.end], o)
    BY DEF SweepQueue
  <2>2. [storage EXCEPT !.book[o].begin = b.end] = [storage EXCEPT !.book[o] = book]
    OBVIOUS
  <2>3. [storage EXCEPT !.book[o] = book] = swept
    BY <1>1 DEF StorageTypeOK, IsFunction
  <2> QED
    BY <2>1, <2>2, <2>3
<1>3. IsBook(book, b.end, b.end, b.count, b.message_count, b.ready)
  <2> HIDE DEF b
  <2> QED
    BY <1>1, BookParts, BookChanges
<1> HIDE DEF book
<1>4. /\ book \in Books /\ book.begin = b.end /\ book.end = b.end /\ book.ready = b.ready
      /\ book.count = b.count /\ book.message_count = b.message_count
  BY <1>3 DEF IsBook
<1>5. PagesInv(book, old, sent[o], executed[o], reaped[o])
  <2> HIDE DEF b, old
  <2> QED
    BY <1>1, <1>4, AllPassed
<1>6. IsReplaced(storage, o, book, old, swept)
  BY <1>1, <1>4, QueueReplaced
<1> HIDE DEF swept
<1>7. /\ IsSound(storage, swept) /\ ReadyQueues(swept) = ReadyQueues(storage)
      /\ OthersStay(storage, o, swept)
  BY <1>1, <1>4, <1>6, ReplacedIsSound
<1>8. PagesOK(swept, sent, executed, reaped)
  <2>1. PagesOK(storage, sent, executed, reaped)
    BY <1>1 DEF StateInv
  <2>2. PagesInv(swept.book[o], swept.pages[o], sent[o], executed[o], reaped[o])
    BY <1>5, <1>6 DEF IsReplaced
  <2> QED
    BY <1>7, <2>1, <2>2, OneQueueChanged
<1>9. StorageTypeOK(swept) /\ RingInv(swept) /\ IsReady(swept, o)
  BY <1>0, <1>7 DEF IsSound, ReadyQueues
<1>10. IsUnknitted(swept, o, storage')
  BY <1>2, <1>9, TakenOut
<1>11. /\ SameQueues(swept, storage') /\ ReadyQueues(storage') = ReadyQueues(storage) \ {o}
       /\ StorageTypeOK(storage') /\ RingInv(storage')
  BY <1>7, <1>10 DEF IsUnknitted
<1>12. IsSound(storage, storage')
  BY <1>7, <1>10, <1>11 DEF IsSound, IsUnknitted
<1>13. PagesOK(storage', sent', executed', reaped')
  BY <1>0, <1>8, <1>11, OnlyTheRingChanged
<1>14. /\ storage'.book[o].begin = b.end /\ storage'.book[o].end = b.end
       /\ \A x \in Origins : x # o => /\ storage'.book[x].begin = storage.book[x].begin
                                      /\ storage'.book[x].end = storage.book[x].end
  BY <1>4, <1>6, <1>11 DEF SameQueues, IsReplaced
<1>15. WaitingAreReady(storage')
  BY <1>1, <1>11, <1>14 DEF StateInv, WaitingAreReady
<1>16. ReadyAreServed(storage', loop')
  BY <1>0, <1>1, <1>11, <1>14 DEF StateInv, ReadyAreServed, ReadyQueues
<1>17. PlaceOK(storage', loop')
  BY <1>0, <1>1 DEF StateInv, PlaceOK
<1>18. StateInv(storage', loop', sent', executed', reaped')
  BY <1>0, <1>1, <1>11, <1>13, <1>15, <1>16, <1>17 DEF StateInv
<1> QED
  BY <1>0, <1>12, <1>18, InvOfNextState DEF StepOK

\* When the loop is idle every ready queue has pages to be served.
LEMMA IdleMeansServed ==
    ASSUME NEW s, NEW l, ReadyAreServed(s, l), l.at = "idle"
    PROVE  \A o \in ReadyQueues(s) : s.book[o].begin # s.book[o].end
  BY DEF ReadyAreServed

LEMMA ForceSetHeadStep ==
    ASSUME QueueInv, NEW o \in Origins, ForceSetHead(o)
    PROVE  QueueInv'
<1>0. /\ loop.at = "idle" /\ loop' = loop /\ sent' = sent /\ executed' = executed
      /\ reaped' = reaped /\ IsReady(storage, o) /\ storage' = [storage EXCEPT !.head = o]
  BY DEF ForceSetHead
<1>1. /\ StateInv(storage, loop, sent, executed, reaped)
      /\ StorageTypeOK(storage) /\ RingInv(storage)
  BY CallFacts
<1>2. /\ StorageTypeOK(storage') /\ SameQueues(storage, storage') /\ storage'.head = o
      /\ storage'.book = storage.book
  BY <1>0, <1>1, WithHeadFields
<1>3. /\ ReadyQueues(storage') = ReadyQueues(storage) /\ NextOf(storage') = NextOf(storage)
      /\ PrevOf(storage') = PrevOf(storage) /\ o \in ReadyQueues(storage)
  BY <1>0, <1>2 DEF ReadyQueues, IsReady, NextOf, PrevOf
<1>4. RingInv(storage')
  <2>1. IsRing(ReadyQueues(storage), NextOf(storage), PrevOf(storage))
    BY <1>1, RingInvMeans
  <2>2. IsRing(ReadyQueues(storage'), NextOf(storage'), PrevOf(storage'))
    BY <1>3, <2>1
  <2>3. HeadIsReady(storage')
    BY <1>2, <1>3 DEF HeadIsReady
  <2> QED
    BY <2>2, <2>3, RingInvMeans
<1>5. PagesOK(storage', sent', executed', reaped')
  <2>1. PagesOK(storage, sent, executed, reaped)
    BY <1>1 DEF StateInv
  <2> QED
    BY <1>0, <1>2, <2>1, OnlyTheRingChanged
<1>6. WaitingAreReady(storage') /\ ReadyAreServed(storage', loop')
  BY <1>0, <1>1, <1>2, <1>3 DEF StateInv, WaitingAreReady, ReadyAreServed
<1>7. PlaceOK(storage', loop')
  BY <1>0, <1>1 DEF StateInv, PlaceOK
<1>8. StateInv(storage', loop', sent', executed', reaped')
  BY <1>0, <1>1, <1>2, <1>4, <1>5, <1>6, <1>7 DEF StateInv
<1> QED
  BY <1>8, InvOfNextState

\* What a step that starts the service loop does for the queues that wait for
\* their turn.
HeadTakenAway ==
    /\ loop.at = "idle" /\ loop'.at = "queue" /\ loop'.queue = storage.head
    /\ \A o \in ReadyQueues(storage) \ {storage.head} :
         /\ Before(storage', o) \subseteq Before(storage, o)
         /\ storage.head \in Before(storage, o) \ Before(storage', o)

LEMMA StartServiceStep ==
    ASSUME QueueInv, NEW limit \in Limits, StartService(limit)
    PROVE  QueueInv' /\ HeadTakenAway
<1> DEFINE head == storage.head
           l1 == [Idle EXCEPT !.at = "queue"]
           l2 == [l1 EXCEPT !.queue = head]
           l3 == [l2 EXCEPT !.weight = limit - BumpWeight]
           l4 == [l3 EXCEPT !.limit = OverweightLimit(limit)]
<1>0. /\ loop.at = "idle" /\ sent' = sent /\ executed' = executed
      /\ reaped' = reaped /\ storage' = BumpServiceHead(storage) /\ head # NoOrigin
  BY DEF StartService
<1>1. /\ StateInv(storage, loop, sent, executed, reaped)
      /\ StorageTypeOK(storage) /\ RingInv(storage) /\ head \in Origins \cup {NoOrigin}
  BY InvOfState DEF StateInv, StorageTypeOK
<1>2. loop' = l4
  BY DEF StartService
<1>3. IsLoop(l4, "queue", head, limit - BumpWeight, OverweightLimit(limit), FALSE, NoOrigin)
  <2> HIDE DEF head
  <2>1. IsLoop(l1, "queue", NoOrigin, 0, 0, FALSE, NoOrigin)
    <3>1. "queue" \in Stages
      BY DEF Stages
    <3> QED
      BY <3>1, IdleLoop, LoopChanges
  <2> HIDE DEF l1
  <2>2. IsLoop(l2, "queue", head, 0, 0, FALSE, NoOrigin)
    BY <1>1, <2>1, LoopChanges
  <2> HIDE DEF l2
  <2>3. IsLoop(l3, "queue", head, limit - BumpWeight, 0, FALSE, NoOrigin)
    BY <2>2, OverweightLimitType, LoopChanges
  <2> HIDE DEF l3
  <2> QED
    BY <2>3, OverweightLimitType, LoopChanges
<1> HIDE DEF l1, l2, l3, l4
<1>4. loop' \in Loops /\ loop'.at = "queue" /\ loop'.queue = head
  BY <1>2, <1>3 DEF IsLoop
<1>5. /\ StorageTypeOK(storage') /\ SameQueues(storage, storage') /\ RingInv(storage')
      /\ ReadyQueues(storage') = ReadyQueues(storage)
      /\ \A o \in ReadyQueues(storage) \ {storage.head} :
           /\ Before(storage', o) \subseteq Before(storage, o)
           /\ storage.head \in Before(storage, o) \ Before(storage', o)
  BY <1>0, <1>1, HeadBumped
<1>6. HeadTakenAway
  BY <1>0, <1>4, <1>5 DEF HeadTakenAway
<1>7. PagesOK(storage', sent', executed', reaped')
  <2>1. PagesOK(storage, sent, executed, reaped)
    BY <1>1 DEF StateInv
  <2> QED
    BY <1>0, <1>5, <2>1, OnlyTheRingChanged
<1>8. \A x \in Origins : storage'.book[x].begin = storage.book[x].begin
                         /\ storage'.book[x].end = storage.book[x].end
  BY <1>5 DEF SameQueues
<1>9. WaitingAreReady(storage')
  BY <1>1, <1>5, <1>8 DEF StateInv, WaitingAreReady
<1>10. ReadyAreServed(storage', loop')
  <2>1. \A o \in ReadyQueues(storage) : storage.book[o].begin # storage.book[o].end
    BY <1>0, <1>1, IdleMeansServed DEF StateInv
  <2> QED
    BY <1>5, <1>8, <2>1 DEF ReadyAreServed, ReadyQueues
<1>11. PlaceOK(storage', loop')
  BY <1>0, <1>4 DEF PlaceOK
<1>12. StateInv(storage', loop', sent', executed', reaped')
  BY <1>0, <1>1, <1>4, <1>5, <1>7, <1>9, <1>10, <1>11 DEF StateInv
<1> QED
  BY <1>6, <1>12, InvOfNextState

-----------------------------------------------------------------------------
(***************************************************************************)
(* The theorems.                                                           *)
(***************************************************************************)

LEMMA InitInv == Init => QueueInv
<1> SUFFICES ASSUME Init
             PROVE  QueueInv
  OBVIOUS
<1>1. NoNeighbours \in Neighbours
  BY DEF NoNeighbours, Neighbours
<1>2. EmptyBook \in Books /\ EmptyBook.ready = NoNeighbours
      /\ EmptyBook.begin = 0 /\ EmptyBook.end = 0
      /\ EmptyBook.count = 0 /\ EmptyBook.message_count = 0
  <2> HIDE DEF NoNeighbours
  <2> QED
    BY <1>1 DEF EmptyBook, Books
<1>3. /\ storage.book = [o \in Origins |-> EmptyBook]
      /\ storage.pages = [o \in Origins |-> <<>>] /\ storage.head = NoOrigin
      /\ storage = [book |-> storage.book, pages |-> storage.pages, head |-> storage.head]
  BY DEF Init
<1>4. IsFunction(<<>>) /\ DOMAIN <<>> = {}
  BY DEF IsFunction
<1>5. StorageTypeOK(storage)
  <2>1. storage.book \in [Origins -> Books]
    BY <1>2, <1>3
  <2>2. IsFunction(storage.pages) /\ DOMAIN storage.pages = Origins
        /\ \A o \in Origins : storage.pages[o] = <<>>
    BY <1>3 DEF IsFunction
  <2> QED
    BY <1>3, <1>4, <2>1, <2>2 DEF StorageTypeOK
<1>6. /\ loop = Idle /\ sent = [o \in Origins |-> 0] /\ executed = [o \in Origins |-> {}]
      /\ reaped = [o \in Origins |-> {}]
  BY DEF Init
<1>7. loop \in Loops /\ loop.at = "idle" /\ loop.queue = NoOrigin
  BY <1>6, IdleLoop DEF IsLoop
<1>8. QueueTypeOK
  BY <1>5, <1>6, <1>7 DEF QueueTypeOK, Loops, Stages
<1>9. ReadyQueues(storage) = {}
  BY <1>2, <1>3 DEF ReadyQueues, IsReady
<1>10. RingInv(storage)
  BY <1>3, <1>9 DEF RingInv
<1>11. ASSUME NEW o \in Origins
       PROVE  PagesInv(storage.book[o], storage.pages[o], sent[o], executed[o], reaped[o])
  <2>1. /\ storage.book[o] = EmptyBook /\ storage.pages[o] = <<>> /\ sent[o] = 0
        /\ executed[o] = {} /\ reaped[o] = {}
    BY <1>3, <1>6
  <2>2. Unprocessed(<<>>) = {} /\ Waiting(EmptyBook, <<>>) = {}
    BY <1>4 DEF Unprocessed, Waiting
  <2>3. Cardinality({}) = 0
    BY FS_EmptySet
  <2>4. 0 .. 0 - 1 = {} /\ 1 .. 0 = {} /\ 0 + 1 .. 0 - 1 = {} /\ 0 \in 0 .. 0 /\ 0 + 1 .. 0 = {}
    OBVIOUS
  <2>5. IsInOrder(<<>>)
    BY <1>4 DEF IsInOrder
  <2>6. {m.id : m \in {}} = 0 + 1 .. 0
    BY <2>4
  <2>7. PagesInv(EmptyBook, <<>>, 0, {}, {})
    <3>1. \E served \in 0 .. 0 : {m.id : m \in Waiting(EmptyBook, <<>>)} = served + 1 .. 0
      BY <2>2, <2>4, <2>6
    <3>2. /\ EmptyBook.begin <= EmptyBook.end /\ {} \subseteq 0 .. EmptyBook.end - 1
          /\ (EmptyBook.begin + 1) .. (EmptyBook.end - 1) = {}
      BY <1>2
    <3>3. EmptyBook.count = Cardinality({}) /\ EmptyBook.message_count = Cardinality({})
      BY <1>2, <2>3
    <3>4. {} \cup {} \cup {} = 1 .. 0
      BY <2>4
    <3> QED
      BY <1>4, <2>2, <2>5, <3>1, <3>2, <3>3, <3>4, Zenon DEF PagesInv
  <2> QED
    BY <2>1, <2>7
<1>12. \A o \in Origins : ReadyInv(o)
  BY <1>2, <1>3, <1>9 DEF ReadyInv, ReadyQueues
<1>13. LoopInv
  BY <1>7 DEF LoopInv
<1> QED
  BY <1>8, <1>10, <1>11, <1>12, <1>13 DEF QueueInv

\* Every step but the two that move the head.
LEMMA ServiceStepOK ==
    ASSUME QueueInv, ServiceStep
    PROVE  StepOK
  BY ServiceQueueStep, ServicePageStep, EndPageStep, BailOutStep, ProcessItemStep,
     PostponeItemStep, SkipItemStep, LeaveQueueStep DEF ServiceStep

LEMMA EveryStep ==
    ASSUME QueueInv, NextWith({<<>>})
    PROVE  \/ StepOK
           \/ QueueInv' /\ HeadTakenAway
           \/ QueueInv' /\ \E p \in Origins : ForceSetHead(p)
<1>1. CASE \E request \in Requests : EnqueueMessage(request)
  BY <1>1, EnqueueMessageStep
<1>2. CASE \E limit \in Limits : StartService(limit)
  BY <1>2, StartServiceStep
<1>3. CASE ServiceStep
  BY <1>3, ServiceStepOK
<1>4. CASE \E o \in Origins : \E p \in DOMAIN storage.pages[o] :
             \/ \E i \in DOMAIN storage.pages[o][p].items :
                  \E request \in {<<>>} : ExecuteOverweight(o, p, i, request)
             \/ ReapPage(o, p)
  <2>1. PICK o \in Origins : \E p \in DOMAIN storage.pages[o] :
             \/ \E i \in DOMAIN storage.pages[o][p].items :
                  \E request \in {<<>>} : ExecuteOverweight(o, p, i, request)
             \/ ReapPage(o, p)
    BY <1>4
  <2>2. PICK p \in DOMAIN storage.pages[o] :
             \/ \E i \in DOMAIN storage.pages[o][p].items :
                  \E request \in {<<>>} : ExecuteOverweight(o, p, i, request)
             \/ ReapPage(o, p)
    BY <2>1
  <2>3. CASE ReapPage(o, p)
    BY <2>3, ReapPageStep
  <2>4. CASE \E i \in DOMAIN storage.pages[o][p].items :
               \E request \in {<<>>} : ExecuteOverweight(o, p, i, request)
    <3>1. PICK i \in DOMAIN storage.pages[o][p].items : ExecuteOverweight(o, p, i, <<>>)
      BY <2>4
    <3> QED
      BY <3>1, ExecuteOverweightStep
  <2> QED
    BY <2>2, <2>3, <2>4
<1>5. CASE \E o \in Origins : SweepQueue(o) \/ ForceSetHead(o) \/ SetPaused(o)
  <2>1. PICK o \in Origins : SweepQueue(o) \/ ForceSetHead(o) \/ SetPaused(o)
    BY <1>5
  <2> QED
    BY <2>1, SweepQueueStep, ForceSetHeadStep, SetPausedStep
<1> QED
  BY <1>1, <1>2, <1>3, <1>4, <1>5 DEF NextWith

LEMMA NoStep ==
    ASSUME QueueInv, UNCHANGED vars
    PROVE  QueueInv'
<1>1. storage' = storage /\ loop' = loop /\ sent' = sent /\ executed' = executed
      /\ reaped' = reaped
  BY DEF vars
<1>2. StateInv(storage', loop', sent', executed', reaped')
  BY <1>1, InvOfState
<1> QED
  BY <1>2, InvOfNextState

(***************************************************************************)
(* The inductive invariant of the message queue: the ready queues are one  *)
(* ring, a queue with pages to be served is in it, and what every queue    *)
(* stores, counts and has executed or removed agrees.                      *)
(***************************************************************************)
THEOREM QueueInvariant == Spec => []QueueInv
<1>1. Init => QueueInv
  BY InitInv
<1>2. QueueInv /\ [NextWith({<<>>})]_vars => QueueInv'
  BY EveryStep, NoStep DEF StepOK
<1> QED
  BY <1>1, <1>2, PTL DEF Spec

(***************************************************************************)
(* If overweight messages that are executed by hand enqueue nothing, then, *)
(* whatever the weights and limits, the queues that are paused, swept or   *)
(* reaped, and what messages enqueue while the service loop processes      *)
(* them: no message of a queue is lost, executed twice or executed after   *)
(* it was reaped, and the service loop takes every queue in the order of   *)
(* its messages.  (If they enqueue, messages are lost: see FullSpec.)      *)
(***************************************************************************)
THEOREM MessagesExactlyOnceInOrder == Spec => []ExactlyOnceInQueueOrder
<1>1. QueueInv => ExactlyOnceInQueueOrder
  BY DEF QueueInv, PagesInv, ExactlyOnceInQueueOrder
<1> QED
  BY <1>1, QueueInvariant, PTL

LEMMA QueueInvMeansRingIsSound == QueueInv => RingIsSound
<1> SUFFICES ASSUME QueueInv
             PROVE  RingIsSound
  OBVIOUS
<1> DEFINE ready == ReadyQueues(storage)
<1>1. StorageTypeOK(storage) /\ RingInv(storage)
  BY DEF QueueInv, QueueTypeOK
<1>2. NoOrigin \notin ready /\ ready \subseteq Origins
  BY QueueAssumption DEF ReadyQueues
<1>3. storage.head = NoOrigin <=> ready = {}
  BY <1>1, <1>2 DEF RingInv
<1>4. storage.head # NoOrigin =>
         /\ storage.head \in ready
         /\ \A o \in ready : /\ storage.book[o].ready.next \in ready
                             /\ storage.book[storage.book[o].ready.next].ready.prev = o
         /\ \A part \in SUBSET ready :
              part # {} /\ (\A o \in part : storage.book[o].ready.next \in part)
              => part = ready
  <2> HIDE DEF ready
  <2>1. /\ IF ready = {} THEN storage.head = NoOrigin ELSE storage.head \in ready
        /\ \A o \in ready : /\ storage.book[o].ready.next \in ready
                            /\ storage.book[storage.book[o].ready.next].ready.prev = o
        /\ \A part \in SUBSET ready :
              part # {} /\ (\A o \in part : storage.book[o].ready.next \in part)
              => part = ready
    BY <1>1, Zenon DEF RingInv, ready
  <2> QED
    BY <2>1, Zenon
<1>5. ASSUME NEW o \in Origins
      PROVE  /\ loop.queue = o \/ (o \in ready <=> storage.book[o].begin < storage.book[o].end)
             /\ PagesInv(storage.book[o], storage.pages[o], sent[o], executed[o], reaped[o])
  <2>1. storage.book[o].begin \in Nat /\ storage.book[o].end \in Nat
    BY <1>1, StorageFacts
  <2>2. PagesInv(storage.book[o], storage.pages[o], sent[o], executed[o], reaped[o])
        /\ ReadyInv(o)
    BY DEF QueueInv
  <2>3. storage.book[o].begin <= storage.book[o].end
    BY <2>2 DEF PagesInv
  <2> QED
    BY <2>1, <2>2, <2>3 DEF ReadyInv, ReadyQueues
<1> HIDE DEF ready
<1>6. ASSUME NEW o \in Origins
      PROVE  LET b == storage.book[o]
                 pages == storage.pages[o]
             IN  /\ loop.queue = o \/ (o \in ready <=> b.begin < b.end)
                 /\ b.begin <= b.end
                 /\ (b.begin + 1) .. (b.end - 1) \subseteq DOMAIN pages
                 /\ b.count = Cardinality(DOMAIN pages)
                 /\ b.message_count = Cardinality(Unprocessed(pages))
                 /\ \A p \in DOMAIN pages :
                      pages[p].remaining
                      = Cardinality({i \in DOMAIN pages[p].items : ~pages[p].items[i].processed})
  BY <1>5 DEF PagesInv
<1> QED
  BY <1>3, <1>4, <1>6, Zenon DEF RingIsSound, ready

(***************************************************************************)
(* If overweight messages that are executed by hand enqueue nothing, the   *)
(* ready ring is one ring of exactly the queues with begin < end, so that  *)
(* the service loop gets to every one of them, all pages after the first   *)
(* of those are stored, and the counters of books and pages are right.     *)
(***************************************************************************)
THEOREM ReadyRingIsSound == Spec => []RingIsSound
  BY QueueInvariant, QueueInvMeansRingIsSound, PTL

(***************************************************************************)
(* No step but force_set_head lets a queue get before a ready queue, and   *)
(* every service loop takes one away from before it: a ready queue is the  *)
(* first of a loop after as many loops as there are queues before it.      *)
(***************************************************************************)
THEOREM TurnsOfQueuesComeRound == Spec => TurnsComeRound
<1> DEFINE Turn ==
      \A o \in ReadyQueues(storage) \cap ReadyQueues(storage') :
         \/ \E p \in Origins : ForceSetHead(p)
         \/ /\ Before(storage', o) \subseteq Before(storage, o)
            /\ loop.at = "idle" /\ loop'.at = "queue" =>
                 loop'.queue \in Before(storage, o) \ Before(storage', o)
         \/ loop.at = "idle" /\ loop'.at = "queue" /\ loop'.queue = o
<1>1. ASSUME QueueInv, NextWith({<<>>})
      PROVE  Turn
  <2>1. CASE StepOK
    BY <2>1 DEF StepOK, IsSound
  <2>2. CASE HeadTakenAway
    BY <2>2 DEF HeadTakenAway
  <2>3. CASE \E p \in Origins : ForceSetHead(p)
    BY <2>3
  <2> QED
    BY <1>1, <2>1, <2>2, <2>3, EveryStep
<1>2. QueueInv /\ [NextWith({<<>>})]_vars => [Turn]_vars
  BY <1>1
<1> QED
  BY <1>2, QueueInvariant, PTL DEF Spec, TurnsComeRound

=============================================================================
