---------------------------- MODULE MessageQueue ----------------------------
(***************************************************************************)
(* The message queue pallet, which executes the messages that a chain      *)
(* receives: a queue of pages for every origin, a ring of the queues that  *)
(* are ready, and a service loop that a block gives a limited weight.      *)
(*                                                                         *)
(* A message is its number in its queue and its weight; all have the same  *)
(* size, so that a heap offset is an index and HeapSize a number of        *)
(* messages.  The steps of one service loop are steps of the               *)
(* specification, with nothing else between them; what a message enqueues  *)
(* while it is processed is part of its step.                              *)
(***************************************************************************)
EXTENDS Integers, Sequences, FiniteSets, FiniteSetsExt, Functions

CONSTANTS
    Origins, NoOrigin,
    MessageWeights,    \* weights of messages
    HeapSize,          \* messages that a page has room for
    MaxStale,          \* T::MaxStale
    MaxServiceWeight,  \* the larger of ServiceWeight and IdleMaxServiceWeight, 0 for none
    Limits,            \* weight limits that the service loop may be given
    BumpWeight, QueueWeight, PageWeight, ItemWeight,  \* T::WeightInfo
    MaxMessages        \* bound on the messages of all queues

ASSUME QueueAssumption ==
    /\ IsFiniteSet(Origins) /\ Origins # {} /\ NoOrigin \notin Origins
    /\ MessageWeights \subseteq Nat /\ Limits \subseteq Nat
    /\ HeapSize \in Nat \ {0}
    /\ {MaxStale, MaxServiceWeight, BumpWeight, PageWeight, ItemWeight, MaxMessages} \subseteq Nat
    /\ QueueWeight \in Nat \ {0}

VARIABLES
    storage,   \* BookStateFor, Pages and ServiceHead
    paused,    \* QueuePausedQuery: the queues that are paused
    loop,      \* the service loop: its place, queue, weight left and flags
    sent,      \* history: messages enqueued for each origin
    executed,  \* history: messages processed, with success or for good without
    reaped     \* history: messages removed with a stale page

vars == <<storage, paused, loop, sent, executed, reaped>>

-----------------------------------------------------------------------------
NoNeighbours == [prev |-> NoOrigin, next |-> NoOrigin]

EmptyBook ==
    [begin |-> 0, end |-> 0, count |-> 0, message_count |-> 0, ready |-> NoNeighbours]

Idle ==
    [at |-> "idle", queue |-> NoOrigin, weight |-> 0, limit |-> 0, progressed |-> FALSE,
     last |-> NoOrigin]

Init ==
    /\ storage = [book |-> [o \in Origins |-> EmptyBook],
                  pages |-> [o \in Origins |-> <<>>],
                  head |-> NoOrigin]
    /\ paused = {}
    /\ loop = Idle
    /\ sent = [o \in Origins |-> 0]
    /\ executed = [o \in Origins |-> {}]
    /\ reaped = [o \in Origins |-> {}]

IsReady(s, o) == s.book[o].ready # NoNeighbours

WithoutPage(pages, i) == Restrict(pages, DOMAIN pages \ {i})

WithPage(pages, i, page) ==
    [p \in DOMAIN pages \cup {i} |-> IF p = i THEN page ELSE pages[p]]

(***************************************************************************)
(* ready_ring_knit, with the neighbours it returns stored: o goes to the   *)
(* end of the ring, before the head.  If the head or the tail is not in    *)
(* the ring, o does not get into it.                                       *)
(***************************************************************************)
Knit(s, o) ==
    LET head == s.head
        tail == s.book[head].ready.prev
        linked == [s EXCEPT !.book[head].ready.prev = o]
    IN  CASE head = NoOrigin ->
               [s EXCEPT !.head = o, !.book[o].ready = [prev |-> o, next |-> o]]
          [] head # NoOrigin /\ ~IsReady(s, head) -> s
          [] head # NoOrigin /\ IsReady(s, head) /\ ~IsReady(linked, tail) -> linked
          [] OTHER ->
               [linked EXCEPT !.book[tail].ready.next = o,
                              !.book[o].ready = [prev |-> tail, next |-> head]]

\* ready_ring_unknit that leaves the head alone.
UnknitKeepingHead(s, o) ==
    LET n == s.book[o].ready
        taken == [s EXCEPT !.book[o].ready = NoNeighbours]
    IN  IF n.next = o
        THEN [taken EXCEPT !.head = NoOrigin]
        ELSE [taken EXCEPT !.book[n.next].ready.prev = n.prev,
                           !.book[n.prev].ready.next = n.next]

\* ready_ring_unknit of a queue that is in the ring.
Unknit(s, o) ==
    LET n == s.book[o].ready
        taken == [s EXCEPT !.book[o].ready = NoNeighbours]
    IN  IF n.next = o
        THEN [taken EXCEPT !.head = NoOrigin]
        ELSE [taken EXCEPT
                !.book[n.next].ready.prev = IF IsReady(taken, n.next) THEN n.prev ELSE @,
                !.book[n.prev].ready.next = IF IsReady(taken, n.prev) THEN n.next ELSE @,
                !.head = IF @ = o THEN n.next ELSE @]

\* do_enqueue_messages: the message goes to the last page, if there is one with
\* room.
AddMessage(s, o, message) ==
    LET b == s.book[o]
        last == b.end - 1
        fits == /\ b.end > b.begin
                /\ last \in DOMAIN s.pages[o]
                /\ Len(s.pages[o][last].items) < HeapSize
        page == IF fits
                THEN [s.pages[o][last] EXCEPT !.items = Append(@, message),
                                              !.remaining = @ + 1]
                ELSE [items |-> <<message>>, first |-> 0, remaining |-> 1]
        book == [b EXCEPT !.end = IF fits THEN @ ELSE @ + 1,
                          !.count = IF fits THEN @ ELSE @ + 1,
                          !.message_count = @ + 1]
    IN  [s EXCEPT !.book[o] = book,
                  !.pages[o] = WithPage(@, IF fits THEN last ELSE b.end, page)]

\* do_enqueue_messages for one message.  More messages are the same step repeated.
Enqueue(s, o, message) ==
    LET added == AddMessage(s, o, message)
    IN  IF IsReady(added, o) THEN added ELSE Knit(added, o)

(***************************************************************************)
(* What processing a message may enqueue: nothing, or a message for an     *)
(* origin.  A processor may call nothing else: the service mutex.          *)
(***************************************************************************)
Requests ==
    {<<>>} \cup
    (IF SumFunction(sent) < MaxMessages THEN Origins \X MessageWeights ELSE {})

NewMessage(request) ==
    [id |-> sent[request[1]] + 1, weight |-> request[2], processed |-> FALSE]

Served(s, request) ==
    IF request = <<>> THEN s ELSE Enqueue(s, request[1], NewMessage(request))

NoteSent(request) ==
    sent' = IF request = <<>> THEN sent ELSE [sent EXCEPT ![request[1]] = @ + 1]

\* enqueue_message, called from outside of the service loop.
EnqueueMessage(request) ==
    /\ loop.at = "idle"
    /\ request # <<>>
    /\ storage' = Served(storage, request)
    /\ NoteSent(request)
    /\ UNCHANGED <<paused, loop, executed, reaped>>

-----------------------------------------------------------------------------
(***************************************************************************)
(* The service loop: on_initialize, on_idle and service_queues.            *)
(***************************************************************************)
Book == storage.book[loop.queue]

Page == storage.pages[loop.queue][Book.begin]

\* max_message_weight: a message that needs more is overweight for good.
OverweightLimit(limit) ==
    LET most == IF MaxServiceWeight = 0 THEN limit ELSE MaxServiceWeight
    IN  Max({0, most - (BumpWeight + QueueWeight + PageWeight + ItemWeight)})

\* bump_service_head that lets the head stay.
BumpServiceHeadNot(s) == s

\* bump_service_head: the next queue of the ring will be the first next time.
BumpServiceHead(s) == [s EXCEPT !.head = s.book[s.head].ready.next]

\* service_queues_impl begins with the queue at the head.
StartService(limit) ==
    /\ loop.at = "idle"
    /\ limit >= BumpWeight
    /\ storage.head # NoOrigin
    /\ IsReady(storage, storage.head)
    /\ storage' = BumpServiceHead(storage)
    /\ loop' = [Idle EXCEPT !.at = "queue", !.queue = storage.head,
                            !.weight = limit - BumpWeight, !.limit = OverweightLimit(limit)]
    /\ UNCHANGED <<paused, sent, executed, reaped>>

(***************************************************************************)
(* service_queues_impl in state l after a queue that is followed by next.  *)
(* last is last_no_progress.                                               *)
(***************************************************************************)
NextQueue(l, next) ==
    CASE next = NoOrigin -> Idle
      [] next # NoOrigin /\ l.progressed ->
           [l EXCEPT !.at = "queue", !.queue = next, !.progressed = FALSE, !.last = NoOrigin]
      [] next # NoOrigin /\ ~l.progressed /\ l.last = next -> Idle
      [] OTHER ->
           [l EXCEPT !.at = "queue", !.queue = next,
                     !.last = IF @ = NoOrigin THEN l.queue ELSE @]

\* The beginning of service_queue.
ServiceQueue ==
    /\ loop.at = "queue"
    /\ \/ /\ loop.weight < QueueWeight
          /\ loop' = Idle
       \/ /\ loop.weight >= QueueWeight
          /\ loop.queue \in paused
          /\ loop' = NextQueue([loop EXCEPT !.weight = @ - QueueWeight], Book.ready.next)
       \/ /\ loop.weight >= QueueWeight
          /\ loop.queue \notin paused
          /\ loop' = [loop EXCEPT !.at = "page", !.weight = @ - QueueWeight]
    /\ UNCHANGED <<storage, paused, sent, executed, reaped>>

\* The beginning of service_page for the first page, if there is one.  A page
\* that is missing is passed over.
ServicePage ==
    /\ loop.at = "page"
    /\ \/ /\ Book.end <= Book.begin \/ loop.weight < PageWeight
          /\ loop' = [loop EXCEPT !.at = "leave"]
          /\ UNCHANGED storage
       \/ /\ Book.end > Book.begin /\ loop.weight >= PageWeight
          /\ Book.begin \notin DOMAIN storage.pages[loop.queue]
          /\ loop' = [loop EXCEPT !.weight = @ - PageWeight]
          /\ storage' = [storage EXCEPT !.book[loop.queue].begin = @ + 1]
       \/ /\ Book.end > Book.begin /\ loop.weight >= PageWeight
          /\ Book.begin \in DOMAIN storage.pages[loop.queue]
          /\ loop' = [loop EXCEPT !.at = "item", !.weight = @ - PageWeight]
          /\ UNCHANGED storage
    /\ UNCHANGED <<paused, sent, executed, reaped>>

\* The end of service_page when no item is left: a complete page is removed,
\* one with overweight messages is kept.
EndPage ==
    /\ loop.at = "item"
    /\ \/ Page.remaining = 0
       \/ Page.first = Len(Page.items) /\ loop.weight >= ItemWeight
    /\ storage' = [storage EXCEPT
           !.pages[loop.queue] = IF Page.remaining = 0 THEN WithoutPage(@, Book.begin) ELSE @,
           !.book[loop.queue].count = IF Page.remaining = 0 THEN @ - 1 ELSE @,
           !.book[loop.queue].begin = @ + 1]
    /\ loop' = [loop EXCEPT !.at = "page",
           !.weight = IF Page.remaining = 0 THEN @ ELSE @ - ItemWeight]
    /\ UNCHANGED <<paused, sent, executed, reaped>>

\* service_page_item without the weight to look at an item.
BailOut ==
    /\ loop.at = "item"
    /\ Page.remaining # 0
    /\ loop.weight < ItemWeight
    /\ loop' = [loop EXCEPT !.at = "leave"]
    /\ UNCHANGED <<storage, paused, sent, executed, reaped>>

\* The message that service_page_item takes up, and the weight it finds.
HasItem ==
    /\ loop.at = "item"
    /\ Page.remaining # 0
    /\ Page.first < Len(Page.items)
    /\ loop.weight >= ItemWeight

Item == Page.items[Page.first + 1]

WeightForItem == loop.weight - ItemWeight

\* skip_first for an item that was processed.
ItemProcessed(s, o, i) ==
    LET page == s.pages[o][i]
    IN  [s EXCEPT !.book[o].message_count = @ - 1,
                  !.pages[o] = WithPage(@, i,
                      [page EXCEPT !.items[page.first + 1].processed = TRUE,
                                   !.remaining = @ - 1,
                                   !.first = @ + 1])]

(***************************************************************************)
(* The book and the page that service_page_item goes on with when the      *)
(* message has been processed: what was in storage before, or what is now, *)
(* after the requests of the message.                                      *)
(***************************************************************************)
RestoredFromBefore(before, after, o, i) ==
    [after EXCEPT !.book[o] = before.book[o], !.pages[o][i] = before.pages[o][i]]

Restored(before, after, o, i) == after

\* The message is processed, or fails for good: then its requests are undone.
\* (One that cannot be decoded counts as one of small weight.)
ProcessItem(request) ==
    /\ HasItem
    /\ Item.weight <= WeightForItem
    /\ storage' = ItemProcessed(
           Restored(storage, Served(storage, request), loop.queue, Book.begin),
           loop.queue, Book.begin)
    /\ NoteSent(request)
    /\ executed' = [executed EXCEPT ![loop.queue] = @ \cup {Item.id}]
    /\ loop' = [loop EXCEPT !.progressed = TRUE, !.weight = WeightForItem - Item.weight]
    /\ UNCHANGED <<paused, reaped>>

\* The message yields, or needs more weight than is left, but not too much.
PostponeItem ==
    /\ HasItem
    /\ Item.weight > WeightForItem => Item.weight <= loop.limit
    /\ loop' = [loop EXCEPT !.at = "leave", !.weight = WeightForItem]
    /\ UNCHANGED <<storage, paused, sent, executed, reaped>>

\* The message is overweight for good: it is skipped, and stays in its page.
SkipItem ==
    /\ HasItem
    /\ Item.weight > WeightForItem
    /\ Item.weight > loop.limit
    /\ storage' = [storage EXCEPT
           !.pages[loop.queue] = WithPage(@, Book.begin, [Page EXCEPT !.first = @ + 1])]
    /\ loop' = [loop EXCEPT !.weight = WeightForItem]
    /\ UNCHANGED <<paused, sent, executed, reaped>>

\* The end of service_queue: a queue without pages leaves the ring.
LeaveQueue ==
    /\ loop.at = "leave"
    /\ storage' = IF Book.begin >= Book.end /\ IsReady(storage, loop.queue)
                  THEN Unknit(storage, loop.queue)
                  ELSE storage
    /\ loop' = NextQueue(loop, Book.ready.next)
    /\ UNCHANGED <<paused, sent, executed, reaped>>

-----------------------------------------------------------------------------
(***************************************************************************)
(* Calls, in the body of a block.                                          *)
(***************************************************************************)

(***************************************************************************)
(* do_execute_overweight_inner for item i of page p: one that the service  *)
(* loop has passed.  The book and the page are read before the message is  *)
(* processed and stored after it, whatever the message has enqueued.       *)
(***************************************************************************)
ExecuteOverweight(o, p, i, request) ==
    LET book == storage.book[o]
        page == storage.pages[o][p]
        after == Served(storage, request)
        drained == page.remaining = 1
        kept == [page EXCEPT !.items[i].processed = TRUE, !.remaining = @ - 1]
    IN  /\ loop.at = "idle"
        /\ o \notin paused
        /\ p < book.begin \/ (p = book.begin /\ i <= page.first)
        /\ ~page.items[i].processed
        /\ storage' = [after EXCEPT
               !.pages[o] = IF drained THEN WithoutPage(@, p) ELSE WithPage(@, p, kept),
               !.book[o] = [book EXCEPT !.message_count = @ - 1,
                                        !.count = IF drained THEN @ - 1 ELSE @]]
        /\ NoteSent(request)
        /\ executed' = [executed EXCEPT ![o] = @ \cup {page.items[i].id}]
        /\ UNCHANGED <<paused, loop, reaped>>

\* reap_page for a page too far back among too many pages that are stale.
IsCullable(book, p) ==
    LET ready == Min({book.end - book.begin, book.count})
        overflow == book.count - ready - MaxStale
        backlog == Max({(MaxStale * MaxStale) \div overflow, MaxStale})
    IN  overflow > 0 /\ p < Max({0, book.begin - backlog})

\* do_reap_page_inner.
ReapPage(o, p) ==
    LET book == storage.book[o]
        page == storage.pages[o][p]
    IN  /\ loop.at = "idle"
        /\ p < book.begin
        /\ page.remaining = 0 \/ IsCullable(book, p)
        /\ storage' = [storage EXCEPT
               !.pages[o] = WithoutPage(@, p),
               !.book[o].count = @ - 1,
               !.book[o].message_count = @ - page.remaining]
        /\ reaped' = [reaped EXCEPT ![o] =
               @ \cup {m.id : m \in {n \in Range(page.items) : ~n.processed}}]
        /\ UNCHANGED <<paused, loop, sent, executed>>

\* sweep_queue: all pages become stale.
SweepQueue(o) ==
    LET swept == [storage EXCEPT !.book[o].begin = storage.book[o].end]
    IN  /\ loop.at = "idle"
        /\ IsReady(storage, o)
        /\ storage' = Unknit(swept, o)
        /\ UNCHANGED <<paused, loop, sent, executed, reaped>>

\* set_service_head, of a queue that is ready.
ForceSetHead(o) ==
    /\ loop.at = "idle"
    /\ IsReady(storage, o)
    /\ storage' = [storage EXCEPT !.head = o]
    /\ UNCHANGED <<paused, loop, sent, executed, reaped>>

\* QueuePausedQuery::is_paused answers differently from now on: the XCMP queue
\* pauses the queues of all parachains but the controller's.
SetPaused(o) ==
    /\ loop.at = "idle"
    /\ paused' = IF o \in paused THEN paused \ {o} ELSE paused \cup {o}
    /\ UNCHANGED <<storage, loop, sent, executed, reaped>>

-----------------------------------------------------------------------------
ServiceStep ==
    \/ ServiceQueue
    \/ ServicePage
    \/ EndPage
    \/ BailOut
    \/ \E request \in Requests : ProcessItem(request)
    \/ PostponeItem
    \/ SkipItem
    \/ LeaveQueue

\* Overweight messages that are executed by hand make the requests given.
NextWith(overweightRequests) ==
    \/ \E request \in Requests : EnqueueMessage(request)
    \/ \E limit \in Limits : StartService(limit)
    \/ ServiceStep
    \/ \E o \in Origins : \E p \in DOMAIN storage.pages[o] :
           \/ \E i \in DOMAIN storage.pages[o][p].items :
                \E request \in overweightRequests : ExecuteOverweight(o, p, i, request)
           \/ ReapPage(o, p)
    \/ \E o \in Origins :
           SweepQueue(o) \/ ForceSetHead(o) \/ SetPaused(o)

\* Overweight messages enqueue nothing.
Spec == Init /\ [][NextWith({<<>>})]_vars

\* Overweight messages do what every message may do.
FullSpec == Init /\ [][NextWith(Requests)]_vars

-----------------------------------------------------------------------------
Unprocessed(pages) ==
    {m.id : m \in {n \in UNION {Range(pages[p].items) : p \in DOMAIN pages} : ~n.processed}}

\* The messages of a queue are stored in the order in which they were sent.
IsInOrder(pages) ==
    \A p, q \in DOMAIN pages :
        \A i \in DOMAIN pages[p].items, j \in DOMAIN pages[q].items :
            p < q \/ (p = q /\ i < j) => pages[p].items[i].id < pages[q].items[j].id

\* The messages that the service loop will yet come to.
Waiting(book, pages) ==
    UNION {{pages[p].items[i] : i \in pages[p].first + 1 .. Len(pages[p].items)} :
             p \in DOMAIN pages \cap book.begin .. book.end - 1}

(***************************************************************************)
(* No message is lost, executed twice, or executed once it was removed     *)
(* with its page; and a queue is served in the order of its messages: what *)
(* the service loop has yet to come to is always the rest of the queue.    *)
(***************************************************************************)
ExactlyOnceInQueueOrder ==
    \A o \in Origins :
        LET pages == storage.pages[o]
            waiting == Waiting(storage.book[o], pages)
        IN  /\ executed[o] \cup Unprocessed(pages) \cup reaped[o] = 1 .. sent[o]
            /\ Unprocessed(pages) \cap executed[o] = {}
            /\ reaped[o] \cap (executed[o] \cup Unprocessed(pages)) = {}
            /\ IsInOrder(pages)
            /\ \A m \in waiting : ~m.processed
            /\ \E served \in 0 .. sent[o] : {m.id : m \in waiting} = served + 1 .. sent[o]

ReadyQueues(s) == {o \in Origins : IsReady(s, o)}

(***************************************************************************)
(* The ready ring is one ring of exactly the queues with pages from begin  *)
(* to end, so that the loop gets to each of them, and the counters of      *)
(* books and pages are right.  It does not say that the first of those     *)
(* pages is there: that is DoTryState, which the code does not keep.       *)
(***************************************************************************)
RingIsSound ==
    LET ready == ReadyQueues(storage)
    IN  /\ storage.head = NoOrigin <=> ready = {}
        /\ storage.head # NoOrigin =>
             /\ storage.head \in ready
             /\ \A o \in ready : /\ storage.book[o].ready.next \in ready
                                 /\ storage.book[storage.book[o].ready.next].ready.prev = o
             /\ \A part \in SUBSET ready :
                  part # {} /\ (\A o \in part : storage.book[o].ready.next \in part)
                  => part = ready
        /\ \A o \in Origins :
             LET b == storage.book[o]
                 pages == storage.pages[o]
             IN  /\ loop.queue = o \/ (o \in ready <=> b.begin < b.end)
                 /\ b.begin <= b.end
                 /\ (b.begin + 1) .. (b.end - 1) \subseteq DOMAIN pages
                 /\ b.count = Cardinality(DOMAIN pages)
                 /\ b.message_count = Cardinality(Unprocessed(pages))
                 /\ \A p \in DOMAIN pages :
                      pages[p].remaining
                      = Cardinality({i \in DOMAIN pages[p].items : ~pages[p].items[i].processed})

(***************************************************************************)
(* do_try_state, of the storage between two calls: every queue in the ring *)
(* has unprocessed messages, all its pages from begin to end are stored,   *)
(* and none of them is complete.  The code does not keep it: when the loop *)
(* ran out of weight just before the end of a page, and the overweight     *)
(* messages of that page are executed by hand, the page goes and the queue *)
(* stays in the ring.                                                      *)
(***************************************************************************)
DoTryState ==
    loop.at = "idle" =>
      /\ \A o \in Origins :
           storage.book[o].end - storage.book[o].begin \in 0 .. storage.book[o].count
      /\ \A o \in ReadyQueues(storage) :
           LET b == storage.book[o]
               pages == storage.pages[o]
           IN  /\ b.message_count > 0
               /\ b.end > b.begin
               /\ b.ready.next = o => b.ready.prev = o
               /\ \A p \in b.begin .. b.end - 1 :
                    /\ p \in DOMAIN pages
                    /\ pages[p].remaining > 0
                    /\ pages[p].remaining
                       = Cardinality({i \in DOMAIN pages[p].items : ~pages[p].items[i].processed})

(***************************************************************************)
(* The queues that are to be the first before o.  The others are o and     *)
(* those that follow it up to the last one, which is followed by the head. *)
(***************************************************************************)
NotBefore(s, o) ==
    {q \in ReadyQueues(s) :
        \A part \in SUBSET ReadyQueues(s) :
            o \in part /\ (\A x \in part : s.book[x].ready.next \in part \cup {s.head})
            => q \in part}

Before(s, o) == ReadyQueues(s) \ NotBefore(s, o)

(***************************************************************************)
(* Fairness of processing: nothing that is enqueued, served, swept or      *)
(* executed gets before a ready queue in the ring, and every service loop  *)
(* takes away the queue that it begins with, which goes to the end; only   *)
(* force_set_head may jump the queue.                                      *)
(***************************************************************************)
TurnsComeRound ==
    [][\A o \in ReadyQueues(storage) \cap ReadyQueues(storage') :
         \/ \E p \in Origins : ForceSetHead(p)
         \/ /\ Before(storage', o) \subseteq Before(storage, o)
            /\ loop.at = "idle" /\ loop'.at = "queue" =>
                 loop'.queue \in Before(storage, o) \ Before(storage', o)
         \/ loop.at = "idle" /\ loop'.at = "queue" /\ loop'.queue = o]_vars

-----------------------------------------------------------------------------
(***************************************************************************)
(* The inductive invariant.                                                *)
(***************************************************************************)
Neighbours == [prev : Origins \cup {NoOrigin}, next : Origins \cup {NoOrigin}]

Books ==
    [begin : Nat, end : Nat, count : Int, message_count : Int, ready : Neighbours]

Messages == [id : Nat, weight : Nat, processed : BOOLEAN]

PageRecords == [items : Seq(Messages), first : Nat, remaining : Int]

IsFunction(f) == f = [x \in DOMAIN f |-> f[x]]

StorageTypeOK(s) ==
    /\ s = [book |-> s.book, pages |-> s.pages, head |-> s.head]
    /\ s.book \in [Origins -> Books]
    /\ IsFunction(s.pages) /\ DOMAIN s.pages = Origins
    /\ \A o \in Origins :
         /\ IsFunction(s.pages[o])
         /\ \A p \in DOMAIN s.pages[o] : s.pages[o][p] \in PageRecords
    /\ s.head \in Origins \cup {NoOrigin}

QueueTypeOK ==
    /\ StorageTypeOK(storage)
    /\ loop \in [at : {"idle", "queue", "page", "item", "leave"},
                 queue : Origins \cup {NoOrigin}, weight : Int, limit : Int,
                 progressed : BOOLEAN, last : Origins \cup {NoOrigin}]
    /\ sent \in [Origins -> Nat]
    /\ executed \in [Origins -> SUBSET Nat]
    /\ reaped \in [Origins -> SUBSET Nat]

\* The ready queues are linked in both directions, to one ring.
RingInv(s) ==
    LET ready == ReadyQueues(s)
        next(o) == s.book[o].ready.next
        prev(o) == s.book[o].ready.prev
    IN  /\ IF ready = {} THEN s.head = NoOrigin ELSE s.head \in ready
        /\ \A o \in ready : /\ next(o) \in ready /\ prev(next(o)) = o
                            /\ prev(o) \in ready /\ next(prev(o)) = o
        /\ \A part \in SUBSET ready :
             part # {} /\ (\A o \in part : next(o) \in part) => part = ready

\* A queue by itself: its book, its pages, and its messages so far.
PagesInv(book, pages, n, done, gone) ==
    /\ book.begin <= book.end
    /\ DOMAIN pages \subseteq 0 .. book.end - 1
    /\ (book.begin + 1) .. (book.end - 1) \subseteq DOMAIN pages
    /\ book.count = Cardinality(DOMAIN pages)
    /\ book.message_count = Cardinality(Unprocessed(pages))
    /\ \A p \in DOMAIN pages :
         /\ pages[p].first <= Len(pages[p].items)
         /\ pages[p].remaining
            = Cardinality({i \in DOMAIN pages[p].items : ~pages[p].items[i].processed})
         /\ \A i \in DOMAIN pages[p].items : pages[p].items[i].id \in 1 .. n
    /\ IsInOrder(pages)
    /\ done \cup Unprocessed(pages) \cup gone = 1 .. n
    /\ Unprocessed(pages) \cap done = {}
    /\ gone \cap (done \cup Unprocessed(pages)) = {}
    /\ \A m \in Waiting(book, pages) : ~m.processed
    /\ \E served \in 0 .. n : {m.id : m \in Waiting(book, pages)} = served + 1 .. n

\* The queues with pages to be served are ready; the one that is served may have
\* run out of pages.
ReadyInv(o) ==
    LET b == storage.book[o]
    IN  /\ b.begin < b.end => IsReady(storage, o)
        /\ IsReady(storage, o) /\ b.begin = b.end =>
             loop.queue = o /\ loop.at \in {"page", "item", "leave"}

LoopInv ==
    /\ loop.at = "idle" <=> loop.queue = NoOrigin
    /\ loop.at = "item" => Book.begin \in DOMAIN storage.pages[loop.queue]

QueueInv ==
    /\ QueueTypeOK
    /\ RingInv(storage)
    /\ \A o \in Origins :
         /\ PagesInv(storage.book[o], storage.pages[o], sent[o], executed[o], reaped[o])
         /\ ReadyInv(o)
    /\ LoopInv
=============================================================================
