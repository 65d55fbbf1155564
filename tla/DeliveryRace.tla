----------------------------- MODULE DeliveryRace -----------------------------
(***************************************************************************)
(* The message delivery race of the relay, as it runs: the select! loop of *)
(* message_race_loop.rs with its requests under way, over the queues of    *)
(* MessageDeliveryStrategy and BasicStrategy.  What it knows of the chains *)
(* is old when it is used, and others deliver, confirm and import headers  *)
(* meanwhile.                                                              *)
(*                                                                         *)
(* The source is a list of finalized blocks, of which the lane's nonces    *)
(* are kept; a block that changes neither is not told apart from the one   *)
(* before it.  The target has a finalized block and a best one.            *)
(***************************************************************************)
EXTENDS InboundLane, FiniteSets, FiniteSetsExt

CONSTANTS
    Us, Other,                   \* the relayer of this race, and another one
    None,
    MaxMessages,                 \* bound on messages generated
    MaxSourceBlocks,             \* bound on source blocks that change the lane
    MaxFaults,                   \* bound on requests that fail, transactions lost, restarts
    MaxPool,                     \* bound on our transactions that are not in a block
    MaxMessagesInSingleBatch     \* max_messages_in_single_batch

ASSUME RaceAssumption ==
    /\ Us \in Relayers
    /\ Other \in Relayers
    /\ None \notin Nat
    /\ None \notin [latest : Nat, confirmed : Nat, entries : Nat, total : Nat, oldest : Nat]
    \* An entry has a message: so the lane of Init is one that can be.
    /\ MaxUnrewardedRelayers <= MaxUnconfirmedMessages
    /\ MaxMessages \in Nat
    /\ MaxSourceBlocks \in Nat
    /\ MaxFaults \in Nat
    /\ MaxPool \in Nat \ {0}
    /\ MaxMessagesInSingleBatch \in Nat \ {0}

VARIABLES
    source,      \* finalized source blocks: [generated, confirmed]
    best,        \* best target block: [lane, peer], peer the source block it knows
    finalized,   \* finalized target block
    pool,        \* our delivery transactions, not yet in a block
    tracker,     \* target_tx_tracker
    race,        \* the loop's variables, RaceStateImpl and the strategy
    faults

vars == <<source, best, finalized, pool, tracker, race, faults>>

chainVars == <<source, best, finalized, pool, tracker, faults>>

Idle == [kind |-> "none"]

\* The state in which run() starts, and starts again after a lost connection.
FreshRace ==
    [sourceRequest |-> Idle,            \* the future that keeps the source client busy
     targetRequest |-> Idle,
     requiredHeader |-> None,           \* source_required_header
     peer |-> None,                     \* best_finalized_source_header_id_at_best_target
     batch |-> None,                    \* target_batch_transaction, by its header
     toSubmit |-> None,                 \* nonces_to_submit
     submitted |-> None,                \* nonces_submitted
     queue |-> <<>>,                    \* source_queue
     confirmedQueue |-> <<>>,           \* latest_confirmed_nonces_at_source
     targetNonces |-> None,             \* target_nonces
     bestTargetNonce |-> None]          \* best_target_nonce

\* The race starts on a lane that is blocked: there are as many entries of
\* unrewarded relayers as there may be, and no confirmation is proved yet.
BlockedLane ==
    [InboundLaneOpened EXCEPT !.relayers =
        [i \in 1 .. MaxUnrewardedRelayers |->
            [relayer |-> IF i % 2 = 1 THEN Other ELSE Us, begin |-> i, end |-> i]]]

Init ==
    /\ source = <<[generated |-> MaxUnrewardedRelayers, confirmed |-> 0]>>
    /\ best = [lane |-> BlockedLane, peer |-> 1]
    /\ finalized = best
    /\ pool = {}
    /\ tracker = [status |-> "none"]
    /\ race = FreshRace
    /\ faults = 0

-----------------------------------------------------------------------------
(***************************************************************************)
(* Reading the target: TargetClient::nonces.                               *)
(***************************************************************************)
NoncesAt(lane) ==
    [latest |-> LastDeliveredNonce(lane),
     confirmed |-> lane.last_confirmed_nonce,
     entries |-> Len(lane.relayers),
     total |-> TotalUnrewardedMessages(lane),
     oldest |-> IF lane.relayers = <<>> THEN 0
                ELSE lane.relayers[1].end - lane.relayers[1].begin + 1]

(***************************************************************************)
(* The strategy's choice: select_race_action.  Options are sets of at most *)
(* one element, or None.                                                   *)
(***************************************************************************)
LatestConfirmedNonceAtSource(r, at) ==
    LET known == {i \in DOMAIN r.confirmedQueue : r.confirmedQueue[i].at <= at}
    IN  IF known = {} THEN r.targetNonces.confirmed ELSE r.confirmedQueue[Max(known)].nonce

\* Mutant: a header that is one too young is taken to be known at the target.
AvailableIndicesTooYoung(r, at) ==
    LET undelivered == {i \in DOMAIN r.queue : r.queue[i].last > r.bestTargetNonce}
    IN  {i \in undelivered : \A j \in undelivered : j <= i => r.queue[j].at <= at + 1}

\* available_source_queue_indices: entries not delivered at the best target
\* block, up to the first that is queued at a header the target does not know.
AvailableIndices(r, at) ==
    LET undelivered == {i \in DOMAIN r.queue : r.queue[i].last > r.bestTargetNonce}
    IN  {i \in undelivered : \A j \in undelivered : j <= i => r.queue[j].at <= at}

\* Mutant: the limits are passed before they are noticed.
UnrewardedLimitReachedLate(r) ==
    \/ r.targetNonces.entries > MaxUnrewardedRelayers
    \/ r.targetNonces.total > MaxUnconfirmedMessages

UnrewardedLimitReached(r) ==
    \/ r.targetNonces.entries >= MaxUnrewardedRelayers
    \/ r.targetNonces.total >= MaxUnconfirmedMessages

MaxNoncesInBatch(r, confirmed) ==
    LET left == MaxUnconfirmedMessages - (r.targetNonces.latest - confirmed)
    IN  IF r.targetNonces.latest < confirmed \/ left < 0 THEN 0
        ELSE Min({left, MaxMessagesInSingleBatch})

\* MessageRaceLimits::decide, for any limits on weight and size: a range that
\* begins at the first available nonce, of one message or more.
Decide(r, indices, maxNonces) ==
    IF indices = {} \/ maxNonces = 0 THEN {}
    ELSE LET first == Max({r.bestTargetNonce + 1, r.queue[Min(indices)].first})
             ready == UNION {r.queue[i].first .. r.queue[i].last : i \in indices}
             count == Cardinality({n \in ready : n >= first})
         IN  {[first |-> first, last |-> first + k - 1] :
                k \in 1 .. Min({count, maxNonces})}

FutureConfirmedNonceAtTarget(r, confirmed) ==
    IF r.targetNonces.confirmed < confirmed THEN confirmed ELSE r.targetNonces.confirmed

SelectRaceAction(r, at) ==
    IF \/ r.toSubmit # None \/ r.submitted # None
       \/ r.bestTargetNonce = None \/ at = None \/ r.targetNonces = None
    THEN {}
    ELSE LET confirmed == LatestConfirmedNonceAtSource(r, at)
             target == r.targetNonces
             withState == target.confirmed < confirmed
             limit == UnrewardedLimitReached(r)
             enough == Max({confirmed - target.confirmed, 0}) >= target.oldest
             ranges == Decide(r, AvailableIndices(r, at),
                              MaxNoncesInBatch(r, FutureConfirmedNonceAtTarget(r, confirmed)))
             selected == IF ranges # {} THEN ranges
                         ELSE IF limit /\ withState THEN {[first |-> 1, last |-> 0]}
                         ELSE {}
         IN  IF limit /\ ~ enough THEN {}
             ELSE {[first |-> s.first, last |-> s.last, withState |-> withState, at |-> at] :
                     s \in selected}

BestAtSource(r) ==
    IF r.bestTargetNonce = None THEN None
    ELSE IF r.queue # <<>> /\ r.queue[Len(r.queue)].last > r.bestTargetNonce
    THEN r.queue[Len(r.queue)].last
    ELSE r.bestTargetNonce

\* required_source_header_at_target.
RequiredSourceHeaderAtTarget(r) ==
    LET forDelivery == IF r.queue = <<>> THEN None ELSE r.queue[Len(r.queue)].at
        forReward == IF r.confirmedQueue = <<>> THEN None
                     ELSE r.confirmedQueue[Len(r.confirmedQueue)].at
    IN  IF r.submitted # None \/ SelectRaceAction(r, r.peer) # {} THEN None
        ELSE IF SelectRaceAction(r, forDelivery) # {} THEN forDelivery
        ELSE IF SelectRaceAction(r, forReward) # {} THEN forReward
        ELSE None

-----------------------------------------------------------------------------
(***************************************************************************)
(* What the strategy makes of news.                                        *)
(***************************************************************************)

\* Mutant: a confirmed nonce is noted only if another one is known.
SourceNoncesUpdatedUnlessEmpty(r, at, prev) ==
    LET confirmed == source[at].confirmed
        isNew == /\ r.confirmedQueue # <<>>
                 /\ r.confirmedQueue[Len(r.confirmedQueue)].nonce # confirmed
        bestInQueue == IF r.queue # <<>> THEN r.queue[Len(r.queue)].last
                       ELSE IF r.bestTargetNonce # None THEN r.bestTargetNonce
                       ELSE 0
        first == Max({prev, bestInQueue}) + 1
        last == source[at].generated
    IN  [r EXCEPT
           !.confirmedQueue = IF isNew THEN Append(@, [at |-> at, nonce |-> confirmed]) ELSE @,
           !.queue = IF first <= last
                     THEN Append(@, [at |-> at, first |-> first, last |-> last]) ELSE @]

\* source_nonces_updated, of both strategies; the source was asked for what
\* comes after prev, at the block at.
SourceNoncesUpdated(r, at, prev) ==
    LET confirmed == source[at].confirmed
        isNew == \/ r.confirmedQueue = <<>>
                 \/ r.confirmedQueue[Len(r.confirmedQueue)].nonce # confirmed
        bestInQueue == IF r.queue # <<>> THEN r.queue[Len(r.queue)].last
                       ELSE IF r.bestTargetNonce # None THEN r.bestTargetNonce
                       ELSE 0
        first == Max({prev, bestInQueue}) + 1
        last == source[at].generated
    IN  [r EXCEPT
           !.confirmedQueue = IF isNew THEN Append(@, [at |-> at, nonce |-> confirmed]) ELSE @,
           !.queue = IF first <= last
                     THEN Append(@, [at |-> at, first |-> first, last |-> last]) ELSE @]

\* best_target_nonces_updated: what is selected or submitted is forgotten once
\* a part of it is at the target.
BestTargetNoncesUpdated(r, nonces) ==
    [r EXCEPT
       !.targetNonces = nonces,
       !.bestTargetNonce = nonces.latest,
       !.toSubmit = IF @ # None /\ nonces.latest >= @.first THEN None ELSE @,
       !.submitted = IF @ # None /\ nonces.latest >= @.first THEN None ELSE @]

\* Entries are popped from the front of a queue until there is one to be kept.
FromFirst(queue, kept) ==
    IF kept = {} THEN <<>> ELSE SubSeq(queue, Min(kept), Len(queue))

\* Mutant: one nonce too many is removed.
RemoveLeNoncesAndNext(queue, nonce) ==
    LET left == FromFirst(queue, {i \in DOMAIN queue : queue[i].last > nonce + 1})
    IN  [i \in DOMAIN left |->
            [left[i] EXCEPT !.first = IF i = 1 THEN Max({@, nonce + 2}) ELSE @]]

\* remove_le_nonces_from_source_queue.
RemoveLeNonces(queue, nonce) ==
    LET left == FromFirst(queue, {i \in DOMAIN queue : queue[i].last > nonce})
    IN  [i \in DOMAIN left |->
            [left[i] EXCEPT !.first = IF i = 1 THEN Max({@, nonce + 1}) ELSE @]]

\* finalized_target_nonces_updated: confirmed nonces met before the header that
\* the target knows are dropped.
FinalizedTargetNoncesUpdated(r, latest) ==
    [r EXCEPT
       !.confirmedQueue = IF r.peer = None THEN @
                          ELSE FromFirst(@, {i \in DOMAIN @ : @[i].at >= r.peer}),
       !.targetNonces = IF @ = None THEN @
                        ELSE [@ EXCEPT !.latest = Max({r.targetNonces.latest, latest})],
       !.queue = RemoveLeNonces(@, latest),
       !.bestTargetNonce = IF @ = None THEN latest ELSE Max({@, latest})]

-----------------------------------------------------------------------------
(***************************************************************************)
(* The end of an iteration: an idle source client is asked for a proof,    *)
(* and an idle target client to submit one or to require a header.  A      *)
(* prepared batch is used now or dropped.                                  *)
(*                                                                         *)
(* The requests for nonces, the last alternatives of both, are made when   *)
(* the notification that asks for them arrives, see below.                 *)
(***************************************************************************)
AskSource(r) ==
    LET at == IF r.batch # None THEN r.batch ELSE r.peer
        actions == SelectRaceAction(r, at)
        taken == [r EXCEPT !.batch = None]
    IN  IF r.sourceRequest # Idle THEN {r}
        ELSE IF actions = {} THEN {taken}
        ELSE {[taken EXCEPT !.sourceRequest =
                 [kind |-> "proof", nonces |-> a, batch |-> r.batch # None]] : a \in actions}

AskTarget(r) ==
    IF r.targetRequest # Idle THEN r
    ELSE IF r.toSubmit # None
    THEN [r EXCEPT !.targetRequest = [kind |-> "submit"]]
    ELSE IF r.requiredHeader # None
    THEN [r EXCEPT !.targetRequest = [kind |-> "require", header |-> r.requiredHeader]]
    ELSE r

\* The rest of an iteration whose branch leaves the state r.
LoopEnd(r) == {AskTarget(s) : s \in AskSource(r)}

Continue(r) == \E before \in {r} : \E after \in LoopEnd(before) : race' = after

-----------------------------------------------------------------------------
(***************************************************************************)
(* The branches of select!.  process_future_result takes a client offline  *)
(* when its request fails, until the retry delay has passed.               *)
(***************************************************************************)
Offline == [kind |-> "offline"]

MayFail == faults < MaxFaults /\ faults' = faults + 1

NoFault == UNCHANGED faults

(***************************************************************************)
(* New headers.  A header that is seen while the client is busy sets a     *)
(* flag; the request is made when the client is free, and its answer       *)
(* clears the flag, so that news in between are lost until the next        *)
(* header.  Headers keep coming, and an answer that is under way commutes  *)
(* with what the chains do: so only the headers that are seen by a free    *)
(* client are followed by a request here.                                  *)
(***************************************************************************)
SourceUpdated ==
    /\ race.sourceRequest = Idle
    /\ BestAtSource(race) # None
    /\ race' = [race EXCEPT !.sourceRequest =
                 [kind |-> "nonces", at |-> Len(source), prev |-> BestAtSource(race)]]
    /\ UNCHANGED chainVars

\* Of every state of the target the header that it knows is noted.
PeerUpdated ==
    /\ race.peer # best.peer
    /\ Continue([race EXCEPT !.peer = best.peer])
    /\ UNCHANGED chainVars

Ask(request) ==
    /\ race.targetRequest = Idle
    /\ race' \in {[r EXCEPT !.targetRequest = IF @ = Idle THEN request ELSE @] :
                   r \in LoopEnd([race EXCEPT !.peer = best.peer])}
    /\ UNCHANGED chainVars

BestUpdated == Ask([kind |-> "best", nonces |-> NoncesAt(best.lane)])

FinalizedUpdated == Ask([kind |-> "finalized", latest |-> LastDeliveredNonce(finalized.lane)])

SourceNonces ==
    LET request == race.sourceRequest
        after(r) == [r EXCEPT !.requiredHeader = RequiredSourceHeaderAtTarget(r)]
        done == [race EXCEPT !.sourceRequest = Idle]
    IN  /\ request.kind = "nonces"
        /\ \/ /\ Continue(after(SourceNoncesUpdated(done, request.at, request.prev)))
              /\ NoFault
           \/ /\ Continue(after([done EXCEPT !.sourceRequest = Offline]))
              /\ MayFail
        /\ UNCHANGED <<source, best, finalized, pool, tracker>>

TargetBestNonces ==
    LET request == race.targetRequest
        done == [race EXCEPT !.targetRequest = Idle]
    IN  /\ request.kind = "best"
        /\ \/ /\ Continue(BestTargetNoncesUpdated(done, request.nonces))
              /\ NoFault
           \/ /\ Continue([done EXCEPT !.targetRequest = Offline])
              /\ MayFail
        /\ UNCHANGED <<source, best, finalized, pool, tracker>>

TargetFinalizedNonces ==
    LET request == race.targetRequest
        done == [race EXCEPT !.targetRequest = Idle]
    IN  /\ request.kind = "finalized"
        /\ \/ /\ Continue(FinalizedTargetNoncesUpdated(done, request.latest))
              /\ NoFault
           \/ /\ Continue([done EXCEPT !.targetRequest = Offline])
              /\ MayFail
        /\ UNCHANGED <<source, best, finalized, pool, tracker>>

\* The client either asks the headers relay, which imports headers at any time
\* here, or returns a batch transaction.
RequireSourceHeader ==
    LET request == race.targetRequest
        done == [race EXCEPT !.requiredHeader = None, !.targetRequest = Idle]
    IN  /\ request.kind = "require"
        /\ \/ /\ \E batch \in {None, request.header} : Continue([done EXCEPT !.batch = batch])
              /\ NoFault
           \/ /\ Continue([done EXCEPT !.targetRequest = Offline])
              /\ MayFail
        /\ UNCHANGED <<source, best, finalized, pool, tracker>>

\* A failure ends the loop, see ConnectionLost.
GenerateProof ==
    LET request == race.sourceRequest
    IN  /\ request.kind = "proof"
        /\ Continue([race EXCEPT
                 !.sourceRequest = Idle,
                 !.toSubmit = [first |-> request.nonces.first, last |-> request.nonces.last,
                               withState |-> request.nonces.withState,
                               at |-> request.nonces.at, batch |-> request.batch]])
        /\ UNCHANGED chainVars

\* A transaction that cannot be submitted makes the race wait for the best
\* nonces of the target.
SubmitProof ==
    LET done == [race EXCEPT !.targetRequest = Idle, !.toSubmit = None]
        tx == race.toSubmit
    IN  /\ race.targetRequest.kind = "submit"
        /\ Cardinality(pool) < MaxPool
        /\ \/ /\ Continue([done EXCEPT !.submitted =
                                      [first |-> tx.first, last |-> tx.last]])
              /\ pool' = pool \cup {tx}
              /\ tracker' = [status |-> "waiting", tx |-> tx]
              /\ NoFault
           \/ /\ Continue([done EXCEPT !.targetRequest = Offline,
                                                !.targetNonces = None,
                                                !.bestTargetNonce = None])
              /\ UNCHANGED <<pool, tracker>>
              /\ MayFail
        /\ UNCHANGED <<source, best, finalized>>

ForgetSubmitted(r) == [r EXCEPT !.submitted = None]

\* The transaction is in a finalized block, and what has been received is read
\* there, unless that fails; or it is considered lost, and may be in the pool
\* still.
TransactionFinalized ==
    /\ tracker.status = "finalized"
    /\ \/ /\ Continue(IF race.submitted # None /\ tracker.latest < race.submitted.last
                    THEN ForgetSubmitted(race) ELSE race)
          /\ NoFault
       \/ /\ Continue(ForgetSubmitted(race))
          /\ MayFail
    /\ tracker' = [status |-> "none"]
    /\ UNCHANGED <<source, best, finalized, pool>>

TransactionLost ==
    /\ \/ tracker.status = "waiting" /\ pool' \in {pool, pool \ {tracker.tx}} /\ MayFail
       \/ tracker.status = "dropped" /\ UNCHANGED <<pool, faults>>
    /\ Continue(ForgetSubmitted(race))
    /\ tracker' = [status |-> "none"]
    /\ UNCHANGED <<source, best, finalized>>

GoOnline ==
    /\ \/ /\ race.sourceRequest = Offline
          /\ Continue([race EXCEPT !.sourceRequest = Idle])
       \/ /\ race.targetRequest = Offline
          /\ Continue([race EXCEPT !.targetRequest = Idle])
    /\ UNCHANGED chainVars

\* A connection error: run() returns and relay_loop starts the races afresh.
ConnectionLost ==
    /\ race # FreshRace
    /\ race' = FreshRace
    /\ tracker' = [status |-> "none"]
    /\ MayFail
    /\ UNCHANGED <<source, best, finalized, pool>>

-----------------------------------------------------------------------------
(***************************************************************************)
(* The chains.                                                             *)
(***************************************************************************)
Tip == source[Len(source)]

\* Bound: one target block at a time waits for its finality.
NothingPending == best = finalized /\ tracker.status # "mined"

\* A finalized source block: messages are sent, or the confirmations race of
\* some relayer has proved deliveries of a finalized target block.
SourceBlock(generated, confirmed) ==
    /\ <<generated, confirmed>> # <<Tip.generated, Tip.confirmed>>
    /\ source' = Append(source, [generated |-> generated, confirmed |-> confirmed])
    /\ UNCHANGED <<best, finalized, pool, tracker, race, faults>>

ImportHeader(h) ==
    /\ NothingPending
    /\ h > best.peer
    /\ best' = [best EXCEPT !.peer = h]
    /\ UNCHANGED <<source, finalized, pool, tracker, race, faults>>

\* receive_messages_proof in a target block.  The proof has to be at a header
\* that is known and to hold the messages.
ProofIsValid(tx, peer) ==
    /\ tx.at <= peer
    /\ tx.first <= tx.last =>
         source[tx.at].confirmed < tx.first /\ tx.last <= source[tx.at].generated

Received(lane, tx, relayer) ==
    ReceiveMessages(IF tx.withState THEN ReceiveStateUpdate(lane, source[tx.at].confirmed)
                                    ELSE lane,
                    relayer, tx.first, tx.last)

AfterTransaction(block, tx) ==
    LET peer == IF tx.batch THEN Max({tx.at, block.peer}) ELSE block.peer
    IN  IF ProofIsValid(tx, peer)
        THEN [lane |-> Received(block.lane, tx, Us), peer |-> peer]
        ELSE block

MineTransaction(tx) ==
    /\ NothingPending
    /\ best' = AfterTransaction(best, tx)
    /\ pool' = pool \ {tx}
    /\ tracker' = IF tracker = [status |-> "waiting", tx |-> tx]
                  THEN [status |-> "mined",
                        latest |-> LastDeliveredNonce(AfterTransaction(best, tx).lane)]
                  ELSE tracker
    /\ UNCHANGED <<source, finalized, race, faults>>

\* Another relayer's delivery; it proves the confirmations that it can.
OtherDelivers(last) ==
    LET tx == [first |-> LastDeliveredNonce(best.lane) + 1, last |-> last,
               withState |-> TRUE, at |-> best.peer]
    IN  /\ NothingPending
        /\ ProofIsValid(tx, best.peer)
        /\ Received(best.lane, tx, Other) # best.lane
        /\ best' = [best EXCEPT !.lane = Received(@, tx, Other)]
        /\ UNCHANGED <<source, finalized, pool, tracker, race, faults>>

Finalize ==
    /\ finalized # best \/ tracker.status = "mined"
    /\ finalized' = best
    /\ tracker' = IF tracker.status = "mined" THEN [tracker EXCEPT !.status = "finalized"]
                  ELSE tracker
    /\ UNCHANGED <<source, best, pool, race, faults>>

Loop ==
    \/ SourceUpdated \/ PeerUpdated \/ BestUpdated \/ FinalizedUpdated
    \/ SourceNonces \/ TargetBestNonces \/ TargetFinalizedNonces
    \/ RequireSourceHeader \/ GenerateProof \/ SubmitProof
    \/ TransactionFinalized \/ TransactionLost \/ GoOnline \/ ConnectionLost

Chains ==
    \/ \E generated \in Tip.generated .. MaxMessages,
          confirmed \in Tip.confirmed .. LastDeliveredNonce(finalized.lane) :
            /\ Len(source) < MaxSourceBlocks
            /\ SourceBlock(generated, confirmed)
    \/ \E h \in DOMAIN source : ImportHeader(h)
    \/ \E tx \in pool : MineTransaction(tx)
    \/ \E last \in 0 .. MaxMessages : OtherDelivers(last)
    \/ Finalize

Next == Loop \/ Chains

RaceSpec == Init /\ [][Next]_vars

-----------------------------------------------------------------------------
\* The proofs that are requested, made or submitted.
Selections ==
    (IF race.sourceRequest.kind = "proof" THEN {race.sourceRequest.nonces} ELSE {})
    \cup (IF race.toSubmit # None THEN {race.toSubmit} ELSE {})

\* available_source_queue_indices: "we want to deliver all nonces, starting
\* from target_nonce + 1".  A proof that leaves out a nonce would be refused,
\* and whatever nonce is missing in the queue would never be asked for again.
StartsAtNextNonce ==
    \A s \in Selections :
        s.first <= s.last => s.first <= LastDeliveredNonce(best.lane) + 1

\* "All entries before and including the range end index, are guaranteed to be
\* witnessed at source blocks that are known to be finalized at the target
\* node": the proof is made at a block that has the messages, however old the
\* queues are.
WitnessedAtProvedBlock ==
    \A s \in Selections : s.last <= source[s.at].generated

\* If the target is as the strategy believes it to be when it selects, the
\* transaction is not wasted: it delivers a message, and one without messages
\* frees an entry.
UsefulIfUpToDate ==
    LET request == race'.sourceRequest
        after == Received(best.lane, request.nonces, Us)
    IN  (/\ request.kind = "proof"
         /\ request # race.sourceRequest
         /\ race'.targetNonces = NoncesAt(best.lane)
         /\ ProofIsValid(request.nonces, request.nonces.at))
        => \/ LastDeliveredNonce(after) \in request.nonces.first .. request.nonces.last
           \/ /\ request.nonces.last = 0
              /\ Len(after.relayers) < Len(best.lane.relayers)

SelectionIsUseful == [][UsefulIfUpToDate]_vars

\* What a delivery with a proof at the block h would achieve: a blocked lane has
\* its oldest entry freed, any other receives a message.
Deliverable(h) ==
    LET lane == best.lane
        tx == [first |-> LastDeliveredNonce(lane) + 1, last |-> source[h].generated,
               withState |-> TRUE, at |-> h]
    IN  IF Len(lane.relayers) >= MaxUnrewardedRelayers
           \/ TotalUnrewardedMessages(lane) >= MaxUnconfirmedMessages
        THEN Len(ReceiveStateUpdate(lane, source[h].confirmed).relayers) < Len(lane.relayers)
        ELSE tx.first <= tx.last /\ ProofIsValid(tx, h)

\* The race does not wait in vain.  When it has just read the nonces of the
\* newest source block, knows the target as it is and has no request and no
\* transaction under way, then it asks for a proof or for a header if there is a
\* block with which the lane could go on; also after
\* finalized_target_nonces_updated has emptied the queue of confirmed nonces,
\* and after failures and restarts.  Nonces that it holds as selected or
\* submitted are no reason to wait if their transaction was never sent, or is
\* no longer tracked and has not delivered them.
FindsWork ==
    LET upToDate == /\ race.sourceRequest.kind = "nonces"
                    /\ race.sourceRequest.at = Len(source)
                    /\ race.sourceRequest.prev = BestAtSource(race)
                    /\ race.targetNonces = NoncesAt(best.lane)
                    /\ race.peer = best.peer
        idle == /\ \/ race.submitted = None
                   \/ /\ tracker.status = "none"
                      /\ race.submitted.last > LastDeliveredNonce(best.lane)
                /\ race.targetRequest = Idle
                /\ race.batch = None
        answered == /\ race'.sourceRequest \notin {race.sourceRequest, Offline}
                    /\ race' # FreshRace
    IN  (upToDate /\ idle /\ answered /\ \E h \in best.peer .. Len(source) : Deliverable(h))
        => race'.sourceRequest.kind = "proof" \/ race'.targetRequest.kind = "require"

NeverWaitsInVain == [][FindsWork]_vars

-----------------------------------------------------------------------------
(***************************************************************************)
(* The inductive invariant.  The chains only go on: the nonces of source   *)
(* blocks do not decrease, and what has been confirmed has been delivered. *)
(***************************************************************************)
SourceBlocks == [generated : Nat, confirmed : Nat]

SourceOK(blocks, delivered) ==
    /\ blocks \in Seq(SourceBlocks) /\ blocks # <<>>
    /\ \A i, j \in DOMAIN blocks : i <= j => /\ blocks[i].generated <= blocks[j].generated
                                             /\ blocks[i].confirmed <= blocks[j].confirmed
    /\ \A i \in DOMAIN blocks : blocks[i].confirmed <= delivered

TargetBlocks == [lane : InboundLaneData, peer : Nat]

TargetBlockOK(block, blocks) ==
    /\ block \in TargetBlocks /\ block.peer \in DOMAIN blocks
    /\ WellFormed(block.lane)

(***************************************************************************)
(* What the race knows has been true: headers are those of source blocks,  *)
(* and nonces of the target have been delivered by now, up to delivered.   *)
(***************************************************************************)
HeaderOK(header, blocks) == header = None \/ header \in DOMAIN blocks

NoncesOK(nonces, delivered) ==
    /\ nonces \in [latest : Nat, confirmed : Nat, entries : Nat, total : Nat, oldest : Nat]
    /\ nonces.latest <= delivered

BestNonceOK(nonce, target, delivered) ==
    /\ nonce = None \/ nonce \in 0 .. delivered
    /\ target = None \/ (NoncesOK(target, delivered) /\ nonce = target.latest)

\* The queue has the nonces that the source had at the block of an entry, and
\* leaves out none that is not delivered.
QueueOK(queue, blocks, delivered) ==
    /\ queue \in Seq([at : Nat, first : Nat, last : Nat])
    /\ \A i \in DOMAIN queue :
         /\ queue[i].at \in DOMAIN blocks
         /\ queue[i].first <= queue[i].last
         /\ queue[i].last <= blocks[queue[i].at].generated
         /\ \/ queue[i].first <= delivered + 1
            \/ i > 1 /\ queue[i].first <= queue[i - 1].last + 1
    /\ \A i, j \in DOMAIN queue : i <= j => queue[i].at <= queue[j].at

ConfirmedQueueOK(queue, blocks) ==
    /\ queue \in Seq([at : Nat, nonce : Nat])
    /\ \A i \in DOMAIN queue : /\ queue[i].at \in DOMAIN blocks
                               /\ queue[i].nonce = blocks[queue[i].at].confirmed

SelectionOK(s, blocks, delivered) ==
    /\ s.first \in Nat /\ s.last \in Nat /\ s.at \in DOMAIN blocks
    /\ s.last <= blocks[s.at].generated
    /\ s.first <= s.last => s.first <= delivered + 1

\* The nonces that follow prev are asked for: those up to prev are in the queue,
\* or delivered.
SourceRequestOK(request, queue, blocks, delivered) ==
    /\ request.kind = "nonces" =>
         /\ request.at \in DOMAIN blocks /\ request.prev \in Nat
         /\ \/ request.prev <= delivered
            \/ queue # <<>> /\ request.prev <= queue[Len(queue)].last
         /\ \A i \in DOMAIN queue : queue[i].at <= request.at
    /\ request.kind = "proof" => SelectionOK(request.nonces, blocks, delivered)

TargetRequestOK(request, blocks, delivered) ==
    /\ request.kind = "best" => NoncesOK(request.nonces, delivered)
    /\ request.kind = "finalized" => request.latest \in 0 .. delivered
    /\ request.kind = "require" => request.header \in DOMAIN blocks

RaceOK(r, blocks, delivered) ==
    /\ DOMAIN r = DOMAIN FreshRace
    /\ HeaderOK(r.peer, blocks) /\ HeaderOK(r.batch, blocks) /\ HeaderOK(r.requiredHeader, blocks)
    /\ BestNonceOK(r.bestTargetNonce, r.targetNonces, delivered)
    /\ QueueOK(r.queue, blocks, delivered) /\ ConfirmedQueueOK(r.confirmedQueue, blocks)
    /\ r.toSubmit = None \/ SelectionOK(r.toSubmit, blocks, delivered)
    /\ SourceRequestOK(r.sourceRequest, r.queue, blocks, delivered)
    /\ TargetRequestOK(r.targetRequest, blocks, delivered)
    /\ r.targetRequest.kind = "submit" => SelectionOK(r.toSubmit, blocks, delivered)

RaceInv ==
    LET delivered == LastDeliveredNonce(best.lane)
    IN  /\ SourceOK(source, LastDeliveredNonce(finalized.lane))
        /\ TargetBlockOK(best, source) /\ TargetBlockOK(finalized, source)
        /\ LastDeliveredNonce(finalized.lane) <= delivered
        /\ RaceOK(race, source, delivered)
        /\ \A tx \in pool : SelectionOK(tx, source, delivered)

(***************************************************************************)
(* What the race waits for is under way: nothing is left to be submitted   *)
(* when the target client is idle, and nonces are held as submitted only   *)
(* while their transaction is tracked, or once they are delivered.         *)
(***************************************************************************)
TrackedInv ==
    LET delivered == LastDeliveredNonce(best.lane)
    IN  /\ race.targetRequest = Idle => race.toSubmit = None
        /\ tracker.status \in {"mined", "finalized"} =>
             tracker \in [status : {"mined", "finalized"}, latest : 0 .. delivered]
        /\ race.submitted # None =>
             /\ race.submitted.last \in Nat
             /\ tracker.status # "none" \/ race.submitted.last <= delivered
=============================================================================
