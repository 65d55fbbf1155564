# Verification of the bridges

This directory holds TLA+ specifications, TLC configurations and TLAPS proofs about the message
bridge of this repository, a fork of the Polkadot SDK. The repository is a platform of several
systems (Substrate, Polkadot, Cumulus, the bridges). The subject here is the part with the
hardest distributed behaviour of its own: *lanes* that carry messages between two chains which
see each other only through light clients, served by relayers that nobody trusts. Around the lane
(`bridges/modules/messages`) the project covers the bridge hub that opens and closes it and the
router that pays for it (`xcm-bridge-hub`, `xcm-bridge-hub-router`), the light clients (`grandpa`,
`parachains`), the relayers' stakes and transactions (`relayers`), the relay program itself
(`bridges/relays/messages`), and the queue in which arriving messages wait to be executed
(`substrate/frame/message-queue`).

Contents: [inventory](#inventory), [modules](#modules), [runs](#runs), [findings](#findings),
[fairness](#fairness), [proofs](#proofs), [what is not modelled](#what-is-not-modelled),
[plan](#plan).

## Inventory

| Part | State | Operations | Interacts with |
|---|---|---|---|
| Outbound lane (`outbound_lane.rs`) | `OutboundLanes`: oldest unpruned, latest received and latest generated nonce, state; `OutboundMessages` | `send_message`, `confirm_delivery`, `remove_oldest_unpruned_message`, `set_state`, `purge` | called by the messages pallet and by `close_bridge` |
| Inbound lane (`inbound_lane.rs`) | `InboundLanes`: last confirmed nonce, queue of unrewarded relayers, state | `receive_state_update`, `receive_message`, `set_state`, `purge` | calls `MessageDispatch::dispatch` |
| Messages pallet (`messages/src/lib.rs`, `lanes_manager.rs`, `proofs.rs`) | operating mode | `receive_messages_proof`, `receive_messages_delivery_proof`, `set_operating_mode`, `validate_message`, `send_message` | reads headers of the light client, pays rewards, notifies the bridge hub |
| XCM bridge hub (`xcm-bridge-hub/src`) | `Bridges`: state, lane and deposit of each bridge; `LaneToBridge` | `ExportXcm::validate`/`deliver`, `open_bridge`, `close_bridge`, congestion handling | drives both lanes; holds deposits; calls the local channel manager |
| Router (`xcm-bridge-hub-router/src`) | `Bridge`: congestion and fee factor | `SendXcm`, `report_bridge_status`, `on_initialize` | sends to the hub, is told by it of congestion |
| Payments (`relayers/src/payment_adapter.rs`) | `RelayerRewards` | `pay_reward` | called on confirmation |
| Relayers pallet and its transaction extension | `RegisteredRelayers`, reserved stakes, `RelayerRewards` | `register`, `deregister`, `slash_and_deregister`, `claim_rewards`; `validate`, `post_dispatch_details` | boosts, rewards and slashes the relayers of deliveries |
| GRANDPA client (`grandpa`) | ring of imported headers, authority set, free submissions left | `initialize`, `submit_finality_proof_ex`, `force_set_pallet_state`, modes, block hooks | storage proofs are checked against its headers |
| Parachains client (`parachains`) | `ParasInfo` and a ring of heads per parachain | `submit_parachain_heads_ex`, modes | heads are proved at headers of the GRANDPA client; shares its free submissions |
| Messages relay (`relays/messages/src`) | queues of nonces per header, submitted and selected nonces, requests under way | two races: delivery, confirmation | polls both chains, submits calls, tracks transactions |
| Message queue (`substrate/frame/message-queue`) | books, pages, the ring of ready queues | `enqueue_message`, `service_queues`, `execute_overweight`, `reap_page`, `sweep_queue`, `force_set_head` | gives messages to a processor, which may enqueue more |
| BEEFY, Snowbridge, finality relays, Cumulus queues, XCM, Polkadot, Substrate | their own | | appear only as environment, see [below](#what-is-not-modelled) |

How a message travels. The source assigns it the next nonce and stores it. A relayer imports a
source header into the target's light client and submits `receive_messages_proof` with the
message and, optionally, the outbound lane's state, both proved at that header. The target
dispatches it if its nonce is the next one and the limits allow it, and notes the relayer. A
relayer imports a target header into the source and submits `receive_messages_delivery_proof`
with the inbound lane's data. The source moves `latest_received_nonce`, prunes the messages and
pays the relayers. The target learns of this from the outbound lane's state in a later messages
proof and drops the relayers' entries, which makes room for more deliveries. Each chain thus acts
on *old* states of the other, and three parties wait for one another.

What is hard:

- proofs are repeated, delayed and reordered, and made at any remembered header;
- a confirmation may end inside an entry of the unrewarded relayers, and the same entry is
  seen again in later proofs;
- the limits on entries and on unconfirmed messages block the lane until a cycle over both
  chains has completed;
- an owner closes the bridge, in several calls, while proofs are under way, and opens it again;
- the operating modes and the dispatcher's activity change in between;
- the relay acts on answers that are old when they arrive, loses transactions and connections;
- reports of congestion, deposits and stakes outlive the state that they were made for;
- a ring of headers or heads is written around, also after governance has gone back;
- a message that is being executed enqueues into the queue that it comes from.

What makes the parts correct:

- the lane: messages are dispatched exactly once and in order, nonces of both ends never cross;
- the outbound lane: nothing unconfirmed is pruned before the owner closes, what is confirmed is;
- the inbound lane: its entries cover exactly the unconfirmed deliveries, within the limits;
- payments: each confirmed message is paid for once, to the relayer that delivered it;
- confirmations: an honest proof is never refused, or the lane would be stuck for good;
- the bridge hub: a bridge that is being closed stays so, leaves nothing behind, gives its deposit
  back, and tells its owner when it is congested and when no longer, so that the fee follows;
- the light clients: no change of authorities is skipped, what the ring names is stored and the
  other way round, heads never go back, and no more submissions are free than a block allows;
- the relayers: a boost is always backed by a stake, stakes stay reserved as long as they are
  registered and no longer, and deliveries that the lane has room for are not slashed;
- the relay: it never pays for a call that achieves nothing, does not wait when it could go on,
  and everything sent arrives;
- the message queue: every message is executed once and in order, every queue gets its turn.

`PROJECT.json` lists each component with its status, and the hazards line by line.

## Modules

| Module | What it is |
|---|---|
| `OutboundLane` | `OutboundLaneData`, `OutboundMessages` and the methods of `OutboundLane`, `calc_relayers_rewards` and the pruning loop of `close_bridge`, as operators |
| `InboundLane` | `InboundLaneData` and the methods of `InboundLane`; the loops in closed form; `WellFormed`, the documented shape of the relayers queue |
| `BridgeMessages` | the two chains, their light clients and the relayers, composed: the main specification with its properties and inductive invariant |
| `MessageChannel` | the abstract specification: an exactly-once, in-order channel with confirmations |
| `LaneRelay` | the calls that the relay's two races select, fairness, liveness |
| `LaneReopening` | `BridgeMessages` over several lifetimes of the lane, with and without the coordination that the documentation asks for |
| `InboundCall`, `OutboundCall` | the loops of the calls, one iteration per step, compared with the closed forms; `LaneCalls` puts them side by side |
| `DeliveryRace` | the relay's delivery race as it runs: the `select!` loop, its requests and its queues, over `InboundLane` |
| `BridgeHub` | bridges, deposits, congestion and routers of several bridges, over `OutboundLane` |
| `GrandpaClient` | the GRANDPA light client with its extension |
| `ParachainHeads` | the parachains light client, composed with `GrandpaClient` |
| `RelayerStakes` | registration, stakes, rewards and the transaction extension for deliveries, over `InboundLane` |
| `MessageQueue` | the message queue pallet |
| `LaneTheorems` | theorems about the operators of `InboundLane` and about sums over finite sets, used by the other proofs |
| `BridgeMessagesProofs` | theorems about the lane, the relay's choices (`LaneRelay`) and the lane's lifetimes (`LaneReopening`) |
| `LaneCallsProofs` | theorems about the loops of `InboundCall` and `OutboundCall` |
| `LightClientProofs`, `RelayerStakesProofs`, `BridgeHubProofs` | theorems about `ParachainHeads` with `GrandpaClient`, `RelayerStakes`, `BridgeHub` |
| `DeliveryRaceProofs`, `MessageQueueProofs` | theorems about `DeliveryRace` and `MessageQueue` |
| `MCBridgeMessages`, `MCLaneRelay`, `MCLaneReopening`, `MCBridgeHub`, `MCParachainHeads`, `MCMessageQueue` | model values, instances and symmetry for TLC |

`OutboundLane` and `InboundLane` are shared: the same operators, about which the theorems are, act
in the lane, in the hub, in the race and in the stakes.

### State and actions of BridgeMessages

| Variable | Storage |
|---|---|
| `outLane`, `outMessages` | `OutboundLanes`, `OutboundMessages` at the source |
| `bridge` | state of the entry in `Bridges`, `Absent` after `Bridges::remove` |
| `rewards` | `RelayerRewards`, in units of the delivery reward |
| `inLane` | `InboundLanes` at the target |
| `srcMode`, `tgtMode` | `PalletOperatingMode` |
| `dispatcherActive` | what `MessageDispatch::is_active` answers |
| `importedSource`, `importedTarget` | the headers that a light client remembers; a header is represented by the lane's storage at it |
| `sent`, `dispatched` | history: payloads accepted, messages dispatched with their relayer |

| Action | Code |
|---|---|
| `SendMessage` | `ExportXcm::validate` and `deliver`: `validate_message`, `send_message`, `on_bridge_message_enqueued` |
| `ReceiveMessagesProof` | the call of that name: mode, number of messages, proof, active lane, active dispatcher, state update, all messages |
| `ReceiveMessagesDeliveryProof` | the call of that name: mode, proof, `confirm_delivery`, `pay_reward`, `on_bridge_messages_delivered` |
| `CloseBridge`, `CloseTargetBridge` | `close_bridge` at either end |
| `SetSourceMode`, `SetTargetMode` | `set_operating_mode` |
| `SetDispatcherActive` | congestion of the owner's local channel at the target |
| `ImportSourceHeader`, `ImportTargetHeader` | `insert_header` |

A dispatchable call is one atomic step, because a block executes calls one after the other and
the storage changes of a failing call are dropped. A call that fails is therefore no step at
all. The interleavings that matter are those of the chains and the relayers, and these are
unrestricted: any relayer, any remembered header, any range of messages, with or without the
state. The channel manager's answer to `suspend_bridge` and `resume_bridge` is a nondeterministic
choice. `close_bridge` at one end closes the lanes of both directions; the model follows one
direction, so at the target the outcome (closed or purged) is left open, as it depends on the
other direction's queue.

The purged lane keeps its last nonces in the model, in state `Absent`: the code removes the
record. In `BridgeMessages` nothing creates it again; `LaneReopening` adds `OpenBridge` and
`OpenTargetBridge`, which start from zero with the guards of `open_bridge`: no bridge and no lane at
that end. The headers of the former lifetime are still remembered. `ReopeningSpec` leaves the two
owners free; in `CoordinatedSpec` they send only when both ends are open (`BothEndsOpened`), which is
what the hub's documentation asks of them.

### Closed forms and loops

In a proof a call is one step, so `receive_state_update`'s while loop, the loop over the messages
of a proof, the checks of the entries, the pruning loops and the reward loop are written in closed
form (`PoppedEntries`, `LastAccepted`, `UnrewardedRelayersAreCorrect`, `RemovedMessages`,
`RelayerReward`, `OldestAfterPruning`). `InboundCall` and `OutboundCall` keep them honest: there
each iteration is a step, translated from the loop's body, and the results must agree with the
closed forms from every lane and for every argument within the bounds. For `confirm_delivery` the
inbound lane data is arbitrary, well formed or not. Each loop has its invariant (`PoppingInv`,
`ReceivingInv`, `VerifyingInv`, `RemovingInv`, `RewardingInv`, `PruningInv`), and with them the
agreement is proved without bounds.

### The delivery race

`DeliveryRace` has the chains as the relay sees them (finalized source blocks, a best and a
finalized target block, transactions not yet in a block) and the variables of `run` in one record
`race`. Each arm of `select!` is an action: `SourceUpdated`, `PeerUpdated`, `BestUpdated`,
`FinalizedUpdated` (client states), `SourceNonces`, `TargetBestNonces`, `TargetFinalizedNonces`
(answers), `RequireSourceHeader`, `GenerateProof`, `SubmitProof`, `TransactionFinalized`,
`TransactionLost`, `GoOnline` (end of a backoff), `ConnectionLost` (the loop starts afresh). After
every arm the second half of the loop runs as a part of the same action: it selects nonces and
starts the next request. A request that is under way carries what it was asked for, and is
answered with the chain's state at a later time. The chains move meanwhile, and so does another
relayer.

### Bridges of a hub

`BridgeHub` follows several bridges of one hub with their outbound queues, the balances of their
owners, and the routers at the owners' chains. `CloseBridge` is the whole of `close_bridge` with
its early return. `ExportMessage` is `validate`, `deliver` and `on_bridge_message_enqueued`;
`ConfirmDelivery` ends in `on_bridge_messages_delivered`. A failing channel manager is a choice
with a bound. The fee factor counts levels above its minimum. Histories: `unreported`, that the
last attempt to report failed, and `abandoned`, that a bridge was closed while it was Suspended and
nothing has been reported of it since. `IsCongestedForOwner` is the Suspended or abandoned bridge.

### Light clients

In `GrandpaClient` a header stands for its number and hash, and a justification is signed by the
set that GRANDPA had for it. `SubmitFinalityProof` has the checks of the call, the refund, the
change of authorities and `insert_header`. `ParachainHeads` adds `SubmitParachainHeads` for any
set of parachains at any remembered relay header, together with entries that update nothing. Two
assumptions are made about what is outside: governance gives `force_set_pallet_state` a header
together with the set that follows it, and the heads of a parachain grow along the relay chain.

### Relayers

`RelayerStakes` is the target chain as a relayer's transaction goes through it: `SubmitDelivery`
is `validate` and gives the boost, `IncludeDelivery` is the call followed by
`post_dispatch_details`, which rewards or slashes. Between them registrations run out, others
deliver first, `RequiredStake` changes and claims, to the relayer itself or to another beneficiary,
empty the rewards account. `DropObsolete` is `check_obsolete_call` on a transaction in the pool; a
halted pallet and an inactive dispatcher are its choice `isAccepting`. A transaction remembers
`atStake`, the smallest stake that was required since it was boosted.

### Message queue

`MessageQueue` has one action per step of the service loop (`StartService`, `ServiceQueue`,
`ServicePage`, `ProcessItem`, `PostponeItem`, `SkipItem`, `EndPage`, `BailOut`, `LeaveQueue`) and
one per call. What a message enqueues while it is processed is a parameter of `ProcessItem` and of
`ExecuteOverweight`. Messages have one size, so a page holds `HeapSize` of them. The documentation
allows a processor to enqueue and nothing else, and so does the model.

## Runs

| Run | Specification | Bounds | Checks |
|---|---|---|---|
| `lane_service` | `FairSpec` of `LaneRelay` | 3 messages, 2 payloads, 2 relayers, 2 entries, 2 unconfirmed, 2 headers, batches of 2 | `TypeOK`, `NonceOrder`, `ExactlyOnceInOrder`, `RewardsExact`, `ProofsNeverRejected`, `UnrewardedEntriesCoverUnconfirmed`, `SelectedCallsAreUseful`, `EverySentIsConfirmed`, `ImplementsFairChannel` |
| `lane_modes` | `Spec` | 2 messages, 2 payloads, 2 relayers, 2 entries, 2 unconfirmed, 2 headers | `IndInv`, `NothingLost`, `PrunedBelowOldest`, `NoTraces`, `ImplementsChannel`, `ClosedBridgeStaysClosed` |
| `lane_calls` | `CallsSpec` | target: nonces up to 6, 2 entries, 4 unconfirmed; source: nonces up to 3, 2 entries of any shape | `TargetCallMatches`, `SourceConfirmationMatches`, `SourcePruningMatches` |
| `lane_reopened` | `CoordinatedSpec` | 2 messages, 1 relayer, 2 headers, 2 lifetimes | `ReceivedByBridgedChain`, violated |
| `delivery_race` | `RaceSpec` | 3 messages, 3 source blocks, 1 entry, 2 unconfirmed, 1 fault, 1 own transaction outside of a block | `StartsAtNextNonce`, `WitnessedAtProvedBlock`, `SelectionIsUseful`, `NeverWaitsInVain` |
| `hub_bridges` | `HubSpec` | 2 bridges of one owner, 2 messages each, thresholds 1 and 0, deposits 0 and 2, 1 failure | `TryState`, `DepositsBackBridges`, `StateFollowsQueue`, `RouterKnowsState`, `FeeFollowsBridge` |
| `light_clients` | `Spec` of `ParachainHeads` | 6 headers, 3 kept, 2 parachains, 2 heads kept, 2 free submissions, 2 forced states | `AuthoritiesFollowBest`, `RingMatchesHeaders`, `RefundsWithinBudget`, `FreePromiseKept`, `HeadsMatchRing`, `HeadsNeverGoBack` |
| `light_clients_forced` | the same | the same, 1 forced state | `BestHeaderIsStored`, violated |
| `relayer_stakes` | `Spec` of `RelayerStakes` | 1 relayer that registers and 1 other, 3 blocks, 3 messages, 2 entries, 3 unconfirmed, 2 transactions in the pool, stakes 1 and 2 | `StakesAreReserved`, `OnlyMissingAccountStrandsStake`, `BoostedIsAtStake`, `RewardedIffRoom` |
| `message_queue` | `Spec` of `MessageQueue` | 3 queues, 4 messages of 2 weights, pages of 2, 1 stale page | `ExactlyOnceInQueueOrder`, `RingIsSound`, `TurnsComeRound` |
| `message_queue_overweight` | `FullSpec` | as `message_queue` | `RingIsSound`, violated |
| `message_queue_try_state` | `Spec` of `MessageQueue` | as `message_queue` | `DoTryState`, violated |

Why these bounds. The lane has more messages than may be unconfirmed, so that it goes through whole
cycles of blocking and freeing. One relayer with a batch of two hits the limit on messages, two
relayers with one message each the limit on entries. Two entries and two relayers are the least
with a partly confirmed entry in front of another one, and a full queue whose front is freed.
Two headers give a stale one beside a fresh one. Congestion thresholds are small enough that a
bridge is suspended and resumed. `lane_modes` runs the complete next-state relation, so it has
fewer messages.

In the race one entry is the tightest limit: every delivery of either relayer blocks the lane
until it has been confirmed, so waiting and proving rewards are the normal case, and a batch holds
one message. Three source blocks are a known, a newer and an unknown one. In the hub two bridges
share an owner, so that their deposits add up, and one can be congested while the other is closed.
Six headers with three kept go around the ring; one of them changes the authorities and one
changes them in a way that the client cannot follow, and two forced states are one back and one
forth. Three blocks let a registration become inactive, run out and be renewed. Three
queues are the least in which one is neither next to the head nor the head; four messages are
enough for two full pages of a queue, and for a stale page that is reaped.

Relayers, payloads, bridges and queues are only compared for equality, and runs without liveness
use that symmetry. Deadlock is checked except where the system stops: when both ends are purged for
the last time (`lane_reopened`) and when a single call has returned (`lane_calls`).

`MaxNonce` stands for `u64::MAX`, which no lane reaches; the models do not wrap nonces around.

### Findings

`lane_reopened`. `close_bridge` purges the lanes, and `open_bridge` creates them again under the
same `LaneId` with nonces from zero ("It now may be reopened again by any participant",
`xcm-bridge-hub/src/lib.rs:795`). Nothing tells the lifetimes of a lane apart, and the light
clients still remember headers of the former one. In the run both ends purge and reopen, and a
message is sent only when both are open, as lib.rs:96-98 asks. A delivery proof at an old header of
the target then confirms the new message: `latest_received_nonce`, documented as the "nonce of the
latest message, received by bridged chain", names a message that nobody has received; it is removed
from the source, and the relayer of the old delivery is paid for it. The owners would have to wait until no
light client remembers a header with the former lane. What holds without any coordination is proved
(`EachEndStaysSound`).

`light_clients_forced`. The documentation of `force_set_pallet_state` says that "previously imported
headers stay in the storage and are still accessible after the call" (`grandpa/src/lib.rs:372`). If
the call goes back to a header that the ring still holds, the headers after it can be imported once
more and then have two positions in the ring. When `insert_header` reuses the older position it
removes the header, be it the one that it has just stored: then the best header is missing. As long
as governance forces no state this cannot happen, which `RingMatchesHeaders` states and
`LightClientProofs` proves.

`message_queue_overweight`. `do_execute_overweight_inner` reads the queue's book and the page, has
the message processed, and stores both (`message-queue/src/lib.rs:1134`). If the message enqueues
into its own queue, which the documentation allows (lib.rs:63), the new page and the place of the
queue in the ready ring are overwritten, and `RingIsSound` fails. If it
enqueues into another queue that is knitted in next to its own, the ring is broken too. The service
loop itself stores and reads again around the processor, "for the case that
`process_message_payload` is recursive", and the run `message_queue` shows that this is enough. The
case is not far-fetched: the outbound queue of Snowbridge enqueues from within XCM execution
(`snowbridge/pallets/outbound-queue/src/send_message_impl.rs:85`).

`message_queue_try_state`. `DoTryState` is the pallet's `do_try_state` between two calls. The service
loop skips an overweight message that is the last of its page and runs out of weight before it leaves
the page. When the message is then executed by hand the page is removed, while the queue stays in the
ready ring, with more ready pages than pages (lib.rs:1435) and without any message (lib.rs:1449). The
next service meets `defensive!("message-queue: referenced page not found")` and passes over it. No
message is lost (`ExactlyOnceInQueueOrder`), and the ring itself stays sound (`RingIsSound`, which
allows the first page of a ready queue to be missing).

Observed, and stated exactly by properties that hold:

- `oldest_unpruned_nonce`, documented as the "nonce of the oldest message that we haven't yet
  pruned", moves back onto a pruned message if a confirmation of fewer messages arrives between two
  `close_bridge` calls, since `confirm_delivery` recomputes it from `latest_received_nonce`. The lane
  is not harmed (`PrunedBelowOldest`, `NoTraces`), but the next `close_bridge` counts messages as
  pruned that were already gone.
- A free submission that the extensions let pass is charged in two cases: no `FreeHeadersInterval`
  is configured and the header is neither mandatory nor the first, or the parachain head is too large
  to be free. `FreePromiseKept` says that there is no third.
- A registered relayer that submits several valid messages and needs a new entry while one relayer
  slot is free is slashed: only its first message is accepted, and `was_successful` looks at the last
  one. `RewardedIffRoom` states when a valid delivery is rewarded and when not. The manual
  (`bridges/docs/running-relayer.md:120`) names only invalid and non-minimal transactions.
- The manual shows `deregister` at the block of `validTill` (line 159); the code needs a later one.
- A slash that fails for want of a rewards account leaves the stake reserved and unregistered. It is
  the only way to get there (`OnlyMissingAccountStrandsStake`).
- A bridge that is closed while it is suspended does not report the end of its congestion. Its router
  goes on raising the fee, also after the bridge has been opened again, until the next report
  arrives. `RouterKnowsState` and `FeeFollowsBridge` state this of exactly these bridges.

### Fairness

`FairSpec` is the lane in service: neither end is closed or halted, while the source may stop
accepting messages at any time.

- Weak fairness of both header imports: the finality relays run as long as there is anything new.
- Weak fairness of `DispatcherRecovers`: the owner's local channel drains some time.
- Weak fairness of `RelayConfirmation`: the confirmation race retries until the call is made, and
  nothing in the model withdraws the need for it but somebody else's confirmation.
- Strong fairness of `RelayDelivery`: congestion interrupts deliveries again and again. The relay
  polls and resubmits for ever (`message_race_loop.rs`), so one of infinitely many chances is
  taken.

`lane_service` checks liveness and the safety of the lane in one run: fairness does not restrict the
states that are reached. The relay of `LaneRelay` looks at the chains and submits in one step, with
the confirmed nonce at the best imported header; that its header is pruned in between is not
modelled. Other relayers act in between as they like. `DeliveryRace` shows why this
is justified of the delivery race: whenever it has read both chains and has nothing under way, it
asks for a proof or a header if the lane could go on (`NeverWaitsInVain`), and what it submits is
not wasted (`SelectionIsUseful`). `NeverWaitsInVain` is a property of single steps and needs no
fairness. The same holds of `TurnsComeRound`: each service loop brings a ready queue nearer to the
head, so a queue gets its turn within as many loops as there are queues.

## Proofs

All proofs are about every value of the constants: any number of relayers, payloads, nonces,
entries, remembered headers, parachains, bridges, owners,
queues, pages and transactions under way. What is assumed of the constants is
named in the modules and evaluated in every run:

- the limits of a lane, the number of headers or heads that are kept and the other sizes are
  positive, and `NoMessage`, `Nobody`, `NoHeader` and their like are no member of the set that
  they are kept apart from;
- the uncongested threshold is not above the congested one (1,024 and 8,192 in `exporter.rs`);
- accounts are finitely many, where their balances are added up;
- a lane may have no more entries than unconfirmed messages, since an entry has a message; the race
  starts from a lane with all of its entries used (`RaceAssumption`);
- the queues of the message queue are finitely many, and serving one costs some weight
  (`QueueAssumption`);
- the heads of a parachain grow along the relay chain (`ParachainsAssumption`).

### The lane

`LaneTheorems`:

- `StateUpdateCorrect`: `receive_state_update` keeps a lane well formed, leaves
  `last_delivered_nonce` alone, moves `last_confirmed_nonce` forward only, and every entry that
  is left is part of an entry that was there.
- `ReceiveMessagesCorrect`: a batch keeps a lane well formed and within both limits, delivers up
  to the last accepted nonce, and owes the new messages to the caller's relayer.

`BridgeMessagesProofs`:

| Theorem | Statement |
|---|---|
| `LaneInvariant` | `Spec => []IndInv` |
| `TypeCorrectness` | `Spec => []TypeOK` |
| `DispatchedExactlyOnce` | `Spec => []ExactlyOnceInOrder` |
| `RelayersPaidOnce` | `Spec => []RewardsExact` |
| `UnconfirmedKept` | `Spec => []NothingLost` |
| `PrunedStaysPruned` | `Spec => []PrunedBelowOldest` |
| `EntriesCover` | `Spec => []UnrewardedEntriesCoverUnconfirmed` |
| `NoncesInOrder` | `Spec => []NonceOrder` |
| `ProofsAccepted` | `Spec => []ProofsNeverRejected` |
| `ClosingIsFinal` | `Spec => ClosedBridgeStaysClosed` |
| `LaneImplementsChannel` | `Spec => ImplementsChannel` |

The argument. None of the safety properties is inductive, since a call acts on an old state of the
other chain: what is needed is what *every remembered header* says. `IndInv` adds to the types

- `SourceInv`: the generated nonce counts `sent`; confirmed messages were dispatched; the oldest
  unpruned nonce lies after the received one, and right after it while the lane is open; what is
  stored was sent;
- `TargetInv`: `KnownLane` of the inbound lane, and `ExactlyOnceInOrder`;
- `HeadersInv`: `KnownLane` of every imported target header, and of every imported source header
  that its confirmed nonce is not ahead of the source and its stored messages were sent;
- `NothingLost`, `PrunedBelowOldest`, `RewardsExact`.

`KnownLane(data, received, log)` is the heart. It says of inbound lane data, present or past, that
it is well formed, that its `last_confirmed_nonce` is at most what the source has confirmed *by
now*, that what it has delivered is in the log, and that its entries name the relayers of the log.
It is monotone in the source's confirmed nonce and in the log, so it survives every step for the
headers that are already imported. From it follow that a stale delivery proof passes the checks of
`confirm_delivery` (the entries begin at or before the first unconfirmed nonce, so
`total_messages` suffices), and that the reward for the new range goes to the relayers of the log.
The step of the proof for `receive_messages_proof` rests on the two theorems of
`LaneTheorems`; the one for a confirmation splits the paid nonces at the old
`latest_received_nonce` and adds cardinalities.

`LaneImplementsChannel` maps the channel's `delivered` to the payloads of `dispatched` and
`confirmed` to `latest_received_nonce`: a call that accepts a batch is a `Deliver` of several
messages, a confirmation that moves the nonce is a `Confirm`, everything else stutters.

### The relay and the lifetimes of a lane

| Theorem of `BridgeMessagesProofs` | Statement |
|---|---|
| `SelectionIsUseful` | `RelaySpec => []SelectedCallsAreUseful` |
| `PurgeLeavesNoTraces` | `Spec => []NoTraces` |
| `EachEndStaysSound` | `ReopeningSpec => []EndsInv` |

The relay's steps are steps of `Spec`, so `IndInv` holds, and what the relay selects is useful in
every state with `IndInv`: the entries that the proved confirmation frees in the relay's arithmetic
are those that `PoppedEntries` removes, and the batch ends below both limits.

When a lane is opened again, `IndInv` is lost: proofs of a former lifetime are accepted, and nothing
is known any more of one end from what the other shows (`lane_reopened`). What is left is `EndsInv`,
about each end by itself and under no assumption on the owners: at the source, nothing that is not
counted as received is pruned before the owner closes, nothing pruned comes back, and a purged lane
leaves nothing; at the target, the inbound lane stays well formed and every nonce is dispatched once
and in order. The steps use what `confirm_delivery` checks and not where its proof comes from.

### The loops of the calls

| Theorem of `LaneCallsProofs` | Statement |
|---|---|
| `CallsInvariant` | `CallsSpec => []CallsInv` |
| `TargetLoopsMatch` | `CallsSpec => []TargetCallMatches` |
| `ConfirmationLoopsMatch` | `CallsSpec => []SourceConfirmationMatches` |
| `PruningLoopMatches` | `CallsSpec => []SourcePruningMatches` |

The induction is over the steps of a behaviour, one per iteration, with an invariant for each loop.
While `receive_state_update` pops entries, those popped end at or below the confirmed nonce and the
others are untouched. While messages are received, the lane is what `ReceiveMessages` gives for
the part of the proof up to the last message handled; the step is that one more message changes the
closed form as the body of the loop changes the lane. While entries are verified, those before the
`i`-th follow each other; while messages are removed and while the queue is pruned, what is gone is a
range. While rewards are added up, each relayer has the number of confirmed messages that the first
entries credit to it, and these lie below the next entry, so that no nonce is counted twice.
The theorems rest on `StateUpdateCorrect` and `ReceiveMessagesCorrect` for the shape of the lane.

### Light clients

| Theorem of `LightClientProofs` | Statement |
|---|---|
| `ClientsInvariant` | `Spec => []ClientsInv` |
| `ClientsTypes` | `Spec => []TypeOK` |
| `AuthoritiesFollow` | `Spec => []AuthoritiesFollowBest` |
| `RingAgrees` | `Spec => []RingMatchesHeaders` |
| `BudgetKept` | `Spec => []RefundsWithinBudget` |
| `PromiseKept` | `Spec => []FreePromiseKept` |
| `HeadsAgree` | `Spec => []HeadsMatchRing` |
| `HeadsGrow` | `Spec => HeadsNeverGoBack` |

`RingMatchesHeaders` says that every stored header is in the ring, that the best header is at the
position written last, and that all of the ring is stored as long as governance has forced no
state. Until then no header has two positions (`RingIsDistinct`) and nothing above the best header
is stored (`HeadersUpToBest`), so a header that can be submitted is new. After a forced state the
ring may name headers that are gone, see [findings](#findings). The rings of the parachains have no
such exception, although older relay headers may be used and governance may set the relay chain
back. `RingGrows` says that the best head is that of its relay block, that no head of the ring is
above it and that none has two positions; since the heads grow along the relay chain and an update
has to come from a later relay block with another head, what is added is above all of the ring. The
budget and the promise hold because the pallets and their extensions ask the same questions, and
the number of refunds and of free submissions left always add up.

### Relayers

| Theorem of `RelayerStakesProofs` | Statement |
|---|---|
| `StakesInvariant` | `Spec => []StakesInv` |
| `StakesReserved` | `Spec => []StakesAreReserved` |
| `BoostedAtStake` | `Spec => []BoostedIsAtStake` |
| `StakesStrandedOnlyWithoutAccount` | `Spec => OnlyMissingAccountStrandsStake` |
| `RewardsFollowRoom` | `Spec => []RewardedIffRoom` |

`BoostedIsAtStake` is not inductive, since `deregister` asks for `valid_till` and not for the pool.
`BoostedIsCovered` adds that the registration of a boosted relayer is valid until after `boostedAt
+ RequiredLease`, which `is_registration_active` has checked and which renewals only extend, and
that `atStake` is at most what is required now, so that a renewal, which releases the stake above
that, does not go below it. `RewardedIffRoom` compares the extension's test on the last nonce with
the closed form of the lane, in both directions; it needs the lane to be well formed and the
theorems of `LaneTheorems`. `StakesAreReserved` has that no funds appear or vanish, a statement
about a sum over all accounts.

`LaneTheorems` also proves what is needed of such sums: the sum over a set is the value at any
index plus the sum over the rest, sums of functions that agree are equal, and adding to one value
adds to the sum. Sums are folds over sets, defined by recursion on subsets; since the induction
theorems of the library cannot be used here, the proofs take a smallest subset for which the claim
fails, which the well-foundedness of strict inclusion gives, and refute it.

### Bridges of a hub

| Theorem of `BridgeHubProofs` | Statement |
|---|---|
| `HubInvariant` | `HubSpec => []HubInv` |
| `TryStateHolds` | `HubSpec => []TryState` |
| `DepositsAreReturned` | `HubSpec => []DepositsBackBridges` |
| `StateIsThatOfQueue` | `HubSpec => []StateFollowsQueue` |
| `RouterIsTold` | `HubSpec => []RouterKnowsState` |
| `FeeIsThatOfBridge` | `HubSpec => FeeFollowsBridge` |

`HubInv` adds to the properties the types and that the entry of a bridge is whole
(`BridgesAreWhole`). `RouterKnowsState` is an equivalence for bridges in every state, closed and
absent ones included, since the router outlives them; `FeeFollowsBridge` follows from it, as the
router's hooks look at what they were told and the report under way is the last word. Two bridges
never share a lane, which is what keeps the calls for one from disturbing the others; it follows from
`TryState`, as `LaneToBridge` is a function. Deposits are sums, by the same facts.

### The delivery race

| Theorem of `DeliveryRaceProofs` | Statement |
|---|---|
| `RaceInvariant` | `RaceSpec => []RaceInv` |
| `ProofsStartAtNextNonce` | `RaceSpec => []StartsAtNextNonce` |
| `ProofsAreWitnessed` | `RaceSpec => []WitnessedAtProvedBlock` |
| `SelectionsAreUseful` | `RaceSpec => SelectionIsUseful` |
| `RaceNeverWaitsInVain` | `RaceSpec => NeverWaitsInVain` |
| `RaceTracksItsTransactions` | `RaceSpec => []TrackedInv` |

The race acts on answers that were true when they were given. `RaceInv` says of everything that it
knows, has asked for or has submitted what stays true of an old answer:

- `SourceOK`, `TargetBlockOK`: the nonces of the source's blocks do not decrease, what a block shows
  as confirmed was delivered at the finalized target block, a target block's lane is well formed, and
  its light client knows a block of the source;
- `QueueOK`: an entry of the queue names a source block at which its nonces had been generated, the
  entries are in the order of blocks, and no undelivered nonce is left out before or between them;
- `NoncesOK`, `BestNonceOK`: the nonces of the target that the race has read are at most those of
  its best block;
- `SelectionOK`: what was selected, is being proved, is being submitted or is in the pool is
  witnessed at its block and begins no later than the nonce after the delivered one.

The delivered nonce only grows and the source only gets more blocks, so all of this survives the
steps of the chains. Each step of the loop first applies an answer, which keeps `RaceOK`, and then
selects from the race that this gives. A submitted call that starts too late, or is proved at a
block that does not hold it, would contradict `SelectionOK`.

`SelectionIsUseful` compares the race's arithmetic with that of the lane: if what the race read is
still up to date, the entries and messages that the proved confirmation frees are those of
`PoppedEntries`, and the selected range ends below both limits. It uses the theorems of
`LaneTheorems`. `NeverWaitsInVain` is proved from the state in which the last answer arrives: then
the ends of both queues are those of the newest source block. If the lane is blocked, the newest
confirmation frees an entry or a message and is in the queue of confirmed nonces; otherwise the first
undelivered nonce is in the queue of nonces. Either way the race selects at the header that the
target knows, or requires the one that is missing. Nonces that the race holds as submitted would keep
it from selecting, so this also needs `TrackedInv`: without a transaction that is tracked, what
counts as submitted has been received, also after a failed submission or a lost transaction.

### The message queue

| Theorem of `MessageQueueProofs` | Statement |
|---|---|
| `QueueInvariant` | `Spec => []QueueInv` |
| `MessagesExactlyOnceInOrder` | `Spec => []ExactlyOnceInQueueOrder` |
| `ReadyRingIsSound` | `Spec => []RingIsSound` |
| `TurnsOfQueuesComeRound` | `Spec => TurnsComeRound` |

`QueueInv` has a part for the ring, one for the pages of each queue, and the two that tie them to the
service loop.

- `RingInv`: `next` and `prev` are inverse to each other on the ready queues, no proper part of the
  ready queues is closed under `next`, and the service head is one of them. That the ring is *one*
  ring is stated by sets, without a list of its members: then knitting a queue in and taking one out
  are steps of first-order reasoning. The queues before another one, counted from the head, are
  likewise the complement of a smallest closed set (`Before`).
- `PagesInv`: pages and their messages are in the order of sending; the messages that wait, from the
  first place of the page at `begin` on, are the last ones that were sent, all of them and none
  processed; the counters of the pages and of the book count what is not processed; and each message
  that was sent is unprocessed in a page, executed or reaped, exactly one of them. The order of the
  whole queue is thus stated without the concatenation of its pages, which would be a recursion over
  data.
- `ReadyInv`, `LoopInv`: a queue with pages to be served is ready, and a ready queue without any is
  the one that the loop is serving.

A message that enqueues while the service loop processes it is covered for every queue, its own
included. The theorems are about `Spec`, in which a message that is executed by hand enqueues
nothing; with `FullSpec` the ring breaks, see [findings](#findings). `RingIsSound` lets the first
page of a ready queue be missing, which `do_try_state` does not. `TurnsComeRound` follows from what
each step does to the ring: the loop only moves the head on, and a queue that is knitted in is put
behind all others, so the set of queues before a waiting one never gains a member.

### Checked by TLC only

Liveness under fairness: `EverySentIsConfirmed` and `ImplementsFairChannel` are out of the proof
system's reach. All other properties of the passing runs are proved.

## What is not modelled

- Within the modelled parts: pallet ownership, declared and refunded weights, events, the encoding
  of storage proofs, message size limits, metrics.
- The hub: who may open a bridge, locations, migrations; an export whose validation and delivery
  are apart. The executor calls one right after the other.
- The light clients: the verification of a justification, which is modelled by its signers.
- The relay: the confirmation race's own loop (the same code over `BasicStrategy`), the flags that
  say which nonces are still required (in the model only a header that a free client sees is followed
  by a request, and headers keep coming), the profit and
  weight limits of a batch, forks of the target that abandon a block which the race has read.
- The relayers: transactions that batch finality proofs with messages, confirmations, refunds from
  weights, rewards of several lanes.
- The message queue: sizes of messages in bytes, footprints.
- BEEFY, Snowbridge, the finality and parachains relays, the equivocation detector, Cumulus queues,
  the XCM executor, Polkadot and Substrate. They are separate systems or the platform, more than a
  million lines, and a faithful model of each would be a project like this one. Of the platform the
  models use that calls do not interleave and that failing calls have no effect.

## Plan

Done: the lane from both ends, over several lifetimes and with its loops; the relay's choices and its
delivery race; the bridge hub and its routers; both light clients; the relayers' stakes; the message
queue. Proved: all of their safety and action properties that the runs check.

What could come next, in this order:

1. The confirmation race's loop. `DeliveryRace` has the arms of `select!` already; `BasicStrategy`
   takes the place of the delivery strategy, and the two races share their chains.
2. Confirmations in `RelayerStakes`, and transactions that batch finality proofs with messages.
3. Both directions of a bridge in one model, so that `close_bridge` has one outcome at each end.
4. BEEFY's light client, which keeps commitments much as `GrandpaClient` keeps headers.
