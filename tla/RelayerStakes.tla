---------------------------- MODULE RelayerStakes ----------------------------
(***************************************************************************)
(* Relayers of message deliveries at the target chain: their registration, *)
(* stake and rewards in pallet bridge-relayers, and its transaction        *)
(* extension, which boosts deliveries of registered relayers in the        *)
(* transaction pool, drops obsolete ones, and rewards or slashes the       *)
(* relayer after the inbound lane has had the messages.                    *)
(***************************************************************************)
EXTENDS InboundLane, FiniteSets, Functions

CONSTANTS
    Registering,      \* relayers that may register; the others only deliver messages,
                      \* and their balances are not kept
    RequiredStakes,   \* values that RequiredStake may be set to
    RequiredLease,    \* RequiredRegistrationLease
    Balance,          \* what every relayer has in the beginning
    Endowment,        \* what the rewards account and all others have in the beginning
    MaxBlock,         \* bound on block numbers
    MaxNonce,         \* bound on nonces of messages
    MaxPool           \* bound on the transactions in the pool

ASSUME StakesAssumption ==
    /\ Registering \subseteq Relayers /\ Registering # Relayers /\ IsFiniteSet(Registering)
    /\ RequiredStakes \subseteq Nat
    /\ {RequiredLease, Balance, Endowment, MaxBlock, MaxNonce, MaxPool} \subseteq Nat

VARIABLES
    block,          \* the block that is being built
    requiredStake,  \* RequiredStake, which governance may change
    registration,   \* RegisteredRelayers: valid_till is 0 for no registration
    free, reserved, \* balances of the relayers, and what is reserved by name
    rewards,        \* RelayerRewards
    pot,            \* balance of the rewards account of the lane
    others,         \* balance of all other accounts
    lane,           \* InboundLanes: the lane at this chain
    confirmed,      \* latest_received_nonce of the lane at the source
    pool            \* delivery transactions in the pool

balanceVars == <<free, reserved, pot, others>>
vars == <<block, requiredStake, registration, balanceVars, rewards, lane, confirmed,
          pool>>

NotRegistered == [valid_till |-> 0, stake |-> 0]

IsRegistered(r) == r \in Registering /\ registration[r].valid_till # 0

\* The lane in the beginning: another relayer has delivered a message, whose
\* entry takes up one slot.
LaneInUse ==
    LET r == CHOOSE r \in Relayers \ Registering : TRUE
    IN  ReceiveMessages(InboundLaneOpened, r, 1, 1)

Init ==
    /\ block = 1
    /\ requiredStake \in RequiredStakes
    /\ registration = [r \in Registering |-> NotRegistered]
    /\ free = [r \in Registering |-> Balance]
    /\ reserved = [r \in Registering |-> 0]
    /\ rewards = [r \in Relayers |-> 0]
    /\ pot \in 0 .. Endowment
    /\ others = Endowment - pot
    /\ lane = LaneInUse
    /\ confirmed = 0
    /\ pool = {}

-----------------------------------------------------------------------------
\* register that records the required stake of a relayer that is registered
\* already without reserving what is missing.
RegisterWithoutTopUp(r, validTill) ==
    LET missing == requiredStake - registration[r].stake
        toReserve == IF IsRegistered(r) /\ missing > 0 THEN 0 ELSE missing
    IN  /\ validTill - block > RequiredLease
        /\ IsRegistered(r) => validTill >= registration[r].valid_till
        /\ toReserve <= free[r]
        /\ free' = [free EXCEPT ![r] = @ - toReserve]
        /\ reserved' = [reserved EXCEPT ![r] = @ + toReserve]
        /\ registration' = [registration EXCEPT
               ![r] = [valid_till |-> validTill, stake |-> requiredStake]]
        /\ UNCHANGED <<block, requiredStake, rewards, pot, others, lane, confirmed, pool>>

(***************************************************************************)
(* register.  The stake is brought to what is required: a part is          *)
(* unreserved or reserved, the latter only from the relayer's balance.     *)
(***************************************************************************)
Register(r, validTill) ==
    LET toReserve == requiredStake - registration[r].stake
    IN  /\ validTill - block > RequiredLease
        /\ IsRegistered(r) => validTill >= registration[r].valid_till
        /\ toReserve <= free[r]
        /\ free' = [free EXCEPT ![r] = @ - toReserve]
        /\ reserved' = [reserved EXCEPT ![r] = @ + toReserve]
        /\ registration' = [registration EXCEPT
               ![r] = [valid_till |-> validTill, stake |-> requiredStake]]
        /\ UNCHANGED <<block, requiredStake, rewards, pot, others, lane, confirmed, pool>>

\* deregister, in blocks after valid_till only.
Deregister(r) ==
    /\ IsRegistered(r)
    /\ registration[r].valid_till < block
    /\ free' = [free EXCEPT ![r] = @ + registration[r].stake]
    /\ reserved' = [reserved EXCEPT ![r] = @ - registration[r].stake]
    /\ registration' = [registration EXCEPT ![r] = NotRegistered]
    /\ UNCHANGED <<block, requiredStake, rewards, pot, others, lane, confirmed, pool>>

\* claim_rewards and claim_rewards_to: all that the relayer has earned goes from
\* the rewards account, which may be emptied, to the beneficiary.
ClaimRewards(r, beneficiary) ==
    LET reward == rewards[r]
    IN  /\ reward > 0
        /\ reward <= pot
        /\ pot' = pot - reward
        /\ rewards' = [rewards EXCEPT ![r] = 0]
        /\ \/ /\ beneficiary \in Registering
              /\ free' = [free EXCEPT ![beneficiary] = @ + reward]
              /\ UNCHANGED others
           \/ /\ beneficiary \notin Registering
              /\ others' = others + reward
              /\ UNCHANGED free
        /\ UNCHANGED <<block, requiredStake, registration, reserved, lane, confirmed, pool>>

\* is_registration_active without regard to the time spent in the pool.
IsRegistrationActiveToday(r) ==
    /\ IsRegistered(r)
    /\ registration[r].stake >= requiredStake
    /\ registration[r].valid_till >= block

IsRegistrationActive(r) ==
    /\ IsRegistered(r)
    /\ registration[r].stake >= requiredStake
    /\ registration[r].valid_till - block > RequiredLease

-----------------------------------------------------------------------------
(***************************************************************************)
(* Delivery transactions.  nonces start .. end, none if end < start, with  *)
(* a proof of the state of the lane at the source.  valid is FALSE if the  *)
(* call fails, for its proof or its weight.                                *)
(***************************************************************************)
IsEmpty(tx) == tx.end < tx.start

FreeRelayerSlots(data) == MaxUnrewardedRelayers - Len(data.relayers)

FreeMessageSlots(data) ==
    MaxUnconfirmedMessages - (LastDeliveredNonce(data) - data.last_confirmed_nonce)

(***************************************************************************)
(* check_obsolete_call: nothing is accepted while the messages pallet is   *)
(* halted or its dispatcher inactive, which may be so at any time.         *)
(* Messages must continue those delivered; without messages the            *)
(* transaction must be needed to unblock the lane.                         *)
(***************************************************************************)
IsObsolete(tx, isAccepting) ==
    \/ ~isAccepting
    \/ IF IsEmpty(tx)
       THEN FreeRelayerSlots(lane) # 0 /\ FreeMessageSlots(lane) # 0
       ELSE tx.start # LastDeliveredNonce(lane) + 1

\* bundled_messages_for_priority_boost: the delivery may be boosted, and so
\* the relayer may be slashed.
IsBoostable(tx) == tx.end - tx.start + 1 <= MaxUnconfirmedMessages

(***************************************************************************)
(* validate: a transaction enters the pool, boosted if boostedAt is not 0. *)
(* atStake is a history: the smallest RequiredStake since the transaction  *)
(* was boosted.                                                            *)
(***************************************************************************)
SubmitDelivery(r, start, end, proved, valid) ==
    LET tx == [relayer |-> r, start |-> start, end |-> end, proved |-> proved,
               valid |-> valid, boostedAt |-> 0, atStake |-> 0]
        isBoosted == IsBoostable(tx) /\ IsRegistrationActive(r)
    IN  /\ Cardinality(pool) < MaxPool
        /\ ~IsObsolete(tx, TRUE)
        /\ pool' = pool \cup
               {[tx EXCEPT !.boostedAt = IF isBoosted THEN block ELSE 0,
                           !.atStake = IF isBoosted THEN requiredStake ELSE 0]}
        /\ UNCHANGED <<block, requiredStake, registration, balanceVars, rewards, lane,
                       confirmed>>

\* A transaction that is found obsolete later is dropped.
DropObsolete(tx, isAccepting) ==
    /\ tx \in pool
    /\ IsObsolete(tx, isAccepting)
    /\ pool' = pool \ {tx}
    /\ UNCHANGED <<block, requiredStake, registration, balanceVars, rewards, lane,
                   confirmed>>

\* receive_messages_proof.
LaneAfter(tx) ==
    IF tx.valid
    THEN ReceiveMessages(ReceiveStateUpdate(lane, tx.proved), tx.relayer, tx.start, tx.end)
    ELSE lane

\* was_successful as if every delivery had to free message slots.
WasSuccessfulStrictly(tx) ==
    /\ tx.valid
    /\ FreeMessageSlots(LaneAfter(tx)) > FreeMessageSlots(lane)

\* was_successful: the last message was delivered, or slots became free.
WasSuccessful(tx) ==
    /\ tx.valid
    /\ IF IsEmpty(tx)
       THEN FreeMessageSlots(LaneAfter(tx)) > FreeMessageSlots(lane)
       ELSE LastDeliveredNonce(LaneAfter(tx)) = tx.end

\* slash_and_deregister of the stake that is required today, not of the one
\* that the relayer has registered with.
SlashAndDeregisterRequired(r) ==
    LET stake == IF reserved[r] < requiredStake THEN reserved[r] ELSE requiredStake
    IN  /\ registration' = [registration EXCEPT ![r] = NotRegistered]
        /\ reserved' = [reserved EXCEPT ![r] = IF pot > 0 THEN @ - stake ELSE @]
        /\ pot' = IF pot > 0 THEN pot + stake ELSE pot

(***************************************************************************)
(* slash_and_deregister.  The stake goes to the rewards account, if it     *)
(* exists; if not, the registration is gone and the stake stays reserved.  *)
(***************************************************************************)
SlashAndDeregister(r) ==
    LET stake == registration[r].stake
    IN  /\ registration' = [registration EXCEPT ![r] = NotRegistered]
        /\ reserved' = [reserved EXCEPT ![r] = IF pot > 0 THEN @ - stake ELSE @]
        /\ pot' = IF pot > 0 THEN pot + stake ELSE pot

\* post_dispatch_details: the relayer is rewarded with the fee, here 1, or
\* slashed, if the transaction could have been boosted.
PostDispatch(tx) ==
    LET r == tx.relayer
    IN  \/ /\ WasSuccessful(tx)
           /\ rewards' = [rewards EXCEPT ![r] = @ + 1]
           /\ UNCHANGED <<registration, reserved, pot>>
        \/ /\ ~WasSuccessful(tx)
           /\ IsBoostable(tx) /\ IsRegistered(r)
           /\ SlashAndDeregister(r)
           /\ UNCHANGED rewards
        \/ /\ ~WasSuccessful(tx)
           /\ ~(IsBoostable(tx) /\ IsRegistered(r))
           /\ UNCHANGED <<registration, reserved, pot, rewards>>

\* The rest of the pool.  For the record, transactions that were boosted
\* before their relayer was slashed do not count as boosted any more.
PoolWithout(tx) ==
    LET wasSlashed == IsRegistered(tx.relayer) /\ ~IsRegistered(tx.relayer)'
    IN  {IF wasSlashed /\ t.relayer = tx.relayer
         THEN [t EXCEPT !.boostedAt = 0, !.atStake = 0] ELSE t : t \in pool \ {tx}}

\* A transaction of the pool goes into the block.
IncludeDelivery(tx) ==
    /\ tx \in pool
    /\ ~IsObsolete(tx, TRUE)
    /\ lane' = LaneAfter(tx)
    /\ PostDispatch(tx)
    /\ pool' = PoolWithout(tx)
    /\ UNCHANGED <<block, requiredStake, free, others, confirmed>>

-----------------------------------------------------------------------------
(***************************************************************************)
(* The rest of the world: blocks, the source chain, which learns of        *)
(* deliveries, payments to the rewards account, and governance.            *)
(***************************************************************************)
NextBlock ==
    /\ block < MaxBlock
    /\ block' = block + 1
    /\ UNCHANGED <<requiredStake, registration, balanceVars, rewards, lane, confirmed, pool>>

ConfirmAtSource ==
    /\ confirmed' \in (confirmed + 1) .. LastDeliveredNonce(lane)
    /\ UNCHANGED <<block, requiredStake, registration, balanceVars, rewards, lane, pool>>

PayIntoRewards ==
    /\ others > 0
    /\ others' = others - 1
    /\ pot' = pot + 1
    /\ UNCHANGED <<block, requiredStake, registration, free, reserved, rewards, lane,
                   confirmed, pool>>

\* Governance changes RequiredStake; registered stakes stay as they are.
SetRequiredStake(stake) ==
    /\ requiredStake' = stake
    /\ pool' = {[t EXCEPT !.atStake = IF stake < @ THEN stake ELSE @] : t \in pool}
    /\ UNCHANGED <<block, registration, balanceVars, rewards, lane, confirmed>>

Next ==
    \/ \E r \in Registering, validTill \in 1 .. MaxBlock : Register(r, validTill)
    \/ \E r \in Registering : Deregister(r)
    \/ \E r, beneficiary \in Relayers : ClaimRewards(r, beneficiary)
    \/ \E r \in Relayers, start, end \in 1 .. MaxNonce :
           start <= end /\ SubmitDelivery(r, start, end, confirmed, TRUE)
    \/ \E r \in Registering : SubmitDelivery(r, 1, 0, confirmed, TRUE)
    \/ \E r \in Registering, start \in 1 .. MaxNonce :
           SubmitDelivery(r, start, start, confirmed, FALSE)
    \/ \E tx \in pool, isAccepting \in BOOLEAN : DropObsolete(tx, isAccepting)
    \/ \E tx \in pool : IncludeDelivery(tx)
    \/ NextBlock
    \/ ConfirmAtSource
    \/ PayIntoRewards
    \/ \E stake \in RequiredStakes \ {requiredStake} : SetRequiredStake(stake)

Spec == Init /\ [][Next]_vars

-----------------------------------------------------------------------------
(***************************************************************************)
(* register, deregister, slash_and_deregister: every registered stake is   *)
(* reserved on the relayer's account, whatever RequiredStake was and is,   *)
(* and no funds appear or vanish.                                          *)
(***************************************************************************)
StakesAreReserved ==
    /\ \A r \in Registering : reserved[r] >= registration[r].stake
    /\ SumFunction(free) + SumFunction(reserved) + pot + others
           = Balance * Cardinality(Registering) + Endowment

(***************************************************************************)
(* What is reserved is what is registered: no call reserves more or leaves *)
(* a part behind, but for one case.  If the rewards account does not exist *)
(* when a relayer is slashed, the stake stays reserved and its             *)
(* registration goes, so that nobody can have it.  Claims may bring this   *)
(* about at any time: they may empty the account.                          *)
(***************************************************************************)
OnlyMissingAccountStrandsStake ==
    [][\A r \in Registering :
         \/ reserved'[r] - reserved[r] = registration'[r].stake - registration[r].stake
         \/ /\ pot = 0
            /\ \E tx \in pool : tx.relayer = r /\ IncludeDelivery(tx) /\ ~WasSuccessful(tx)
            /\ ~IsRegistered(r)' /\ reserved'[r] = reserved[r]]_vars

(***************************************************************************)
(* A relayer whose transaction was boosted cannot take its stake back      *)
(* while the transaction may wait in the pool: up to RequiredLease blocks  *)
(* and one more it is registered, unless it has been slashed since, with   *)
(* at least the smallest stake that was required since.                    *)
(***************************************************************************)
BoostedIsAtStake ==
    \A tx \in pool :
        (/\ tx.boostedAt # 0
         /\ block <= tx.boostedAt + RequiredLease + 1)
        => IsRegistered(tx.relayer) /\ registration[tx.relayer].stake >= tx.atStake

(***************************************************************************)
(* A delivery of messages with a valid proof is rewarded exactly if the    *)
(* lane has room for it, and the relayer may be slashed if not: its        *)
(* messages fit the free slots that the proof leaves, and a relayer slot   *)
(* is free, or two for several messages of a relayer that needs an entry:  *)
(* with one slot only the first message gets through.                      *)
(***************************************************************************)
RewardedIffRoom ==
    \A tx \in pool :
        LET data == ReceiveStateUpdate(lane, tx.proved)
            slots == IF tx.start = tx.end \/ ExtendsLastEntry(data, tx.relayer) THEN 1 ELSE 2
        IN  (tx.valid /\ ~IsEmpty(tx) /\ ~IsObsolete(tx, TRUE)) =>
              (WasSuccessful(tx) <=> /\ tx.end - tx.start + 1 <= FreeMessageSlots(data)
                                     /\ slots <= FreeRelayerSlots(data))

-----------------------------------------------------------------------------
Delivery == [relayer : Relayers, start : Nat, end : Nat, proved : Nat, valid : BOOLEAN,
             boostedAt : Nat, atStake : Nat]

StakesTypeOK ==
    /\ block \in Nat
    /\ requiredStake \in RequiredStakes
    /\ registration \in [Registering -> [valid_till : Nat, stake : Nat]]
    /\ {free, reserved} \subseteq [Registering -> Nat]
    /\ rewards \in [Relayers -> Nat]
    /\ {pot, others, confirmed} \subseteq Nat
    /\ lane \in InboundLaneData
    /\ pool \subseteq Delivery

(***************************************************************************)
(* Why boosted transactions are covered: when one was boosted, more than   *)
(* RequiredLease blocks of its relayer's registration were left and its    *)
(* stake was enough, and registering again only prolongs the registration  *)
(* and brings the stake to what is required then.                          *)
(***************************************************************************)
Covered(tx) ==
    tx.boostedAt # 0 =>
        /\ tx.boostedAt <= block
        /\ tx.atStake <= requiredStake
        /\ \/ block > tx.boostedAt + RequiredLease + 1
           \/ /\ IsRegistered(tx.relayer)
              /\ registration[tx.relayer].valid_till > tx.boostedAt + RequiredLease
              /\ registration[tx.relayer].stake >= tx.atStake

BoostedIsCovered == \A tx \in pool : Covered(tx)

\* The inductive invariant of the relayers pallet and of the lane it watches.
StakesInv ==
    /\ StakesTypeOK
    /\ WellFormed(lane)
    /\ StakesAreReserved
    /\ BoostedIsCovered
=============================================================================
