------------------------- MODULE RelayerStakesProofs -------------------------
(***************************************************************************)
(* Proofs about the relayers pallet: stakes are reserved and no funds      *)
(* vanish, boosted transactions are covered by a stake, and no relayer is  *)
(* slashed for a delivery that the lane has room for.  They hold for any   *)
(* number of relayers and for all balances, stakes, leases and limits.     *)
(***************************************************************************)
EXTENDS RelayerStakes, LaneTheorems

Types(f) == f \in [Registering -> Nat]

LEMMA StakesTypes ==
    ASSUME StakesTypeOK
    PROVE  /\ Types(free) /\ Types(reserved) /\ rewards \in [Relayers -> Nat]
           /\ pot \in Nat /\ others \in Nat /\ confirmed \in Nat /\ block \in Nat
           /\ requiredStake \in Nat
           /\ \A r \in Registering : /\ registration[r].valid_till \in Nat
                                     /\ registration[r].stake \in Nat
           /\ RequiredLease \in Nat
<1>1. requiredStake \in Nat /\ RequiredLease \in Nat
  BY StakesAssumption DEF StakesTypeOK
<1>2. \A r \in Registering : registration[r] \in [valid_till : Nat, stake : Nat]
  BY DEF StakesTypeOK
<1> QED
  BY <1>1, <1>2 DEF StakesTypeOK, Types

LEMMA DeliveryTypes ==
    ASSUME NEW tx \in Delivery
    PROVE  /\ tx.relayer \in Relayers
           /\ tx.start \in Nat /\ tx.end \in Nat /\ tx.proved \in Nat
           /\ tx.valid \in BOOLEAN /\ tx.boostedAt \in Nat /\ tx.atStake \in Nat
  BY DEF Delivery

-----------------------------------------------------------------------------
(***************************************************************************)
(* Balances.                                                               *)
(***************************************************************************)

\* The balance of one relayer is set.
LEMMA OneBalance ==
    ASSUME NEW f, NEW g, Types(f), Types(g), NEW r \in Registering,
           \A q \in Registering \ {r} : g[q] = f[q]
    PROVE  /\ SumFunction(f) \in Int
           /\ SumFunction(g) = SumFunction(f) - f[r] + g[r]
<1>1. /\ DOMAIN f = Registering /\ DOMAIN g = Registering
      /\ \A q \in Registering : f[q] \in Int /\ g[q] \in Int
  BY DEF Types
<1>2. IsFiniteSet(Registering)
  BY StakesAssumption
<1>3. ChangesAt(f, g, Registering, r)
  BY <1>1 DEF ChangesAt
<1>4. SumFunctionOnSet(g, Registering) = SumFunctionOnSet(f, Registering) - f[r] + g[r]
  BY <1>2, <1>3, SumChanges
<1>5. SumFunctionOnSet(f, Registering) \in Int
  BY <1>1, <1>2, SumIsInt
<1> QED
  BY <1>1, <1>4, <1>5 DEF SumFunction

LEMMA BalanceIsInt ==
    ASSUME NEW f, Types(f)
    PROVE  SumFunction(f) \in Int
<1>1. DOMAIN f = Registering /\ \A q \in Registering : f[q] \in Int
  BY DEF Types
<1> QED
  BY <1>1, StakesAssumption, SumIsInt DEF SumFunction

\* A step that moves funds of one relayer r at most keeps StakesAreReserved if
\* it does so for r, and if no funds appear or vanish.
LEMMA FundsMove ==
    ASSUME StakesTypeOK, StakesTypeOK', StakesAreReserved, NEW r \in Registering,
           \A q \in Registering \ {r} :
               /\ free'[q] = free[q] /\ reserved'[q] = reserved[q]
               /\ registration'[q] = registration[q],
           reserved'[r] >= registration'[r].stake,
           free'[r] + reserved'[r] + pot' + others' = free[r] + reserved[r] + pot + others
    PROVE  StakesAreReserved'
<1>1. /\ Types(free) /\ Types(free') /\ Types(reserved) /\ Types(reserved')
      /\ pot \in Nat /\ others \in Nat /\ pot' \in Nat /\ others' \in Nat
  BY DEF StakesTypeOK, Types
<1>2. /\ SumFunction(free) \in Int
      /\ SumFunction(free') = SumFunction(free) - free[r] + free'[r]
  BY <1>1, OneBalance
<1>3. /\ SumFunction(reserved) \in Int
      /\ SumFunction(reserved') = SumFunction(reserved) - reserved[r] + reserved'[r]
  BY <1>1, OneBalance
<1>4. free[r] \in Nat /\ free'[r] \in Nat /\ reserved[r] \in Nat /\ reserved'[r] \in Nat
  BY <1>1 DEF Types
<1>5. SumFunction(free') + SumFunction(reserved') + pot' + others'
        = SumFunction(free) + SumFunction(reserved) + pot + others
  BY <1>1, <1>2, <1>3, <1>4
<1>6. \A q \in Registering : reserved'[q] >= registration'[q].stake
  <2>1. ASSUME NEW q \in Registering, q # r
        PROVE  reserved'[q] >= registration'[q].stake
    BY <2>1 DEF StakesAreReserved
  <2> QED
    BY <2>1
<1> QED
  BY <1>5, <1>6 DEF StakesAreReserved

\* The accounts of relayers do not change.
LEMMA FundsStay ==
    ASSUME StakesTypeOK, StakesTypeOK', StakesAreReserved,
           registration' = registration, free' = free, reserved' = reserved,
           pot' = pot + others - others'
    PROVE  StakesAreReserved'
<1>1. /\ SumFunction(free) \in Int /\ SumFunction(reserved) \in Int
      /\ pot \in Nat /\ others \in Nat /\ pot' \in Nat /\ others' \in Nat
  <2>1. Types(free) /\ Types(reserved)
    BY StakesTypes
  <2>2. SumFunction(free) \in Int /\ SumFunction(reserved) \in Int
    BY <2>1, BalanceIsInt
  <2>3. pot \in Nat /\ others \in Nat /\ pot' \in Nat /\ others' \in Nat
    BY DEF StakesTypeOK
  <2> QED
    BY <2>2, <2>3
<1>2. SumFunction(free') + SumFunction(reserved') + pot' + others'
        = SumFunction(free) + SumFunction(reserved) + pot + others
  <2>1. SumFunction(free') = SumFunction(free) /\ SumFunction(reserved') = SumFunction(reserved)
    BY Zenon
  <2>2. SumFunction(free) + SumFunction(reserved) + pot' + others'
          = SumFunction(free) + SumFunction(reserved) + pot + others
    BY <1>1
  <2> QED
    BY <2>1, <2>2, Zenon
<1> QED
  BY <1>2 DEF StakesAreReserved

-----------------------------------------------------------------------------
(***************************************************************************)
(* The lane and the pool.                                                  *)
(***************************************************************************)

\* receive_messages_proof keeps the lane in order.
LEMMA LaneAfterIsWellFormed ==
    ASSUME StakesTypeOK, WellFormed(lane), NEW tx \in Delivery
    PROVE  LaneAfter(tx) \in InboundLaneData /\ WellFormed(LaneAfter(tx))
<1>1. lane \in InboundLaneData
  BY DEF StakesTypeOK
<1> DEFINE data == ReceiveStateUpdate(lane, tx.proved)
<1>2. data \in InboundLaneData /\ WellFormed(data)
  BY <1>1, DeliveryTypes, StateUpdateCorrect
<1> HIDE DEF data
<1>3. /\ ReceiveMessages(data, tx.relayer, tx.start, tx.end) \in InboundLaneData
      /\ WellFormed(ReceiveMessages(data, tx.relayer, tx.start, tx.end))
  BY <1>2, DeliveryTypes, ReceiveMessagesCorrect
<1> QED
  BY <1>1, <1>3 DEF LaneAfter, data

LEMMA LaneInUseIsWellFormed == LaneInUse \in InboundLaneData /\ WellFormed(LaneInUse)
<1> DEFINE r == CHOOSE r \in Relayers \ Registering : TRUE
<1>1. r \in Relayers
  BY StakesAssumption
<1>2. InboundLaneOpened \in InboundLaneData /\ WellFormed(InboundLaneOpened)
  BY LimitsAssumption DEF InboundLaneOpened, InboundLaneData, WellFormed, LastDeliveredNonce
<1> HIDE DEF r
<1>3. /\ ReceiveMessages(InboundLaneOpened, r, 1, 1) \in InboundLaneData
      /\ WellFormed(ReceiveMessages(InboundLaneOpened, r, 1, 1))
  BY <1>1, <1>2, ReceiveMessagesCorrect
<1> QED
  BY <1>3 DEF LaneInUse, r

\* Boosted transactions stay covered when time passes, registrations are
\* prolonged, their stakes brought to what is required, and other relayers
\* deregister.
LEMMA BoostedStayCovered ==
    ASSUME StakesTypeOK, BoostedIsCovered, pool' \subseteq pool,
           block' \in Nat, block' >= block, requiredStake' = requiredStake,
           \A r \in Registering :
               /\ registration'[r].valid_till \in Nat /\ registration'[r].stake \in Nat
               /\ \/ /\ registration'[r].valid_till >= registration[r].valid_till
                     /\ \/ registration'[r].stake >= registration[r].stake
                        \/ registration'[r].stake >= requiredStake
                  \/ block > registration[r].valid_till
    PROVE  BoostedIsCovered'
<1> SUFFICES ASSUME NEW tx \in pool, tx.boostedAt # 0
             PROVE  /\ tx.boostedAt <= block'
                    /\ tx.atStake <= requiredStake'
                    /\ \/ block' > tx.boostedAt + RequiredLease + 1
                       \/ /\ IsRegistered(tx.relayer)'
                          /\ registration'[tx.relayer].valid_till > tx.boostedAt + RequiredLease
                          /\ registration'[tx.relayer].stake >= tx.atStake
  BY DEF BoostedIsCovered, Covered, IsRegistered
<1>1. /\ tx.boostedAt \in Nat /\ tx.atStake \in Nat
      /\ block \in Nat /\ RequiredLease \in Nat /\ requiredStake \in Nat
  BY StakesTypes, DeliveryTypes DEF StakesTypeOK
<1>2. /\ tx.boostedAt <= block
      /\ tx.atStake <= requiredStake
      /\ \/ block > tx.boostedAt + RequiredLease + 1
         \/ /\ IsRegistered(tx.relayer)
            /\ registration[tx.relayer].valid_till > tx.boostedAt + RequiredLease
            /\ registration[tx.relayer].stake >= tx.atStake
  BY DEF BoostedIsCovered, Covered
<1>3. CASE block > tx.boostedAt + RequiredLease + 1
  BY <1>1, <1>2, <1>3
<1>4. CASE /\ IsRegistered(tx.relayer)
           /\ registration[tx.relayer].valid_till > tx.boostedAt + RequiredLease
           /\ registration[tx.relayer].stake >= tx.atStake
  <2> DEFINE old == registration[tx.relayer]
             new == registration'[tx.relayer]
  <2>1. /\ tx.relayer \in Registering /\ old.valid_till \in Nat /\ old.stake \in Nat
        /\ new.valid_till \in Nat /\ new.stake \in Nat
    BY <1>4, StakesTypes DEF IsRegistered
  <2>2. \/ /\ new.valid_till >= old.valid_till
           /\ new.stake >= old.stake \/ new.stake >= requiredStake
        \/ block > old.valid_till
    BY <2>1
  <2>3. /\ old.valid_till > tx.boostedAt + RequiredLease
        /\ old.stake >= tx.atStake
    BY <1>4
  <2>4. IsRegistered(tx.relayer)' <=> new.valid_till # 0
    BY <2>1 DEF IsRegistered
  <2> HIDE DEF old, new
  <2>5. \/ block' > tx.boostedAt + RequiredLease + 1
        \/ /\ new.valid_till # 0
           /\ new.valid_till > tx.boostedAt + RequiredLease
           /\ new.stake >= tx.atStake
    BY <1>1, <1>2, <2>1, <2>2, <2>3
  <2> QED
    BY <1>1, <1>2, <2>4, <2>5 DEF new
<1> QED
  BY <1>2, <1>3, <1>4

LEMMA StakesInitially == Init => StakesInv
<1> SUFFICES ASSUME Init PROVE StakesInv
  OBVIOUS
<1>1. StakesTypeOK
  BY StakesAssumption, LaneInUseIsWellFormed DEF Init, StakesTypeOK, NotRegistered
<1>2. WellFormed(lane)
  BY LaneInUseIsWellFormed DEF Init
<1>3. StakesAreReserved
  <2>1. Balance \in Int /\ Endowment \in Int /\ IsFiniteSet(Registering)
    BY StakesAssumption
  <2>2. /\ DOMAIN free = Registering /\ \A r \in Registering : free[r] = Balance
        /\ DOMAIN reserved = Registering /\ \A r \in Registering : reserved[r] = 0
        /\ pot \in 0 .. Endowment /\ others = Endowment - pot
    BY DEF Init
  <2>3. SumFunction(free) = Balance * Cardinality(Registering)
    BY <2>1, <2>2, SumOfConstant DEF SumFunction
  <2>4. SumFunction(reserved) = 0 * Cardinality(Registering)
    BY <2>1, <2>2, SumOfConstant DEF SumFunction
  <2>5. Cardinality(Registering) \in Nat
    BY <2>1, FS_CardinalityType
  <2>6. Balance * Cardinality(Registering) \in Int /\ 0 * Cardinality(Registering) = 0
    BY <2>1, <2>5
  <2>7. SumFunction(free) + SumFunction(reserved) + pot + others
          = Balance * Cardinality(Registering) + Endowment
    BY <2>1, <2>2, <2>3, <2>4, <2>6
  <2>8. \A r \in Registering : reserved[r] >= registration[r].stake
    <3>1. \A r \in Registering : registration[r].stake = 0
      BY DEF Init, NotRegistered
    <3> QED
      BY <2>2, <3>1
  <2> QED
    BY <2>7, <2>8 DEF StakesAreReserved
<1>4. BoostedIsCovered
  BY DEF Init, BoostedIsCovered
<1> QED
  BY <1>1, <1>2, <1>3, <1>4 DEF StakesInv

-----------------------------------------------------------------------------
(***************************************************************************)
(* The steps.                                                              *)
(***************************************************************************)

LEMMA RegisterStep ==
    ASSUME StakesInv, NEW r \in Registering, NEW validTill \in 1 .. MaxBlock,
           Register(r, validTill)
    PROVE  StakesInv'
<1> DEFINE toReserve == requiredStake - registration[r].stake
<1>1. StakesTypeOK /\ WellFormed(lane) /\ StakesAreReserved /\ BoostedIsCovered
  BY DEF StakesInv
<1>2. /\ registration[r].stake \in Nat /\ requiredStake \in Nat /\ validTill \in Nat
      /\ free[r] \in Nat /\ reserved[r] \in Nat
      /\ reserved[r] >= registration[r].stake
      /\ toReserve <= free[r]
  BY <1>1, StakesTypes, StakesAssumption DEF Types, StakesAreReserved, Register
<1>3. /\ free' = [free EXCEPT ![r] = free[r] - toReserve]
      /\ reserved' = [reserved EXCEPT ![r] = reserved[r] + toReserve]
      /\ registration' = [registration EXCEPT
             ![r] = [valid_till |-> validTill, stake |-> requiredStake]]
      /\ UNCHANGED <<block, requiredStake, rewards, pot, others, lane, confirmed, pool>>
      /\ IsRegistered(r) => validTill >= registration[r].valid_till
  BY DEF Register
<1>4. free[r] - toReserve \in Nat /\ reserved[r] + toReserve \in Nat
  BY <1>2
<1> HIDE DEF toReserve
<1>5. StakesTypeOK'
  <2>1. Types(free') /\ Types(reserved')
    BY <1>1, <1>3, <1>4, StakesTypes DEF Types
  <2>2. registration' \in [Registering -> [valid_till : Nat, stake : Nat]]
    BY <1>1, <1>2, <1>3 DEF StakesTypeOK
  <2> QED
    BY <1>1, <1>3, <2>1, <2>2 DEF StakesTypeOK, Types
<1>6. /\ free'[r] = free[r] - toReserve
      /\ reserved'[r] = reserved[r] + toReserve
      /\ registration'[r].stake = requiredStake
      /\ registration'[r].valid_till = validTill
      /\ \A q \in Registering \ {r} :
            /\ free'[q] = free[q] /\ reserved'[q] = reserved[q]
            /\ registration'[q] = registration[q]
      /\ pot' = pot /\ others' = others
  BY <1>1, <1>3 DEF StakesTypeOK
<1>7. StakesAreReserved'
  <2>1. reserved'[r] >= registration'[r].stake
    BY <1>2, <1>6 DEF toReserve
  <2>2. toReserve \in Int /\ pot \in Nat /\ others \in Nat
    BY <1>1, <1>2, StakesTypes DEF toReserve
  <2>3. free'[r] + reserved'[r] + pot' + others' = free[r] + reserved[r] + pot + others
    BY <1>2, <1>6, <2>2
  <2> QED
    BY <1>1, <1>5, <1>6, <2>1, <2>3, FundsMove
<1>8. BoostedIsCovered'
  <2>1. \A q \in Registering :
          /\ registration'[q].valid_till \in Nat /\ registration'[q].stake \in Nat
          /\ registration'[q].valid_till >= registration[q].valid_till
          /\ \/ registration'[q].stake >= registration[q].stake
             \/ registration'[q].stake >= requiredStake
    <3>1. ASSUME NEW q \in Registering, q # r
          PROVE  /\ registration'[q].valid_till \in Nat /\ registration'[q].stake \in Nat
                 /\ registration'[q].valid_till >= registration[q].valid_till
                 /\ registration'[q].stake >= registration[q].stake
      BY <1>1, <1>6, <3>1, StakesTypes
    <3>2. registration'[r].valid_till >= registration[r].valid_till
      <4>1. CASE IsRegistered(r)
        BY <1>3, <1>6, <4>1
      <4>2. CASE ~ IsRegistered(r)
        BY <1>2, <1>6, <4>2 DEF IsRegistered
      <4> QED
        BY <4>1, <4>2
    <3> QED
      BY <1>2, <1>6, <3>1, <3>2
  <2>2. /\ pool' \subseteq pool /\ block' \in Nat /\ block' >= block
        /\ requiredStake' = requiredStake
    BY <1>1, <1>3, StakesTypes
  <2> QED
    BY <1>1, <2>1, <2>2, BoostedStayCovered
<1>9. WellFormed(lane)'
  BY <1>1, <1>3 DEF WellFormed, LastDeliveredNonce
<1> QED
  BY <1>5, <1>7, <1>8, <1>9 DEF StakesInv

LEMMA DeregisterStep ==
    ASSUME StakesInv, NEW r \in Registering, Deregister(r)
    PROVE  StakesInv'
<1>1. StakesTypeOK /\ WellFormed(lane) /\ StakesAreReserved /\ BoostedIsCovered
  BY DEF StakesInv
<1>2. /\ registration[r].stake \in Nat
      /\ free[r] \in Nat /\ reserved[r] \in Nat
      /\ reserved[r] >= registration[r].stake
      /\ pot \in Nat /\ others \in Nat
  BY <1>1, StakesTypes DEF Types, StakesAreReserved
<1>3. /\ free' = [free EXCEPT ![r] = free[r] + registration[r].stake]
      /\ reserved' = [reserved EXCEPT ![r] = reserved[r] - registration[r].stake]
      /\ registration' = [registration EXCEPT ![r] = NotRegistered]
      /\ registration[r].valid_till < block
      /\ UNCHANGED <<block, requiredStake, rewards, pot, others, lane, confirmed, pool>>
  BY DEF Deregister
<1>4. free[r] + registration[r].stake \in Nat /\ reserved[r] - registration[r].stake \in Nat
  BY <1>2
<1>5. StakesTypeOK'
  <2>1. Types(free') /\ Types(reserved')
    BY <1>1, <1>3, <1>4, StakesTypes DEF Types
  <2>2. registration' \in [Registering -> [valid_till : Nat, stake : Nat]]
    BY <1>1, <1>3 DEF StakesTypeOK, NotRegistered
  <2> QED
    BY <1>1, <1>3, <2>1, <2>2 DEF StakesTypeOK, Types
<1>6. /\ free'[r] = free[r] + registration[r].stake
      /\ reserved'[r] = reserved[r] - registration[r].stake
      /\ registration'[r].stake = 0 /\ registration'[r].valid_till = 0
      /\ \A q \in Registering \ {r} :
            /\ free'[q] = free[q] /\ reserved'[q] = reserved[q]
            /\ registration'[q] = registration[q]
      /\ pot' = pot /\ others' = others
  BY <1>1, <1>3 DEF StakesTypeOK, NotRegistered
<1>7. StakesAreReserved'
  <2>1. reserved'[r] >= registration'[r].stake
    BY <1>2, <1>6
  <2>2. free'[r] + reserved'[r] + pot' + others' = free[r] + reserved[r] + pot + others
    BY <1>2, <1>6
  <2> QED
    BY <1>1, <1>5, <1>6, <2>1, <2>2, FundsMove
<1>8. BoostedIsCovered'
  <2>1. \A q \in Registering :
          /\ registration'[q].valid_till \in Nat /\ registration'[q].stake \in Nat
          /\ \/ /\ registration'[q].valid_till >= registration[q].valid_till
                /\ registration'[q].stake >= registration[q].stake
             \/ block > registration[q].valid_till
    <3>1. \A q \in Registering : /\ registration[q].valid_till \in Nat /\ block \in Nat
                                 /\ registration[q].stake \in Nat
      BY <1>1, StakesTypes
    <3> QED
      BY <1>3, <1>6, <3>1
  <2>2. /\ pool' \subseteq pool /\ block' \in Nat /\ block' >= block
        /\ requiredStake' = requiredStake
    BY <1>1, <1>3, StakesTypes
  <2> QED
    BY <1>1, <2>1, <2>2, BoostedStayCovered
<1>9. WellFormed(lane)'
  BY <1>1, <1>3 DEF WellFormed, LastDeliveredNonce
<1> QED
  BY <1>5, <1>7, <1>8, <1>9 DEF StakesInv

LEMMA ClaimStep ==
    ASSUME StakesInv, NEW r \in Relayers, NEW beneficiary \in Relayers,
           ClaimRewards(r, beneficiary)
    PROVE  StakesInv'
<1>1. StakesTypeOK /\ WellFormed(lane) /\ StakesAreReserved /\ BoostedIsCovered
  BY DEF StakesInv
<1>2. rewards[r] \in Nat /\ rewards[r] <= pot /\ pot \in Nat /\ others \in Nat
  BY <1>1, StakesTypes DEF ClaimRewards
<1>3. /\ pot' = pot - rewards[r]
      /\ rewards' = [rewards EXCEPT ![r] = 0]
      /\ UNCHANGED <<block, requiredStake, registration, reserved, lane, confirmed, pool>>
  BY DEF ClaimRewards
<1>4. pot' \in Nat /\ rewards' \in [Relayers -> Nat]
  BY <1>1, <1>2, <1>3, StakesTypes
<1>5. BoostedIsCovered' /\ WellFormed(lane)'
  <2>1. /\ pool' = pool /\ block' = block /\ requiredStake' = requiredStake
        /\ registration' = registration /\ lane' = lane
    BY <1>3
  <2> QED
    BY <1>1, <2>1 DEF BoostedIsCovered, Covered, IsRegistered, WellFormed, LastDeliveredNonce
<1>6. CASE beneficiary \in Registering
  <2> DEFINE b == beneficiary
  <2>1. /\ free' = [free EXCEPT ![b] = free[b] + rewards[r]]
        /\ others' = others
    BY <1>6 DEF ClaimRewards
  <2>2. free[b] \in Nat /\ reserved[b] \in Nat /\ reserved[b] >= registration[b].stake
    BY <1>1, <1>6, StakesTypes DEF Types, StakesAreReserved
  <2>3. free[b] + rewards[r] \in Nat
    BY <1>2, <2>2
  <2>4. StakesTypeOK'
    <3>1. Types(free')
      BY <1>1, <2>1, <2>3, StakesTypes DEF Types
    <3> QED
      BY <1>1, <1>3, <1>4, <2>1, <3>1 DEF StakesTypeOK, Types
  <2>5. /\ free'[b] = free[b] + rewards[r]
        /\ \A q \in Registering \ {b} : free'[q] = free[q]
        /\ reserved' = reserved /\ registration' = registration
    BY <1>1, <1>3, <1>6, <2>1 DEF StakesTypeOK
  <2>6. reserved'[b] >= registration'[b].stake
    BY <2>2, <2>5
  <2>7. free'[b] + reserved'[b] + pot' + others' = free[b] + reserved[b] + pot + others
    BY <1>2, <1>3, <2>1, <2>2, <2>5
  <2>8. StakesAreReserved'
    BY <1>1, <1>6, <2>4, <2>5, <2>6, <2>7, FundsMove
  <2> QED
    BY <1>5, <2>4, <2>8 DEF StakesInv
<1>7. CASE beneficiary \notin Registering
  <2>1. free' = free /\ others' = others + rewards[r]
    BY <1>7 DEF ClaimRewards
  <2>2. others' \in Nat /\ pot' = pot + others - others'
    BY <1>2, <1>3, <2>1
  <2>3. StakesTypeOK'
    BY <1>1, <1>3, <1>4, <2>1, <2>2 DEF StakesTypeOK
  <2>4. StakesAreReserved'
    BY <1>1, <1>3, <2>1, <2>2, <2>3, FundsStay
  <2> QED
    BY <1>5, <2>3, <2>4 DEF StakesInv
<1> QED
  BY <1>6, <1>7

\* Steps that touch neither a relayer's account nor the pool's record of it.
LEMMA AccountsStay ==
    ASSUME StakesInv, registration' = registration, free' = free, reserved' = reserved,
           rewards' = rewards, lane' = lane, pool' \subseteq pool,
           block' \in Nat, block' >= block, requiredStake' = requiredStake,
           confirmed' \in Nat, pot' \in Nat, others' \in Nat, pot' = pot + others - others'
    PROVE  StakesInv'
<1>1. StakesTypeOK /\ WellFormed(lane) /\ StakesAreReserved /\ BoostedIsCovered
  BY DEF StakesInv
<1>2. StakesTypeOK'
  BY <1>1 DEF StakesTypeOK
<1>3. StakesAreReserved'
  BY <1>1, <1>2, FundsStay
<1>4. BoostedIsCovered'
  <2>1. \A q \in Registering :
          /\ registration'[q].valid_till \in Nat /\ registration'[q].stake \in Nat
          /\ registration'[q].valid_till >= registration[q].valid_till
          /\ registration'[q].stake >= registration[q].stake
    BY <1>1, StakesTypes
  <2> QED
    BY <1>1, <2>1, BoostedStayCovered
<1>5. WellFormed(lane)'
  BY <1>1 DEF WellFormed, LastDeliveredNonce
<1> QED
  BY <1>2, <1>3, <1>4, <1>5 DEF StakesInv

LEMMA SubmitStep ==
    ASSUME StakesInv, NEW r \in Relayers, NEW start \in Nat, NEW end \in Nat,
           NEW proved \in Nat, NEW valid \in BOOLEAN,
           SubmitDelivery(r, start, end, proved, valid)
    PROVE  StakesInv'
<1> DEFINE tx == [relayer |-> r, start |-> start, end |-> end, proved |-> proved,
                  valid |-> valid, boostedAt |-> 0, atStake |-> 0]
           isBoosted == IsBoostable(tx) /\ IsRegistrationActive(r)
           boost == IF isBoosted THEN block ELSE 0
           stake == IF isBoosted THEN requiredStake ELSE 0
           new == [tx EXCEPT !.boostedAt = boost, !.atStake = stake]
<1>1. StakesTypeOK /\ WellFormed(lane) /\ StakesAreReserved /\ BoostedIsCovered
  BY DEF StakesInv
<1>2. /\ pool' = pool \cup {new}
      /\ UNCHANGED <<block, requiredStake, registration, free, reserved, pot, others, rewards,
                     lane, confirmed>>
  BY DEF SubmitDelivery, balanceVars
<1>3. /\ boost \in Nat /\ stake \in Nat /\ block \in Nat /\ RequiredLease \in Nat
      /\ requiredStake \in Nat
  BY <1>1, StakesTypes
<1>4. boost # 0 => /\ boost = block /\ stake = requiredStake
                   /\ IsRegistered(r)
                   /\ registration[r].stake >= requiredStake
                   /\ registration[r].valid_till - block > RequiredLease
  BY DEF IsRegistrationActive
<1> HIDE DEF boost, stake
<1>5. new = [relayer |-> r, start |-> start, end |-> end, proved |-> proved,
             valid |-> valid, boostedAt |-> boost, atStake |-> stake]
  <2> HIDE DEF isBoosted
  <2> DEFINE half == [tx EXCEPT !.boostedAt = boost]
  <2>1. half = [relayer |-> r, start |-> start, end |-> end, proved |-> proved,
                valid |-> valid, boostedAt |-> boost, atStake |-> 0]
    OBVIOUS
  <2>2. new = [half EXCEPT !.atStake = stake]
    OBVIOUS
  <2> HIDE DEF half, new, tx
  <2> QED
    BY <2>1, <2>2
<1> HIDE DEF new
<1>6. /\ new \in Delivery /\ new.relayer = r /\ new.boostedAt = boost
      /\ new.atStake = stake
  BY <1>3, <1>5 DEF Delivery
<1>7. StakesTypeOK'
  BY <1>1, <1>2, <1>6 DEF StakesTypeOK
<1>8. StakesAreReserved'
  <2>1. pot' = pot + others - others'
    BY <1>1, <1>2, StakesTypes
  <2> QED
    BY <1>1, <1>2, <1>7, <2>1, FundsStay
<1>9. BoostedIsCovered'
  <2>1. Covered(new)
    <3>1. boost # 0 => registration[r].valid_till \in Nat /\ registration[r].stake \in Nat
      BY <1>1, <1>4, StakesTypes DEF IsRegistered
    <3> QED
      BY <1>3, <1>4, <1>6, <3>1 DEF Covered
  <2>2. \A t \in pool' : Covered(t)
    BY <1>1, <1>2, <2>1 DEF BoostedIsCovered
  <2>3. \A t \in pool' : Covered(t)'
    BY <1>2, <2>2 DEF Covered, IsRegistered
  <2> QED
    BY <2>3 DEF BoostedIsCovered
<1>10. WellFormed(lane)'
  BY <1>1, <1>2 DEF WellFormed, LastDeliveredNonce
<1> QED
  BY <1>7, <1>8, <1>9, <1>10 DEF StakesInv

\* What post_dispatch_details does to the accounts and to the pool's record.
LEMMA IncludeAccounts ==
    ASSUME StakesInv, NEW tx \in pool, IncludeDelivery(tx)
    PROVE  StakesTypeOK' /\ StakesAreReserved' /\ BoostedIsCovered'
<1> DEFINE r == tx.relayer
           wasSlashed == IsRegistered(r) /\ ~ IsRegistered(r)'
<1>1. StakesTypeOK /\ WellFormed(lane) /\ StakesAreReserved /\ BoostedIsCovered /\ tx \in Delivery
  BY DEF StakesInv, StakesTypeOK
<1>2. /\ lane' = LaneAfter(tx) /\ PostDispatch(tx) /\ pool' = PoolWithout(tx)
      /\ UNCHANGED <<block, requiredStake, free, others, confirmed>>
  BY DEF IncludeDelivery
<1>3. LaneAfter(tx) \in InboundLaneData
  BY <1>1, LaneAfterIsWellFormed
<1>4. ASSUME NEW t \in pool'
      PROVE  /\ t \in Delivery
             /\ t.boostedAt # 0 => t \in pool /\ ~ (wasSlashed /\ t.relayer = r)
  <2>1. PICK u \in pool \ {tx} :
          t = IF wasSlashed /\ u.relayer = r
              THEN [u EXCEPT !.boostedAt = 0, !.atStake = 0] ELSE u
    BY <1>2, <1>4 DEF PoolWithout
  <2>2. u \in Delivery
    BY <1>1, <2>1 DEF StakesTypeOK
  <2> HIDE DEF wasSlashed, r
  <2>3. CASE wasSlashed /\ u.relayer = r
    <3>1. t = [u EXCEPT !.boostedAt = 0, !.atStake = 0]
      BY <2>1, <2>3
    <3> QED
      BY <2>2, <3>1 DEF Delivery
  <2>4. CASE ~ (wasSlashed /\ u.relayer = r)
    <3>1. t = u
      BY <2>1, <2>4
    <3> QED
      BY <2>1, <2>2, <2>4, <3>1
  <2> QED
    BY <2>3, <2>4
<1>5. \A t \in pool' : t \in Delivery
  BY <1>4
\* Nobody is slashed.
<1>6. CASE /\ UNCHANGED <<registration, reserved, pot>>
           /\ rewards' \in [Relayers -> Nat]
  <2>1. StakesTypeOK'
    BY <1>1, <1>2, <1>3, <1>5, <1>6 DEF StakesTypeOK, Types
  <2>2. StakesAreReserved'
    <3>1. pot' = pot + others - others'
      BY <1>1, <1>2, <1>6, StakesTypes
    <3> QED
      BY <1>1, <1>2, <1>6, <2>1, <3>1, FundsStay
  <2>3. BoostedIsCovered'
    <3>1. \A t \in pool' : t.boostedAt # 0 => t \in pool
      BY <1>4
    <3> QED
      BY <1>1, <1>2, <1>6, <3>1 DEF BoostedIsCovered, Covered, IsRegistered
  <2> QED
    BY <2>1, <2>2, <2>3
\* The relayer is slashed.
<1>7. CASE IsRegistered(r) /\ SlashAndDeregister(r) /\ UNCHANGED rewards
  <2>1. r \in Registering
    BY <1>7 DEF IsRegistered
  <2> HIDE DEF r, wasSlashed
  <2>2. /\ registration[r].stake \in Nat /\ free[r] \in Nat
        /\ reserved[r] \in Nat /\ reserved[r] >= registration[r].stake
        /\ pot \in Nat /\ others \in Nat
    BY <1>1, <2>1, StakesTypes DEF Types, StakesAreReserved
  <2>3. /\ registration' = [registration EXCEPT ![r] = NotRegistered]
        /\ \/ /\ reserved' = [reserved EXCEPT ![r] = reserved[r] - registration[r].stake]
              /\ pot' = pot + registration[r].stake
           \/ /\ reserved' = [reserved EXCEPT ![r] = reserved[r]]
              /\ pot' = pot
    BY <1>7, <2>2 DEF SlashAndDeregister
  <2>4. reserved[r] - registration[r].stake \in Nat /\ pot' \in Nat
    BY <2>2, <2>3
  <2>5. StakesTypeOK'
    <3>1. Types(reserved')
      BY <1>1, <2>2, <2>3, <2>4, StakesTypes DEF Types
    <3>2. registration' \in [Registering -> [valid_till : Nat, stake : Nat]]
      BY <1>1, <2>3 DEF StakesTypeOK, NotRegistered
    <3> QED
      BY <1>1, <1>2, <1>3, <1>5, <1>7, <2>4, <3>1, <3>2 DEF StakesTypeOK, Types
  <2>6. /\ \/ /\ reserved'[r] = reserved[r] - registration[r].stake
              /\ pot' = pot + registration[r].stake
           \/ /\ reserved'[r] = reserved[r]
              /\ pot' = pot
        /\ registration'[r].stake = 0 /\ registration'[r].valid_till = 0
        /\ \A q \in Registering \ {r} :
              reserved'[q] = reserved[q] /\ registration'[q] = registration[q]
        /\ free' = free /\ others' = others /\ block' = block
        /\ requiredStake' = requiredStake
    BY <1>1, <1>2, <2>1, <2>3 DEF StakesTypeOK, NotRegistered
  <2>7. StakesAreReserved'
    <3>1. reserved'[r] >= registration'[r].stake
      BY <2>2, <2>6
    <3>2. free'[r] + reserved'[r] + pot' + others' = free[r] + reserved[r] + pot + others
      BY <2>2, <2>6
    <3> QED
      BY <1>1, <2>1, <2>5, <2>6, <3>1, <3>2, FundsMove
  <2>8. BoostedIsCovered'
    <3>1. wasSlashed
      BY <1>7, <2>6 DEF wasSlashed, IsRegistered, r
    <3>2. ASSUME NEW t \in pool', t.boostedAt # 0
          PROVE  Covered(t)'
      <4>1. t \in pool /\ t.relayer # r
        BY <1>4, <3>1, <3>2 DEF r
      <4>2. Covered(t)
        BY <1>1, <4>1 DEF BoostedIsCovered
      <4> QED
        BY <2>6, <3>2, <4>1, <4>2 DEF Covered, IsRegistered
    <3> QED
      BY <3>2 DEF BoostedIsCovered, Covered
  <2> QED
    BY <2>5, <2>7, <2>8
<1>8. CASE WasSuccessful(tx)
  <2>1. /\ rewards' = [rewards EXCEPT ![r] = rewards[r] + 1]
        /\ UNCHANGED <<registration, reserved, pot>>
    BY <1>2, <1>8 DEF PostDispatch
  <2>2. rewards' \in [Relayers -> Nat]
    BY <1>1, <2>1, StakesTypes, DeliveryTypes
  <2> QED
    BY <1>6, <2>1, <2>2
<1>9. CASE ~ WasSuccessful(tx) /\ IsBoostable(tx) /\ IsRegistered(r)
  <2>1. SlashAndDeregister(r) /\ UNCHANGED rewards
    BY <1>2, <1>9 DEF PostDispatch
  <2> QED
    BY <1>7, <1>9, <2>1
<1>10. CASE ~ WasSuccessful(tx) /\ ~ (IsBoostable(tx) /\ IsRegistered(r))
  <2>1. UNCHANGED <<registration, reserved, pot, rewards>>
    BY <1>2, <1>10 DEF PostDispatch
  <2>2. rewards' \in [Relayers -> Nat]
    BY <1>1, <2>1, StakesTypes
  <2> QED
    BY <1>6, <2>1, <2>2
<1> QED
  BY <1>8, <1>9, <1>10

LEMMA IncludeStep ==
    ASSUME StakesInv, NEW tx \in pool, IncludeDelivery(tx)
    PROVE  StakesInv'
<1>1. StakesTypeOK /\ WellFormed(lane) /\ tx \in Delivery /\ lane' = LaneAfter(tx)
  BY DEF StakesInv, StakesTypeOK, IncludeDelivery
<1>2. WellFormed(LaneAfter(tx))
  BY <1>1, LaneAfterIsWellFormed
<1>3. WellFormed(lane)'
  BY <1>1, <1>2 DEF WellFormed, LastDeliveredNonce
<1> QED
  BY <1>3, IncludeAccounts DEF StakesInv

LEMMA SetRequiredStakeStep ==
    ASSUME StakesInv, NEW stake \in RequiredStakes, SetRequiredStake(stake)
    PROVE  StakesInv'
<1> DEFINE Lowered(t) == IF stake < t.atStake THEN stake ELSE t.atStake
<1>1. StakesTypeOK /\ WellFormed(lane) /\ StakesAreReserved /\ BoostedIsCovered
  BY DEF StakesInv
<1>2. /\ requiredStake' = stake /\ stake \in Nat
      /\ pool' = {[t EXCEPT !.atStake = Lowered(t)] : t \in pool}
      /\ UNCHANGED <<block, registration, free, reserved, pot, others, rewards, lane, confirmed>>
  BY StakesAssumption DEF SetRequiredStake, balanceVars
<1>3. ASSUME NEW u \in pool'
      PROVE  /\ u \in Delivery
             /\ \E t \in pool : /\ u.relayer = t.relayer /\ u.boostedAt = t.boostedAt
                                /\ u.atStake <= t.atStake /\ u.atStake <= stake
  <2>1. PICK t \in pool : u = [t EXCEPT !.atStake = Lowered(t)]
    BY <1>2
  <2>2. t \in Delivery
    BY <1>1 DEF StakesTypeOK
  <2>3. t.atStake \in Nat
    BY <2>2, DeliveryTypes
  <2>4. Lowered(t) \in Nat /\ Lowered(t) <= t.atStake /\ Lowered(t) <= stake
    BY <1>2, <2>3
  <2> HIDE DEF Lowered
  <2>5. /\ u \in Delivery /\ u.relayer = t.relayer /\ u.boostedAt = t.boostedAt
        /\ u.atStake = Lowered(t)
    BY <2>1, <2>2, <2>4 DEF Delivery
  <2> QED
    BY <2>4, <2>5
<1>4. StakesTypeOK'
  BY <1>1, <1>2, <1>3 DEF StakesTypeOK
<1>5. StakesAreReserved'
  <2>1. pot' = pot + others - others'
    BY <1>1, <1>2, StakesTypes
  <2> QED
    BY <1>1, <1>2, <1>4, <2>1, FundsStay
<1>6. BoostedIsCovered'
  <2> SUFFICES ASSUME NEW u \in pool', u.boostedAt # 0
               PROVE  /\ u.boostedAt <= block
                      /\ u.atStake <= stake
                      /\ \/ block > u.boostedAt + RequiredLease + 1
                         \/ /\ IsRegistered(u.relayer)
                            /\ registration[u.relayer].valid_till > u.boostedAt + RequiredLease
                            /\ registration[u.relayer].stake >= u.atStake
    BY <1>2 DEF BoostedIsCovered, Covered, IsRegistered
  <2>1. PICK t \in pool : /\ u.relayer = t.relayer /\ u.boostedAt = t.boostedAt
                          /\ u.atStake <= t.atStake /\ u.atStake <= stake
    BY <1>3
  <2>2. Covered(t)
    BY <1>1 DEF BoostedIsCovered
  <2>3. u.atStake \in Nat /\ t.atStake \in Nat
    BY <1>1, <1>3, DeliveryTypes DEF StakesTypeOK
  <2>4. IsRegistered(u.relayer) => registration[u.relayer].stake \in Nat
    BY <1>1, StakesTypes DEF IsRegistered
  <2> QED
    BY <2>1, <2>2, <2>3, <2>4 DEF Covered
<1>7. WellFormed(lane)'
  BY <1>1, <1>2 DEF WellFormed, LastDeliveredNonce
<1> QED
  BY <1>4, <1>5, <1>6, <1>7 DEF StakesInv

LEMMA StakesStep ==
    ASSUME StakesInv, [Next]_vars
    PROVE  StakesInv'
<1>1. /\ block \in Nat /\ requiredStake \in RequiredStakes /\ confirmed \in Nat
      /\ pot \in Nat /\ others \in Nat /\ lane \in InboundLaneData
  BY DEF StakesInv, StakesTypeOK
<1>2. CASE \E r \in Registering, validTill \in 1 .. MaxBlock : Register(r, validTill)
  BY <1>2, RegisterStep
<1>3. CASE \E r \in Registering : Deregister(r)
  BY <1>3, DeregisterStep
<1>4. CASE \E r, beneficiary \in Relayers : ClaimRewards(r, beneficiary)
  BY <1>4, ClaimStep
<1>5. CASE PayIntoRewards
  <2>1. pot' \in Nat /\ others' \in Nat /\ pot' = pot + others - others'
    BY <1>1, <1>5 DEF PayIntoRewards
  <2>2. /\ registration' = registration /\ free' = free /\ reserved' = reserved
        /\ rewards' = rewards /\ lane' = lane /\ pool' = pool
        /\ block' = block /\ requiredStake' = requiredStake /\ confirmed' = confirmed
    BY <1>5 DEF PayIntoRewards
  <2>3. pool' \subseteq pool /\ block' \in Nat /\ block' >= block
    BY <1>1, <2>2
  <2> QED
    BY <1>1, <2>1, <2>2, <2>3, AccountsStay
<1>6. CASE \E r \in Relayers, start, end \in 1 .. MaxNonce :
             start <= end /\ SubmitDelivery(r, start, end, confirmed, TRUE)
  <2>1. 1 .. MaxNonce \subseteq Nat
    BY StakesAssumption
  <2> QED
    BY <1>1, <1>6, <2>1, SubmitStep
<1>7. CASE \E r \in Registering : SubmitDelivery(r, 1, 0, confirmed, TRUE)
  <2>1. Registering \subseteq Relayers
    BY StakesAssumption
  <2> QED
    BY <1>1, <1>7, <2>1, SubmitStep
<1>8. CASE \E r \in Registering, start \in 1 .. MaxNonce :
             SubmitDelivery(r, start, start, confirmed, FALSE)
  <2>1. 1 .. MaxNonce \subseteq Nat /\ Registering \subseteq Relayers
    BY StakesAssumption
  <2> QED
    BY <1>1, <1>8, <2>1, SubmitStep
<1>9. CASE \E tx \in pool, isAccepting \in BOOLEAN : DropObsolete(tx, isAccepting)
  <2>1. pot' = pot + others - others'
    BY <1>1, <1>9 DEF DropObsolete, balanceVars
  <2> QED
    BY <1>1, <1>9, <2>1, AccountsStay DEF DropObsolete, balanceVars
<1>10. CASE \E tx \in pool : IncludeDelivery(tx)
  BY <1>10, IncludeStep
<1>11. CASE NextBlock \/ ConfirmAtSource
  <2>1. /\ block' \in Nat /\ block' >= block
        /\ pot' = pot + others - others' /\ pot' \in Nat /\ others' \in Nat
        /\ requiredStake' = requiredStake
    BY <1>1, <1>11 DEF NextBlock, ConfirmAtSource, balanceVars
  <2>2. confirmed' \in Nat
    <3>1. LastDeliveredNonce(lane) \in Nat
      BY <1>1, LastDeliveredType
    <3> QED
      BY <1>1, <1>11, <3>1 DEF NextBlock, ConfirmAtSource
  <2> QED
    BY <1>1, <1>11, <2>1, <2>2, AccountsStay DEF NextBlock, ConfirmAtSource, balanceVars
<1>13. CASE \E stake \in RequiredStakes \ {requiredStake} : SetRequiredStake(stake)
  BY <1>13, SetRequiredStakeStep
<1>12. CASE UNCHANGED vars
  <2>1. pot' = pot + others - others'
    BY <1>1, <1>12 DEF vars, balanceVars
  <2> QED
    BY <1>1, <1>12, <2>1, AccountsStay DEF vars, balanceVars
<1> QED
  BY <1>2, <1>3, <1>4, <1>5, <1>6, <1>7, <1>8, <1>9, <1>10, <1>11, <1>12, <1>13 DEF Next

-----------------------------------------------------------------------------
\* The inductive invariant holds of every behaviour of the relayers pallet, its
\* transaction extension and the lane.
THEOREM StakesInvariant == Spec => []StakesInv
<1>1. StakesInv /\ [Next]_vars => StakesInv'
  BY StakesStep
<1> QED
  BY <1>1, StakesInitially, PTL DEF Spec

\* register, deregister and slash_and_deregister: every registered stake is
\* reserved, and no funds appear or vanish, for any number of relayers.
THEOREM StakesReserved == Spec => []StakesAreReserved
<1>1. StakesInv => StakesAreReserved
  BY DEF StakesInv
<1> QED
  BY <1>1, StakesInvariant, PTL

\* is_registration_active, register and deregister: a boosted transaction has a
\* stake behind it for as long as it was promised, of at least the smallest
\* RequiredStake since.
THEOREM BoostedAtStake == Spec => []BoostedIsAtStake
<1>1. StakesInv => BoostedIsAtStake
  <2> SUFFICES ASSUME StakesInv, NEW tx \in pool, tx.boostedAt # 0,
                      block <= tx.boostedAt + RequiredLease + 1
               PROVE  IsRegistered(tx.relayer) /\ registration[tx.relayer].stake >= tx.atStake
    BY DEF BoostedIsAtStake
  <2>1. block \in Nat /\ tx.boostedAt \in Nat /\ RequiredLease \in Nat
    BY StakesTypes, DeliveryTypes DEF StakesInv, StakesTypeOK
  <2>2. Covered(tx)
    BY DEF StakesInv, BoostedIsCovered
  <2> QED
    BY <2>1, <2>2 DEF Covered
<1> QED
  BY <1>1, StakesInvariant, PTL

(***************************************************************************)
(* slash_and_deregister, register and deregister: a stake is left reserved *)
(* without a registration only by a slash while the rewards account does   *)
(* not exist, whatever RequiredStake was when it was reserved.             *)
(***************************************************************************)
THEOREM StakesStrandedOnlyWithoutAccount == Spec => OnlyMissingAccountStrandsStake
<1> DEFINE Goes(r) == reserved'[r] - reserved[r] = registration'[r].stake - registration[r].stake
           Strands(r) ==
             /\ pot = 0
             /\ \E tx \in pool : tx.relayer = r /\ IncludeDelivery(tx) /\ ~ WasSuccessful(tx)
             /\ ~ IsRegistered(r)' /\ reserved'[r] = reserved[r]
           Ok == \A r \in Registering : Goes(r) \/ Strands(r)
<1>1. ASSUME StakesInv, registration' = registration, reserved' = reserved
      PROVE  Ok
  <2>1. \A r \in Registering : reserved[r] \in Nat /\ registration[r].stake \in Nat
    BY <1>1, StakesTypes DEF StakesInv, Types
  <2> QED
    BY <1>1, <2>1
<1>2. ASSUME StakesInv, NEW q \in Registering, NEW d \in Int, NEW new, new.stake \in Nat,
             new.stake - registration[q].stake = d,
             reserved' = [reserved EXCEPT ![q] = reserved[q] + d],
             registration' = [registration EXCEPT ![q] = new]
      PROVE  Ok
  <2>1. /\ \A r \in Registering : reserved[r] \in Nat /\ registration[r].stake \in Nat
        /\ DOMAIN reserved = Registering /\ DOMAIN registration = Registering
    BY <1>2, StakesTypes DEF StakesInv, StakesTypeOK, Types
  <2>2. /\ reserved'[q] = reserved[q] + d /\ registration'[q] = new
        /\ \A r \in Registering \ {q} : /\ reserved'[r] = reserved[r]
                                         /\ registration'[r] = registration[r]
    BY <1>2, <2>1
  <2>3. Goes(q)
    BY <1>2, <2>1, <2>2
  <2>4. ASSUME NEW r \in Registering, r # q PROVE Goes(r)
    BY <2>1, <2>2, <2>4
  <2> QED
    BY <2>3, <2>4
<1>3. ASSUME StakesInv, NEW tx \in pool, IncludeDelivery(tx), ~ WasSuccessful(tx),
             IsRegistered(tx.relayer), SlashAndDeregister(tx.relayer)
      PROVE  Ok
  <2> DEFINE q == tx.relayer
             stake == registration[q].stake
  <2>1. /\ q \in Registering /\ stake \in Nat /\ pot \in Nat /\ reserved[q] \in Nat
        /\ DOMAIN reserved = Registering /\ DOMAIN registration = Registering
    BY <1>3, StakesTypes DEF StakesInv, StakesTypeOK, Types, IsRegistered
  <2>2. /\ registration' = [registration EXCEPT ![q] = NotRegistered]
        /\ NotRegistered.stake = 0 /\ NotRegistered.valid_till = 0
    BY <1>3 DEF SlashAndDeregister, NotRegistered
  <2>3. CASE pot > 0
    <3>1. reserved' = [reserved EXCEPT ![q] = reserved[q] - stake]
      BY <1>3, <2>3 DEF SlashAndDeregister
    <3> DEFINE d == - stake
    <3>2. d \in Int /\ reserved[q] - stake = reserved[q] + d
      BY <2>1
    <3>3. NotRegistered.stake \in Nat /\ NotRegistered.stake - registration[q].stake = d
      BY <2>1, <2>2
    <3>4. reserved' = [reserved EXCEPT ![q] = reserved[q] + d]
      BY <3>1, <3>2
    <3> HIDE DEF d, q, Ok
    <3> QED
      BY <1>2, <1>3, <2>1, <2>2, <3>2, <3>3, <3>4
  <2>4. CASE pot = 0
    <3>1. reserved' = [reserved EXCEPT ![q] = reserved[q]]
      BY <1>3, <2>1, <2>4 DEF SlashAndDeregister
    <3>2. reserved' = reserved
      <4>1. \A r \in Registering : reserved[r] = reserved'[r]
        BY <2>1, <3>1
      <4>2. reserved \in [Registering -> Nat]
        BY <1>3 DEF StakesInv, StakesTypeOK
      <4> QED
        BY <3>1, <4>2
    <3>3. Strands(q)
      BY <1>3, <2>1, <2>2, <2>4, <3>2 DEF IsRegistered
    <3>4. ASSUME NEW r \in Registering, r # q PROVE Goes(r)
      <4>1. registration'[r] = registration[r] /\ reserved'[r] = reserved[r]
        BY <2>1, <2>2, <3>2, <3>4
      <4>2. reserved[r] \in Nat /\ registration[r].stake \in Nat
        BY <1>3, StakesTypes DEF StakesInv, Types
      <4> QED
        BY <4>1, <4>2
    <3> QED
      BY <3>3, <3>4
  <2> QED
    BY <2>1, <2>3, <2>4
<1>4. ASSUME StakesInv, Next
      PROVE  Ok
  <2>1. CASE \E r \in Registering, validTill \in 1 .. MaxBlock : Register(r, validTill)
    <3>1. PICK r \in Registering, validTill \in 1 .. MaxBlock : Register(r, validTill)
      BY <2>1
    <3> DEFINE d == requiredStake - registration[r].stake
               new == [valid_till |-> validTill, stake |-> requiredStake]
    <3>2. /\ reserved' = [reserved EXCEPT ![r] = reserved[r] + d]
          /\ registration' = [registration EXCEPT ![r] = new]
      BY <3>1 DEF Register
    <3>3. d \in Int /\ new.stake \in Nat /\ new.stake - registration[r].stake = d
      BY <1>4, StakesTypes DEF StakesInv
    <3> HIDE DEF d, new
    <3> QED
      BY <1>2, <1>4, <3>2, <3>3
  <2>2. CASE \E r \in Registering : Deregister(r)
    <3>1. PICK r \in Registering : Deregister(r)
      BY <2>2
    <3> DEFINE d == - registration[r].stake
    <3>2. registration[r].stake \in Nat /\ reserved[r] \in Nat
      BY <1>4, StakesTypes DEF StakesInv, Types
    <3>3. /\ reserved' = [reserved EXCEPT ![r] = reserved[r] + d]
          /\ registration' = [registration EXCEPT ![r] = NotRegistered]
      <4>1. reserved[r] - registration[r].stake = reserved[r] + d
        BY <3>2
      <4> QED
        BY <3>1, <4>1 DEF Deregister
    <3>4. d \in Int /\ NotRegistered.stake \in Nat /\ NotRegistered.stake - registration[r].stake = d
      BY <3>2 DEF NotRegistered
    <3> HIDE DEF d
    <3> QED
      BY <1>2, <1>4, <3>3, <3>4
  <2>3. CASE \E tx \in pool : IncludeDelivery(tx)
    <3>1. PICK tx \in pool : IncludeDelivery(tx)
      BY <2>3
    <3>2. PostDispatch(tx)
      BY <3>1 DEF IncludeDelivery
    <3>3. CASE UNCHANGED <<registration, reserved>>
      BY <1>1, <1>4, <3>3
    <3>4. CASE /\ ~ WasSuccessful(tx) /\ IsRegistered(tx.relayer)
               /\ SlashAndDeregister(tx.relayer)
      BY <1>3, <1>4, <3>1, <3>4
    <3> QED
      BY <3>2, <3>3, <3>4 DEF PostDispatch
  <2>4. CASE registration' = registration /\ reserved' = reserved
    BY <1>1, <1>4, <2>4
  <2> HIDE DEF Ok
  <2> QED
    BY <1>4, <2>1, <2>2, <2>3, <2>4
       DEF Next, ClaimRewards, SubmitDelivery, DropObsolete, NextBlock, ConfirmAtSource,
           PayIntoRewards, SetRequiredStake, balanceVars
<1>5. StakesInv /\ [Next]_vars => [Ok]_vars
  BY <1>4
<1>6. StakesInv /\ [Next]_vars =>
        [\A r \in Registering :
           \/ reserved'[r] - reserved[r] = registration'[r].stake - registration[r].stake
           \/ /\ pot = 0
              /\ \E tx \in pool : tx.relayer = r /\ IncludeDelivery(tx) /\ ~ WasSuccessful(tx)
              /\ ~ IsRegistered(r)' /\ reserved'[r] = reserved[r]]_vars
  BY <1>5
<1> QED
  BY <1>6, StakesInvariant, PTL DEF Spec, OnlyMissingAccountStrandsStake

(***************************************************************************)
(* was_successful over receive_messages_proof: a delivery with a valid     *)
(* proof is rewarded exactly if the lane has room for all its messages,    *)
(* whatever the limits of the lane.                                        *)
(***************************************************************************)
THEOREM RewardsFollowRoom == Spec => []RewardedIffRoom
<1>1. StakesInv => RewardedIffRoom
  <2> SUFFICES ASSUME StakesInv, NEW tx \in pool,
                      tx.valid, ~ IsEmpty(tx), ~ IsObsolete(tx, TRUE)
               PROVE  LET data == ReceiveStateUpdate(lane, tx.proved)
                          slots == IF tx.start = tx.end \/ ExtendsLastEntry(data, tx.relayer)
                                   THEN 1 ELSE 2
                      IN  WasSuccessful(tx) <=> /\ tx.end - tx.start + 1 <= FreeMessageSlots(data)
                                                /\ slots <= FreeRelayerSlots(data)
    BY DEF RewardedIffRoom
  <2> DEFINE data == ReceiveStateUpdate(lane, tx.proved)
             delivered == LastDeliveredNonce(lane)
             extends == ExtendsLastEntry(data, tx.relayer)
             entries == Len(data.relayers)
             mayConfirm == data.last_confirmed_nonce + MaxUnconfirmedMessages
             accepted == LastAccepted(data, tx.relayer, tx.start, tx.end)
             slots == IF tx.start = tx.end \/ extends THEN 1 ELSE 2
  <2>1. /\ lane \in InboundLaneData /\ WellFormed(lane) /\ tx \in Delivery
    BY DEF StakesInv, StakesTypeOK
  <2>2. /\ data \in InboundLaneData /\ WellFormed(data)
        /\ LastDeliveredNonce(data) = delivered
    BY <2>1, DeliveryTypes, StateUpdateCorrect
  <2>3. tx.start = delivered + 1
    BY DEF IsObsolete
  <2>4. tx.start \in Nat /\ tx.end \in Nat /\ tx.relayer \in Relayers /\ tx.proved \in Nat
    BY <2>1, DeliveryTypes
  <2>5. WasSuccessful(tx) <=> accepted = tx.end
    <3> HIDE DEF data
    <3>1. LastDeliveredNonce(ReceiveMessages(data, tx.relayer, tx.start, tx.end)) = accepted
      BY <2>2, <2>4, ReceiveMessagesCorrect
    <3> QED
      BY <3>1 DEF WasSuccessful, LaneAfter, data
  <2> HIDE DEF data
  <2>6. delivered \in Nat /\ data.last_confirmed_nonce \in Nat /\ entries \in Nat
    BY <2>1, <2>2, LastDeliveredType, EntryTypes
  <2>7. MaxUnrewardedRelayers \in Nat /\ MaxUnconfirmedMessages \in Nat
    BY LimitsAssumption
  <2>8. /\ FreeMessageSlots(data) = mayConfirm - delivered
        /\ FreeRelayerSlots(data) = MaxUnrewardedRelayers - entries
        /\ CanReceive(data, delivered + 1) <=>
             entries < MaxUnrewardedRelayers /\ delivered + 1 <= mayConfirm
    BY <2>2, <2>6, <2>7 DEF FreeMessageSlots, FreeRelayerSlots, CanReceive
  <2>9. delivered + 1 <= tx.end
    BY <2>3, <2>4, <2>6 DEF IsEmpty
  <2>10. accepted = IF ~ CanReceive(data, delivered + 1) THEN delivered
                    ELSE LET last == IF entries + 1 >= MaxUnrewardedRelayers /\ ~ extends
                                     THEN delivered + 1 ELSE tx.end
                         IN  IF last <= mayConfirm THEN last ELSE mayConfirm
    BY <2>2, <2>3, <2>4, <2>6, <2>9 DEF LastAccepted
  <2> HIDE DEF delivered, extends, entries, mayConfirm, accepted
  <2>11. mayConfirm \in Nat
    BY <2>6, <2>7 DEF mayConfirm
  <2>12. accepted = tx.end <=> /\ tx.end - tx.start + 1 <= mayConfirm - delivered
                               /\ slots <= MaxUnrewardedRelayers - entries
    BY <2>3, <2>4, <2>6, <2>7, <2>8, <2>9, <2>10, <2>11
  <2> QED
    BY <2>5, <2>8, <2>12 DEF data, extends
<1> QED
  BY <1>1, StakesInvariant, PTL

=============================================================================
