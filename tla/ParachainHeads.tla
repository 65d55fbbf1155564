---------------------------- MODULE ParachainHeads ----------------------------
(***************************************************************************)
(* The heads of bridged parachains: pallet bridge-parachains, together     *)
(* with the GRANDPA client of their relay chain, whose imported headers    *)
(* the proofs of heads are checked against and whose free submissions of a *)
(* block both pallets share.                                               *)
(***************************************************************************)
EXTENDS GrandpaClient

CONSTANTS
    Paras,        \* tracked parachains
    HeadAt,       \* paras::Heads: the head of a parachain in each relay block
    HeadSize,     \* the size of every head, as far as limits tell sizes apart
    HeadsToKeep   \* T::HeadsToKeep

\* No head: the parachain is not registered yet, or a position is empty.
NoHead == 0

\* Heads of a parachain are numbered; one relay block need not bring a new one.
Heads == (UNION {Range(HeadAt[p]) : p \in Paras}) \ {NoHead}

ASSUME ParachainsAssumption ==
    /\ HeadAt \in [Paras -> [Headers -> Nat]]
    /\ \A p \in Paras : \A r, s \in Headers : r <= s => HeadAt[p][r] <= HeadAt[p][s]
    /\ HeadSize \in [Paras -> [Heads -> {"free", "paid", "overflow"}]]
    /\ HeadsToKeep \in Nat \ {0}

VARIABLES
    info,        \* ParasInfo: the best head, its relay block, the next position
    paraHashes,  \* ImportedParaHashes, a ring for every parachain
    paraHeads,   \* ImportedParaHeads
    paraHalted   \* PalletOperatingMode of this pallet is Halted

paraVars == <<info, paraHashes, paraHeads, paraHalted>>
vars == <<grandpaVars, paraVars>>

ParaInit ==
    /\ info = [p \in Paras |-> [at |-> 0, head |-> NoHead, next |-> 0]]
    /\ paraHashes = [p \in Paras |-> [i \in 0 .. HeadsToKeep - 1 |-> NoHead]]
    /\ paraHeads = [p \in Paras |-> {}]
    /\ paraHalted = FALSE

Init == GrandpaInit /\ ParaInit

-----------------------------------------------------------------------------
IsFirstHead(p) == info[p].head = NoHead

\* A check of relay blocks alone, and a check of heads alone.
CheckHeadObsoleteByBlock(p, r, head) ==
    /\ ~IsFirstHead(p) => r > info[p].at
    /\ r \in headers

CheckHeadObsoleteByHash(p, r, head) ==
    /\ ~IsFirstHead(p) => head # info[p].head
    /\ r \in headers

(***************************************************************************)
(* check_obsolete: the head comes from a later relay block than the best   *)
(* one, it is another head, and the relay header is still known.           *)
(***************************************************************************)
CheckHeadObsolete(p, r, head) ==
    /\ ~IsFirstHead(p) => r > info[p].at /\ head # info[p].head
    /\ r \in headers

\* The distance that makes a submission free; none has been set by default.
IsFarEnough(p, r) ==
    IsFirstHead(p) \/ (interval # NoInterval /\ r - info[p].at >= interval)

(***************************************************************************)
(* check_obsolete_submit_parachain_heads: the transaction extension lets a *)
(* call with one head pass that expects free execution.                    *)
(***************************************************************************)
CheckHeadFromExtension(p, r, head) ==
    /\ ~paraHalted
    /\ CheckHeadObsolete(p, r, head)
    /\ HasFreeHeaderSlots
    /\ interval # NoInterval => IsFarEnough(p, r)

-----------------------------------------------------------------------------
\* update_parachain_head succeeds for an entry whose hash is right.
IsUpdated(p, r) ==
    /\ HeadAt[p][r] # NoHead
    /\ CheckHeadObsolete(p, r, HeadAt[p][r])
    /\ HeadSize[p][HeadAt[p][r]] # "overflow"

\* One head is free by its size and its distance.
IsFreeHead(p, r) == HeadSize[p][HeadAt[p][r]] = "free" /\ IsFarEnough(p, r)

(***************************************************************************)
(* The call is free: it has one entry, the entry updates a head for free,  *)
(* and a free submission of this block is left.                            *)
(***************************************************************************)
IsFreeCall(r, ps, others) ==
    /\ Cardinality(ps) + others = 1
    /\ \A p \in ps : IsUpdated(p, r) /\ IsFreeHead(p, r)
    /\ HasFreeHeaderSlots

HeadsAreAccepted(r) == InBlock /\ ~paraHalted /\ r \in headers

\* The storage writes of update_parachain_head for parachains ps; the head
\* whose position in the ring is taken is removed last.
UpdateParachainHeads(ps, r) ==
    /\ info' = [p \in Paras |->
           IF p \in ps
           THEN [at |-> r, head |-> HeadAt[p][r], next |-> (info[p].next + 1) % HeadsToKeep]
           ELSE info[p]]
    /\ paraHashes' = [p \in Paras |->
           IF p \in ps
           THEN [paraHashes[p] EXCEPT ![info[p].next] = HeadAt[p][r]]
           ELSE paraHashes[p]]
    /\ paraHeads' = [p \in Paras |->
           IF p \in ps
           THEN (paraHeads[p] \cup {HeadAt[p][r]}) \ {paraHashes[p][info[p].next]}
           ELSE paraHeads[p]]

(***************************************************************************)
(* submit_parachain_heads_ex at relay block r for parachains ps.  There    *)
(* are others entries besides that update nothing: repeated or untracked   *)
(* ones, and those with a wrong hash.                                      *)
(***************************************************************************)
SubmitParachainHeads(r, ps, others) ==
    /\ HeadsAreAccepted(r)
    /\ UpdateParachainHeads({p \in ps : IsUpdated(p, r)}, r)
    /\ IF IsFreeCall(r, ps, others)
       THEN OnFreeHeaderImported /\ refunded' = refunded + 1
       ELSE UNCHANGED <<freeRemaining, refunded>>
    /\ UNCHANGED <<storageVars, halted, interval, forced, paraHalted>>

SetParaOperatingMode(mode) ==
    /\ paraHalted' = mode
    /\ UNCHANGED <<grandpaVars, info, paraHashes, paraHeads>>

Next ==
    \/ GrandpaNext /\ UNCHANGED paraVars
    \/ \E r \in Headers, ps \in SUBSET Paras \ {{}}, others \in 0 .. 1 :
           SubmitParachainHeads(r, ps, others)
    \/ \E mode \in BOOLEAN : SetParaOperatingMode(mode)

Spec == Init /\ [][Next]_vars

-----------------------------------------------------------------------------
TypeOK ==
    /\ GrandpaTypeOK
    /\ info \in [Paras -> [at : Headers, head : Heads \cup {NoHead}, next : 0 .. HeadsToKeep - 1]]
    /\ paraHashes \in [Paras -> [0 .. HeadsToKeep - 1 -> Heads \cup {NoHead}]]
    /\ paraHeads \in [Paras -> SUBSET Heads]
    /\ paraHalted \in BOOLEAN

(***************************************************************************)
(* No more submissions of a block are free than MaxFreeHeadersPerBlock,    *)
(* whichever of the two pallets they go to.                                *)
(***************************************************************************)
RefundsWithinBudget == InBlock => refunded + freeRemaining = MaxFreeHeadersPerBlock

(***************************************************************************)
(* What becomes of the calls that the transaction extensions let pass as   *)
(* free, when they are dispatched: the checks of the extensions and those  *)
(* of the calls agree but for two cases, in which the relayer is charged:  *)
(* no interval is configured and the header is not mandatory (the head not *)
(* the first one), or the head is of a size that is not accepted for free. *)
(***************************************************************************)
FreePromiseKept ==
    /\ \A n \in Headers, setId \in SetIds, fits \in BOOLEAN :
           FinalityProofIsAccepted(n, setId) /\ CheckObsoleteFromExtension(n, setId, fits) =>
               (MayRefundCallFee(n, fits) <=> IsMandatory(n) \/ interval # NoInterval)
    /\ \A p \in Paras, r \in Headers :
           /\ HeadsAreAccepted(r)
           /\ HeadAt[p][r] # NoHead
           /\ CheckHeadFromExtension(p, r, HeadAt[p][r])
           => (IsFreeCall(r, {p}, 0) <=>
                   /\ IsFirstHead(p) \/ interval # NoInterval
                   /\ HeadSize[p][HeadAt[p][r]] = "free")

(***************************************************************************)
(* The heads of a parachain that can be used in message proofs are those   *)
(* of its ring, and the best head is always one of them.  A head that came *)
(* into the ring twice would be lost with its older position.              *)
(***************************************************************************)
HeadsMatchRing ==
    \A p \in Paras :
        /\ paraHeads[p] = Range(paraHashes[p]) \ {NoHead}
        /\ ~IsFirstHead(p) => info[p].head \in paraHeads[p]

(***************************************************************************)
(* The best head of a parachain never goes back to an earlier head,        *)
(* although older relay headers may still be used and governance may set   *)
(* the best relay header back.                                             *)
(***************************************************************************)
HeadsNeverGoBack ==
    [][\A p \in Paras : info'[p].head >= info[p].head]_vars

(***************************************************************************)
(* Why no head has two positions of a ring: heads grow along the relay     *)
(* chain, and the best head is that of its relay block.                    *)
(***************************************************************************)
RingGrows(p) ==
    /\ ~IsFirstHead(p) => info[p].head = HeadAt[p][info[p].at]
    /\ \A i \in 0 .. HeadsToKeep - 1 : paraHashes[p][i] <= info[p].head
    /\ \A i, j \in 0 .. HeadsToKeep - 1 :
           i # j /\ paraHashes[p][i] = paraHashes[p][j] => paraHashes[p][i] = NoHead

\* The inductive invariant of both clients.
ClientsInv ==
    /\ TypeOK
    /\ GrandpaInv
    /\ RefundsWithinBudget
    /\ HeadsMatchRing
    /\ \A p \in Paras : RingGrows(p)

=============================================================================
