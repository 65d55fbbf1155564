---------------------------- MODULE GrandpaClient ----------------------------
(***************************************************************************)
(* The GRANDPA light client of a bridged chain: pallet bridge-grandpa.     *)
(*                                                                         *)
(* The bridged chain is the canonical chain of headers 0 .. MaxNumber, a   *)
(* header standing for its number and its hash.  A justification of header *)
(* n is signed by SetAt(n), the authority set that GRANDPA had when it     *)
(* finalized n; a header that announces a change is signed by the old set. *)
(* A call that fails is rolled back, so it is no step.                     *)
(***************************************************************************)
EXTENDS Integers, FiniteSets, Functions

CONSTANTS
    MaxNumber,               \* bound on header numbers
    ChangeAt,                \* the authorities change that each header announces
    HeadersToKeep,           \* T::HeadersToKeep
    MaxFreeHeadersPerBlock,  \* T::MaxFreeHeadersPerBlock
    FreeHeadersIntervals,    \* values that T::FreeHeadersInterval may have
    NoInterval,              \* T::FreeHeadersInterval is not configured
    NoHeader,                \* no header, an empty position of the ring
    MaxForced                \* bound on calls of force_set_pallet_state

Headers == 0 .. MaxNumber

\* A change the pallet cannot follow is forced, or scheduled with a delay, or
\* names more authorities than it can store.
Changes == {"none", "scheduled", "unsupported"}

ASSUME GrandpaAssumption ==
    /\ {MaxNumber, MaxFreeHeadersPerBlock, MaxForced} \subseteq Nat
    /\ HeadersToKeep \in Nat \ {0}
    /\ ChangeAt \in [Headers -> Changes]
    /\ NoInterval \notin Nat
    /\ FreeHeadersIntervals \subseteq Nat \cup {NoInterval}
    /\ NoHeader \notin Headers

VARIABLES
    best,          \* BestFinalized
    hashes,        \* ImportedHashes, the ring of imported headers
    pointer,       \* ImportedHashesPointer, the position written next
    headers,       \* ImportedHeaders: the headers whose state roots are known
    set,           \* CurrentAuthoritySet: its set_id and its authorities
    halted,        \* PalletOperatingMode is Halted
    freeRemaining, \* FreeHeadersRemaining, -1 outside of a block
    interval,      \* T::FreeHeadersInterval
    forced,        \* calls of force_set_pallet_state so far
    refunded       \* history: submissions of this block that paid no fee

storageVars == <<best, hashes, pointer, headers, set>>
grandpaVars == <<storageVars, halted, freeRemaining, interval, forced, refunded>>

-----------------------------------------------------------------------------
(***************************************************************************)
(* The bridged chain.  A set is named by the number of changes before it,  *)
(* which is its set_id.                                                    *)
(***************************************************************************)
SetAfter(n) == Cardinality({m \in Headers : m <= n /\ ChangeAt[m] # "none"})

SetAt(n) == Cardinality({m \in Headers : m < n /\ ChangeAt[m] # "none"})

\* is_mandatory_finality_target: the header announces a scheduled change.
IsMandatory(n) == ChangeAt[n] = "scheduled"

SetIds == 0 .. SetAfter(MaxNumber)

\* A set with its authorities, the set of that number of the bridged chain.
AuthoritySet(s) == [set_id |-> s, authorities |-> s]

-----------------------------------------------------------------------------
GrandpaInit ==
    /\ best = NoHeader
    /\ hashes = [i \in 0 .. HeadersToKeep - 1 |-> NoHeader]
    /\ pointer = 0
    /\ headers = {}
    /\ set = AuthoritySet(0)
    /\ halted = TRUE
    /\ freeRemaining = -1
    /\ interval \in FreeHeadersIntervals
    /\ forced = 0
    /\ refunded = 0

\* insert_header without the removal of the header whose position is taken.
InsertHeaderNoPruning(n, index) ==
    /\ best' = n
    /\ headers' = headers \cup {n}
    /\ hashes' = [hashes EXCEPT ![index] = n]
    /\ pointer' = (index + 1) % HeadersToKeep

(***************************************************************************)
(* insert_header.  The header whose position is taken is removed last, also *)
(* when it is the header that has just been inserted.                      *)
(***************************************************************************)
InsertHeader(n, index) ==
    /\ best' = n
    /\ headers' = (headers \cup {n}) \ {hashes[index]}
    /\ hashes' = [hashes EXCEPT ![index] = n]
    /\ pointer' = (index + 1) % HeadersToKeep

\* initialize: the owner chooses the header, its set and the mode.
Initialize(n, mode) ==
    /\ best = NoHeader
    /\ InsertHeader(n, 0)
    /\ set' = AuthoritySet(SetAfter(n))
    /\ halted' = mode
    /\ UNCHANGED <<freeRemaining, interval, forced, refunded>>

SetOperatingMode(mode) ==
    /\ halted' = mode
    /\ UNCHANGED <<storageVars, freeRemaining, interval, forced, refunded>>

(***************************************************************************)
(* force_set_pallet_state: governance gets the client past a header that it *)
(* cannot import, or back to an older one.  It is assumed to give the      *)
(* header together with the set that follows it.                           *)
(***************************************************************************)
ForceSetPalletState(n) ==
    /\ forced < MaxForced
    /\ set' = AuthoritySet(SetAfter(n))
    /\ InsertHeader(n, pointer)
    /\ forced' = forced + 1
    /\ UNCHANGED <<halted, freeRemaining, interval, refunded>>

-----------------------------------------------------------------------------
OnInitialize ==
    /\ freeRemaining = -1
    /\ freeRemaining' = MaxFreeHeadersPerBlock
    /\ refunded' = 0
    /\ UNCHANGED <<storageVars, halted, interval, forced>>

OnFinalize ==
    /\ freeRemaining # -1
    /\ freeRemaining' = -1
    /\ refunded' = 0
    /\ UNCHANGED <<storageVars, halted, interval, forced>>

\* Calls are dispatched inside of a block only.
InBlock == freeRemaining # -1

\* has_free_header_slots, with u32::MAX for no value.
HasFreeHeaderSlots == freeRemaining # 0

\* on_free_header_imported, inside of a block.
OnFreeHeaderImported == freeRemaining' = IF freeRemaining > 0 THEN freeRemaining - 1 ELSE 0

\* check_obsolete of the call, with the set that it names.
CheckObsolete(n, setId) ==
    /\ best # NoHeader
    /\ n > best
    /\ setId = set.set_id

\* An extension that does not look at the distance from the best header.
CheckObsoleteFromExtensionAnyDistance(n, setId, fits) ==
    /\ ~halted
    /\ CheckObsolete(n, setId)
    /\ HasFreeHeaderSlots
    /\ fits

(***************************************************************************)
(* check_obsolete_submit_finality_proof: the transaction extension lets a  *)
(* call pass that expects free execution.  fits stands for fits_limits.    *)
(***************************************************************************)
CheckObsoleteFromExtension(n, setId, fits) ==
    /\ ~halted
    /\ CheckObsolete(n, setId)
    /\ HasFreeHeaderSlots
    /\ ~IsMandatory(n) /\ interval # NoInterval => n - best >= interval
    /\ fits

\* A refund without a look at the limit of the block.
MayRefundCallFeeOverLimit(n, fits) ==
    /\ fits
    /\ IsMandatory(n) \/ (interval # NoInterval /\ n - best >= interval)

MayRefundCallFee(n, fits) ==
    /\ freeRemaining > 0
    /\ fits
    /\ IsMandatory(n) \/ (interval # NoInterval /\ n - best >= interval)

\* verify_justification: the signatures are those of the authorities known.
JustificationIsValid(n) == set.authorities = SetAt(n)

\* try_enact_authority_change that keeps the old set.
EnactAuthorityChangeNot(n) == set

\* try_enact_authority_change, for a header without an unsupported change.
EnactAuthorityChange(n) ==
    IF IsMandatory(n)
    THEN [set_id |-> set.set_id + 1, authorities |-> SetAfter(n)]
    ELSE set

\* The finality proof of header n is accepted.
FinalityProofIsAccepted(n, setId) ==
    /\ InBlock
    /\ ~halted
    /\ CheckObsolete(n, setId)
    /\ JustificationIsValid(n)
    /\ ChangeAt[n] # "unsupported"

(***************************************************************************)
(* submit_finality_proof_ex, and submit_finality_proof, which names the    *)
(* current set.                                                            *)
(***************************************************************************)
SubmitFinalityProof(n, setId, fits) ==
    /\ FinalityProofIsAccepted(n, setId)
    /\ set' = EnactAuthorityChange(n)
    /\ IF MayRefundCallFee(n, fits)
       THEN OnFreeHeaderImported /\ refunded' = refunded + 1
       ELSE UNCHANGED <<freeRemaining, refunded>>
    /\ InsertHeader(n, pointer)
    /\ UNCHANGED <<halted, interval, forced>>

GrandpaNext ==
    \/ \E n \in Headers, mode \in BOOLEAN : Initialize(n, mode)
    \/ \E mode \in BOOLEAN : SetOperatingMode(mode)
    \/ \E n \in Headers : ForceSetPalletState(n)
    \/ OnInitialize
    \/ OnFinalize
    \/ \E n \in Headers, setId \in SetIds, fits \in BOOLEAN :
           SubmitFinalityProof(n, setId, fits)

GrandpaSpec == GrandpaInit /\ [][GrandpaNext]_grandpaVars

-----------------------------------------------------------------------------
GrandpaTypeOK ==
    /\ best \in Headers \cup {NoHeader}
    /\ hashes \in [0 .. HeadersToKeep - 1 -> Headers \cup {NoHeader}]
    /\ pointer \in 0 .. HeadersToKeep - 1
    /\ headers \subseteq Headers
    /\ set \in [set_id : Nat, authorities : Nat]
    /\ halted \in BOOLEAN
    /\ freeRemaining \in -1 .. MaxFreeHeadersPerBlock
    /\ interval \in FreeHeadersIntervals
    /\ forced \in 0 .. MaxForced
    /\ refunded \in Nat

(***************************************************************************)
(* The authorities known to the pallet are those that sign the headers     *)
(* after the best one: whatever order finality proofs come in, and however *)
(* many headers they skip, no authorities change is ever skipped.          *)
(***************************************************************************)
AuthoritiesFollowBest ==
    best # NoHeader => set = AuthoritySet(SetAfter(best))

(***************************************************************************)
(* ImportedHeaders and the ring that bounds them agree.  A header without  *)
(* a position would stay in storage for ever, and the last position        *)
(* written is that of the best header: both hold whatever governance does. *)
(* As long as it has forced no state, every header of the ring, the best   *)
(* one included, is stored and can be used in proofs.                      *)
(***************************************************************************)
RingMatchesHeaders ==
    /\ headers \subseteq Range(hashes)
    /\ best # NoHeader => best = hashes[(pointer - 1) % HeadersToKeep]
    /\ forced = 0 => headers = Range(hashes) \ {NoHeader}

(***************************************************************************)
(* force_set_pallet_state: "Previously imported headers stay in the        *)
(* storage and are still accessible after the call."  In particular the    *)
(* header that the call makes the best one can be used in proofs.          *)
(***************************************************************************)
BestHeaderIsStored == best # NoHeader => best \in headers

\* Without a forced state no header has two positions of the ring.
RingIsDistinct ==
    forced = 0 =>
        \A i, j \in 0 .. HeadersToKeep - 1 :
            i # j /\ hashes[i] = hashes[j] => hashes[i] = NoHeader

\* Without a forced state nothing above the best header is stored, so that a
\* header that can be submitted is not stored yet.
HeadersUpToBest ==
    /\ best = NoHeader => headers = {}
    /\ forced = 0 => \A n \in headers : n <= best

\* The inductive invariant of the client.
GrandpaInv ==
    /\ GrandpaTypeOK
    /\ AuthoritiesFollowBest
    /\ RingMatchesHeaders
    /\ RingIsDistinct
    /\ HeadersUpToBest

=============================================================================
