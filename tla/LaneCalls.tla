------------------------------ MODULE LaneCalls ------------------------------
(***************************************************************************)
(* InboundCall and OutboundCall side by side: one call, at one end of the  *)
(* lane, while the other end is idle.                                      *)
(***************************************************************************)
EXTENDS InboundCall

CONSTANTS
    Payloads, NoMessage,
    MaxSourceNonce    \* largest nonce of the lanes and proofs tried at the source

ASSUME SourceAssumption ==
    /\ MaxSourceNonce \in Nat
    /\ Payloads # {} /\ NoMessage \notin Payloads

VARIABLES
    at,                                        \* the end that is called
    srcBefore, proved, mayPrune, srcPc, lane,  \* the variables of OutboundCall
    stored, i, expected, paid

sourceVars == <<srcBefore, proved, mayPrune, srcPc, lane, stored, i, expected, paid>>

Source == INSTANCE OutboundCall WITH
            MaxNonce <- MaxSourceNonce, before <- srcBefore, pc <- srcPc

TargetIdle ==
    /\ pc = "idle"
    /\ before = 0 /\ args = 0 /\ data = 0 /\ nonce = 0 /\ accepted = 0

SourceIdle ==
    /\ srcPc = "idle"
    /\ srcBefore = 0 /\ proved = 0 /\ mayPrune = 0 /\ lane = 0
    /\ stored = 0 /\ i = 0 /\ expected = 0 /\ paid = 0

CallsInit ==
    \/ at = "target" /\ Init /\ SourceIdle
    \/ at = "source" /\ Source!Init /\ TargetIdle

CallsNext ==
    /\ \/ at = "target" /\ Next /\ UNCHANGED sourceVars
       \/ at = "source" /\ Source!Next /\ UNCHANGED vars
    /\ UNCHANGED at

CallsSpec == CallsInit /\ [][CallsNext]_<<at, vars, sourceVars>>

-----------------------------------------------------------------------------
\* OutboundCall: the loops of receive_messages_delivery_proof compute the
\* closed forms of OutboundLane, and fail before they touch the storage.
SourceConfirmationMatches == at = "source" => Source!ConfirmationMatchesClosedForm

\* OutboundCall: the pruning loop of close_bridge computes PrunedLane and
\* PrunedMessages.
SourcePruningMatches == at = "source" => Source!PruningMatchesClosedForm

\* InboundCall: the loops of receive_messages_proof compute ReceiveStateUpdate
\* and ReceiveMessages.
TargetCallMatches == at = "target" => CallMatchesClosedForm
\* Both calls keep to their loop invariants.
CallsInv ==
    \/ at = "target" /\ CallInv /\ SourceIdle
    \/ at = "source" /\ Source!CallInv /\ TargetIdle
=============================================================================
