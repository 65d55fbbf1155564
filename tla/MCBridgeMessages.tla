-------------------------- MODULE MCBridgeMessages --------------------------
(***************************************************************************)
(* BridgeMessages for TLC.                                                 *)
(***************************************************************************)
EXTENDS BridgeMessages, TLC

CONSTANTS r1, r2, p1, p2

\* Relayers and payloads are only compared for equality.
Symmetry == Permutations({r1, r2}) \cup Permutations({p1, p2})
=============================================================================
