--------------------------- MODULE MCMessageQueue ---------------------------
(***************************************************************************)
(* MessageQueue for TLC.                                                   *)
(***************************************************************************)
EXTENDS MessageQueue, TLC

CONSTANTS o1, o2, o3

\* Origins are only compared for equality.
Symmetry == Permutations(Origins)
=============================================================================
