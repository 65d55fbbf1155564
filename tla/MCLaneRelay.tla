----------------------------- MODULE MCLaneRelay -----------------------------
(***************************************************************************)
(* LaneRelay for TLC.  Liveness is checked, so no symmetry is used.        *)
(***************************************************************************)
EXTENDS LaneRelay

CONSTANTS r1, r2, p1, p2
=============================================================================
