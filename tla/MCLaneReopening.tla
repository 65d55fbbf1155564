--------------------------- MODULE MCLaneReopening ---------------------------
(***************************************************************************)
(* LaneReopening for TLC.                                                  *)
(***************************************************************************)
EXTENDS LaneReopening

CONSTANTS r1, p1
=============================================================================
