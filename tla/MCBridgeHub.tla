----------------------------- MODULE MCBridgeHub -----------------------------
EXTENDS BridgeHub, TLC

CONSTANTS b1, b2, o1

\* One location owns both bridges, to different destinations.
MCOwnerOf(b) == o1

BridgesAlike == Permutations({b1, b2})
=============================================================================
