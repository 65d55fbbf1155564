-------------------------- MODULE MCParachainHeads --------------------------
EXTENDS ParachainHeads

CONSTANTS p1, p2

\* Header 1 changes the authorities; header 3 does so in a way the client
\* cannot follow.
MCChangeAt == [n \in 0 .. 5 |->
    CASE n = 1 -> "scheduled" [] n = 3 -> "unsupported" [] OTHER -> "none"]

\* A parachain with a new head in most relay blocks, and one that is
\* registered late.
MCHeadAt == [p \in {p1, p2} |-> [n \in 0 .. 5 |->
    IF p = p1 THEN <<1, 2, 2, 3, 4, 4>>[n + 1] ELSE <<0, 0, 1, 1, 2, 3>>[n + 1]]]

MCHeadSize == [p \in {p1, p2} |-> [k \in 1 .. 4 |->
    CASE p = p1 /\ k = 3 -> "paid" [] p = p2 /\ k = 2 -> "overflow" [] OTHER -> "free"]]
=============================================================================
