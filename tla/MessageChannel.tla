--------------------------- MODULE MessageChannel ---------------------------
(***************************************************************************)
(* What a lane promises to the applications at its two ends: a channel     *)
(* that delivers what was sent, once, in order, and tells the sender how   *)
(* much of it has arrived.                                                 *)
(***************************************************************************)
EXTENDS Naturals, Sequences

CONSTANT Payloads

VARIABLES
    sent,         \* what the sender has handed over
    delivered,    \* what the receiver has been given
    confirmed     \* how many deliveries the sender knows of

channelVars == <<sent, delivered, confirmed>>

Init == sent = <<>> /\ delivered = <<>> /\ confirmed = 0

Send ==
    /\ \E payload \in Payloads : sent' = Append(sent, payload)
    /\ UNCHANGED <<delivered, confirmed>>

\* One or more further messages arrive together.
Deliver ==
    /\ \E n \in Len(delivered) + 1 .. Len(sent) : delivered' = SubSeq(sent, 1, n)
    /\ UNCHANGED <<sent, confirmed>>

Confirm ==
    /\ confirmed' \in confirmed + 1 .. Len(delivered)
    /\ UNCHANGED <<sent, delivered>>

Next == Send \/ Deliver \/ Confirm

Spec == Init /\ [][Next]_channelVars

FairSpec == Spec /\ WF_channelVars(Deliver) /\ WF_channelVars(Confirm)
=============================================================================
