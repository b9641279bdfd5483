---------------------------- MODULE MCLiveSystem ----------------------------
(* Instances of LiveSystem for TLC. *)
EXTENDS LiveSystem

L(px, qty) == [px |-> px, qty |-> qty]

\* A thin and a thick level a side: buys and sells, and quiet moves between.
MCBids == {L(1, 1), L(3, 5)}
MCAsks == {L(4, 1), L(4, 5)}

=============================================================================
