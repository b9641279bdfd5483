----------------------------- MODULE MCShmRing -----------------------------
(* Instances of ShmRing for TLC: the pieces of a slot, the first of which   *)
(* holds its timestamp, and a consumer of each kind.                        *)
EXTENDS ShmRing, TLC

CONSTANTS p1, p2, tape, gateway

=============================================================================
