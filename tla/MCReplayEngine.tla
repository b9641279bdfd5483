-------------------------- MODULE MCReplayEngine --------------------------
(* Instances of ReplayEngine for TLC. *)
EXTENDS ReplayEngine

CONSTANTS AAPL, MSFT

L(px, qty) == [px |-> px, qty |-> qty]

\* Thin and thick levels, at two prices a side; the bid at 5 crosses the ask
\* at 4.
MCBids == {NoLevel, L(2, 1), L(2, 5), L(3, 5), L(5, 5)}
MCAsks == {NoLevel, L(4, 1), L(4, 5), L(5, 1)}

=============================================================================
