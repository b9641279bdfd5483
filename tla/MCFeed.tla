------------------------------ MODULE MCFeed ------------------------------
(* Instances of Feed for TLC. *)
EXTENDS Feed, TLC

CONSTANTS AAPL, MSFT, IBM

\* Two stocks that are traded and one that is not; and one stock alone.
ThreeStocks == 1 :> MSFT @@ 2 :> AAPL @@ 3 :> IBM
OneStock == 1 :> MSFT

\* SharesFit holds throughout: all orders together have fewer shares than Word.
IdSymmetry == Permutations(Ids)

=============================================================================
