------------------------------- MODULE MCData -------------------------------
(* A small instance of MarketData. *)
EXTENDS MarketData, TLC

CONSTANTS j1, j2

MCFrames == <<1, 2>>
Symmetry == Permutations(Jobs)
=============================================================================
