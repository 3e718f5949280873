--------------------------- MODULE MCStrategyRisk ---------------------------
(* A small instance of StrategyRisk. *)
EXTENDS StrategyRisk

MCEquities == {0, 80, 90, 100}
MCPnls     == {-2, -1, 2}
=============================================================================
