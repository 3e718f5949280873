------------------------------ MODULE MCPaper ------------------------------
(* Small instances of PaperTrading. *)
EXTENDS PaperTrading

CONSTANTS t1, t2

MCTraders1 == {t1}
MCTraders2 == {t1, t2}
=============================================================================
