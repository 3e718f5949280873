----------------------------- MODULE MCCampaign -----------------------------
(* Constants of the Campaign runs. *)
EXTENDS Campaign

CONSTANTS t1, t2, w1, w2, d1, d2

MCTrain == <<t1, t2>>
MCOneTrain == <<t1>>
MCOos == <<w1>>
MCTwoOos == <<w1, w2>>

\* Nothing, one champion, two with another one before it.
MCTops == {<<>>, <<d1>>, <<d2, d1>>}

\* The options of build_parser, in the order of its add_argument calls.
DeclaredOptions == <<
    "--run-id", "--population-size", "--max-generations", "--mutation-rate",
    "--crossover-rate", "--elite-count", "--tournament-size",
    "--convergence-generations", "--max-workers", "--symbols", "--timeframe",
    "--start-date", "--end-date", "--indicator-pool", "--direction",
    "--eval-windows", "--train-test-split", "--cross-window-months",
    "--cross-window-min-sharpe", "--seed-from-run", "--wfa-oos-step-days",
    "--wfa-min-consistency", "--num-seeds", "--bootstrap-min-sharpe",
    "--bootstrap-ci-level", "--no-bootstrap-ci", "--no-dsr",
    "--immigrant-fraction", "--entropy-threshold", "--no-crowding",
    "--seed-from-run", "--db", "--mock">>
\* The same without the option declared a second time: the parser can be built,
\* and what stands behind it be checked.
DistinctOptions == SubSeq(DeclaredOptions, 1, 30) \o <<"--db", "--mock">>
=============================================================================
