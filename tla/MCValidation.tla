---------------------------- MODULE MCValidation ----------------------------
(* Constants of the Validation run. *)
EXTENDS Validation

CONSTANTS btc, eth

Pos(s, o, c, p) == [symbol |-> s, open |-> o, close |-> c, pnl |-> p]
Config(s, tf, d, l) == [symbols |-> s, timeframe |-> tf, detail |-> d, latency |-> l]

\* Nothing; a position left open; a loss and a win, listed out of order, and a
\* position left open; two symbols at once.
MCBooks == {
    <<>>,
    <<Pos(btc, 1, 0, 0)>>,
    <<Pos(btc, 1, 2, 2), Pos(btc, 0, 1, -4), Pos(btc, 3, 0, 0)>>,
    <<Pos(eth, 0, 3, -6), Pos(btc, 1, 2, 5)>>}
MCCoverages == { <<0, 4>>, <<1, 4>> }
MCSpans == { <<1, 1, 2>>, <<1, 2, 1>>, <<4, 1, 1>> }
MCConfigs == {
    Config({btc}, "1m", None, None),
    Config({btc, eth}, "1m", None, None),
    Config({btc}, "1m", "5s", "unknown"),
    Config({btc}, "4h", None, "retail") }
=============================================================================
