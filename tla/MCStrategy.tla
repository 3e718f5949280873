------------------------------ MODULE MCStrategy ------------------------------
EXTENDS CompiledStrategy, TLC
ind(k) == [kind |-> "ind", key |-> k]
num(k) == [kind |-> "num", num |-> k]
price == [kind |-> "price"]
cond(l, o, r) == [left |-> l, op |-> o, right |-> r, right2 |-> r]
band(l, a, b) == [left |-> l, op |-> "between", right |-> a, right2 |-> b]
both(a, b) == (1 :> a) @@ (-1 :> b)

\* An indicator of NautilusTrader, one it has only half of, one it has not.
ema == [outputs |-> {}, attrs |-> {}, computed |-> {}, nt |-> TRUE, fn |-> TRUE]
osc == [outputs |-> {"a", "b"}, attrs |-> {"a"}, computed |-> {}, nt |-> TRUE, fn |-> TRUE]
willr == [outputs |-> {}, attrs |-> {}, computed |-> {}, nt |-> FALSE, fn |-> TRUE]

Off == [enabled |-> FALSE, before |-> 0, after |-> 0]
Base == [specs |-> "ema" :> ema,
         entry |-> both({cond(ind(<<"ema", "">>), "above", num(1))}, {cond(ind(<<"ema", "">>), "lt", num(1))}),
         exit |-> both({cond(ind(<<"ema", "">>), "lt", num(2))}, {cond(ind(<<"ema", "">>), "ge", num(1))}),
         stop |-> "fixed_pct", take |-> "risk_reward",
         stopOver |-> both("none", "none"), takeOver |-> both("none", "none"),
         sessions |-> {}, blockedDays |-> {}, funding |-> Off,
         sweep |-> EMPTY, delays |-> FALSE, latent |-> FALSE]
\* A trailing stop for longs, and actions delayed by a bar.
Trailing == [Base EXCEPT !.stopOver = both("atr_trailing", "none"), !.delays = TRUE]
\* An output computed from the buffer of bars; overnight session, funding.
Hours == [Base EXCEPT !.specs = "osc" :> osc, !.delays = TRUE,
            !.entry = both({band(ind(<<"osc", "b">>), num(1), num(2))}, {}),
            !.exit = both({cond(price, "below", ind(<<"osc", "b">>))}, {}),
            !.sessions = {[start |-> 3, end |-> 1]},
            !.funding = [enabled |-> TRUE, before |-> 1, after |-> 0]]
\* Orders that need more than a bar to arrive.
Latent == [Base EXCEPT !.latent = TRUE]
\* Refused by the schema: unknown name, inverted band, no entry.
Refused == {[Base EXCEPT !.entry = both({cond(ind(<<"sma", "">>), "gt", num(1))}, {})],
            [Base EXCEPT !.entry = both({band(ind(<<"ema", "">>), num(2), num(1))}, {})],
            [Base EXCEPT !.entry = both({}, {})]}
MCStrategies == {Base, Trailing, Hours, Latent} \cup Refused
MCBars == {[lo |-> 2, hi |-> 3, close |-> 2], [lo |-> 3, hi |-> 3, close |-> 3],
           [lo |-> 5, hi |-> 5, close |-> 5]}
===============================================================================
