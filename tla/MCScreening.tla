----------------------------- MODULE MCScreening -----------------------------
(* Three combinations: two tie on Sharpe, one of them dominated; the third *)
(* has the higher profit factor alone.                                     *)
EXTENDS Overfitting

CONSTANTS a, b, c, p1, p2

MCGrid == <<a, b, c>>
MCMetrics ==
  [x \in {a, b, c} |->
     CASE x = a -> [sharpe |-> 20, pf |-> 15, dd |-> 20, trades |-> 40]
       [] x = b -> [sharpe |-> 20, pf |-> 15, dd |-> 10, trades |-> 12]
       [] x = c -> [sharpe |-> 8,  pf |-> 30, dd |-> 10, trades |-> 30]]
MCLimits == [sharpe |-> 0, pf |-> 10, dd |-> 30, trades |-> 10]
MCLucky  == {a, b, c}
MCDeflated == {a, b}
MCReturns == [x \in {a, b, c} |->
  CASE x = a -> <<<<50, -20>>, <<40, 30>>>>
    [] x = b -> <<<<30, 25>>, <<20, 10>>, <<30, -5>>>>
    [] x = c -> <<<<10, 20>>>>]
MCFoldSharpes == <<8, 6, 5, 9, 7>>

(* The default folds on 1000 bars and on too few, and two folds that leave *)
(* nothing to train on behind the embargo.                                 *)
Cv(k, embargo, lookback) == [k |-> k, purge |-> 1, embargo |-> embargo, lookback |-> lookback]
Config(fs, runner, days, auto, samples, cv) ==
  [filters |-> fs, runner |-> runner, days |-> days, auto |-> auto, samples |-> samples, cv |-> cv]
MCConfigs ==
  {Config({"dsr", "wfa", "cv"}, TRUE, 21, TRUE, 1000, DefaultCv),
   Config({"dsr", "wfa", "cv"}, FALSE, 730, FALSE, 1000, DefaultCv),
   Config({"wfa", "cv"}, TRUE, 400, TRUE, 1000, Cv(2, 60, 0)),
   Config({"cv"}, TRUE, 90, TRUE, 200, Cv(5, 1, 50)),
   Config({"wfa"}, TRUE, 400, TRUE, 1000, DefaultCv)}
Symmetry == Permutations({p1, p2})

=============================================================================
