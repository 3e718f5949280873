------------------------------ MODULE Screening ------------------------------
(***************************************************************************)
(* The screening worker (vibe_quant/screening): a grid of parameter        *)
(* combinations is run on a pool of processes, the results are filtered,   *)
(* ranked and marked with their Pareto front, and written over the rows    *)
(* that sweep_results held for the run.                                    *)
(*                                                                         *)
(* A combination's backtest is deterministic: Metrics gives what it would  *)
(* measure.  Which backtests fail, and in which order they finish, is not. *)
(***************************************************************************)
EXTENDS Integers, Sequences, FiniteSets, SequencesExt

CONSTANTS
  Grid,          \* sequence of the combinations, as build_parameter_grid lists them
  Metrics,       \* combination -> [sharpe, pf, dd, trades]
  Limits,        \* MetricFilters: [sharpe, pf, dd, trades]
  Lucky,         \* the combinations whose Sharpe the DSR finds significant
                 \*   when no backtest of the grid failed
  MaxWorkers,    \* processes of the pool
  MaxStarts,     \* bound: screenings of the run
  MaxFailed      \* bound: backtests and pools that fail

Combos == Range(Grid)
NULL == "null"

ASSUME GridAssumption ==
  /\ Grid \in Seq(Combos) /\ IsInjective(Grid) /\ Grid # << >>
  /\ \A c \in Combos : Metrics[c] \in [sharpe : Int, pf : Int, dd : Int, trades : Int]
  /\ Lucky \subseteq Combos
  /\ MaxWorkers \in Nat \ {0} /\ MaxStarts \in Nat /\ MaxFailed \in Nat

(* What a failed backtest measures: the runner answers -inf when it catches *)
(* the exception itself, the pool's collector answers -999 when it cannot.  *)
MinusInf == -100000
Sentinel == -999
Failed(value) == [sharpe |-> value, pf |-> 0, dd |-> 0, trades |-> 0]
HasFailed(r) == r.m.sharpe <= Sentinel

VARIABLES
  mode,     \* run_mode of the run: "screening" or "discovery"
  sweep,    \* sweep_results of the run, by id
  nextId,   \* AUTOINCREMENT
  sc,       \* "idle", "pool", "saved": where the worker is
  done,     \* its results, [combo, m], in the order they finished
  starts,   \* screenings started
  failures  \* backtests and pools that failed

svars == <<mode, sweep, nextId, sc, done, starts, failures>>

---------------------------------------------------------------------------
(* Pure functions of grid.py and of the DSR filter *)

PassesFilters(r) ==
  /\ r.m.sharpe >= Limits.sharpe /\ r.m.pf >= Limits.pf
  /\ r.m.dd <= Limits.dd         /\ r.m.trades >= Limits.trades

(* One -999 (or -inf) among the trials makes their variance so large (not a *)
(* number) that no Sharpe is significant; a lone survivor is not tested.    *)
PassesDsr(r, filtered, all) ==
  \/ Cardinality(filtered) <= 1
  \/ r.combo \in Lucky /\ ~\E a \in Range(all) : HasFailed(a)

(* The positions, in the list of results, of those that pass both. *)
Survivors(all) ==
  LET filtered == {i \in DOMAIN all : PassesFilters(all[i])}
  IN  {i \in filtered : PassesDsr(all[i], filtered, all)}

(* sorted(..., reverse=True) is stable: equal Sharpes keep their order. *)
Ahead(rs, i, j) ==
  \/ rs[i].m.sharpe > rs[j].m.sharpe
  \/ rs[i].m.sharpe = rs[j].m.sharpe /\ i < j
RankBySharpe(rs, S) ==
  [n \in 1..Cardinality(S) |->
     rs[CHOOSE i \in S : Cardinality({j \in S : Ahead(rs, j, i)}) = n - 1]]

Dominates(a, b) ==
  /\ a.sharpe >= b.sharpe /\ a.dd <= b.dd /\ a.pf >= b.pf
  /\ a.sharpe > b.sharpe \/ a.dd < b.dd \/ a.pf > b.pf

ParetoFront_Ahead(rs) ==
  LET front[n \in 0..Len(rs)] ==
        IF n = 0 THEN DOMAIN rs
        ELSE {i \in front[n - 1] :
                i = n => ~\E j \in front[n - 1] : j < n /\ Dominates(rs[j].m, rs[n].m)}
  IN  front[Len(rs)]

(* compute_pareto_front: in rank order, compared only with what is still in. *)
ParetoFront(rs) ==
  LET front[n \in 0..Len(rs)] ==
        IF n = 0 THEN DOMAIN rs
        ELSE {i \in front[n - 1] :
                i = n => ~\E j \in front[n - 1] \ {n} : Dominates(rs[j].m, rs[n].m)}
  IN  front[Len(rs)]

(* The rows save_results writes, numbered from id on: all results by rank,  *)
(* the front of the survivors found again by object identity.               *)
Rows(all, id) ==
  LET ranked   == RankBySharpe(all, DOMAIN all)
      survived == RankBySharpe(all, Survivors(all))
      front    == {survived[i].combo : i \in ParetoFront(survived)}
  IN  [i \in 1..Len(ranked) |->
        [id |-> id + i - 1, combo |-> ranked[i].combo, m |-> ranked[i].m,
         pareto |-> ranked[i].combo \in front,
         dsr |-> NULL, wfa |-> NULL, cv |-> NULL]]

---------------------------------------------------------------------------
(* The tasks, by their place in the grid; the pool hands them out in order. *)
Waiting == {i \in DOMAIN Grid : \A n \in DOMAIN done : done[n].combo # Grid[i]}
Running == {i \in Waiting : Cardinality({j \in Waiting : j < i}) < MaxWorkers}

(* cmd_run up to the pool; a discovery run has no strategy to screen. *)
StartScreening ==
  /\ mode = "screening" /\ sc = "idle" /\ starts < MaxStarts
  /\ sc' = "pool" /\ done' = << >> /\ starts' = starts + 1
  /\ UNCHANGED <<mode, sweep, nextId, failures>>

(* as_completed yields a future: its metrics, or a failure in its place. *)
Collect(i) ==
  /\ sc = "pool" /\ i \in Running
  /\ \E m \in {Metrics[Grid[i]], Failed(MinusInf), Failed(Sentinel)} :
       /\ done' = Append(done, [combo |-> Grid[i], m |-> m])
       /\ failures' = failures + IF m = Metrics[Grid[i]] THEN 0 ELSE 1
  /\ failures' <= MaxFailed
  /\ UNCHANGED <<mode, sweep, nextId, sc, starts>>

(* A process of the pool dies: BrokenProcessPool for all that is not done, *)
(* in the order as_completed finds their futures in its set.               *)
PoolBreaks ==
  /\ sc = "pool" /\ Waiting # {}
  /\ failures < MaxFailed /\ failures' = failures + 1
  /\ \E order \in SetToSeqs(Waiting) :
       done' = done \o [n \in DOMAIN order |->
                           [combo |-> Grid[order[n]], m |-> Failed(Sentinel)]]
  /\ UNCHANGED <<mode, sweep, nextId, sc, starts>>

Save_ReusesIds ==
  /\ sc = "pool" /\ Waiting = {}
  /\ sweep' = Rows(done, 1)
  /\ sc' = "saved"
  /\ UNCHANGED <<mode, nextId, done, starts, failures>>

(* save_sweep_results_batch: DELETE and INSERT in one transaction. *)
Save ==
  /\ sc = "pool" /\ Waiting = {}
  /\ sweep' = Rows(done, nextId)
  /\ nextId' = nextId + Len(done)
  /\ sc' = "saved"
  /\ UNCHANGED <<mode, done, starts, failures>>

(* The worker reports its run completed, reports a failure, or is killed; *)
(* what the tables of runs and jobs say then is in module JobLifecycle.   *)
Leave ==
  /\ sc # "idle"
  /\ sc' = "idle" /\ done' = << >>
  /\ UNCHANGED <<mode, sweep, nextId, starts, failures>>

ScreeningInit ==
  /\ mode \in {"screening", "discovery"}
  /\ sweep = << >> /\ nextId = 1
  /\ sc = "idle" /\ done = << >> /\ starts = 0 /\ failures = 0

ScreeningNext ==
  \/ StartScreening \/ \E i \in DOMAIN Grid : Collect(i)
  \/ PoolBreaks \/ Save \/ Leave

=============================================================================
