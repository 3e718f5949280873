----------------------------- MODULE Overfitting -----------------------------
(***************************************************************************)
(* The overfitting filters (vibe_quant/overfitting) at work on the rows a  *)
(* screening stored: processes started by hand that read the candidates of *)
(* the run, judge them one by one and write three verdicts on each row,    *)
(* while the run may be screened anew and other filters may be running.    *)
(*                                                                         *)
(* What a combination's backtests measure on a window or a fold is given   *)
(* by constants; which of them the deflated Sharpe ratio finds significant *)
(* too, since its arithmetic on the normal distribution is left out.  How  *)
(* the data are cut is in module Splits.                                   *)
(***************************************************************************)
EXTENDS Screening, Splits

CONSTANTS
  Pipelines,     \* runs of `python -m vibe_quant.overfitting run`
  Configs,       \* [filters, runner, days, auto, samples, cv] one may be started with;
                 \* runner: --real-wfa and --real-cv (mock runners are left out)
  Deflated,      \* the combinations whose Sharpe survives the deflation
  Returns,       \* combination -> <<in, out of sample>>, per mille, window by window
  FoldSharpes,   \* test Sharpe of each fold under the DSL's defaults, in tenths
  Promoted       \* the combination a discovery run stores as its result

Filters == {"dsr", "wfa", "cv"}

(* CVConfig refuses fewer than two folds and fractions outside [0, 1). *)
ASSUME FilterAssumption ==
  /\ \A c \in Configs :
       /\ c.filters \subseteq Filters /\ c.days \in Nat /\ c.samples \in Nat
       /\ c.cv \in [k : Nat \ {0, 1}, purge : 0..99, embargo : 0..99, lookback : Nat]
  /\ Deflated \subseteq Combos /\ Promoted \in Combos

VARIABLE op      \* per pipeline: [pc, cfg, todo]

vars == <<svars, op>>

NoConfig == [filters |-> {}, runner |-> FALSE, days |-> 0, auto |-> FALSE,
             samples |-> 0, cv |-> DefaultCv]
At(p, pc) == op[p].pc = pc

(* _load_candidates, then the check that the walk-forward analysis has a  *)
(* runner; no candidates: look whether a discovery left a result.         *)
Load(p) ==
  /\ At(p, "new")
  /\ \E cfg \in Configs :
       op' = [op EXCEPT ![p] =
         [pc  |-> CASE sweep = << >> -> IF mode = "discovery" THEN "promote" ELSE "done"
                    [] sweep # << >> -> IF "wfa" \in cfg.filters /\ ~cfg.runner
                                        THEN "raised" ELSE "judge",
          cfg |-> cfg, todo |-> sweep]]
  /\ UNCHANGED svars

(* _promote_discovery_results: the discovery's result becomes a candidate, *)
(* if the run has stored one.                                              *)
NoResult(p) ==
  /\ At(p, "promote")
  /\ op' = [op EXCEPT ![p].pc = "done"]
  /\ UNCHANGED svars

Promote(p) ==
  /\ At(p, "promote")
  /\ LET row == [id |-> nextId, combo |-> Promoted, m |-> Metrics[Promoted],
                 pareto |-> TRUE, dsr |-> NULL, wfa |-> NULL, cv |-> NULL]
     IN  /\ sweep' = Append(sweep, row)
         /\ op' = [op EXCEPT ![p].todo = <<row>>,
                             ![p].pc = IF "wfa" \in op[p].cfg.filters /\ ~op[p].cfg.runner
                                       THEN "raised" ELSE "judge"]
  /\ nextId' = nextId + 1
  /\ UNCHANGED <<mode, sc, done, starts, failures>>

WfaConfig(cfg) == IF cfg.auto THEN AutoWfa(cfg.days) ELSE DefaultWfa

(* The filter chain's use of the deflated Sharpe ratio. *)
DsrPasses(row) == ~HasFailed(row) /\ row.combo \in Deflated

(* WalkForwardAnalysis: most out-of-sample windows profitable, and the mean *)
(* return out of sample more than half of that in sample.                   *)
WfaRobust(combo, cfg) ==
  LET n      == Cardinality(WfaWindows(cfg.days, WfaConfig(cfg)))
      ret(k) == Returns[combo][(k % Len(Returns[combo])) + 1]
      ins    == MapThenSumSet(LAMBDA k : ret(k)[1], 0..(n - 1))
      outs   == MapThenSumSet(LAMBDA k : ret(k)[2], 0..(n - 1))
  IN  /\ EnoughWindows(cfg.days, WfaConfig(cfg))
      /\ 2 * Cardinality({k \in 0..(n - 1) : ret(k)[2] > 0}) > n
      /\ ins >= n /\ 2 * outs > ins

(* PurgedKFoldCV: the mean of the test Sharpes above 0.5, their sample      *)
(* standard deviation below 1.  NTPurgedKFoldRunner backtests the strategy *)
(* with the DSL's own parameters, whatever the row's are.                  *)
CvRobust(cfg) ==
  LET k   == cfg.cv.k
      sum == MapThenSumSet(LAMBDA i : FoldSharpes[i], 1..k)
      sqs == MapThenSumSet(LAMBDA i : FoldSharpes[i] * FoldSharpes[i], 1..k)
  IN  sum > 5 * k /\ k * sqs - sum * sum < 100 * k * (k - 1)

(* Worked out once for each. *)
Walks == [cfg \in Configs, combo \in Combos |-> WfaRobust(combo, cfg)]
Robust(f, cfg, row) ==
  CASE f = "dsr" -> DsrPasses(row) [] f = "wfa" -> Walks[cfg, row.combo] [] f = "cv" -> CvRobust(cfg)

Verdict(f, cfg, row) ==
  IF f \notin cfg.filters THEN NULL ELSE IF Robust(f, cfg, row) THEN "pass" ELSE "fail"

(* Can the folds be made and run? *)
CanCross(cfg) == cfg.runner /\ CanSplit(cfg.samples, cfg.cv) /\ CanTrain(cfg.samples, cfg.cv)

(* One candidate: every enabled filter, then _update_candidate commits the *)
(* three verdicts to its id, if that row is still there.                   *)
Judge(p) ==
  LET cfg == op[p].cfg
      row == Head(op[p].todo)
      On(r) == IF r.id # row.id THEN r
               ELSE [r EXCEPT !.dsr = Verdict("dsr", cfg, row),
                              !.wfa = Verdict("wfa", cfg, row),
                              !.cv  = Verdict("cv", cfg, row)]
  IN  /\ At(p, "judge") /\ op[p].todo # << >>
      /\ "cv" \in cfg.filters => CanCross(cfg)
      /\ sweep' = [i \in DOMAIN sweep |-> On(sweep[i])]
      /\ op' = [op EXCEPT ![p].todo = Tail(@)]
      /\ UNCHANGED <<mode, nextId, sc, done, starts, failures>>

(* The cross-validation raises before anything was written: no runner, too *)
(* few samples, or a fold without a bar to train on.                       *)
JudgeRaises(p) ==
  LET cfg == op[p].cfg
  IN  /\ At(p, "judge") /\ op[p].todo # << >>
      /\ "cv" \in cfg.filters /\ ~CanCross(cfg)
      /\ op' = [op EXCEPT ![p].pc = "raised"]
      /\ UNCHANGED svars

Finish(p) ==
  /\ At(p, "judge") /\ op[p].todo = << >>
  /\ op' = [op EXCEPT ![p].pc = "done"]
  /\ UNCHANGED svars

(* The process is killed, or a backtest raises what nobody catches. *)
Die(p) ==
  /\ op[p].pc \in {"promote", "judge"}
  /\ op' = [op EXCEPT ![p].pc = "raised"]
  /\ UNCHANGED svars

Init ==
  /\ ScreeningInit
  /\ op = [p \in Pipelines |-> [pc |-> "new", cfg |-> NoConfig, todo |-> << >>]]

Step(p) ==
  Load(p) \/ NoResult(p) \/ Promote(p) \/ Judge(p) \/ JudgeRaises(p) \/ Finish(p) \/ Die(p)

Next == (ScreeningNext /\ UNCHANGED op) \/ \E p \in Pipelines : Step(p)

Spec == Init /\ [][Next]_vars

---------------------------------------------------------------------------
TypeOK ==
  /\ mode \in {"screening", "discovery"} /\ sc \in {"idle", "pool", "saved"} /\ starts \in 0..MaxStarts
  /\ failures \in 0..MaxFailed /\ nextId \in Nat \ {0}
  /\ \A i \in DOMAIN done : done[i].combo \in Combos
  /\ \A r \in Range(sweep) :
       r.combo \in Combos /\ {r.dsr, r.wfa, r.cv} \subseteq {NULL, "pass", "fail"}
  /\ \A p \in Pipelines :
       /\ op[p].pc \in {"new", "promote", "judge", "done", "raised"}
       /\ op[p].cfg \in Configs \cup {NoConfig}

(* The rows in the database are those of one screening, whichever order    *)
(* the pool's processes finish or fail in and however many screenings were *)
(* killed before: one row for each combination, best Sharpe first; and the *)
(* rows marked are the Pareto front of those that passed the filters, none *)
(* that another survivor dominates, none missing (grid.py:89,              *)
(* pipeline.py:222, state_manager.py:751).                                 *)
StoredFront ==
  LET passed  == {i \in DOMAIN sweep : PassesFilters(sweep[i])}
      alone   == Cardinality(passed) <= 1
      failure == \E r \in Range(sweep) : HasFailed(r)
      allowed == {i \in passed : alone \/ (sweep[i].combo \in Lucky /\ ~failure)}
  IN  mode = "screening" /\ sweep # << >> =>
        /\ {r.combo : r \in Range(sweep)} = Combos /\ Len(sweep) = Cardinality(Combos)
        /\ \A i \in 1..(Len(sweep) - 1) :
             sweep[i + 1].m.sharpe <= sweep[i].m.sharpe /\ sweep[i + 1].id = sweep[i].id + 1
        /\ \A i \in DOMAIN sweep :
             sweep[i].pareto <=> i \in allowed /\ ~\E d \in allowed : Dominates(sweep[d].m, sweep[i].m)

(* The three verdicts on a row are those of one pipeline, and those of the *)
(* deflated Sharpe ratio and of the walk-forward analysis are about that   *)
(* row's own combination, although the pipeline writes by the id it read   *)
(* at its start, other pipelines write too, and a new screening may have   *)
(* replaced the rows since (pipeline.py:466).  The cross-validation's      *)
(* verdict is the same on every row: that of the strategy's defaults       *)
(* (nt_cv_runner.py:197).                                                  *)
VerdictsOwn ==
  \A r \in Range(sweep) :
    LET verdicts == <<r.dsr, r.wfa, r.cv>>
    IN  \/ verdicts = <<NULL, NULL, NULL>>
        \/ \E p \in Pipelines :
             verdicts = <<Verdict("dsr", op[p].cfg, r), Verdict("wfa", op[p].cfg, r),
                          Verdict("cv", op[p].cfg, r)>>

FoldsUsable(n, cfg) ==
  /\ Fold(n, cfg, 0).lo = 0 /\ Fold(n, cfg, cfg.k - 1).hi = n
  /\ \A i \in 0..(cfg.k - 1) :
       LET test == Fold(n, cfg, i)
       IN  /\ i > 0 => test.lo = Fold(n, cfg, i - 1).hi
           /\ test.hi - test.lo >= MinFoldSamples
  /\ cfg.k > 2 => CanTrain(n, cfg)
WindowsFit(days) ==
  /\ EnoughWindows(days, AutoWfa(days))
  /\ \A w \in WfaWindows(days, AutoWfa(days)) :
       w.is.lo < w.is.hi /\ w.is.hi <= w.oos.lo /\ w.oos.hi <= days
WellSplit == {c \in Configs :
  /\ "cv" \in c.filters /\ CanSplit(c.samples, c.cv) => FoldsUsable(c.samples, c.cv)
  /\ c.auto /\ c.days > 20 => WindowsFit(c.days)}

(* What a pipeline goes on to measure is there to be measured.  Windows    *)
(* sized from a range of at least three weeks fit into it, each with its   *)
(* test span after its training span, and are as many as the analysis then *)
(* asks for, although sizes, step and number are rounded one by one        *)
(* (overfitting/__main__.py:70, wfa.py:279): no candidate fails because of *)
(* them.  Folds that split() accepts test every bar once, on no fewer bars *)
(* than its minimum, and with three folds or more none is left without a   *)
(* bar to train on, which the runner would refuse (nt_cv_runner.py:165).   *)
SplitsSuffice == \A p \in Pipelines : op[p].pc = "judge" => op[p].cfg \in WellSplit

=============================================================================
