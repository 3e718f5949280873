------------------------------- MODULE Splits -------------------------------
(***************************************************************************)
(* How the overfitting filters cut a data set: the rolling windows of the  *)
(* walk-forward analysis (vibe_quant/overfitting/wfa.py, sized by          *)
(* overfitting/__main__.py) in days counted from the first one, and the    *)
(* folds of the purged k-fold cross-validation (purged_kfold.py) in bars.  *)
(* A span is [lo |-> first, hi |-> first one after it], as a Python range. *)
(* Percentages are whole numbers: int(n * 0.01) is (n * 1) \div 100.       *)
(***************************************************************************)
EXTENDS Integers, FiniteSetsExt

Span(lo, hi) == [lo |-> lo, hi |-> hi]

---------------------------------------------------------------------------
(* Walk-forward analysis *)

(* WFAConfig.default: nine months in sample, three out of it, monthly. *)
DefaultWfa == [is |-> 270, oos |-> 90, step |-> 30, min |-> 8]

(* --wfa-auto-size: three quarters of the range make a window, split three *)
(* to one; min_windows is what the range is expected to hold, at most 8.   *)
AutoWfa(days) ==
  LET window == Max({20, (days * 3) \div 4})
      is     == Max({14, (window * 3) \div 4})
      oos    == Max({6, window - is})
      step   == Max({3, (window * 8) \div 100})
      est    == Max({1, (days - (is + oos)) \div step + 1})
  IN  [is |-> is, oos |-> oos, step |-> step,
       min |-> Max({1, Min({est, DefaultWfa.min})})]

(* Mutant: the window that ends with the data is left out. *)
WfaWindows_Strict(days, cfg) ==
  LET last == days - (cfg.is + cfg.oos) - 1
  IN  {[is  |-> Span(k * cfg.step, k * cfg.step + cfg.is),
        oos |-> Span(k * cfg.step + cfg.is, k * cfg.step + cfg.is + cfg.oos)] :
         k \in IF last < 0 THEN {} ELSE 0..(last \div cfg.step)}

(* generate_windows: the windows that end inside the data; none when the *)
(* data are shorter than one (the code raises ValueError then).          *)
WfaWindows(days, cfg) ==
  LET last == days - (cfg.is + cfg.oos)
  IN  {[is  |-> Span(k * cfg.step, k * cfg.step + cfg.is),
        oos |-> Span(k * cfg.step + cfg.is, k * cfg.step + cfg.is + cfg.oos)] :
         k \in IF last < 0 THEN {} ELSE 0..(last \div cfg.step)}

(* run refuses to judge on fewer than min_windows windows. *)
EnoughWindows(days, cfg) == Cardinality(WfaWindows(days, cfg)) >= cfg.min

---------------------------------------------------------------------------
(* Purged k-fold cross-validation *)

DefaultCv == [k |-> 5, purge |-> 1, embargo |-> 1, lookback |-> 0]

MinFoldSamples == 10
MinPurgeBars   == 50

Embargo(n, cfg) == (n * cfg.embargo) \div 100

(* The bars dropped between a training fold and the test fold after it: *)
(* the longest lookback of the indicators when it is given, else the    *)
(* percentage, raised to MinPurgeBars where the data can spare them.    *)
Purge(n, cfg) ==
  LET raw      == (n * cfg.purge) \div 100
      headroom == n - cfg.k * MinFoldSamples
      feasible == Max({raw, headroom \div (cfg.k - 1) - Embargo(n, cfg)})
  IN  IF cfg.lookback > 0 THEN cfg.lookback
      ELSE IF cfg.purge > 0 /\ raw < MinPurgeBars /\ feasible >= MinPurgeBars
           THEN MinPurgeBars
           ELSE raw

(* split raises ValueError when the folds would be too small. *)
CanSplit(n, cfg) ==
  n >= cfg.k * MinFoldSamples + (Purge(n, cfg) + Embargo(n, cfg)) * (cfg.k - 1)

(* Fold i of 0..k-1; the last one takes the remainder. *)
Fold(n, cfg, i) ==
  Span(i * (n \div cfg.k), IF i < cfg.k - 1 THEN (i + 1) * (n \div cfg.k) ELSE n)

(* The spans split() trains on when fold i is the test: every other fold,  *)
(* the one before it shortened by the purge, the one after it by the       *)
(* embargo.  The runner makes one range of dates of them, from the first   *)
(* to the last, which holds the test fold and the gaps as well; what it    *)
(* measures there decides nothing (nt_cv_runner.py:9).                     *)
TrainSpans(n, cfg, i) ==
  LET Cut(j) ==
        LET f == Fold(n, cfg, j)
        IN  Span(IF j = i + 1 THEN Min({f.hi, f.lo + Embargo(n, cfg)}) ELSE f.lo,
                 IF j = i - 1 THEN Max({f.lo, f.hi - Purge(n, cfg)}) ELSE f.hi)
  IN  {s \in {Cut(j) : j \in (0..(cfg.k - 1)) \ {i}} : s.lo < s.hi}

(* _index_range_to_dates refuses an empty list. *)
CanTrain(n, cfg) == \A i \in 0..(cfg.k - 1) : TrainSpans(n, cfg, i) # {}

=============================================================================
