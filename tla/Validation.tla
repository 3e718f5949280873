----------------------------- MODULE Validation -----------------------------
(***************************************************************************)
(* Validation backtests (validation/runner.py): a run row is read, the     *)
(* data at hand decides how fills are degraded, one backtest is made, or   *)
(* one for each walk-forward window, and the metrics and then the trades   *)
(* are committed under the id of the run.  An execution is started by the  *)
(* worker's main (also by hand, and then for a run executed before), by    *)
(* the batch helper (validation/batch.py), or by a caller of               *)
(* run_walk_forward; it may die between any two commits.  The backtest     *)
(* engine is reduced to the positions it leaves; prices are profits.       *)
(***************************************************************************)
EXTENDS Integers, Sequences, FiniteSets, SequencesExt, Sorting

CONSTANTS
    Symbols,
    Balance,        \* the starting balance
    LastDay,        \* every run covers the days 0 .. LastDay
    Books,          \* the position lists a backtest may leave, days from its start
    Coverages,      \* the ranges of days the catalog's 5s bars may span
    Spans,          \* <<train, test, step>> in days
    Configs,        \* the configurations users give a run
    MaxRuns,        \* bound: rows created by users
    MaxExecs,       \* bound: executions
    MaxBatch        \* bound: runs of a batch

None == "none"

ASSUME BalanceAssumption == Balance \in Nat \ {0}
ASSUME SymbolsAssumption == IsFiniteSet(Symbols)

\* The account is a netting one (venue.py:197): the positions of one symbol follow
\* one another.
ASSUME BooksAssumption ==
    \A book \in Books :
        /\ book \in Seq([symbol : Symbols, open : Nat, close : Nat, pnl : Int])
        /\ \A i, j \in DOMAIN book :
              LET p == book[i]  q == book[j]
              IN /\ p.close # 0 => p.open <= p.close
                 /\ (i # j /\ p.symbol = q.symbol /\ p.close # 0 /\ q.close # 0 /\ p.open <= q.open)
                       => p.open < q.open /\ p.close <= q.open

\* What the endpoints and the batch helper put into a row.
ASSUME ConfigsAssumption ==
    /\ \A c \in Configs : c.symbols \subseteq Symbols
    /\ \E c \in Configs : c.detail = None /\ c.latency = None

\* run_walk_forward refuses other lengths.
ASSUME SpansAssumption ==
    LastDay \in Nat /\ Spans \subseteq (Nat \ {0}) \X (Nat \ {0}) \X (Nat \ {0})

VARIABLES
    rows,           \* backtest_runs
    results,        \* backtest_results; "by" names the execution, which the table does not
    trades,         \* trades, likewise
    execs,          \* executions of ValidationRunner
    coverage,       \* symbol -> days <<first, last>> of its 5s bars in the catalog
    archived,       \* the symbols whose 1m archive covers the range
    batch           \* run_validation_batch: the runs still to do and the one in progress
valVars == <<rows, results, trades, execs, coverage, archived, batch>>

Runs == DOMAIN rows
Execs == DOMAIN execs
Each(s, field) == [i \in DOMAIN s |-> s[i][field]]
Total(s) == FoldLeft(LAMBDA sum, n: sum + n, 0, s)
Largest(s) == FoldLeft(LAMBDA max, n: IF n > max THEN n ELSE max, 0, s)

-----------------------------------------------------------------------------
(* What a run is given: detail bars, latency, delay.                       *)

\* _SUB_BAR_TIMEFRAMES: a latency model would delay an order by a whole bar.
SubBar == {"1m"}

CoversRange(s) == coverage[s][1] <= 0 /\ LastDay <= coverage[s][2]

ResolveDetailTimeframe(row, override) ==
    CASE override # None -> override
      [] override = None /\ row.timeframe \notin SubBar -> None
      [] override = None /\ row.timeframe \in SubBar /\ row.detail # None -> row.detail
      [] OTHER -> IF \A s \in row.symbols : CoversRange(s) THEN "5s" ELSE None

ResolveLatency(row) == IF row.latency = None THEN "cloud" ELSE row.latency

VenueLatency(row, detail) ==
    IF row.timeframe \in SubBar /\ detail = None THEN None ELSE ResolveLatency(row)

\* execution_delay_probability in the parameters of the strategy.
DelaysEntries(row, detail) == row.timeframe \in SubBar /\ detail = None

\* The bars a backtest loads, one data configuration each.
DataConfigs(row, detail) == row.symbols \X ({row.timeframe, detail} \ {None})

\* get_latency_model raises for a preset it does not know.
KnownPreset(latency) == latency # "unknown"

-----------------------------------------------------------------------------
(* What a backtest leaves.  A position is [symbol, open, close, pnl]; close *)
(* is 0 while it is open.                                                   *)

\* The closed positions; days count from the start of the range.
Closed(book) == {i \in DOMAIN book : book[i].close # 0}
From(book, start) == [i \in DOMAIN book |-> [book[i] EXCEPT !.open = @ + start, !.close = @ + start]]

\* Mutant: the trades stay in the order of the engine's cache.
ExtractTrades_Unsorted(book, start) == Sorted(From(book, start), [i \in Closed(book) |-> i])

\* In the order of their entries.
ExtractTrades(book, start) == Sorted(From(book, start), [i \in Closed(book) |-> book[i].open])

\* Equity after every trade, and the deepest fall from its peak, per thousand.
Fall(equity, peak) == IF peak > 0 THEN ((peak - equity) * 1000) \div peak ELSE 0
Falls(start, s) ==
    FoldLeft(LAMBDA acc, t:
                LET equity == acc.equity + t.pnl
                    peak == IF equity > acc.peak THEN equity ELSE acc.peak
                IN [equity |-> equity, peak |-> peak, falls |-> Append(acc.falls, Fall(equity, peak))],
             [equity |-> start, peak |-> start, falls |-> <<>>], s).falls
ComputeMaxDrawdown(s) == Largest(Falls(Balance, s))

\* The longest run of trades that ended one way, 1 or -1; any other ends it.
Streak(s, way) ==
    FoldLeft(LAMBDA acc, t:
                LET current == IF t.pnl * way > 0 THEN acc.current + 1 ELSE 0
                IN [current |-> current, longest |-> IF current > acc.longest THEN current ELSE acc.longest],
             [current |-> 0, longest |-> 0], s).longest
Count(s, way) == Cardinality({i \in DOMAIN s : s[i].pnl * way > 0})

\* A book without a closed position keeps the engine's count of positions.
ExtractResults(book, start) ==
    LET s == ExtractTrades(book, start)
    IN [total |-> IF s = <<>> THEN Len(book) ELSE Len(s),
        winning |-> Count(s, 1), losing |-> Count(s, -1),
        drawdown |-> ComputeMaxDrawdown(s),
        wins |-> Streak(s, 1), losses |-> Streak(s, -1),
        balance |-> Balance, trades |-> s]

\* The trades of the windows, one window after the other.
Joined(s) ==
    LET upTo[n \in 0 .. Len(s)] == IF n = 0 THEN <<>> ELSE upTo[n - 1] \o s[n].trades
    IN upTo[Len(s)]

AggregateWalkForwardResults(s) ==
    [total |-> Total(Each(s, "total")),
     winning |-> Total(Each(s, "winning")), losing |-> Total(Each(s, "losing")),
     drawdown |-> Largest(Each(s, "drawdown")),
     wins |-> Largest(Each(s, "wins")), losses |-> Largest(Each(s, "losses")),
     balance |-> s[1].balance, trades |-> Joined(s)]

\* The test windows, each after its own training window; they move by step.
BuildWalkForwardWindows(span) ==
    LET train == span[1]  test == span[2]  step == span[3]
        n == IF train + test > LastDay THEN 0 ELSE (LastDay - train - test) \div step + 1
    IN [i \in 1 .. n |-> <<(i - 1) * step + train, (i - 1) * step + train + test>>]
WholeRange == << <<0, LastDay>> >>

-----------------------------------------------------------------------------
(* Rows and executions.                                                    *)

RowOf(c) == [symbols |-> c.symbols, timeframe |-> c.timeframe, detail |-> c.detail,
             latency |-> c.latency, status |-> "pending"]
\* create_backtest_run for a batch: no parameters.
BatchRow == CHOOSE c \in Configs : c.detail = None /\ c.latency = None

\* "by" is "main" for the worker, "batch", or "caller" for run_walk_forward.
NewExec(r, by, override, span) ==
    [run |-> r, by |-> by, at |-> "load", override |-> override, span |-> span,
     data |-> {}, latency |-> None, delay |-> FALSE, windows |-> <<>>, done |-> <<>>]

SetStatus(r, s) == rows' = [rows EXCEPT ![r].status = s]
Move(e, at) == execs' = [execs EXCEPT ![e].at = at]
\* The call is over, and so is what it remembered.
Leave(e, at) == execs' = [execs EXCEPT ![e].at = at, ![e].done = <<>>]
AtStep(e, at) == execs[e].at = at
Outcome(e) == IF execs[e].by = "caller" THEN AggregateWalkForwardResults(execs[e].done)
              ELSE execs[e].done[1]

ValidationInit ==
    /\ rows = <<>> /\ results = <<>> /\ trades = <<>> /\ execs = <<>>
    /\ coverage \in [Symbols -> Coverages]
    /\ archived = {}
    /\ batch = [left |-> 0, exec |-> 0]

\* A launch or a script creates the row.
CreateBacktestRun(c) ==
    /\ Len(rows) < MaxRuns
    /\ rows' = Append(rows, RowOf(c))
    /\ UNCHANGED <<results, trades, execs, coverage, archived, batch>>

\* An execution that does nothing more.
Over(e) == \/ execs[e].at \in {"ended", "crashed"}
           \/ execs[e].by # "main" /\ execs[e].at \in {"returned", "raised"}
Free(r) == \A e \in Execs : execs[e].run = r => Over(e)

\* The main is started for any run, whatever became of earlier executions.
StartMain(r, override) ==
    /\ Len(execs) < MaxExecs /\ Free(r)
    /\ execs' = Append(execs, NewExec(r, "main", override, <<>>))
    /\ UNCHANGED <<rows, results, trades, coverage, archived, batch>>

StartWalkForward(r, span) ==
    /\ Len(execs) < MaxExecs /\ Free(r)
    /\ execs' = Append(execs, NewExec(r, "caller", None, span))
    /\ UNCHANGED <<rows, results, trades, coverage, archived, batch>>

\* More 5s bars are archived and put into the catalog.
DetailBarsArrive(s, c) ==
    /\ c \in Coverages /\ c[1] <= coverage[s][1] /\ coverage[s][2] <= c[2] /\ c # coverage[s]
    /\ coverage' = [coverage EXCEPT ![s] = c]
    /\ UNCHANGED <<rows, results, trades, execs, archived, batch>>

-----------------------------------------------------------------------------
(* ValidationRunner.run and run_walk_forward.                              *)

\* Everything up to the commit of "running".
Prepare(e) ==
    /\ AtStep(e, "load")
    /\ LET r == execs[e].run
           detail == ResolveDetailTimeframe(rows[r], execs[e].override)
           windows == IF execs[e].by = "caller" THEN BuildWalkForwardWindows(execs[e].span)
                      ELSE WholeRange
       IN /\ windows # <<>>
          /\ SetStatus(r, "running")
          /\ execs' = [execs EXCEPT ![e] = [@ EXCEPT
                         !.at = "run", !.data = DataConfigs(rows[r], detail), !.windows = windows,
                         !.latency = VenueLatency(rows[r], detail), !.delay = DelaysEntries(rows[r], detail)]]
    /\ UNCHANGED <<results, trades, coverage, archived, batch>>

\* A missing strategy, an invalid document, no window: nothing is written.
PrepareRaises(e) ==
    /\ AtStep(e, "load")
    /\ Leave(e, "raised")
    /\ UNCHANGED <<rows, results, trades, coverage, archived, batch>>

RunBacktest(e, book) ==
    /\ AtStep(e, "run") /\ Len(execs[e].done) < Len(execs[e].windows)
    /\ KnownPreset(execs[e].latency)
    /\ LET w == execs[e].windows[Len(execs[e].done) + 1]
       IN /\ \A i \in DOMAIN book :
                /\ <<book[i].symbol, rows[execs[e].run].timeframe>> \in execs[e].data
                /\ w[1] + book[i].close <= w[2]
          /\ execs' = [execs EXCEPT ![e].done = Append(@, ExtractResults(book, w[1]))]
    /\ UNCHANGED <<rows, results, trades, coverage, archived, batch>>

\* The engine, the event log or a commit raises: the except clause.
Raise(e) ==
    /\ execs[e].at \in {"run", "result", "trades"}
    /\ SetStatus(execs[e].run, "failed")
    /\ Leave(e, "raised")
    /\ UNCHANGED <<results, trades, coverage, archived, batch>>

Finished(e) == AtStep(e, "run") /\ Len(execs[e].done) = Len(execs[e].windows)

\* _store_results: the metrics, then the trades, each with a commit of its own.
StoreResult(e) ==
    /\ Finished(e)
    /\ results' = Append(results, [run |-> execs[e].run, by |-> e, result |-> Outcome(e)])
    /\ Move(e, "result")
    /\ UNCHANGED <<rows, trades, coverage, archived, batch>>

StoreTrades(e) ==
    /\ AtStep(e, "result")
    /\ LET s == Outcome(e).trades
       IN trades' = trades \o [i \in DOMAIN s |-> [run |-> execs[e].run, by |-> e, trade |-> s[i]]]
    /\ Move(e, "trades")
    /\ UNCHANGED <<rows, results, coverage, archived, batch>>

\* Mutant: the status does not wait for the trades.
Conclude_TradesLater(e) ==
    /\ execs[e].at \in {"result", "trades"}
    /\ SetStatus(execs[e].run, IF Outcome(e).total = 0 THEN "failed" ELSE "completed")
    /\ Leave(e, "returned")
    /\ UNCHANGED <<results, trades, coverage, archived, batch>>

\* The status of the run: failed without trades.
Conclude(e) ==
    /\ AtStep(e, "trades")
    /\ SetStatus(execs[e].run, IF Outcome(e).total = 0 THEN "failed" ELSE "completed")
    /\ Leave(e, "returned")
    /\ UNCHANGED <<results, trades, coverage, archived, batch>>

\* validation/__main__.py: mark_completed, which writes the run row as well.
MarkCompleted(e) ==
    /\ execs[e].by = "main" /\ execs[e].at \in {"returned", "raised"}
    /\ SetStatus(execs[e].run, IF execs[e].at = "returned" THEN "completed" ELSE "failed")
    /\ Move(e, "ended")
    /\ UNCHANGED <<results, trades, coverage, archived, batch>>

\* The process is killed.
Crash(e) ==
    /\ ~Over(e)
    /\ Leave(e, "crashed")
    /\ UNCHANGED <<rows, results, trades, coverage, archived, batch>>

-----------------------------------------------------------------------------
(* run_validation_batch.                                                   *)

\* validate_archive_window.
Missing(symbols) == symbols \ archived

\* ensure_data_window: the archive covers the window, or is asked to.  A batch that
\* died before its first run may be started again.
StartBatch(n, ensure) ==
    /\ batch.exec = 0
    /\ Missing(BatchRow.symbols) = {} \/ ensure
    /\ \E got \in SUBSET Missing(BatchRow.symbols) :
          /\ archived' = archived \cup got
          /\ batch' = IF got = Missing(BatchRow.symbols) THEN [batch EXCEPT !.left = n] ELSE batch
    /\ UNCHANGED <<rows, results, trades, execs, coverage>>

\* The batch goes on when the run before has returned.
BatchProceeds == batch.exec # 0 => execs[batch.exec].at = "returned"

BatchRun ==
    /\ batch.left > 0 /\ BatchProceeds
    /\ Len(execs) < MaxExecs
    /\ rows' = Append(rows, RowOf(BatchRow))
    /\ execs' = Append(execs, NewExec(Len(rows) + 1, "batch", None, <<>>))
    /\ batch' = [left |-> batch.left - 1, exec |-> Len(execs) + 1]
    /\ UNCHANGED <<results, trades, coverage, archived>>

ValidationNext ==
    \/ \E c \in Configs : CreateBacktestRun(c)
    \/ \E r \in Runs : \/ \E override \in {None, "5s"} : StartMain(r, override)
                       \/ \E span \in Spans : StartWalkForward(r, span)
    \/ \E s \in Symbols, c \in Coverages : DetailBarsArrive(s, c)
    \/ \E e \in Execs :
          \/ Prepare(e) \/ PrepareRaises(e) \/ Raise(e)
          \/ \E book \in Books : RunBacktest(e, book)
          \/ StoreResult(e) \/ StoreTrades(e) \/ Conclude(e) \/ MarkCompleted(e) \/ Crash(e)
    \/ \E n \in 1 .. MaxBatch, ensure \in BOOLEAN : StartBatch(n, ensure)
    \/ BatchRun

ValidationSpec == ValidationInit /\ [][ValidationNext]_valVars

-----------------------------------------------------------------------------
(* What the results endpoints read (api/routers/results.py).               *)

\* get_backtest_result: the first row of the run.
FirstResult(r) ==
    CHOOSE i \in DOMAIN results : results[i].run = r /\ \A j \in DOMAIN results : results[j].run = r => i <= j
\* get_trades: every row of the run, by entry.
TradesOf(r) ==
    Sorted([i \in DOMAIN trades |-> trades[i].trade],
           [i \in {i \in DOMAIN trades : trades[i].run = r} |-> trades[i].trade.open])
\* _get_starting_balance, with the default of a run without a result.
DefaultBalance == 10 * Balance
StartingBalance(r) ==
    IF \E i \in DOMAIN results : results[i].run = r THEN results[FirstResult(r)].result.balance ELSE DefaultBalance

\* get_equity_curve and get_drawdown take the trades by exit.
ByExit(s) == Sorted(s, [i \in DOMAIN s |-> s[i].close])
\* The balance before every trade, and after the last.
EquityCurve(r) ==
    LET s == ByExit(TradesOf(r))
        point[k \in 1 .. Len(s) + 1] == IF k = 1 THEN StartingBalance(r) ELSE point[k - 1] + s[k - 1].pnl
    IN IF s = <<>> THEN <<>> ELSE point
DrawdownCurve(r) == Falls(StartingBalance(r), ByExit(TradesOf(r)))

-----------------------------------------------------------------------------
ValidationTypeOK ==
    /\ \A r \in Runs : rows[r].status \in {"pending", "running", "completed", "failed"}
    /\ \A i \in DOMAIN results : results[i].run \in Runs /\ results[i].by \in Execs
    /\ \A i \in DOMAIN trades : trades[i].run \in Runs /\ trades[i].by \in Execs
    /\ \A e \in Execs : execs[e].run \in Runs

Stored(e) == \E i \in DOMAIN results : results[i].by = e
TradesBy(e) == Cardinality({i \in DOMAIN trades : trades[i].by = e})

\* Whoever reads the trades of a run finds the result they belong to, so that no
\* equity curve starts from the default balance, and a run recorded as completed
\* has a result with all of the trades it was computed from, whatever process died
\* between the two commits and however often the run was started again
\* (_store_results, runner.py:169).
TradesFollowResult ==
    /\ \A e \in Execs : TradesBy(e) > 0 => Stored(e)
    /\ \A r \in Runs : Len(EquityCurve(r)) > 0 => EquityCurve(r)[1] = Balance
    /\ \A r \in Runs : rows[r].status = "completed" =>
          \E i \in DOMAIN results :
             /\ results[i].run = r
             /\ TradesBy(results[i].by) = Len(results[i].result.trades)

OnlyOnce(r) == Cardinality({e \in Execs : execs[e].run = r}) = 1

\* Two computations of one number agree: the deepest point of the drawdown the
\* dashboard draws from the stored trades, in the order of their exits, is the
\* maximal drawdown that was computed from the trades in the order of their
\* entries.  It is so for one backtest of one symbol; with several symbols, and
\* over walk-forward windows, the two differ (extraction.py:438, results.py:303).
DrawdownsAgree ==
    \A i \in DOMAIN results :
        LET r == results[i].run
        IN OnlyOnce(r) /\ execs[results[i].by].by # "caller" /\ Cardinality(rows[r].symbols) = 1
              /\ TradesOf(r) # <<>>
           => Largest(DrawdownCurve(r)) = results[i].result.drawdown

=============================================================================
