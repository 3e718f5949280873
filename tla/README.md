# vibe-quant in TLA+

vibe-quant is a workbench for trading strategies: a FastAPI process serves a
dashboard, starts back-tests, discoveries and paper-trading sessions as
processes of their own, and keeps their state in SQLite; other modules download
market data, compile strategy documents, search for strategies, judge them, and
guard the risk of a running one. This directory models the parts of it that keep state or
whose steps can come in an order nobody planned, checks the models with TLC, and proves
the main results about the core with TLAPS for every value of the constants. Paths are
relative to the repository; `vq/` stands for `vibe_quant/`.

## 1. Inventory

| Component | State it keeps | Operations | What is hard | What makes it correct |
|---|---|---|---|---|
| Job manager, launch endpoints (`vq/jobs/manager.py`, `vq/api/routers/backtest.py`, `discovery.py`, `data.py`) | `background_jobs`, `backtest_runs.status`, processes | start, kill, sync, clean up stale jobs, heartbeat, mark completed | the API and its workers write the same rows over connections of their own; a status is read before a process is looked at and written after; the API may die between `Popen` and the commit | a worker that works is always named by its row; one worker per run; the limit of discoveries bounds processes; a killed job stays killed; the two tables end up equal |
| Workers (`vq/screening`, `vq/validation`, `vq/discovery`, `vq/paper/cli.py`) | their run's rows | beat, record the run, report, exit | they die, hang, exit early | every job ends in a final state |
| Paper endpoints and kill switch (`vq/api/routers/paper_trading.py`, `system.py`) | job rows, config files, `system_state.kill_switch` | start, restore, halt, resume, stop; kill, unlock | they reach the node by signals only, at any moment of its life | nodes go where the switch sends them; at most one node of an account lives, and a row names it |
| Paper node (`vq/paper/node.py`, `errors.py`, `persistence.py`) | `NodeStatus`, retry counts, checkpoints | initialise, signals, errors, checkpoints, shut down | errors, operators and signals change one state machine | an operator's pause outlives errors |
| Strategy circuit breaker (`vq/risk/strategy_actor.py`) | `StrategyRiskState` | fills, position events, checks, daily reset, cooldown | figures are taken at different events, reads fail | active means within limits; a halt lasts its cooldown and has size zero |
| Portfolio circuit breaker (`vq/risk/portfolio_actor.py`) | `PortfolioRiskState` | the same, with a cooldown at half size | two cooldowns in a row | trading means within limits; full size is earned |
| Market data (`vq/data/`) | `raw_klines`, catalog directories, download sessions | ingest, update, rebuild | jobs overlap, die between clearing and writing, download half | the catalog follows from the archive and is repaired |
| Strategy documents (`vq/dsl/`) | the compiled strategy's previous values, delayed action, trailing stop; the exchange's position and orders | parse, compile; each bar, fill and close | five early returns before the previous values are taken; commands in flight | what is open is protected; no order outlives its position; crossings are between two consecutive bars; entries keep the hours |
| Genetic discovery (`vq/discovery/pipeline.py`, `operators.py`, `distance.py`, `diversity.py`) | population, scores, a copy of every chromosome scored, the selected strategies and their result lists; genes | evaluate, evolve, cross, mutate, immigrate, select, guard, measure, filter | results come in any order, a pool breaks, offspring is repaired and mutated again, parallel lists are filtered | the best is kept and reported, strategies differ and have their own results, what is bred is valid, the run ends |
| Campaigns (`vq/discovery/campaign.py`, `scripts/regime_cross_campaign.py`) | rows of earlier runs, strategies; the plan in memory | plan, run, run-all; discover, read champions, plan and run validations | the runner is killed and started again from what the database holds; its workers outlive it | nothing is planned twice or from two reports, nothing completed lacks its result, the runner ends |
| Screening (`vq/screening/`) | `sweep_results` | build the grid, run a pool, filter, rank, mark the Pareto front, replace the rows | results in any order, failures as sentinel values | the rows are of one screening, and their front is the front |
| Overfitting filters (`vq/overfitting/`) | three verdicts per row | judge candidates by deflated Sharpe ratio, walk-forward windows, purged folds; store verdicts | rows replaced while they are judged; boundaries of windows and folds | a verdict belongs to the row it is on; what is judged can be cut as the judging asks |
| Validation (`vq/validation/`, results endpoints) | `backtest_results`, `trades`, status of the run | prepare, run, walk forward, extract, store, batch | several commits per result, reruns, detail data that cover part of a run | trades belong to a result; both drawdowns agree |
| Ethereal venue (`vq/ethereal/`) | connection, subscriptions, reconnect task; archive of months, catalog; positions | connect, disconnect, subscribe, reconnect; ingest, convert; orders | callbacks cancel the task they run in; months fail one by one | subscriptions survive a reconnect whose handler ends, a closed client stays closed, a reported loss is answered; a command that ends did all it could |
| Live updates (`vq/api/ws/`, `vq/api/sse/`) | sets of connections by channel, tail positions | connect, disconnect, broadcast, heartbeat; tail a log | sets change, go and come again during awaits; the browser reconnects | nobody is lost, no line is lost |
| Telegram alerts (`vq/alerts/telegram.py`) | rate-limit times, client | send | check before, update after an await | the rate limit holds |
| Reconciliation (`vq/reconciliation.py`, `vq/logging/`, its endpoint and script) | one event log per run | rebuild trades from events, pair them, report parity | what the writers of the logs leave out; greedy pairing, ids that repeat | no trade is forgotten or left though it fits; parity means agreement |
| Sizing, settings, dashboard, other scripts | tables of their own | formulas, CRUD, views | little | – |

The components meet in four places. The API and every worker share the two job
tables: handlers of the API run on one event loop and do not await before their
last write, so they never interleave with each other, but each commit and each
look at a process interleaves with the workers. The paper endpoints and the kill
switch talk to a node by `SIGUSR1`, `SIGUSR2` and `SIGTERM`. Data jobs share the
archive database and the catalog's directory tree, which back-tests read. And the
state database carries a strategy from search to verdict: a discovery or a screening
stores candidates, filters write verdicts on the rows, a campaign or the dashboard
plans validations from them, and the validation worker stores results and trades, each in
a process of its own, with no lock but SQLite's.

`PROJECT.json` lists every component with its status, and under `hazards` the
places in the code that a test hardly reaches, with the properties that cover each.

## 2. Modules

| Module | Models | Checked with | Proofs |
|---|---|---|---|
| `JobLifecycle` | the job tables, the API process, the workers | `MCJobs` | `JobLifecycle_proof` |
| `PaperTrading` | paper sessions, signals, the kill switch, the node | `MCPaper` | `PaperTrading_proof` |
| `StrategyRisk` | the strategy circuit breaker | `MCStrategyRisk` | `Strategy_proof` |
| `PortfolioRisk` | the portfolio circuit breaker | `MCServices` | `Services_proof` |
| `MarketData` | the archive, the catalog and the data jobs | `MCData` | `Backtests_proof` |
| `Discovery` | one run of the strategy search | `MCDiscovery` | `Discovery_proof` |
| `Genome`, `Breeding` | the genetic operators; how one generation makes the next | `MCDiscovery` | `Discovery_proof` |
| `CompiledStrategy` | a strategy document and the program compiled from it, on a simulated exchange | `MCStrategy` | `Strategy_proof` |
| `Campaign`, `CellLedger` | a cross-regime campaign; what its matrix promises | `MCCampaign` | `Campaign_proof` |
| `Screening`, `Overfitting`, `Splits` | a parameter sweep, the filters on its rows, and how they cut data | `MCScreening` | `Screening_proof` |
| `Validation`, `Sorting` | validation runs, their results and trades, batches; the stable sort of Python and SQLite | `MCValidation` | `Backtests_proof` |
| `EtherealFeed`, `EtherealArchive` | the venue's data client, its ingestion commands | `MCServices` | `Services_proof` |
| `LogStream`, `Channels` | a log over server-sent events, the live channels of the API | `MCServices` | `Services_proof` |
| `Reconciliation`, `Sorting` | a paper session compared with its validation | `MCServices` | `Backtests_proof` |

`Overfitting` extends `Screening` and `Splits`, `Breeding` extends `Genome`, and
`Campaign` instantiates `CellLedger`. Two MC modules put together parts that share
no state, so that one run checks them all: in `MCDiscovery` and `MCServices` the
variable `part` chooses which part a behaviour is about.

### JobLifecycle

`job` is the `background_jobs` row of each run (status, pid, age of the last
heartbeat), `run` the status in `backtest_runs`, `pc` and `owner` the process
table, `api` the handler in flight. A handler that writes after it looked at
something that workers change is cut there: `Spawn`/`StartCommit`/`RouterWrite`
(Popen, commit of `start_job`, the router's second write), `KillBegin`/`KillEnd`,
`SyncBegin`/`SyncEnd`, `StaleBegin`/`StaleOne`. A worker goes `boot`, `work`,
`wroteOk` or `wroteErr` (its own write to `backtest_runs`), `marked`
(`mark_completed`), `dead`; it may die at any point, hang, and beats while it
works. Time exists only as heartbeat ages. `ApiCrash` loses the handler in
flight; workers survive, as session leaders do.

Abstractions: pids are not reused; SQLite never gives up on its lock; runs
started from the command line have no job row and are left out; the log-file
table is left out.

### PaperTrading

A session is its job row (`row`), its config file (`setup`) and its process
(`node`: stage, `NodeState`, halt reason, remembered state, retry count, signals
not yet handled). Signals arrive at a process that has no handler for them yet
and kill it, or wait in order until the event loop takes them (`Signalled`,
`OnHalt`, `OnResume`, `OnTerm`). The kernel would merge two waiting signals of
one kind; the model keeps both, which changes nothing a property speaks about
except that a second halt turns a pause into a manual halt. `kill` is cut between
the commit of the switch and its signals, a launch between the `Popen` of the node and
the commit of its row (`Launch`, `StartCommit`); if the API dies there, the node lives on as an
orphan: no row names it, no endpoint finds it, and a restore starts another beside it. `orphans` is
history and lists them. Ending a job is one step here; `JobLifecycle` has its detail. `running`, `paused` and
`halted` are what a node reports: `halt()` and `pause()` stop no strategy, so `SubmitEntry` is
open to every live node, and `strayed` remembers that one did it after the switch had reached it.
Nothing in the repository outside
the tests calls `handle_error` or `reset_retry_count`; they are modelled as
events that may occur at any time. The close-all signal (`SIGWINCH`), positions and exits
are left out.

### StrategyRisk and PortfolioRisk

Each handler of an actor is one step: Nautilus calls them one at a time. The
account's balance and the open positions move between steps; a balance of 0 is one that
could not be read. Percentages are compared by cross-multiplication.
`risk` is the actor's state record; `quiet` is history, the time since the last
halt. Drawdown scaling and the heat limit are taken as configured. No code
outside the tests constructs these actors.

### MarketData

`archive` is the set of candles of one symbol, `catalog` the bars of each
timeframe, a bar being the set of candles it aggregates. `job` is each process:
its kind, stage, range, downloaded candles, candles read, and timeframes left to
clear or write. Downloads stop at the first page that fails; month files are
there or not; the current minute's candle is reported open. Every commit to the
archive, removal of a directory and write to it is a step. The catalog library
refuses bars where it has some ("disjoint interval errors" in the code's words),
and the job fails. Symbols are independent, so one is modelled; funding rates and
sub-minute data go through the same archive operations and are left out.

### Discovery

`pop` is the population, `res` the scores of its chromosomes as they come in,
`scored` what `all_scored` holds, `best` the list `best_fitness`; `rest` and `top`
are the entries `_select_diverse_top_k` has still to look at and those it took;
`holdout`, `cross` and `wfa` are the result lists, each entry naming the chromosome it
measured. `conf` fixes the kind of evolution and how evaluations run. Futures
finish one by one in any order, each may raise, a worker may die at any moment and
break the pool; a process that could not submit evaluates by itself from then on.
A chromosome is a genome and a direction with a deterministic `Score` (0 when a
gate rejects it) and a distance, given as the relation `Near`. Crossover and mutation
may yield any chromosome of the allowed direction: what they do to genes is in
`Breeding`. In deterministic crowding the
pairs are chosen by distance: in crossed pairs an offspring is compared with the wrong
parent, as in the code, and only the fitter of the two parents is safe. The last
generation is evolved once more by the code into a population nobody reads; the
model leaves that out. Guardrail verdicts and measurements are any.

### Genome and Breeding

`Genome` gives, for each genetic operator, the set of values it may draw: random
genes, crossover gene by gene, repair, mutation, and the two validators, of which
the one used while breeding (`operators.py:385`) does not look at the parameters of
scalar indicators and `validate_chromosome` does. `Breeding` has the two loops of
`pipeline.py` that make a generation: clone the elites, take parents by tournament or in
crowding pairs, cross, mutate, try again while invalid and draw a random chromosome
when the retries are used up. Elites, children, mutated candidates and what the run remembers
with a score are clones (`pipeline.py:470`, `operators.py:668`), so a chromosome is its content. Numbers are grid points of their ranges. Identifiers, conditions and
`time_filters` (which crossover drops) are left out.

### CompiledStrategy

The constants are documents, as `schema.py` sees them; `Valid` is what it and the
condition parser accept, and a behaviour picks one of those. The state is the generated
object's (`previous` values, the `delayed` action of a validation run, what it believes of
its position, the best trailing price) and the exchange's (position, working orders,
commands on the wire, last bar). A bar first meets the working orders, in any order its
range allows, then the strategy: `OnBar` follows the template statement by statement,
early returns included. The latency model delivers commands first in, first
out, so they may arrive a bar late. Indicators take any value; which of
them NautilusTrader computes, which the compiler computes from buffers and which
need several outputs decides when a value is there and when a previous one is. Sizes
are one unit, prices small integers.

### Campaign and CellLedger

`runs`, `results` and `strategies` are the tables, `runner` the plan in the memory
of the one campaign process, `workers` the processes it waits for, which go on when it
is killed. Every commit is a step: one row of the plan, one strategy, one
out-of-sample row, the result of a worker, the status it writes after it (`Tell`: `failed` for a
validation without trades), and that of `mark_completed` (`Finish`: `completed` in either case). `CmdRun` rebuilds the plan from
the rows, as `scripts/regime_cross_campaign.py` does: the windows are those that rows
exist for, `top_k` is the default, so a runner killed while it planned out-of-sample
rows loses the windows it had not come to, and `plan` followed by `run` never plans any. The validation worker
accepts rows of mode `validation` only, so those of a campaign are refused and end `failed`
(`LoadsRun`, `Refuse`). A user may launch a validation of a planned strategy from the dashboard beside it. `CellLedger` is the
abstract specification: a set of cells to which a cell is added once, never changed.
`MatrixOnlyGrows` states that `Campaign` implements it, with the out-of-sample rows as
cells. The option strings of the worker's parser are a constant: `argparse` refuses the
ones the code declares, because `--seed-from-run` is there twice, and no discovery worker
starts; `DistinctOptions` is the same list without the duplicate, so that what stands
behind the parser can be checked.

### Screening, Overfitting and Splits

`sweep` is the run's rows by id, `done` the pool's results in the order they finished.
A back-test that raises is answered with minus infinity by the runner and with -999
by the collector, and the filters know only the second. When a process of the pool dies, what
has not been collected fails with it, in any order. Ranking, the front and the
replacement of the rows are one commit. A filter pipeline reads the
candidates, judges each and writes the three verdicts of each by row id, a step each, while
screenings and other pipelines go on. Whether the deflated Sharpe ratio accepts a combination, and what
it earns in the windows, are constants; so is what the folds measure, which is the same for all rows, because
the cross-validation backtests the strategy's defaults (`vq/overfitting/nt_cv_runner.py:197`). How the data are cut into windows
and folds is `Splits`, with the code's integer arithmetic. The spans a fold is trained on become one range of dates
in the runner, which holds the test fold and the gaps too; what is measured there decides
nothing (`nt_cv_runner.py:9`), only that there is a bar to train on (`CanTrain`).

### Validation

An execution is a process or a call: the worker's `main`, the batch, or a caller of
`run_walk_forward`. It goes through the commits of the code: `running`, the result row,
the trades, the final status, and may die between any two, or raise where the code can.
A back-test leaves any book of `MCBooks`; extraction closes, sorts and counts it, and both
the runner's drawdown and that of the results endpoint are computed from
what they read. The environment keeps executions of one run from overlapping (the
launch endpoints check that; nothing stops a script), runs one batch, and only
adds detail data.

### EtherealFeed, EtherealArchive and LogStream

`EtherealFeed` is cut at every `await`: socket events, reconnect tasks and the
caller's operations interleave there. A socket of the library opens or fails, is lost at any time, and
tells so unless `connect()` had not returned yet. The library counts a socket as connected before its
"connect" handler runs, and a handler that raises does not make `connect()` fail: `left` marks a socket whose handler
found the table changed in size, so that topics were left out. `orphaned` is history: a loss was handled while
the loop of an earlier one ran and was not ended (section 5). `EtherealArchive` is one
command at a time over an archive of months and a catalog whose writes refuse
overlapping intervals; downloads are missing or fail month by month. `LogStream` is a
worker that writes lines, the stream that reads the status first and then the file, and the
browser that reconnects with the last event it got.

### Channels

Set objects are named by the connection that had them created, `channel` maps a name to
its object, `coro` holds what each broadcast and the heartbeat have of their loop, and
`holder` is the coroutine that runs: it keeps the event loop from one awaited send to the next,
so the small steps between them (`Enter`, `NextSends`, `NextEnds`, `Tidy`) meet nobody.
Every step of a Python set's iterator looks at the size first and raises when it changed
(`NextRaises`); when one connection has gone and another come, it does not, and which members it
still visits is left open. Sends to a connection whose peer is gone may fail. `late` is history: the
heartbeat listed all channels before its first await, and has come to one that was no longer
the same.

### Reconciliation

`events` is the log of each run, `closed` how many round trips it really made. The validation
runner writes its events without position ids (`TradeEvents`); the paper node writes none
(`PaperRoundTrip`). So that loading and pairing can be checked at all, a writer
that follows the schema of `vq/logging/events.py`, as the tests do, may fill either log instead; it is
external and has `Ids`. `logsAt` is the directory of each log: the comparison reads `logs/events`, where validations write;
a session writes where its configuration says, by default `logs/paper`, and no report is made of
it then (404). Times and the tolerance are small integers, prices are left out.

## 3. Runs

| Run | Question | States | Result |
|---|---|---|---|
| `jobs` | two discoveries under a limit of one and a validation, two processes, one API crash, one hang: are the tables right and does every discovery end? | 485 k | holds |
| `paper` | two sessions, two retries, two waiting signals, one API crash in a kill or a launch: safety, and that the switch takes hold | 323 k | holds |
| `paper_kill` | does a node the switch has reached send no more entries? | | violated |
| `strategy_risk` | four balances, two positions, three results | 206 k | holds |
| `data` | two jobs at once, three in all, two months of three minutes | 190 k | holds |
| `discovery` | a population of three, three generations, both kinds of evolution, three kinds of pools; and one breeding of two chromosomes, one with an indicator the pool leaves out | 1.57 M | holds |
| `strategy` | four documents (and three refused), five bars of three shapes, one command in flight | 148 k | holds |
| `campaign` | one training and two out-of-sample windows, two commands, one kill, one manual validation, two workers | 482 k | holds |
| `screening` | three combinations, two screenings, one failure, two filter pipelines with four configurations | 694 k | holds |
| `validation` | one run of a user and a batch of two, two executions, four books, four configurations | 1.69 M | holds |
| `services` | three sockets, three reconnect loops; three commands over two months; three lines and two dropped connections; three clients of two channels, one broadcast, one heartbeat; two positions per log out of three ids; two instruments, three balances | 644 k | holds |
| `reconciliation` | is a session whose log is found in full parity only with a validation that traded as much? | | violated |

`paper_kill` and `reconciliation` expect a violation; `findings` of `PROJECT.json` quotes
the sentences the code contradicts. The dashboard says of the kill switch that it "halts any active paper trading
session" (`frontend/src/components/layout/KillSwitch.tsx:100`); the node changes a status nobody reads before an order
(`vq/paper/node.py:772`, `vq/dsl/templates.py:70`). The
events of a validation run have no position id (`vq/validation/runner.py:1127`), those of a
paper session do not exist, so once both logs are found both lists of trades are empty, and the parity of
nothing with nothing is 1.

What the properties say, by run:

- `jobs`: one worker per run (`SingleWorker`), no more live discoveries than the limit
  (`DiscoveryLimit`), both tables say the same of a run nobody works on (`TablesAgree`), a
  killed job stays killed (`KilledStaysKilled`), a discovery ends (`DiscoveryEnds`).
- `paper`: a live node is named by a row that says running (`LiveTracked`), and of two live nodes one is an
  orphan (`OneTrader`), though the row comes after the process; no node the switch has reached
  reports itself running (`KillReaches`), and it reaches each that a row names, whatever it was doing (`KillTakesHold`);
  a resume goes back to the state before the first error (`PauseOutlivesErrors`).
- `strategy_risk`: `ActiveIsSafe`, `CooldownObserved`.
- `data`: every candle of a bar is archived (`CatalogFromArchive`), an update appends without a
  hole (`UpdateMakesNoHole`), a job that runs alone completes all timeframes (`CompletesWhole`).
- `discovery`: the first strategy selected is the best ever scored (`TopIsBest`); what is bred passes the strict
  validator, unless it is a seed carried over unchanged (`BredValidates`); the
  run ends (`PipelineEnds`).
- `strategy`: once the commands of a bar are settled, an open position has exactly one stop, of its own
  size and on the other side (`Protected`); a flat account has no working order (`NoOrphans`); a crossing that is acted on
  happened between this bar and the one before (`CrossingsAreReal`); an entry is called for within the hours
  the document allows, a delayed one was at the bar before (`EntersInHours`).
- `campaign`: the champions of a training window were ranked by one report of its
  discovery (`OneReportPerWindow`); a completed run has a result, also the
  validation without trades that is first failed and then completed (`CompletedHasResult`); the
  refinement (`MatrixOnlyGrows`); the runner ends (`RunnerEnds`).
- `screening`: the stored rows are those of one screening and their marks are the
  Pareto front of what passed (`StoredFront`); the verdicts on a row are those of one pipeline, and two of them
  follow from the metrics of that row (`VerdictsOwn`); auto-sized windows fit and are as many as is then asked for, and
  folds that are accepted can be trained and tested (`SplitsSuffice`).
- `validation`: no trades without the result they belong to, and a completed run has a result with all of its
  trades (`TradesFollowResult`); the drawdown of the runner and that of the endpoint agree for one back-test of
  one symbol (`DrawdownsAgree`).
- `services`: a connected client receives all it subscribed to, unless its handler raised (`FeedRestored`), a closed one stays
  closed unless a reconnect loop was orphaned (`StaysClosed`), a reported loss is
  answered: once its handler is done the client is connected again, or the attempts are used up, or it was closed (`LossAnswered`), a command that ended has archived
  and converted what the source offered (`EndedDidAll`), a stream that says complete has sent every line
  (`CompleteHasAll`); whoever is connected is in its channel, unless the heartbeat came late (`NobodyLost`):
  a coroutine that deletes a channel by its name cannot meet a newer set, because its iteration would have
  raised, and going over a copy of the set would lose clients; the matcher forgets no trade and
  leaves none that fits, and equal runs are in full parity (`Accounted`); the portfolio breaker's
  `TradingIsSafe` and `SizeIsEarned`.

Bounds. Two processes for three runs allow a restart of one run beside
another and a late writer of the first; a limit of one discovery is
the smallest that can be exceeded. `STALE = 2` lets a heartbeat be missed once
before it is stale. Screening, paper and data workers follow subsets of the paths of the two
kinds the run has. Two paper sessions are what a restore beside a session, or a
second start, needs; two waiting signals let a resume wait behind a halt; two
retries reach the limit after a reset; one crash is an orphan, or a switch without signals. The limits of the risk runs are chosen so
that each check fires alone: drawdown at 20, daily loss at 2 of 80, streaks of
two, exposure from two instruments that single ones do not reach. Three jobs over
the archive let one die, a second overlap and a third repair. A population of three
with two elites leaves one slot to an offspring and one to an immigrant, and in
crowding one pair; `ConvGens = 1` lets the search converge before its third and last
generation; of three long genomes two are near, so with `TopK = 2` selection skips one and
can still reach its limit. One breeding of two parents passes every operator: what a
second generation adds is reached by starting from any content. Five bars let a delayed
entry fill, move its trailing stop, close and enter again, over a day of four.
Two commands and one kill are a campaign resumed from every commit; two out-of-sample windows
let the kill fall between them. Three combinations hold a tie, a domination
and an incomparable pair. Two executions are a run and its rerun. Three sockets and three loops are
a loss while the first reconnect is under way, and a loop orphaned. Three clients let one channel empty and fill again while a
coroutine waits, with the heartbeat still at another channel. Two positions on each side, a tolerance
of one and three times let a trade take the neighbour of another.

Fairness. The kill handler and the other handlers of the API run to their end,
the event loop of a node takes the signals that wait and finishes its shutdown, and
a worker that does not hang goes on: weak fairness. `SyncBegin` of a discovery is
strongly fair, because the dashboard polls the list of discoveries every five seconds
(`frontend/src/routes/discovery.tsx`) and `list_discovery_jobs` syncs each; other
requests may come between two polls. The search is one process whose
back-tests end (`MCSpec`): weak fairness of its next step. A campaign's runner and its workers run
on (`FairSpec` of `Campaign`): nothing makes a user start another command. `FeedFairness`: the
event loop runs every task that is ready, and the library ends an attempt to connect.
No fairness is assumed of operators, errors, crashes, losses or time.

Deadlock. `CHECK_DEADLOCK FALSE` is set where the system really stops: all
runs are done or a bound on jobs, commands, executions, bars or sockets is used up.
The other runs check it.

Each property has a mutant: a definition changed the way a plausible bug would
change it, kept beside the original and named after it (`Kill_TermOnly`,
`Finish_Early`), under which the run finds the property violated.

## 4. Proofs

All theorems are of the form `Spec => []Inv` or `Spec => [][A]_vars`, or that one specification
implies another, from the named assumptions on the constants only. Types (`TypeOK`) are proved and
not listed in the runs; so are `TrackedWorker`, `RestoreAlone`, `HaltedTradesNothing`,
`ThroughCooldown`, `OneSnapshot`, `DirectionKept`, `TopDiverse` and `ResultsAligned`,
which the runs checked while they were developed. The inductive invariants were checked by TLC on
the bounds of the runs before they were proved.

The assumptions say what the code has without checking it. `ConfigAssumption`: the windows of a campaign are lists and
`top_k` is a natural number, as the command line and the YAML file give it. `ArchiveConfig`: the venue's
archive begins at some month and at least one bar type is converted. `ChannelsConfig`: the endpoints broadcast only to
the channels there are, and coroutines and connections are different things. `RangesAssumption`: a range has a lower
and an upper end, every indicator of a pool has its ranges, and those of the two periods of MACD lie as in `indicators.py:616`, without
which bringing them in order could leave them. `FirstsAssumption`: a population is a list of what the genetic operators could have made,
from a random chromosome or from an indicator that is in no pool now: a run may be seeded with what an earlier run reported, made with the same
ranges. `FilterAssumption`: what `CVConfig` accepts, at least
two folds and fractions below one, here in whole percents. `GridAssumption`: no combination is twice in a grid.
`ProgramAssumption`: the operands of a condition are the three kinds `conditions.py` parses, prices are integers, and the
average true range a stop is placed by is positive: a market that does not move at all is left out.
`BooksAssumption`: the account nets, so that the positions of one symbol follow one another (`venue.py:197`). `ConfigsAssumption`: a
run's symbols are known ones, and a row may come without detail bars and latency, as a batch makes it. `SpansAssumption`: the spans
of a walk-forward run are positive. `SymbolsAssumption`: the symbols are finitely many. `ReconConfig`: the
tolerance is a natural number, as the endpoint takes it, and no position has an empty id.

*JobLifecycle.* `TrackedWorker` is not inductive: that a report goes to the right
row rests on which processes can still write. The inductive invariant adds where
a process stands with respect to the handler in flight, and that at most one
process of a run is neither dead nor orphaned; `SingleWorker` and
`KilledStaysKilled` follow. The limit needs more than counting rows: `launch_discovery` counts rows that say
running, and `TrackedWorker` with `SingleWorker` maps the processes at work one-to-one into those rows
(`LimitInv`). The tables agree (`Agree`) at every step of a handler but one: between `Popen` and the
commit of `start_job`, when the new worker may report before its row exists.

*PaperTrading.* The invariant says of each node record what its fields remember
(a node that never ran is fresh; an error halt remembers the state before it), of
the rows which processes they stand for (`RowsTell`), that at most one launched session has its row
still to be written (`OneUnwritten`), that sessions with symbols are alone but for orphans (`Alone`),
and of the switch that each node other than an orphan, once signalled, is resumed, has a halt waiting
with no resume behind it, or does not report itself running. The node started by `start_job` is not an orphan yet
while the handler lives: that no kill comes before its row (`SwitchInv`) rests on one handler at a time.

*StrategyRisk.* The timer is honest: while halted, the age in the state is the
time since the last halt; so an expired cooldown is a real one.

*CompiledStrategy.* The generated object's belief of its side is the sign of the exchange's
position between any two events (`SideInv`). An order that protected a position never outlives it: once flat, either no
bracket works or is on its way, or a `cancel_all` stands behind the last of them on the wire
(`SweptInv`), which holds with latency too, because commands arrive in the order they were sent; `NoOrphans` is what is left of it
when the wire is empty. That a position has its stop needs more, and the absence of latency. A flat
strategy has at most an entry on its way, as the last command (`FlatInv`); a position is kept
(`Holding`: all brackets have its size and the other side, and one stop is there or the last word on the wire) or an exit that
closes it is on its way behind nothing but `cancel_all` (`Leaving`). The hard step is an order that fills: the position becomes
flat and the template cancels the rest, or an entry fills and the template submits a stop that the price has not
crossed. An entry delayed by a bar is inside the hours because the action is remembered for
exactly one bar (`HoursInv`), and a crossing is real because what is remembered is
of the bar before or of nothing (`MemoryInv`).

*PortfolioRisk.* The same for both timers: in the cooldown, the time since the
halt is at least one cooldown and the timer.

*MarketData.* Nothing leaves the archive, so what a job has read stays archived
(`SnapsArchived`), and an update's range begins after an archived candle and has
no gaps (`UpdatesAdjoin`). A job that runs alone knows at every stage what each
timeframe holds (`SoloBuilds`), and until jobs overlap every job is alone (`Solo`).

*Validation.* An execution has a result for each window it is through with (`ExecInv`). Its result is stored before its trades,
and its trades at once, behind all others: so they lie together in the table and are the trades of its result, or there are none
(`Block`, `ResultsInv`), and no other process comes between, whatever dies. `CompletedInv` follows, since what sets a run to
completed has been through both commits (`StoredInv`). That the two drawdowns agree is a matter of order. The trades are sorted by
entry at extraction, by entry in the query of the endpoint, and by exit for the curve. For one symbol of a netting account
the three orders are one (`ExtractOrdered`), and a stable sort gives back what is in order (`SortedInOrder`). For that each place must be taken
once: counting what is below an index maps the indices one-to-one into the places, and onto them because there are as many (`PlacesTaken`).
Recursive functions (the equity curve, the joined trades) are shown to exist, and to keep a type, by a least counterexample
(`Least`, `UpTo`, `Recursion`), an induction on sets that needs no operator as a parameter.

*Reconciliation.* A report is a comparison of two lists of round trips (`ReconInv`, by `LoadTyped`), and any such comparison
accounts for its trades (`ComparedAccounted`), so the invariant of the matcher is one of its loop: after n paper trades the pairs are
near and one to one, and of two trades that were near at least one is paired (`Paired`). What is near and unpaired is found, and
the nearest of it taken (`PickIs`, `PairAdds`). If every paper trade has a twin that entered at the same time, no earlier trade can have
taken it, since that one had a twin of its own: so each gets its twin (`TwinsPaired`), and parity is full (`FullOfTwins`).

*Discovery.* That the first selected strategy is the best ever rests on three facts
about the search: a score recorded for a chromosome is its own (`ScoredOwn`, from
`ResultsOwn` of the scores that are coming in), the best of each generation is recorded
(`BestScored`), and the first entry taken from the sorted list leads everything
recorded (`Leader`). The direction constraint is inductive only with the slots of every kind of
evolution bred within it (`NextBred`); the result lists stay parallel because all
are filtered by one enumeration of indices (`Selection`, `FilteredKeeps`).

*Breeding.* `BredValidates` is not inductive, since parents and candidates may be invalid on the way and the check made on
an offspring overlooks the parameters of scalar indicators. What every operator preserves, valid or not, is that a gene has the parameters
of its indicator, inside their ranges when it is in the pool (`Fit`, with one lemma per operator). A fit chromosome
`is_valid_chromosome` accepts is accepted by the full validator (`FitValidates`), and what the run goes on with
was accepted, drawn at random or carried over from such (`ContentInv`).

*Screening and Overfitting.* The front is found by an elimination that compares a result only with what is
still in. Nothing is lost by that, because whatever is dominated is dominated by a result that nothing
dominates (`DominatedByUndominated`); the front so depends neither on the order of the list nor on the ranking, whose places
are taken once each (`Ranking`). Before the rows are saved, each task has been collected once (`DoneInv`). A verdict
is written by an id read long before; it reaches only its own row since ids are never given twice, so that a row in
the list of a pipeline and a row of the table with the same id have the same combination and measurements (`TodoInv`). That what is judged
can be cut (`SplitsSuffice`) is arithmetic on integer quotients: the number of windows that fit is counted by a
bijection with their numbers; and of three folds or more one is always left to train on, a fold that is
not beside the test fold or, between two neighbours, one that its gap does not use up, since the code's
minimum makes purge and embargo together shorter than a fold and a half.

*Campaign.* Three facts carry both invariants and the refinement. A window's discovery row is settled when
the plan is made, since rows are only appended and discoveries only while nothing else is there
(`Planning`); the first report of a run is settled once it is there, because later ones come behind it;
and the plan in the memory of a runner past the planning knows every row (`KnowsRows`), also
when it was loaded from the database after a kill. So a strategy is always what the first report of its
window's newest discovery has in its place (`ReportedInv`), and a row that `plan_oos_validations` adds is of a cell
that has none (`RowsInv`): each step of `Campaign` adds at most one cell to the ledger or leaves it.
A completed run has its result because a worker saves before it reports, whatever it reports first (`ResultInv`). That the next row fits into the
bound of the model is part of the argument too (`CountInv`).

*LogStream.* The events received are a prefix of the lines with repetitions: none comes before an earlier line
(`GotInv`). A connection begins at, or has sent, what the browser has (`PositionInv`), and a final status was read
before the file, which therefore has everything (`SeenInv`).

*EtherealFeed.* While no loop was orphaned, the one that runs is `task` and none is connecting
uncancelled after `disconnect()` (`LoopsInv`). Every topic of the table is at the server of the current socket, or its connect
handler or the caller will still send it (`Covered`), unless that handler raised (`TableInv`).

*EtherealArchive.* What was published when an ingestion began is archived, fetched, or of a series still to be
worked through (`FetchRecord`); likewise for a conversion (`ConvertRecord`). The files of a series are disjoint in
span (`FilesInv`), so that no bar is in two.

*Channels.* A broadcast that found its channel's set keeps a set that somebody is in, or its
iteration raises (`BroadcastInv`); with no late heartbeat every set with members is its channel's (`LiveInv`). Only
one coroutine stands between two awaits (`HolderInv`).

Model-checked only. Liveness (`DiscoveryEnds`, `KillTakesHold`, `PipelineEnds`, `RunnerEnds`,
`LossAnswered`): it needs fairness and `ENABLED`, which are out of the prover's reach. Every safety invariant and every action
property of the passing runs is proved.

## 5. Where code and words differ

Met while modelling; the first two are runs (`paper_kill` and `reconciliation`), the others are described here and kept out of the
properties.

- The kill switch does not stop orders (`paper_kill`, above): a paused or halted node trades on
  (`vq/paper/node.py:772`, 798).
- A paper session that is compared at all agrees with every validation (`reconciliation`, above); with the default
  `logs_path`, `logs/paper` (`vq/paper/cli.py:91`), its log is not found and the endpoint answers 404
  (`vq/api/routers/reconciliation.py:100`).
- A campaign's validations are refused: its rows have the mode `regime_cross_oos`
  (`vq/discovery/campaign.py:315`), the worker takes `validation` only (`vq/validation/runner.py:492`), marks them
  failed and exits, against `campaign.py:13`.
- `crowding_replace` lets offspring in when it is at least as fit; what it is given as its fitness is that of the parent with its
  own number (`vq/discovery/pipeline.py:1351`, "tie = offspring wins"), so offspring matched to the other,
  fitter parent is discarded unmeasured, against the "free pass" of `pipeline.py:1298`.
- The matcher takes the nearest trade, its description says the earliest
  (`vq/reconciliation.py:280`, 318).
- `sync_job_status` writes `failed` by a row it read before it looked at the process; a
  worker that reported in between is overwritten (`vq/jobs/manager.py:456`).
- The clean-up marks data jobs dead while they work: they are started without a
  heartbeat (`vq/api/routers/data.py:202`, against `docs/claude/conventions.md:72`).
- `resume` of a paper session does not look at the kill switch
  (`vq/api/routers/paper_trading.py:312`, against `system.py:3`).
- A restored session does not load its checkpoint (`paper_trading.py:184`, 193).
- Immigrants may replace an elite: they are placed by the scores of the generation
  before (`vq/discovery/pipeline.py:653`, `diversity.py:102`).
- `--seed-from-run` is declared twice, so the discovery worker's parser cannot be built and the process exits
  with a traceback before it writes anything (`vq/discovery/__main__.py:456`, 532).
- The cross-validation writes one and the same verdict on all rows of a sweep: it backtests the strategy's defaults
  (`vq/overfitting/nt_cv_runner.py:192`); its spans to train on cover the test fold (`nt_cv_runner.py:157`).
- The report of the filters lists candidates that were not judged among those that
  passed (`vq/overfitting/pipeline.py:497`, 503).

Behaviour the models keep, that a reader may not expect:

- *Validation.* A run without trades is recorded failed (`runner.py:175`) and then marked
  completed by the worker (`validation/__main__.py:34`), but stays failed in a batch. A book of open positions only
  gives a completed run that counts trades and stores none (`extraction.py:244`). A
  rerun inserts a second result row and mixes its trades with the first, and the endpoints read the
  first row. An error before `running` leaves a batch's run pending. A walk-forward
  run whose step is shorter than its test window counts trades twice, and drawdowns differ there and for several symbols.
- *Screening and filters.* One back-test that raises makes the deflated Sharpe ratio undefined and
  rejects all candidates (`nt_runner.py:82`). The pool's timeout has no effect
  (`pipeline.py:291`). A later pipeline resets the verdicts of an earlier one to NULL.
- *Paper.* If the API dies between the start of a node and the commit of its row, the node goes on and no endpoint
  finds it (`jobs/manager.py:166`, 210); a restore then starts a second one (`paper_trading.py:205`).
- *Jobs.* The router writes `running` over the end of a job that was over before it came to it
  (`api/routers/backtest.py:125`).
- *Venue.* A table that changes its size while the connect handler goes over it makes the handler raise
  (`data_client.py:312`): `connect()` returns, and the topics that were left stay unsubscribed. A loss between the connect event and the return of `connect()` leaves `_connected`
  true (`data_client.py:212`); disconnecting during a reconnect leaks the socket; `_shutdown_event` is never
  cleared, so a client connected again does not reconnect; a failed month is a hole until the next
  ingestion, whose overlapping interval then raises.
- *Channels.* A broadcast raises when a client comes or goes during one of its sends, and its request fails
  after the work is done; the heartbeat ends for good in the same case (`manager.py:76`). A heartbeat that comes late to an
  emptied channel raises `KeyError`, or deletes the channel's new set and its clients hear nothing more.
- *Feed.* `on_disconnect` is to "Cancel any existing reconnect task to avoid orphaned loops"
  (`vq/ethereal/data_client.py:255`), but awaits the end of the old task before it names the new one: of two losses handled
  meanwhile each starts a loop, and the first is known to nobody. `disconnect()` does not end it, and it
  connects a client that was closed. TLC finds it with four sockets and three loops; `StaysClosed` excepts it.
- *Streams.* A line read while it is half-written is sent as far as it goes and its rest never
  (`progress.py:52`); the model numbers lines, so the half counts as sent.
- *Campaign.* Losing windows and `top_k` on a restart (section 2); `--force` adds a second result nobody
  reads; a worker that outlived its runner may run beside its successor.

## 6. Not modelled

- The Telegram limiter: nothing in the code depends on what it lets through.
- The Ethereal execution client and the signing of orders; the paper node's orders and
  positions: they need a model of an exchange's answers the repository does not fix.
- Floating-point algorithms: indicators, fees, fills, funding, sizing, the statistics of
  guardrails and filters, Sharpe ratios. Their verdicts are inputs.
- The translator of older documents, the serialisation of chromosomes to documents, merging the fronts of
  several seeds, the consistency check of a screening candidate.
- CRUD over independent tables, read-only reports, HTTP schemas, the React dashboard, one-off
  scripts. Reuse of pids by the kernel, a database that stays locked, and disks that are full.

## 7. Plan

1. *Refinement*: an abstract job (idle, running, ended) that `JobLifecycle` implements, and an
   abstract session that `PaperTrading` implements.
2. *Modules*: the merge of several seeds, and the exits of a paper node.
