------------------------------ MODULE Campaign ------------------------------
(***************************************************************************)
(* A regime-cross campaign (discovery/campaign.py, driven by               *)
(* scripts/regime_cross_campaign.py): a runner process that plans rows in  *)
(* the state database, starts one worker at a time and waits for it, and   *)
(* can be stopped at any commit and be started again from the database;    *)
(* the workers it starts (discovery/__main__.py, validation/runner.py),    *)
(* which outlive it; and validations a user launches from the dashboard.   *)
(* Every SQLite commit is a step.  What a worker searches or simulates is  *)
(* abstracted to the champions or the trades it ends with; the job table   *)
(* is in JobLifecycle.                                                     *)
(***************************************************************************)
EXTENDS Integers, Sequences, FiniteSets

CONSTANTS
    Train,          \* the training windows of the YAML file, in order
    Oos,            \* its out-of-sample windows, in order
    TopK,           \* its top_k
    LoadedTopK,     \* the top_k of a campaign loaded from the database
    Dsls,           \* strategy documents
    CliOptions,     \* the option strings build_parser declares, in order
    Procs,          \* slots for worker processes
    NoProc, NoWindow,
    Tops,           \* the lists of champions a discovery may report
    MaxTops,        \* bound: their length
    MaxStarts,      \* bound: commands given
    MaxCrash,       \* bound: times the runner is killed
    MaxManual       \* bound: validations launched from the dashboard

ASSUME NoneAssumption == NoProc \notin Procs
\* Lists of windows, and counts.
ASSUME ConfigAssumption ==
    /\ Train \in Seq({Train[i] : i \in DOMAIN Train}) /\ Oos \in Seq({Oos[i] : i \in DOMAIN Oos})
    /\ TopK \in Nat /\ LoadedTopK \in Nat /\ MaxTops \in Nat /\ MaxManual \in Nat
ASSUME TopsAssumption == \A t \in Tops : t \in Seq(Dsls) /\ Len(t) \in 0 .. MaxTops

VARIABLES
    runs,           \* backtest_runs, by id
    results,        \* backtest_results, in order of insertion
    strategies,     \* strategies by their unique name: <<window, index>> -> document
    runner,         \* the runner process
    workers,        \* the worker processes
    starts,         \* commands given so far
    crashes         \* times the runner was killed so far
vars == <<runs, results, strategies, runner, workers, starts, crashes>>

Labels == {Train[i] : i \in DOMAIN Train}
Windows == {Oos[i] : i \in DOMAIN Oos}
Keys == Labels \X (1 .. MaxTops) \X Windows
MaxRows == Len(Train) + Cardinality(Keys) + MaxManual
RunIds == DOMAIN runs
EMPTY == [x \in {} |-> 0]

(***************************************************************************)
(* Rows.  "idx" counts champions from 1.                                   *)
(***************************************************************************)
DiscoveryRow(l) == [mode |-> "discovery", label |-> l, idx |-> 0, oos |-> NoWindow,
                    strategy |-> <<>>, status |-> "pending"]
OosRow(k) == [mode |-> "oos", label |-> k[1], idx |-> k[2], oos |-> k[3],
              strategy |-> <<k[1], k[2]>>, status |-> "pending"]
ManualRow(s) == [mode |-> "validation", label |-> NoWindow, idx |-> 0, oos |-> NoWindow,
                 strategy |-> s, status |-> "pending"]
KeyOf(row) == <<row.label, row.idx, row.oos>>

\* update_backtest_run_status.
SetStatus(id, s) == [runs EXCEPT ![id].status = s]

(***************************************************************************)
(* The plan in the memory of the runner.  "at" is where it is: it plans    *)
(* the discoveries, runs them, reads the champions of window i, plans      *)
(* their validations (strategy j, then its row of window k), and runs the  *)
(* validations.                                                            *)
(***************************************************************************)
Phases == {"idle", "plan", "discover", "extract", "champions", "validate", "done"}
Idle == [at |-> "idle", go |-> FALSE, force |-> FALSE, topK |-> 0, train |-> <<>>, windows |-> <<>>,
         disc |-> EMPTY, oos |-> <<>>, i |-> 1, j |-> 1, k |-> 0, champs |-> <<>>, child |-> NoProc]
NoWorker == [pc |-> "free", run |-> 0, tops |-> <<>>, trades |-> FALSE, rc |-> 0]

At(phase) == runner.at = phase /\ runner.child = NoProc
InPlan(key) == \E e \in DOMAIN runner.oos : runner.oos[e].key = key

TypeOK ==
    /\ \A id \in RunIds : runs[id].status \in {"pending", "running", "completed", "failed"}
    /\ \A r \in DOMAIN results : results[r].run \in RunIds /\ results[r].tops \in Tops
    /\ DOMAIN strategies \subseteq Labels \X (1 .. MaxTops)
    /\ runner.at \in Phases /\ runner.child \in Procs \cup {NoProc}
    /\ \A l \in DOMAIN runner.disc : runner.disc[l] \in RunIds
    /\ \A e \in DOMAIN runner.oos : runner.oos[e].id \in RunIds
    /\ \A p \in Procs : workers[p].pc \in {"free", "boot", "work", "saved", "told", "ended"}

Init ==
    /\ runs = <<>> /\ results = <<>> /\ strategies = EMPTY
    /\ runner = Idle
    /\ workers = [p \in Procs |-> NoWorker]
    /\ starts = 0 /\ crashes = 0

(***************************************************************************)
(* Commands.                                                               *)
(***************************************************************************)
Start(state) ==
    /\ runner.at \in {"idle", "done"}
    /\ starts < MaxStarts
    /\ starts' = starts + 1
    /\ runner' = state
    /\ UNCHANGED <<runs, results, strategies, workers, crashes>>

\* "plan" ends after the rows, "run-all" goes on.  One campaign is followed.
CmdPlan(runAll) ==
    /\ runs = <<>>
    /\ Start([Idle EXCEPT !.at = "plan", !.go = runAll, !.topK = TopK, !.train = Train, !.windows = Oos])

\* The labels of the rows of one mode, in the order of their first row.
LabelsInOrder(mode, field) ==
    LET rows == {id \in RunIds : runs[id].mode = mode}
        firsts == {id \in rows : \A o \in rows : runs[o][field] = runs[id][field] => id <= o}
        Nth(m) == CHOOSE id \in firsts : Cardinality({o \in firsts : o <= id}) = m
    IN [m \in 1 .. Cardinality(firsts) |-> runs[Nth(m)][field]]
\* The newest row of a window: a later one overwrites an earlier one.
NewestRow(l) == CHOOSE id \in RunIds :
                    /\ runs[id].mode = "discovery" /\ runs[id].label = l
                    /\ \A o \in RunIds : runs[o].mode = "discovery" /\ runs[o].label = l => o <= id
OosRows == LET ids == {id \in RunIds : runs[id].mode = "oos"}
               Nth(m) == CHOOSE id \in ids : Cardinality({o \in ids : o <= id}) = m
           IN [m \in 1 .. Cardinality(ids) |-> [key |-> KeyOf(runs[Nth(m)]), id |-> Nth(m)]]

\* Mutant: the plan is loaded without the validations that have rows.
LoadPlan_NoOos == [Idle EXCEPT !.topK = LoadedTopK, !.train = LabelsInOrder("discovery", "label"),
                        !.windows = LabelsInOrder("oos", "oos"),
                        !.disc = [l \in Labels |-> NewestRow(l)]]
\* The configuration is not stored: the windows are those rows are there for.
LoadPlan ==
    LET train == LabelsInOrder("discovery", "label")
    IN [Idle EXCEPT !.topK = LoadedTopK, !.train = train, !.windows = LabelsInOrder("oos", "oos"),
                    !.disc = [l \in {train[m] : m \in DOMAIN train} |-> NewestRow(l)], !.oos = OosRows]

CmdRun(force) ==
    /\ \E id \in RunIds : runs[id].mode = "discovery"
    /\ Start([LoadPlan EXCEPT !.at = "discover", !.go = TRUE, !.force = force])

(***************************************************************************)
(* The runner.                                                             *)
(***************************************************************************)
PlanDiscovery ==
    /\ At("plan") /\ runner.i <= Len(runner.train)
    /\ runs' = Append(runs, DiscoveryRow(runner.train[runner.i]))
    /\ runner' = [runner EXCEPT !.i = @ + 1,
                    !.disc = [l \in DOMAIN @ \cup {runner.train[runner.i]} |->
                                 IF l = runner.train[runner.i] THEN Len(runs) + 1 ELSE @[l]]]
    /\ UNCHANGED <<results, strategies, workers, starts, crashes>>

\* The end of a loop over the windows or the planned validations.
PhaseEnds ==
    /\ \/ At("plan") /\ runner.i > Len(runner.train)
          /\ runner' = IF runner.go THEN [runner EXCEPT !.at = "discover", !.i = 1] ELSE Idle
       \/ At("discover") /\ runner.i > Len(runner.train) /\ runner' = [runner EXCEPT !.at = "extract", !.i = 1]
       \/ At("extract") /\ runner.i > Len(runner.train) /\ runner' = [runner EXCEPT !.at = "validate", !.i = 1]
       \/ At("validate") /\ runner.i > Len(runner.oos) /\ runner' = [runner EXCEPT !.at = "done"]
    /\ UNCHANGED <<runs, results, strategies, workers, starts, crashes>>

\* The run the loop has come to.
Due == IF runner.at = "discover" THEN runner.disc[runner.train[runner.i]] ELSE runner.oos[runner.i].id
AtRun == \/ At("discover") /\ runner.i <= Len(runner.train)
         \/ At("validate") /\ runner.i <= Len(runner.oos)
Skips == ~runner.force /\ runs[Due].status = "completed"

Skip ==
    /\ AtRun /\ Skips
    /\ runner' = [runner EXCEPT !.i = @ + 1]
    /\ UNCHANGED <<runs, results, strategies, workers, starts, crashes>>

Free == {p \in Procs : workers[p].pc = "free"}
Spawned(id) == workers' = [workers EXCEPT ![CHOOSE p \in Free : TRUE] =
                                        [NoWorker EXCEPT !.pc = "boot", !.run = id]]
\* subprocess.run: a new process, and the wait for it.
Launch ==
    /\ AtRun /\ ~Skips
    /\ Free # {} /\ Spawned(Due)
    /\ runner' = [runner EXCEPT !.child = CHOOSE p \in Free : TRUE]
    /\ UNCHANGED <<runs, results, strategies, starts, crashes>>

\* Mutant: a worker that failed is waited for again.
Reap_Retries ==
    /\ runner.child # NoProc /\ workers[runner.child].pc = "ended"
    /\ workers' = [workers EXCEPT ![runner.child] = NoWorker]
    /\ runner' = [runner EXCEPT !.child = NoProc, !.i = IF workers[runner.child].rc = 0 THEN @ + 1 ELSE @]
    /\ UNCHANGED <<runs, results, strategies, starts, crashes>>
\* Whatever the exit code, the runner goes on.
Reap ==
    /\ runner.child # NoProc /\ workers[runner.child].pc = "ended"
    /\ workers' = [workers EXCEPT ![runner.child] = NoWorker]
    /\ runner' = [runner EXCEPT !.child = NoProc, !.i = @ + 1]
    /\ UNCHANGED <<runs, results, strategies, starts, crashes>>

\* extract_top_chromosomes: the first row of the run that the table has.
ReportsOf(id) == {r \in DOMAIN results : results[r].run = id}
\* Mutant: the newest row.
Notes_Newest(id) == IF ReportsOf(id) = {} THEN <<>>
                    ELSE results[CHOOSE r \in ReportsOf(id) : \A o \in ReportsOf(id) : o <= r].tops
Notes(id) == IF ReportsOf(id) = {} THEN <<>>
             ELSE results[CHOOSE r \in ReportsOf(id) : \A o \in ReportsOf(id) : r <= o].tops
TopOf(s, n) == SubSeq(s, 1, IF Len(s) < n THEN Len(s) ELSE n)

Extract ==
    /\ At("extract") /\ runner.i <= Len(runner.train)
    /\ LET champs == TopOf(Notes(runner.disc[runner.train[runner.i]]), runner.topK)
       IN runner' = IF champs = <<>> THEN [runner EXCEPT !.i = @ + 1]
                    ELSE [runner EXCEPT !.at = "champions", !.champs = champs, !.j = 1, !.k = 0]
    /\ UNCHANGED <<runs, results, strategies, workers, starts, crashes>>

\* The next step of plan_oos_validations: another window, champion, or the end.
Advanced ==
    IF runner.k < Len(runner.windows) THEN [runner EXCEPT !.k = @ + 1]
    ELSE IF runner.j < Len(runner.champs) THEN [runner EXCEPT !.j = @ + 1, !.k = 0]
    ELSE [runner EXCEPT !.at = "extract", !.i = @ + 1]

\* create_strategy; a name that exists is reused with what it holds.
PlanStrategy ==
    /\ At("champions") /\ runner.k = 0
    /\ LET name == <<runner.train[runner.i], runner.j>>
       IN strategies' = IF name \in DOMAIN strategies THEN strategies
                        ELSE [s \in DOMAIN strategies \cup {name} |->
                                 IF s = name THEN runner.champs[runner.j] ELSE strategies[s]]
    /\ runner' = Advanced
    /\ UNCHANGED <<runs, results, workers, starts, crashes>>

\* One out-of-sample row, unless the plan has it.
PlanOos ==
    /\ At("champions") /\ runner.k > 0
    /\ LET key == <<runner.train[runner.i], runner.j, runner.windows[runner.k]>>
       IN IF InPlan(key) THEN runs' = runs /\ runner' = Advanced
          ELSE /\ runs' = Append(runs, OosRow(key))
               /\ runner' = [Advanced EXCEPT !.oos = Append(@, [key |-> key, id |-> Len(runs) + 1])]
    /\ UNCHANGED <<results, strategies, workers, starts, crashes>>

\* The runner is killed; its child dies with it (Ctrl-C) or lives on.
Crash(childDies) ==
    /\ runner.at \notin {"idle", "done"} /\ crashes < MaxCrash
    /\ childDies => runner.child # NoProc
    /\ crashes' = crashes + 1
    /\ runner' = Idle
    /\ workers' = IF childDies THEN [workers EXCEPT ![runner.child] = NoWorker] ELSE workers
    /\ UNCHANGED <<runs, results, strategies, starts>>

(***************************************************************************)
(* The workers.                                                            *)
(***************************************************************************)
Mode(p) == runs[workers[p].run].mode
Becomes(p, pc, rc) == workers' = [workers EXCEPT ![p].pc = pc, ![p].rc = rc]

\* argparse raises on an option string that was declared before.
Parses == \A a, b \in DOMAIN CliOptions : a # b => CliOptions[a] # CliOptions[b]
\* _load_run_config of the validation runner.
LoadsRun(p) == Mode(p) = "validation"

\* The process starts its work; a validation run is marked running.
Begin(p) ==
    /\ workers[p].pc = "boot"
    /\ IF Mode(p) = "discovery" THEN Parses ELSE LoadsRun(p)
    /\ Becomes(p, "work", 0)
    /\ runs' = IF Mode(p) = "discovery" THEN runs ELSE SetStatus(workers[p].run, "running")
    /\ UNCHANGED <<results, strategies, runner, starts, crashes>>

\* It gives up before.  The parser raises, and the run is left alone; or the run
\* is refused by its mode, or the document of its strategy by the schema, and the
\* worker marks it failed.
Refuse(p) ==
    /\ workers[p].pc = "boot"
    /\ Mode(p) = "discovery" => ~Parses
    /\ Becomes(p, "ended", 1)
    /\ runs' = IF Mode(p) = "discovery" THEN runs ELSE SetStatus(workers[p].run, "failed")
    /\ UNCHANGED <<results, strategies, runner, starts, crashes>>

\* save_backtest_result inserts a row, whether or not the run has one.
Save(p, tops, trades) ==
    /\ workers[p].pc = "work"
    /\ IF Mode(p) = "discovery" THEN ~trades ELSE tops = <<>>
    /\ results' = Append(results, [run |-> workers[p].run, tops |-> tops])
    /\ workers' = [workers EXCEPT ![p].pc = "saved", ![p].trades = trades]
    /\ UNCHANGED <<runs, strategies, runner, starts, crashes>>

\* What the validation runner, or the discovery, writes after its result: a
\* validation without trades failed.
FirstStatus(p) == IF Mode(p) = "validation" /\ ~workers[p].trades THEN "failed" ELSE "completed"
Tell(p) ==
    /\ workers[p].pc = "saved"
    /\ runs' = SetStatus(workers[p].run, FirstStatus(p))
    /\ Becomes(p, "told", 0)
    /\ UNCHANGED <<results, strategies, runner, starts, crashes>>

\* Mutant: the run is marked completed before the result is saved.
Finish_Early(p) ==
    /\ workers[p].pc \in {"work", "saved", "told"}
    /\ runs' = SetStatus(workers[p].run, "completed")
    /\ Becomes(p, "ended", 0)
    /\ UNCHANGED <<results, strategies, runner, starts, crashes>>
\* mark_completed of the worker's main: no error was raised, whatever the status.
Finish(p) ==
    /\ workers[p].pc = "told"
    /\ runs' = SetStatus(workers[p].run, "completed")
    /\ Becomes(p, "ended", 0)
    /\ UNCHANGED <<results, strategies, runner, starts, crashes>>

\* An exception: the run is marked failed, whatever has been saved.
Fail(p) ==
    /\ workers[p].pc \in {"work", "saved", "told"}
    /\ runs' = SetStatus(workers[p].run, "failed")
    /\ Becomes(p, "ended", 1)
    /\ UNCHANGED <<results, strategies, runner, starts, crashes>>

\* The process is killed.
Die(p) ==
    /\ workers[p].pc \in {"boot", "work", "saved", "told"}
    /\ Becomes(p, "ended", -9)
    /\ UNCHANGED <<runs, results, strategies, runner, starts, crashes>>

\* A worker nobody waits for leaves the process table.
Gone(p) ==
    /\ workers[p].pc = "ended" /\ runner.child # p
    /\ workers' = [workers EXCEPT ![p] = NoWorker]
    /\ UNCHANGED <<runs, results, strategies, runner, starts, crashes>>

\* launch_validation of the API, for a strategy of the campaign.  Bound: the
\* user looks at the strategies when the campaign is done.
LaunchValidation(s) ==
    /\ runner.at = "done"
    /\ Cardinality({id \in RunIds : runs[id].mode = "validation"}) < MaxManual
    /\ s \in DOMAIN strategies
    /\ Free # {} /\ Spawned(Len(runs) + 1)
    /\ runs' = Append(runs, ManualRow(s))
    /\ UNCHANGED <<results, strategies, runner, starts, crashes>>

RunnerNext == \/ \E b \in BOOLEAN : CmdPlan(b) \/ CmdRun(b) \/ Crash(b)
              \/ PlanDiscovery \/ PhaseEnds \/ Skip \/ Reap \/ Extract \/ PlanStrategy \/ PlanOos \/ Launch
WorkerProceeds(p) == \/ Begin(p) \/ Refuse(p) \/ Tell(p) \/ Finish(p)
                     \/ \E tops \in Tops, t \in BOOLEAN : Save(p, tops, t)
WorkerNext(p) == WorkerProceeds(p) \/ Fail(p) \/ Die(p) \/ Gone(p)
Next == RunnerNext \/ (\E p \in Procs : WorkerNext(p))
        \/ \E s \in DOMAIN strategies : LaunchValidation(s)
Spec == Init /\ [][Next]_vars

\* The runner is one loop, and the work of a worker is finite.
RunnerProceeds == PlanDiscovery \/ PhaseEnds \/ Skip \/ Reap \/ Extract \/ PlanStrategy \/ PlanOos \/ Launch
Fairness == /\ WF_vars(RunnerProceeds)
            /\ \A p \in Procs : WF_vars(WorkerProceeds(p)) /\ WF_vars(Gone(p))
FairSpec == Spec /\ Fairness

-----------------------------------------------------------------------------
(* Properties *)

\* The matrix as build_matrix_report reads it.
Cells == {[key |-> KeyOf(runs[id]), dsl |-> strategies[runs[id].strategy], run |-> id] :
             id \in {o \in RunIds : runs[o].mode = "oos"}}
Ledger == INSTANCE CellLedger WITH cells <- Cells, Rows <- 1 .. MaxRows

\* The matrix only grows, by one cell for each champion and window: however
\* often the runner is killed, started again or forced, a cell once planned
\* keeps its row and its strategy, and gets no second row (plan_oos_validations,
\* "safe to re-call", and the reuse of strategies by name).
MatrixOnlyGrows == Ledger!Spec

\* The champions of a training window were ranked by one and the same report,
\* although a forced or doubled discovery adds reports of its own.
OneReportPerWindow ==
    \A l \in Labels :
        LET ranks == {s[2] : s \in {t \in DOMAIN strategies : t[1] = l}}
        IN ranks # {} =>
             \E r \in DOMAIN results :
                 /\ runs[results[r].run].label = l
                 /\ \A j \in ranks : j <= Len(results[r].tops) /\ results[r].tops[j] = strategies[<<l, j>>]

\* A run that says completed has a result, also the validation without trades that
\* is failed first and completed then: a worker saves before it reports, so the
\* runner skips no window whose champions are missing.
CompletedHasResult ==
    \A id \in RunIds : runs[id].status = "completed" => \E r \in DOMAIN results : results[r].run = id

\* Unless it is killed the runner comes to the end of its campaign, whatever
\* becomes of the workers it starts.
RunnerEnds == [](runner.at # "idle" => <>(runner.at \in {"idle", "done"}))

=============================================================================
