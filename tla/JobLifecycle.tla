---------------------------- MODULE JobLifecycle ----------------------------
(***************************************************************************)
(* The life of a background job of vibe-quant: the API process             *)
(* (jobs/manager.py and the routers that call it), the two tables that     *)
(* describe a job (background_jobs and backtest_runs), and the worker      *)
(* processes it spawns, which write to the same tables through their own   *)
(* connections.                                                            *)
(*                                                                         *)
(* API handlers run on one event loop and contain no await before their    *)
(* last write, so two handlers never interleave; every SQLite commit and   *)
(* every look at a process is a step of its own, because workers run       *)
(* between them.  The API may die at any such point and comes back with    *)
(* empty memory; workers are session leaders and survive it.               *)
(***************************************************************************)
EXTENDS Integers, FiniteSets

CONSTANTS
  Runs,            \* run ids
  Kind,            \* Kind[r]: what the worker of run r does
  Pids,            \* process ids; each is given out once
  NoRun, NoPid,    \* "no run" and "no process"
  STALE,           \* heartbeat ages from STALE on count as stale
  MaxDiscoveries,  \* _MAX_CONCURRENT_DISCOVERIES
  MaxCrash,        \* bound: crashes of the API process
  MaxHang          \* bound: workers that stop responding

Kinds == {"screening", "validation", "discovery", "paper", "data"}

ASSUME KindAssumption  == Kind \in [Runs -> Kinds]
ASSUME NoneAssumption  == NoRun \notin Runs /\ NoPid \notin Pids
ASSUME BoundAssumption == /\ STALE \in Nat \ {0}
                          /\ MaxDiscoveries \in Nat
                          /\ MaxCrash \in Nat
                          /\ MaxHang \in Nat

VARIABLES
  job,       \* the background_jobs row of a run
  run,       \* backtest_runs.status ("none": data jobs have no such row)
  pc,        \* where each worker process is
  owner,     \* the run a process was spawned for
  hung,      \* processes that no longer make progress
  api,       \* the API handler in flight
  orphaned,  \* history: runs whose start_job died between Popen and commit
  crashes    \* API crashes so far

vars == <<job, run, pc, owner, hung, api, orphaned, crashes>>

Terminal  == {"completed", "failed", "killed"}
JobStatus == {"none", "running"} \cup Terminal
RunStatus == {"none", "pending", "running"} \cup Terminal

\* A worker goes boot -> work -> wroteOk/wroteErr -> marked -> dead.
Working == {"boot", "work", "wroteOk", "wroteErr"}
PcState == {"free", "marked", "dead"} \cup Working

ApiOps == {"idle", "spawn", "launched", "kill", "sync", "stale"}

TypeOK ==
  /\ job \in [Runs -> [status : JobStatus, pid : Pids \cup {NoPid}, beat : 0 .. STALE]]
  /\ run \in [Runs -> RunStatus]
  /\ pc \in [Pids -> PcState]
  /\ owner \in [Pids -> Runs \cup {NoRun}]
  /\ hung \in SUBSET Pids
  /\ api \in [op : ApiOps, runs : SUBSET Runs, pid : Pids \cup {NoPid}]
  /\ orphaned \in SUBSET Runs
  /\ crashes \in 0 .. MaxCrash

Idle == [op |-> "idle", runs |-> {}, pid |-> NoPid]

Init ==
  /\ job = [r \in Runs |-> [status |-> "none", pid |-> NoPid, beat |-> 0]]
  /\ run = [r \in Runs |-> IF Kind[r] = "data" THEN "none" ELSE "pending"]
  /\ pc = [p \in Pids |-> "free"]
  /\ owner = [p \in Pids |-> NoRun]
  /\ hung = {}
  /\ api = Idle
  /\ orphaned = {}
  /\ crashes = 0

-----------------------------------------------------------------------------
(* What the statements of the two tables do.  An UPDATE of a row that does *)
(* not exist changes nothing.                                              *)

SetJobs(R, s) ==
  [r \in Runs |-> IF r \in R /\ job[r].status # "none"
                  THEN [job[r] EXCEPT !.status = s] ELSE job[r]]

SetRuns(R, s) ==
  [r \in Runs |-> IF r \in R /\ run[r] # "none" THEN s ELSE run[r]]

\* Mutants: the run table is forgotten; a status the tables do not know.
UpdateJobStatus_JobTableOnly(R, s) ==
  /\ job' = SetJobs(R, s)
  /\ run' = run
\* _update_job_status with a terminal status: both tables in one commit.
UpdateJobStatus(R, s) ==
  /\ job' = SetJobs(R, s)
  /\ run' = SetRuns(R, s)

\* The row of r after a heartbeat.
Refreshed(r) ==
  IF r \in Runs /\ job[r].status # "none" THEN [job EXCEPT ![r].beat = 0] ELSE job

Alive(p)  == p \in Pids /\ pc[p] \notin {"free", "dead"}
IsIdle    == api.op = "idle"
Busy(op)  == api.op = op

\* Mutant: the signal is not escalated to SIGKILL.
Kill_TermOnly(p) == pc

\* The process table after SIGKILL to the process group of p.
Kill(p) == IF Alive(p) THEN [pc EXCEPT ![p] = "dead"] ELSE pc

\* Mutant: a zombie counts as alive (no waitpid).
IsProcessAlive_Zombie(p) == p \in Pids /\ pc[p] # "free"

\* is_process_alive: a process that ended is reaped, and is not alive.
IsProcessAlive(p) == Alive(p)

-----------------------------------------------------------------------------
(* The API process *)

\* Discovery jobs whose row says running, and those whose process is dead.
RunningDiscoveries ==
  {r \in Runs : Kind[r] = "discovery" /\ job[r].status = "running"}
DeadDiscoveries == {r \in RunningDiscoveries : ~ IsProcessAlive(job[r].pid)}

\* Mutant: the limit is off by one.
BelowLimit_OffByOne ==
  Cardinality(RunningDiscoveries \ DeadDiscoveries) <= MaxDiscoveries

\* launch_discovery refuses at the limit.
BelowLimit ==
  Cardinality(RunningDiscoveries \ DeadDiscoveries) < MaxDiscoveries

\* Mutant: no check for an active job.
NotActive_Unchecked(r) == TRUE

\* start_job refuses a run whose row says running.
NotActive(r) == job[r].status # "running"

\* A launch endpoint up to Popen.  launch_discovery first syncs every running
\* discovery job and refuses above the limit.
Spawn(r, p) ==
  /\ IsIdle
  /\ NotActive(r)
  /\ pc[p] = "free"
  /\ Kind[r] = "discovery" => BelowLimit
  /\ UpdateJobStatus(IF Kind[r] = "discovery" THEN DeadDiscoveries ELSE {}, "failed")
  /\ pc' = [pc EXCEPT ![p] = "boot"]
  /\ owner' = [owner EXCEPT ![p] = r]
  /\ api' = [op |-> "spawn", runs |-> {r}, pid |-> p]
  /\ UNCHANGED <<hung, orphaned, crashes>>

\* The row start_job writes for a job it has just spawned.
StartedRow(p) == [status |-> "running", pid |-> p, beat |-> 0]

\* start_job's commit: INSERT or UPDATE of the job row, and the run row.
StartCommit ==
  /\ Busy("spawn")
  /\ job' = [r \in Runs |-> IF r \in api.runs THEN StartedRow(api.pid) ELSE job[r]]
  /\ run' = SetRuns(api.runs, "running")
  /\ api' = IF \E r \in api.runs : Kind[r] = "data" THEN Idle ELSE [api EXCEPT !.op = "launched"]
  /\ UNCHANGED <<pc, owner, hung, orphaned, crashes>>

\* The router's own update_backtest_run_status(run_id, "running", pid) after
\* start_job returned, through the other connection.
RouterWrite ==
  /\ Busy("launched")
  /\ run' = SetRuns(api.runs, "running")
  /\ api' = Idle
  /\ UNCHANGED <<job, pc, owner, hung, orphaned, crashes>>

\* kill_job reads the row, sends SIGTERM and starts to wait.  A worker that
\* obeys the signal does so by WorkerDies.
KillBegin(r) ==
  /\ IsIdle
  /\ job[r].status = "running"
  /\ api' = [op |-> "kill", runs |-> {r}, pid |-> job[r].pid]
  /\ UNCHANGED <<job, run, pc, owner, hung, orphaned, crashes>>

\* The end of kill_job: SIGKILL if the process is still there, then the
\* status write, which does not look at the row again.
KillEnd ==
  /\ Busy("kill")
  /\ pc' = Kill(api.pid)
  /\ UpdateJobStatus(api.runs, "killed")
  /\ api' = Idle
  /\ UNCHANGED <<owner, hung, orphaned, crashes>>

\* sync_job_status reads the row ...
SyncBegin(r) ==
  /\ IsIdle
  /\ job[r].status = "running"
  /\ api' = [op |-> "sync", runs |-> {r}, pid |-> job[r].pid]
  /\ UNCHANGED <<job, run, pc, owner, hung, orphaned, crashes>>

\* ... then looks at the process, and writes if it is dead.
SyncEnd ==
  /\ Busy("sync")
  /\ IF IsProcessAlive(api.pid)
     THEN UNCHANGED <<job, run>>
     ELSE UpdateJobStatus(api.runs, "failed")
  /\ api' = Idle
  /\ UNCHANGED <<pc, owner, hung, orphaned, crashes>>

\* list_stale_jobs of cleanup_stale_jobs: one SELECT.
StaleJobs == {r \in Runs : job[r].status = "running" /\ job[r].beat >= STALE}

StaleBegin ==
  /\ IsIdle
  /\ StaleJobs # {}
  /\ api' = [op |-> "stale", runs |-> StaleJobs, pid |-> NoPid]
  /\ UNCHANGED <<job, run, pc, owner, hung, orphaned, crashes>>

\* One turn of cleanup_stale_jobs's loop: SIGKILL, then the status write.
StaleOne(r) ==
  /\ Busy("stale")
  /\ r \in api.runs
  /\ pc' = Kill(job[r].pid)
  /\ UpdateJobStatus({r}, "failed")
  /\ api' = IF api.runs = {r} THEN Idle ELSE [api EXCEPT !.runs = @ \ {r}]
  /\ UNCHANGED <<owner, hung, orphaned, crashes>>

\* The API process dies and is started again: nothing of a handler in flight
\* survives, and _lifespan touches no job.
ApiCrash ==
  /\ crashes < MaxCrash
  /\ crashes' = crashes + 1
  /\ api' = Idle
  /\ orphaned' = IF Busy("spawn") THEN orphaned \cup api.runs ELSE orphaned
  /\ UNCHANGED <<job, run, pc, owner, hung>>

-----------------------------------------------------------------------------
(* The workers *)

CanStep(p) == Alive(p) /\ p \notin hung

\* The worker reaches run_with_heartbeat; the heartbeat thread writes at once.
\* ValidationRunner.run also marks the run row running before its backtest.
\* Data workers get no run id and do neither.
WorkerBoot(p) ==
  /\ CanStep(p)
  /\ pc[p] = "boot"
  /\ pc' = [pc EXCEPT ![p] = "work"]
  /\ job' = IF Kind[owner[p]] = "data" THEN job ELSE Refreshed(owner[p])
  /\ run' = IF Kind[owner[p]] = "validation" THEN SetRuns({owner[p]}, "running") ELSE run
  /\ UNCHANGED <<owner, hung, api, orphaned, crashes>>

\* The heartbeat thread runs until stop_heartbeat, after mark_completed.
Beating(p) ==
  CanStep(p) /\ pc[p] # "boot" /\ Kind[owner[p]] # "data"

Heartbeat(p) ==
  /\ Beating(p)
  /\ job' = Refreshed(owner[p])
  /\ UNCHANGED <<run, pc, owner, hung, api, orphaned, crashes>>

\* The run-row write of a screening, discovery or validation worker at the end
\* of its work: StateManager.update_backtest_run_status in a commit of its own.
\* A validation run without trades is recorded failed, but returns its result.
Recorded(p) ==
  CASE Kind[owner[p]] \in {"screening", "discovery"} -> {"completed"}
    [] Kind[owner[p]] = "validation" -> {"completed", "failed"}
    [] OTHER -> {}

RecordOk(p, s) ==
  /\ CanStep(p)
  /\ pc[p] = "work"
  /\ s \in Recorded(p)
  /\ run' = SetRuns({owner[p]}, s)
  /\ pc' = [pc EXCEPT ![p] = "wroteOk"]
  /\ UNCHANGED <<job, owner, hung, api, orphaned, crashes>>

RecordError(p) ==
  /\ CanStep(p)
  /\ pc[p] = "work"
  /\ Kind[owner[p]] \in {"screening", "discovery", "validation"}
  /\ run' = SetRuns({owner[p]}, "failed")
  /\ pc' = [pc EXCEPT ![p] = "wroteErr"]
  /\ UNCHANGED <<job, owner, hung, api, orphaned, crashes>>

\* What a worker passes to mark_completed: paper workers report without a
\* run-row write, and a validation run can fail before it reaches one.
Outcomes(p) ==
  CASE pc[p] = "wroteOk"  -> {"completed"}
    [] pc[p] = "wroteErr" -> {"failed"}
    [] pc[p] = "work" /\ Kind[owner[p]] = "paper"      -> {"completed", "failed"}
    [] pc[p] = "work" /\ Kind[owner[p]] = "validation" -> {"failed"}
    [] OTHER -> {}

\* mark_completed in the worker: no look at the row's status.
MarkCompleted(p) ==
  /\ CanStep(p)
  /\ \E s \in Outcomes(p) : UpdateJobStatus({owner[p]}, s)
  /\ pc' = [pc EXCEPT ![p] = "marked"]
  /\ UNCHANGED <<owner, hung, api, orphaned, crashes>>

\* The worker ends after its report, or a data worker after its work.
WorkerExit(p) ==
  /\ CanStep(p)
  /\ pc[p] \in IF Kind[owner[p]] = "data" THEN {"work"} ELSE {"marked"}
  /\ pc' = [pc EXCEPT ![p] = "dead"]
  /\ UNCHANGED <<job, run, owner, hung, api, orphaned, crashes>>

\* The worker ends without a report: it crashes, is killed from outside, obeys
\* SIGTERM, or takes one of the early returns that write nothing.
WorkerDies(p) ==
  /\ Alive(p)
  /\ pc' = [pc EXCEPT ![p] = "dead"]
  /\ UNCHANGED <<job, run, owner, hung, api, orphaned, crashes>>

WorkerHangs(p) ==
  /\ CanStep(p)
  /\ Cardinality(hung) < MaxHang
  /\ hung' = hung \cup {p}
  /\ UNCHANGED <<job, run, pc, owner, api, orphaned, crashes>>

-----------------------------------------------------------------------------
(* Time: heartbeat ages grow.  A worker that is not hung boots and beats   *)
(* (every 30 s) well within the stale threshold (120 s): time does not     *)
(* reach the threshold before it did.                                      *)

OnTime(p) ==
  (CanStep(p) /\ Kind[owner[p]] # "data" /\ job[owner[p]].status = "running")
     => job[owner[p]].beat + 1 < STALE

Tick ==
  /\ \A p \in Pids : OnTime(p)
  /\ \E r \in Runs : job[r].status = "running" /\ job[r].beat < STALE
  /\ job' = [r \in Runs |->
               IF job[r].status = "running" /\ job[r].beat < STALE
               THEN [job[r] EXCEPT !.beat = @ + 1] ELSE job[r]]
  /\ UNCHANGED <<run, pc, owner, hung, api, orphaned, crashes>>

-----------------------------------------------------------------------------
ApiNext ==
  \/ \E r \in Runs, p \in Pids : Spawn(r, p)
  \/ StartCommit
  \/ RouterWrite
  \/ \E r \in Runs : KillBegin(r)
  \/ KillEnd
  \/ \E r \in Runs : SyncBegin(r)
  \/ SyncEnd
  \/ StaleBegin
  \/ \E r \in Runs : StaleOne(r)
  \/ ApiCrash

WorkerNext(p) ==
  \/ WorkerBoot(p)
  \/ Heartbeat(p)
  \/ \E s \in Terminal : RecordOk(p, s)
  \/ RecordError(p)
  \/ MarkCompleted(p)
  \/ WorkerExit(p)
  \/ WorkerDies(p)
  \/ WorkerHangs(p)

Next == ApiNext \/ (\E p \in Pids : WorkerNext(p)) \/ Tick

Spec == Init /\ [][Next]_vars

\* A handler in flight runs to its end.
ApiProceeds ==
  StartCommit \/ RouterWrite \/ KillEnd \/ SyncEnd \/ \E r \in Runs : StaleOne(r)

\* The work of a worker is finite, and it goes on unless it hangs.
WorkerProceeds(p) ==
  WorkerBoot(p) \/ (\E s \in Terminal : RecordOk(p, s)) \/ MarkCompleted(p) \/ WorkerExit(p)

\* While the dashboard is open it lists the discovery jobs every few seconds,
\* and list_discovery_jobs syncs each of them: between other requests it gets
\* its turn again and again.
Fairness ==
  /\ WF_vars(ApiProceeds)
  /\ \A p \in Pids : WF_vars(WorkerProceeds(p))
  /\ \A r \in Runs : Kind[r] = "discovery" => SF_vars(SyncBegin(r))

FairSpec == Spec /\ Fairness

-----------------------------------------------------------------------------
(* Properties *)

\* p is between Popen and start_job's commit: no row names it yet.
Unregistered(p) == Busy("spawn") /\ api.pid = p

\* A worker of a run for which no start_job died half-way, still at work.
AtWork(p) == pc[p] \in Working /\ owner[p] \notin orphaned

\* As long as a worker has not reported, the row of its run says running and
\* names it: kill_job, sync_job_status, cleanup_stale_jobs and the reports of
\* other workers never take a job out of the table while its process works.
TrackedWorker ==
  \A p \in Pids :
    AtWork(p) /\ ~ Unregistered(p) =>
      job[owner[p]].status = "running" /\ job[owner[p]].pid = p

\* start_job's "already has an active job" check and what it relies on: one run
\* never has two workers at work, whatever was killed, synced or restarted.
SingleWorker ==
  \A p, q \in Pids :
    AtWork(p) /\ AtWork(q) /\ owner[p] = owner[q] => p = q

\* The limit of launch_discovery bounds processes, not only rows.
DiscoveryLimit ==
  Cardinality({p \in Pids : AtWork(p) /\ Kind[owner[p]] = "discovery"}) <= MaxDiscoveries

\* When nobody is at work on a run any more, the two tables do not contradict
\* each other: both final, they are equal.  (backtest_runs may be left at
\* running by RouterWrite.)
TablesAgree ==
  \A r \in Runs \ orphaned :
    /\ IsIdle
    /\ job[r].status \in Terminal
    /\ \A p \in Pids : owner[p] = r => pc[p] \notin Working
    => run[r] \in {job[r].status, "running", "none"}

\* A killed job stays killed in both tables until its run is started again:
\* no late report of its worker gets through.
KilledStaysKilled ==
  [][\A r \in Runs \ orphaned :
       job[r].status = "killed" /\ r \notin api.runs /\ r \notin api'.runs =>
         job'[r].status = "killed" /\ run'[r] = run[r]]_vars

\* A discovery job does not say running for ever: its worker reports, or its
\* death is found by a sync.  Only a worker that hangs can keep it running.
DiscoveryEnds ==
  \A r \in Runs : Kind[r] = "discovery" =>
    (job[r].status = "running" ~> job[r].status # "running" \/ job[r].pid \in hung)
=============================================================================
