------------------------ MODULE JobLifecycle_proof ------------------------
(***************************************************************************)
(* What holds of JobLifecycle for any runs, kinds, process ids and bounds. *)
(* The heart is TrackedWorker: whoever writes a final status has, at that  *)
(* point, either just killed the process the row names, or seen it dead,   *)
(* or is that process.  It needs to know which row a handler in flight is  *)
(* about (ApiRefers) and that a row is not running while its run is being  *)
(* started (SpawnFresh); SingleWorker and TrackedWorker need each other.   *)
(* The limit on discoveries and the agreement of the tables rest on it.    *)
(***************************************************************************)
EXTENDS JobLifecycle, FiniteSetTheorems, TLAPS

\* A process that was given out belongs to a run.
Owned == \A p \in Pids : pc[p] # "free" => owner[p] \in Runs

\* What the handler in flight remembers still matches the tables.
ApiRefers ==
  /\ Busy("spawn") => api.pid \in Pids /\ api.runs = {owner[api.pid]}
  /\ api.op \in {"kill", "sync"} => \A r \in api.runs : job[r].pid = api.pid

\* start_job's check still holds when it commits.
SpawnFresh == Busy("spawn") => \A r \in api.runs : job[r].status # "running"

IInv == TypeOK /\ Owned /\ ApiRefers /\ SpawnFresh /\ TrackedWorker /\ SingleWorker

-----------------------------------------------------------------------------
(* The statements of the tables. *)

\* SetJobs changes the status of the rows it names, and nothing else.
LEMMA SetJobsLemma ==
  ASSUME TypeOK, NEW R \in SUBSET Runs, NEW s \in Terminal
  PROVE  /\ SetJobs(R, s) \in [Runs -> [status : JobStatus, pid : Pids \cup {NoPid}, beat : 0 .. STALE]]
         /\ \A r \in Runs : /\ SetJobs(R, s)[r].pid = job[r].pid
                            /\ r \notin R => SetJobs(R, s)[r] = job[r]
                            /\ SetJobs(R, s)[r].status = "running" => r \notin R
                            /\ SetJobs(R, s)[r].status # "running" => r \in R \/ job[r].status # "running"
  BY DEF SetJobs, TypeOK, JobStatus, Terminal

\* SetRuns writes the rows it names, and nothing else.
LEMMA SetRunsLemma ==
  ASSUME TypeOK, NEW R \in SUBSET Runs, NEW s \in RunStatus
  PROVE  /\ SetRuns(R, s) \in [Runs -> RunStatus]
         /\ \A r \in Runs : r \notin R => SetRuns(R, s)[r] = run[r]
  BY DEF SetRuns, TypeOK

\* A heartbeat changes no status and no pid.
LEMMA RefreshedLemma ==
  ASSUME TypeOK, NEW q
  PROVE  /\ Refreshed(q) \in [Runs -> [status : JobStatus, pid : Pids \cup {NoPid}, beat : 0 .. STALE]]
         /\ \A r \in Runs : /\ Refreshed(q)[r].status = job[r].status
                            /\ Refreshed(q)[r].pid = job[r].pid
  BY BoundAssumption DEF Refreshed, TypeOK

\* SIGKILL ends the process, and no other.
LEMMA KillLemma ==
  ASSUME TypeOK, NEW q
  PROVE  /\ Kill(q) \in [Pids -> PcState]
         /\ \A p \in Pids : /\ p # q => Kill(q)[p] = pc[p]
                            /\ p = q => Kill(q)[p] \notin Working
                            /\ Kill(q)[p] # pc[p] => Kill(q)[p] = "dead" /\ pc[p] # "free"
  BY DEF Kill, Alive, TypeOK, PcState, Working

-----------------------------------------------------------------------------
LEMMA TypeInit == Init => IInv
  <1> SUFFICES ASSUME Init PROVE IInv
    OBVIOUS
  <1>1. TypeOK
    BY BoundAssumption DEF Init, TypeOK, JobStatus, RunStatus, PcState, Working, Terminal, ApiOps, Idle
  <1>2. \A p \in Pids : pc[p] = "free"
    BY DEF Init
  <1>3. Owned /\ TrackedWorker /\ SingleWorker
    BY <1>2 DEF Owned, TrackedWorker, SingleWorker, AtWork, Working
  <1>4. ApiRefers /\ SpawnFresh
    BY DEF Init, ApiRefers, SpawnFresh, Busy, Idle
  <1> QED BY <1>1, <1>3, <1>4 DEF IInv


-----------------------------------------------------------------------------
(* The inductive step, action by action. *)

\* Every action keeps the types.
LEMMA TypeStep == TypeOK /\ Owned /\ ApiRefers /\ [Next]_vars => TypeOK'
  <1> SUFFICES ASSUME TypeOK, Owned, ApiRefers, [Next]_vars PROVE TypeOK'
    OBVIOUS
  <1> USE BoundAssumption
  <1>1. ASSUME NEW r \in Runs, NEW p \in Pids, Spawn(r, p) PROVE TypeOK'
    <2> DEFINE D == IF Kind[r] = "discovery" THEN DeadDiscoveries ELSE {}
    <2>1. D \in SUBSET Runs
      BY DEF DeadDiscoveries, RunningDiscoveries
    <2>2. /\ job' = SetJobs(D, "failed") /\ run' = SetRuns(D, "failed")
          /\ pc' = [pc EXCEPT ![p] = "boot"] /\ owner' = [owner EXCEPT ![p] = r]
          /\ api' = [op |-> "spawn", runs |-> {r}, pid |-> p]
          /\ UNCHANGED <<hung, orphaned, crashes>>
      BY <1>1 DEF Spawn, UpdateJobStatus
    <2>3. /\ job' \in [Runs -> [status : JobStatus, pid : Pids \cup {NoPid}, beat : 0 .. STALE]]
          /\ run' \in [Runs -> RunStatus]
      BY <2>1, <2>2, SetJobsLemma, SetRunsLemma DEF Terminal, RunStatus
    <2> QED BY <2>1, <2>2, <2>3 DEF TypeOK, PcState, Working, ApiOps
  <1>2. CASE StartCommit
    <2>1. SetRuns(api.runs, "running") \in [Runs -> RunStatus]
      BY SetRunsLemma DEF TypeOK, RunStatus
    <2>2. api.pid \in Pids
      BY <1>2 DEF StartCommit, ApiRefers
    <2>3. job' \in [Runs -> [status : JobStatus, pid : Pids \cup {NoPid}, beat : 0 .. STALE]]
      BY <1>2, <2>2 DEF StartCommit, StartedRow, TypeOK, JobStatus
    <2>4. api' \in [op : ApiOps, runs : SUBSET Runs, pid : Pids \cup {NoPid}]
      BY <1>2 DEF StartCommit, TypeOK, Idle, ApiOps
    <2> QED BY <1>2, <2>1, <2>3, <2>4 DEF StartCommit, TypeOK
  <1>3. CASE RouterWrite
    <2>1. SetRuns(api.runs, "running") \in [Runs -> RunStatus]
      BY SetRunsLemma DEF TypeOK, RunStatus
    <2> QED BY <1>3, <2>1 DEF RouterWrite, TypeOK, Idle, ApiOps
  <1>4. ASSUME NEW r \in Runs, KillBegin(r) PROVE TypeOK'
    BY <1>4 DEF KillBegin, TypeOK, ApiOps
  <1>5. CASE KillEnd
    <2>1. /\ SetJobs(api.runs, "killed") \in [Runs -> [status : JobStatus, pid : Pids \cup {NoPid}, beat : 0 .. STALE]]
          /\ SetRuns(api.runs, "killed") \in [Runs -> RunStatus]
          /\ Kill(api.pid) \in [Pids -> PcState]
      BY SetJobsLemma, SetRunsLemma, KillLemma DEF Terminal, RunStatus, TypeOK
    <2> QED BY <1>5, <2>1 DEF KillEnd, UpdateJobStatus, TypeOK, Idle, ApiOps
  <1>6. ASSUME NEW r \in Runs, SyncBegin(r) PROVE TypeOK'
    BY <1>6 DEF SyncBegin, TypeOK, ApiOps
  <1>7. CASE SyncEnd
    <2>1. /\ SetJobs(api.runs, "failed") \in [Runs -> [status : JobStatus, pid : Pids \cup {NoPid}, beat : 0 .. STALE]]
          /\ SetRuns(api.runs, "failed") \in [Runs -> RunStatus]
      BY SetJobsLemma, SetRunsLemma DEF Terminal, RunStatus, TypeOK
    <2> QED BY <1>7, <2>1 DEF SyncEnd, UpdateJobStatus, TypeOK, Idle, ApiOps
  <1>8. CASE StaleBegin
    BY <1>8 DEF StaleBegin, StaleJobs, TypeOK, ApiOps
  <1>9. ASSUME NEW r \in Runs, StaleOne(r) PROVE TypeOK'
    <2>1. /\ SetJobs({r}, "failed") \in [Runs -> [status : JobStatus, pid : Pids \cup {NoPid}, beat : 0 .. STALE]]
          /\ SetRuns({r}, "failed") \in [Runs -> RunStatus]
          /\ Kill(job[r].pid) \in [Pids -> PcState]
      BY SetJobsLemma, SetRunsLemma, KillLemma DEF Terminal, RunStatus, TypeOK
    <2>2. api' \in [op : ApiOps, runs : SUBSET Runs, pid : Pids \cup {NoPid}]
      BY <1>9 DEF StaleOne, TypeOK, Idle, ApiOps
    <2> QED BY <1>9, <2>1, <2>2 DEF StaleOne, UpdateJobStatus, TypeOK
  <1>10. CASE ApiCrash
    BY <1>10 DEF ApiCrash, TypeOK, Idle, ApiOps
  <1>11. ASSUME NEW p \in Pids, WorkerNext(p) PROVE TypeOK'
    <2>1. CASE WorkerBoot(p)
      <3>1. Refreshed(owner[p]) \in [Runs -> [status : JobStatus, pid : Pids \cup {NoPid}, beat : 0 .. STALE]]
        BY RefreshedLemma
      <3>2. owner[p] \in Runs
        BY <2>1 DEF WorkerBoot, Owned
      <3>3. SetRuns({owner[p]}, "running") \in [Runs -> RunStatus]
        BY <3>2, SetRunsLemma DEF RunStatus
      <3> QED BY <2>1, <3>1, <3>3 DEF WorkerBoot, TypeOK, PcState, Working
    <2>2. CASE Heartbeat(p)
      BY <2>2, RefreshedLemma DEF Heartbeat, TypeOK
    <2>3. ASSUME NEW s \in Terminal, RecordOk(p, s) PROVE TypeOK'
      <3>1. owner[p] \in Runs
        BY <2>3 DEF RecordOk, Owned
      <3>2. SetRuns({owner[p]}, s) \in [Runs -> RunStatus]
        BY <3>1, SetRunsLemma DEF RunStatus
      <3> QED BY <2>3, <3>2 DEF RecordOk, TypeOK, PcState, Working
    <2>4. CASE RecordError(p)
      <3>1. owner[p] \in Runs
        BY <2>4 DEF RecordError, Owned
      <3>2. SetRuns({owner[p]}, "failed") \in [Runs -> RunStatus]
        BY <3>1, SetRunsLemma DEF RunStatus, Terminal
      <3> QED BY <2>4, <3>2 DEF RecordError, TypeOK, PcState, Working
    <2>5. CASE MarkCompleted(p)
      <3>1. owner[p] \in Runs
        BY <2>5 DEF MarkCompleted, CanStep, Alive, Owned
      <3>2. PICK s \in Terminal : UpdateJobStatus({owner[p]}, s)
        BY <2>5 DEF MarkCompleted, Outcomes, Terminal
      <3>r. {owner[p]} \in SUBSET Runs
        BY <3>1
      <3>3. SetJobs({owner[p]}, s) \in [Runs -> [status : JobStatus, pid : Pids \cup {NoPid}, beat : 0 .. STALE]]
        BY <3>r, SetJobsLemma, ZenonT(60)
      <3>4. s \in RunStatus
        BY DEF RunStatus
      <3>5. SetRuns({owner[p]}, s) \in [Runs -> RunStatus]
        BY <3>1, <3>4, SetRunsLemma
      <3> QED BY <2>5, <3>2, <3>3, <3>5 DEF MarkCompleted, UpdateJobStatus, TypeOK, PcState
    <2>6. CASE WorkerExit(p)
      BY <2>6 DEF WorkerExit, TypeOK, PcState
    <2>7. CASE WorkerDies(p)
      BY <2>7 DEF WorkerDies, TypeOK, PcState
    <2>8. CASE WorkerHangs(p)
      BY <2>8 DEF WorkerHangs, TypeOK
    <2> QED BY <1>11, <2>1, <2>2, <2>3, <2>4, <2>5, <2>6, <2>7, <2>8 DEF WorkerNext
  <1>12. CASE Tick
    <2>1. job' \in [Runs -> [status : JobStatus, pid : Pids \cup {NoPid}, beat : 0 .. STALE]]
      BY <1>12 DEF Tick, TypeOK
    <2> QED BY <1>12, <2>1 DEF Tick, TypeOK
  <1>13. CASE UNCHANGED vars
    BY <1>13 DEF vars, TypeOK
  <1> QED BY <1>1, <1>2, <1>3, <1>4, <1>5, <1>6, <1>7, <1>8, <1>9, <1>10, <1>11, <1>12, <1>13 DEF Next, ApiNext

\* A process that is not alive is not at work.
LEMMA DeadNotWorking ==
  ASSUME NEW p \in Pids, ~ Alive(p) PROVE pc[p] \notin Working
  BY DEF Alive, Working

\* While no start_job is between Popen and commit, a worker's row is running
\* and names it.
LEMMA Tracked ==
  ASSUME TrackedWorker, ~ Busy("spawn"), NEW p \in Pids, AtWork(p)
  PROVE  job[owner[p]].status = "running" /\ job[owner[p]].pid = p
  BY DEF TrackedWorker, Unregistered

\* The steps that write a final status keep every worker tracked, because the
\* worker of each run they write is not at work any more after the step.
LEMMA WriteKeepsTracked ==
  ASSUME IInv, NEW R \in SUBSET Runs, NEW s \in Terminal,
         job' = SetJobs(R, s), owner' = owner, orphaned' = orphaned,
         \A p \in Pids : pc'[p] \in Working => pc[p] \in Working,
         \A p \in Pids : AtWork(p) /\ ~ Unregistered(p) /\ owner[p] \in R => pc'[p] \notin Working,
         \A p \in Pids : Unregistered(p) => Unregistered(p)'
  PROVE  TrackedWorker' /\ SingleWorker'
  <1>1. ASSUME NEW p \in Pids, AtWork(p)', ~ Unregistered(p)'
        PROVE  job'[owner'[p]].status = "running" /\ job'[owner'[p]].pid = p
    <2>1. AtWork(p) /\ ~ Unregistered(p) /\ owner[p] \notin R
      BY <1>1 DEF AtWork
    <2>2. job[owner[p]].status = "running" /\ job[owner[p]].pid = p
      BY <2>1 DEF IInv, TrackedWorker
    <2>3. owner[p] \in Runs
      BY <2>1 DEF AtWork, Working, IInv, Owned
    <2>4. job'[owner[p]] = job[owner[p]]
      BY <2>1, <2>3, SetJobsLemma DEF IInv
    <2> QED BY <2>2, <2>4
  <1>2. TrackedWorker'
    BY <1>1 DEF TrackedWorker
  <1>3. SingleWorker'
    BY DEF IInv, SingleWorker, AtWork
  <1> QED BY <1>2, <1>3

\* Every action keeps the worker of a run tracked and alone.
LEMMA WorkerStep == IInv /\ [Next]_vars => TrackedWorker' /\ SingleWorker'
  <1> SUFFICES ASSUME IInv, [Next]_vars PROVE TrackedWorker' /\ SingleWorker'
    OBVIOUS
  <1>1. ASSUME NEW r \in Runs, NEW p \in Pids, Spawn(r, p) PROVE TrackedWorker' /\ SingleWorker'
    <2> DEFINE D == IF Kind[r] = "discovery" THEN DeadDiscoveries ELSE {}
    <2>1. D \in SUBSET Runs
      BY DEF DeadDiscoveries, RunningDiscoveries
    <2>2. /\ job' = SetJobs(D, "failed") /\ orphaned' = orphaned
          /\ pc' = [pc EXCEPT ![p] = "boot"] /\ owner' = [owner EXCEPT ![p] = r]
          /\ api' = [op |-> "spawn", runs |-> {r}, pid |-> p]
          /\ job[r].status # "running" /\ pc[p] = "free" /\ ~ Busy("spawn")
      BY <1>1 DEF Spawn, UpdateJobStatus, NotActive, IsIdle, Busy
    <2>3. ASSUME NEW q \in Pids, q # p, AtWork(q)'
          PROVE  /\ AtWork(q) /\ owner'[q] = owner[q] /\ owner[q] # r
                 /\ job'[owner[q]].status = "running" /\ job'[owner[q]].pid = q
      <3>1. AtWork(q) /\ owner'[q] = owner[q]
        BY <2>2, <2>3 DEF AtWork, IInv, TypeOK
      <3>2. job[owner[q]].status = "running" /\ job[owner[q]].pid = q
        BY <2>2, <3>1, Tracked DEF IInv
      <3>3. owner[q] \notin D
        BY <3>1, <3>2, DeadNotWorking DEF DeadDiscoveries, IsProcessAlive, AtWork
      <3>4. owner[q] \in Runs
        BY <3>1 DEF AtWork, Working, IInv, Owned
      <3>5. job'[owner[q]] = job[owner[q]]
        BY <2>1, <2>2, <3>3, <3>4, SetJobsLemma DEF IInv, Terminal
      <3> QED BY <2>2, <3>1, <3>2, <3>5
    <2>4. TrackedWorker'
      BY <2>2, <2>3 DEF TrackedWorker, Unregistered, Busy
    <2>5. owner'[p] = r
      BY <2>2 DEF IInv, TypeOK
    <2>6. SingleWorker'
      BY <2>3, <2>5 DEF SingleWorker, IInv
    <2> QED BY <2>4, <2>6
  <1>2. CASE StartCommit
    <2>1. /\ Busy("spawn") /\ UNCHANGED <<pc, owner, orphaned>> /\ ~ Busy("spawn")'
          /\ job' = [r \in Runs |-> IF r \in api.runs THEN StartedRow(api.pid) ELSE job[r]]
          /\ api.pid \in Pids /\ api.runs = {owner[api.pid]}
      BY <1>2 DEF StartCommit, Busy, Idle, IInv, ApiRefers, TypeOK
    <2>2. SingleWorker'
      BY <2>1 DEF IInv, SingleWorker, AtWork
    <2>3. ASSUME NEW q \in Pids, AtWork(q)
          PROVE  job'[owner[q]].status = "running" /\ job'[owner[q]].pid = q
      <3>1. owner[q] \in Runs
        BY <2>3 DEF AtWork, Working, IInv, Owned
      <3>2. CASE q = api.pid
        BY <2>1, <3>1, <3>2 DEF StartedRow
      <3>3. CASE q # api.pid
        <4>1. job[owner[q]].status = "running" /\ job[owner[q]].pid = q
          BY <2>3, <3>3 DEF IInv, TrackedWorker, Unregistered
        <4>2. owner[q] \notin api.runs
          BY <4>1, <2>1 DEF IInv, SpawnFresh
        <4> QED BY <2>1, <3>1, <4>1, <4>2
      <3> QED BY <3>2, <3>3
    <2>4. TrackedWorker'
      BY <2>1, <2>3 DEF TrackedWorker, AtWork
    <2> QED BY <2>2, <2>4
  <1>3. CASE RouterWrite
    BY <1>3 DEF RouterWrite, IInv, TrackedWorker, SingleWorker, AtWork, Unregistered, Busy, Idle
  <1>4. ASSUME NEW r \in Runs, KillBegin(r) \/ SyncBegin(r) PROVE TrackedWorker' /\ SingleWorker'
    BY <1>4 DEF KillBegin, SyncBegin, IInv, TrackedWorker, SingleWorker, AtWork, Unregistered, Busy, IsIdle
  <1>5. CASE KillEnd
    <2>1. /\ job' = SetJobs(api.runs, "killed") /\ pc' = Kill(api.pid)
          /\ UNCHANGED <<owner, orphaned>> /\ Busy("kill") /\ api.runs \in SUBSET Runs
      BY <1>5 DEF KillEnd, UpdateJobStatus, IInv, TypeOK
    <2>2. \A p \in Pids : pc'[p] \in Working => pc[p] \in Working
      BY <2>1, KillLemma DEF IInv, Working
    <2>3. ~ Busy("spawn")
      BY <2>1 DEF Busy
    <2>4. ASSUME NEW p \in Pids, AtWork(p), owner[p] \in api.runs PROVE pc'[p] \notin Working
      <3>1. job[owner[p]].pid = p
        BY <2>3, <2>4, Tracked DEF IInv
      <3>2. p = api.pid
        BY <2>1, <2>4, <3>1 DEF IInv, ApiRefers, Busy
      <3> QED BY <2>1, <3>2, KillLemma DEF IInv
    <2> QED BY <2>1, <2>2, <2>3, <2>4, WriteKeepsTracked DEF Unregistered, Terminal
  <1>6. CASE SyncEnd
    <2>1. /\ UNCHANGED <<pc, owner, orphaned>> /\ Busy("sync") /\ api.runs \in SUBSET Runs
      BY <1>6 DEF SyncEnd, IInv, TypeOK
    <2>2. ~ Busy("spawn")
      BY <2>1 DEF Busy
    <2>3. CASE IsProcessAlive(api.pid)
      BY <1>6, <2>2, <2>3 DEF SyncEnd, IInv, TrackedWorker, SingleWorker, AtWork, Unregistered, Idle
    <2>4. CASE ~ IsProcessAlive(api.pid)
      <3>1. job' = SetJobs(api.runs, "failed")
        BY <1>6, <2>4 DEF SyncEnd, UpdateJobStatus
      <3>2. ASSUME NEW p \in Pids, AtWork(p), owner[p] \in api.runs PROVE FALSE
        <4>1. job[owner[p]].pid = p
          BY <2>2, <3>2, Tracked DEF IInv
        <4>2. p = api.pid
          BY <2>1, <3>2, <4>1 DEF IInv, ApiRefers, Busy
        <4> QED BY <2>4, <3>2, <4>2, DeadNotWorking DEF IsProcessAlive, AtWork
      <3> QED BY <2>1, <2>2, <3>1, <3>2, WriteKeepsTracked DEF Unregistered, Terminal
    <2> QED BY <2>3, <2>4
  <1>7. CASE StaleBegin
    BY <1>7 DEF StaleBegin, IInv, TrackedWorker, SingleWorker, AtWork, Unregistered, Busy, IsIdle
  <1>8. ASSUME NEW r \in Runs, StaleOne(r) PROVE TrackedWorker' /\ SingleWorker'
    <2>1. /\ job' = SetJobs({r}, "failed") /\ pc' = Kill(job[r].pid)
          /\ UNCHANGED <<owner, orphaned>> /\ Busy("stale")
      BY <1>8 DEF StaleOne, UpdateJobStatus
    <2>2. \A p \in Pids : pc'[p] \in Working => pc[p] \in Working
      BY <2>1, KillLemma DEF IInv, Working
    <2>3. ~ Busy("spawn")
      BY <2>1 DEF Busy
    <2>4. ASSUME NEW p \in Pids, AtWork(p), owner[p] = r PROVE pc'[p] \notin Working
      BY <2>1, <2>3, <2>4, Tracked, KillLemma DEF IInv
    <2> QED BY <2>1, <2>2, <2>3, <2>4, WriteKeepsTracked DEF Unregistered, Terminal
  <1>9. CASE ApiCrash
    BY <1>9 DEF ApiCrash, IInv, TypeOK, ApiRefers, TrackedWorker, SingleWorker, AtWork, Unregistered, Busy, Idle
  <1>10. ASSUME NEW p \in Pids, WorkerNext(p) PROVE TrackedWorker' /\ SingleWorker'
    <2>1. CASE Heartbeat(p) \/ WorkerBoot(p)
      <3>1. \A r \in Runs : job'[r].status = job[r].status /\ job'[r].pid = job[r].pid
        BY <2>1, RefreshedLemma DEF Heartbeat, WorkerBoot, IInv
      <3>2. /\ UNCHANGED <<owner, orphaned, api>>
            /\ \A q \in Pids : pc'[q] \in Working => pc[q] \in Working
        BY <2>1 DEF Heartbeat, WorkerBoot, IInv, TypeOK, Working
      <3>3. \A q \in Pids : pc[q] \in Working => owner[q] \in Runs
        BY DEF IInv, Owned, Working
      <3> QED BY <3>1, <3>2, <3>3 DEF IInv, TrackedWorker, SingleWorker, AtWork, Unregistered, Busy
    <2>2. CASE (\E s \in Terminal : RecordOk(p, s)) \/ RecordError(p) \/ WorkerExit(p) \/ WorkerDies(p) \/ WorkerHangs(p)
      <3>1. /\ UNCHANGED <<job, owner, orphaned, api>>
            /\ \A q \in Pids : pc'[q] \in Working => pc[q] \in Working
        BY <2>2 DEF RecordOk, RecordError, WorkerExit, WorkerDies, WorkerHangs, IInv, TypeOK, Working
      <3> QED BY <3>1 DEF IInv, TrackedWorker, SingleWorker, AtWork, Unregistered, Busy
    <2>3. CASE MarkCompleted(p)
      <3>1. PICK s \in Terminal : job' = SetJobs({owner[p]}, s)
        BY <2>3 DEF MarkCompleted, Outcomes, Terminal, UpdateJobStatus
      <3>2. /\ UNCHANGED <<owner, orphaned, api>> /\ pc' = [pc EXCEPT ![p] = "marked"]
            /\ pc[p] \in Working /\ owner[p] \in Runs
        BY <2>3 DEF MarkCompleted, Outcomes, CanStep, Alive, Working, IInv, Owned
      <3>3. \A q \in Pids : pc'[q] \in Working => pc[q] \in Working /\ q # p
        BY <3>2 DEF IInv, TypeOK, Working
      <3>4. ASSUME NEW q \in Pids, AtWork(q), owner[q] = owner[p] PROVE q = p
        BY <3>2, <3>4 DEF IInv, SingleWorker, AtWork
      <3> QED BY <3>1, <3>2, <3>3, <3>4, WriteKeepsTracked DEF Unregistered, Busy
    <2> QED BY <1>10, <2>1, <2>2, <2>3 DEF WorkerNext
  <1>11. CASE Tick
    <2>1. \A r \in Runs : job'[r].status = job[r].status /\ job'[r].pid = job[r].pid
      BY <1>11 DEF Tick, IInv, TypeOK
    <2>2. \A q \in Pids : pc[q] \in Working => owner[q] \in Runs
      BY DEF IInv, Owned, Working
    <2> QED BY <1>11, <2>1, <2>2 DEF Tick, IInv, TrackedWorker, SingleWorker, AtWork, Unregistered, Busy
  <1>12. CASE UNCHANGED vars
    BY <1>12 DEF vars, IInv, TrackedWorker, SingleWorker, AtWork, Unregistered, Busy
  <1> QED BY <1>1, <1>2, <1>3, <1>4, <1>5, <1>6, <1>7, <1>8, <1>9, <1>10, <1>11, <1>12 DEF Next, ApiNext

\* The handler in flight keeps matching the tables: pids in rows change only
\* in start_job, and only processes of the run being started can write it.
LEMMA HandlerStep == IInv /\ [Next]_vars => Owned' /\ ApiRefers' /\ SpawnFresh'
  <1> SUFFICES ASSUME IInv, [Next]_vars PROVE Owned' /\ ApiRefers' /\ SpawnFresh'
    OBVIOUS
  <1>1. ASSUME NEW r \in Runs, NEW p \in Pids, Spawn(r, p) PROVE Owned' /\ ApiRefers' /\ SpawnFresh'
    <2> DEFINE D == IF Kind[r] = "discovery" THEN DeadDiscoveries ELSE {}
    <2>1. D \in SUBSET Runs
      BY DEF DeadDiscoveries, RunningDiscoveries
    <2>2. /\ job' = SetJobs(D, "failed")
          /\ pc' = [pc EXCEPT ![p] = "boot"] /\ owner' = [owner EXCEPT ![p] = r]
          /\ api' = [op |-> "spawn", runs |-> {r}, pid |-> p]
          /\ job[r].status # "running"
      BY <1>1 DEF Spawn, UpdateJobStatus, NotActive
    <2>3. job'[r].status # "running"
      BY <2>1, <2>2, SetJobsLemma DEF IInv, Terminal
    <2> QED BY <2>2, <2>3 DEF IInv, TypeOK, Owned, ApiRefers, SpawnFresh, Busy
  <1>2. CASE StartCommit \/ RouterWrite \/ StaleBegin \/ ApiCrash
    BY <1>2 DEF StartCommit, RouterWrite, StaleBegin, ApiCrash, IInv, TypeOK, Owned, ApiRefers, SpawnFresh, Busy, Idle
  <1>3. ASSUME NEW r \in Runs, KillBegin(r) \/ SyncBegin(r) PROVE Owned' /\ ApiRefers' /\ SpawnFresh'
    BY <1>3 DEF KillBegin, SyncBegin, IInv, Owned, ApiRefers, SpawnFresh, Busy
  <1>4. CASE KillEnd \/ SyncEnd
    <2>1. \A p \in Pids : pc'[p] # "free" => pc[p] # "free"
      BY <1>4, KillLemma DEF KillEnd, SyncEnd, IInv
    <2> QED BY <1>4, <2>1 DEF KillEnd, SyncEnd, IInv, Owned, ApiRefers, SpawnFresh, Busy, Idle
  <1>5. ASSUME NEW r \in Runs, StaleOne(r) PROVE Owned' /\ ApiRefers' /\ SpawnFresh'
    <2>1. \A p \in Pids : pc'[p] # "free" => pc[p] # "free"
      BY <1>5, KillLemma DEF StaleOne, IInv
    <2>2. api'.op \in {"idle", "stale"}
      BY <1>5 DEF StaleOne, Busy, Idle, IInv, TypeOK
    <2> QED BY <1>5, <2>1, <2>2 DEF StaleOne, IInv, Owned, ApiRefers, SpawnFresh, Busy
  <1>6. ASSUME NEW p \in Pids, WorkerNext(p) PROVE Owned' /\ ApiRefers' /\ SpawnFresh'
    <2>1. /\ UNCHANGED <<owner, api>>
          /\ \A q \in Pids : pc'[q] # "free" => pc[q] # "free"
      BY <1>6 DEF WorkerNext, WorkerBoot, Heartbeat, RecordOk, RecordError, MarkCompleted,
                  WorkerExit, WorkerDies, WorkerHangs, CanStep, Alive, IInv, TypeOK
    <2>2. \A r \in Runs : job'[r].pid = job[r].pid /\ (job'[r].status = "running" => job[r].status = "running")
      <3>1. CASE WorkerBoot(p) \/ Heartbeat(p)
        BY <3>1, RefreshedLemma DEF WorkerBoot, Heartbeat, IInv
      <3>2. CASE MarkCompleted(p)
        <4>1. PICK s \in Terminal : job' = SetJobs({owner[p]}, s)
          BY <3>2 DEF MarkCompleted, Outcomes, Terminal, UpdateJobStatus
        <4>2. owner[p] \in Runs
          BY <3>2 DEF MarkCompleted, CanStep, Alive, IInv, Owned
        <4> QED BY <4>1, <4>2, SetJobsLemma DEF IInv
      <3>3. CASE (\E s \in Terminal : RecordOk(p, s)) \/ RecordError(p) \/ WorkerExit(p) \/ WorkerDies(p) \/ WorkerHangs(p)
        BY <3>3 DEF RecordOk, RecordError, WorkerExit, WorkerDies, WorkerHangs
      <3> QED BY <1>6, <3>1, <3>2, <3>3 DEF WorkerNext
    <2>3. api.runs \in SUBSET Runs
      BY DEF IInv, TypeOK
    <2> QED BY <2>1, <2>2, <2>3 DEF IInv, Owned, ApiRefers, SpawnFresh, Busy
  <1>7. CASE Tick
    <2>1. \A r \in Runs : job'[r].status = job[r].status /\ job'[r].pid = job[r].pid
      BY <1>7 DEF Tick, IInv, TypeOK
    <2>2. api.runs \in SUBSET Runs
      BY DEF IInv, TypeOK
    <2> QED BY <1>7, <2>1, <2>2 DEF Tick, IInv, Owned, ApiRefers, SpawnFresh, Busy
  <1>8. CASE UNCHANGED vars
    BY <1>8 DEF vars, IInv, Owned, ApiRefers, SpawnFresh, Busy
  <1> QED BY <1>1, <1>2, <1>3, <1>4, <1>5, <1>6, <1>7, <1>8 DEF Next, ApiNext

-----------------------------------------------------------------------------
(* The theorems. *)

\* IInv holds in every reachable state.
THEOREM Inductive == Spec => []IInv
  <1>1. IInv /\ [Next]_vars => IInv'
    BY TypeStep, HandlerStep, WorkerStep DEF IInv
  <1> QED BY <1>1, TypeInit, PTL DEF Spec

\* The tables, the process table and the handler in flight keep their types.
THEOREM TypeCorrect == Spec => []TypeOK
  BY Inductive, PTL DEF IInv

\* A worker that has not reported is in its run's row, and the row is running.
THEOREM WorkersTracked == Spec => []TrackedWorker
  BY Inductive, PTL DEF IInv

\* No run has two workers at work.
THEOREM WorkersAlone == Spec => []SingleWorker
  BY Inductive, PTL DEF IInv

\* A write to the status of run r that is not made by the handler in flight
\* comes from a worker of r at work, so the row is not killed.
LEMMA KilledStep ==
  ASSUME IInv, [Next]_vars, NEW r \in Runs, r \notin orphaned, job[r].status = "killed",
         r \notin api.runs, r \notin api'.runs
  PROVE  job'[r].status = "killed" /\ run'[r] = run[r]
  <1>1. \A p \in Pids : AtWork(p) /\ owner[p] = r => FALSE
    <2> SUFFICES ASSUME NEW p \in Pids, AtWork(p), owner[p] = r PROVE FALSE
      OBVIOUS
    <2>1. ~ Unregistered(p)
      BY DEF Unregistered, IInv, ApiRefers
    <2> QED BY <2>1 DEF IInv, TrackedWorker
  <1>2. ASSUME NEW R \in SUBSET Runs, NEW s \in Terminal, r \notin R
        PROVE  SetJobs(R, s)[r] = job[r] /\ SetRuns(R, s)[r] = run[r]
    BY <1>2 DEF SetJobs, SetRuns
  <1>3. ASSUME NEW q \in Runs, NEW p \in Pids, Spawn(q, p) PROVE job'[r].status = "killed" /\ run'[r] = run[r]
    <2> DEFINE D == IF Kind[q] = "discovery" THEN DeadDiscoveries ELSE {}
    <2>1. D \in SUBSET Runs /\ r \notin D
      BY DEF DeadDiscoveries, RunningDiscoveries
    <2> QED BY <1>3, <2>1, <1>2 DEF Spawn, UpdateJobStatus, Terminal
  <1>4. CASE StartCommit \/ RouterWrite
    BY <1>4 DEF StartCommit, RouterWrite, SetRuns
  <1>5. CASE KillEnd \/ SyncEnd
    BY <1>5 DEF KillEnd, SyncEnd, UpdateJobStatus, SetJobs, SetRuns
  <1>6. ASSUME NEW q \in Runs, StaleOne(q) PROVE job'[r].status = "killed" /\ run'[r] = run[r]
    BY <1>6 DEF StaleOne, UpdateJobStatus, SetJobs, SetRuns
  <1>7. ASSUME NEW p \in Pids, WorkerNext(p) PROVE job'[r].status = "killed" /\ run'[r] = run[r]
    <2>1. CASE pc[p] \in Working /\ owner[p] # r
      <3>1. CASE WorkerBoot(p) \/ Heartbeat(p)
        BY <2>1, <3>1, RefreshedLemma DEF WorkerBoot, Heartbeat, SetRuns, IInv
      <3>2. CASE MarkCompleted(p)
        BY <2>1, <3>2 DEF MarkCompleted, UpdateJobStatus, SetJobs, SetRuns
      <3>3. CASE (\E s \in Terminal : RecordOk(p, s)) \/ RecordError(p) \/ WorkerExit(p) \/ WorkerDies(p) \/ WorkerHangs(p)
        BY <2>1, <3>3 DEF RecordOk, RecordError, WorkerExit, WorkerDies, WorkerHangs, SetRuns
      <3> QED BY <1>7, <3>1, <3>2, <3>3 DEF WorkerNext
    <2>2. CASE pc[p] \notin Working
      <3>1. CASE Heartbeat(p)
        BY <3>1, RefreshedLemma DEF Heartbeat, IInv
      <3>2. CASE WorkerExit(p) \/ WorkerDies(p) \/ WorkerHangs(p)
        BY <3>2 DEF WorkerExit, WorkerDies, WorkerHangs
      <3> QED BY <1>7, <2>2, <3>1, <3>2
              DEF WorkerNext, WorkerBoot, RecordOk, RecordError, MarkCompleted, Outcomes, Working
    <2>3. pc[p] \in Working => owner[p] # r
      BY <1>1 DEF AtWork
    <2> QED BY <2>1, <2>2, <2>3
  <1>8. CASE Tick
    BY <1>8 DEF Tick, IInv, TypeOK
  <1>9. CASE (\E q \in Runs : KillBegin(q) \/ SyncBegin(q)) \/ StaleBegin \/ ApiCrash \/ UNCHANGED vars
    BY <1>9 DEF KillBegin, SyncBegin, StaleBegin, ApiCrash, vars
  <1> QED BY <1>3, <1>4, <1>5, <1>6, <1>7, <1>8, <1>9 DEF Next, ApiNext

\* A killed job stays killed in both tables until it is started again.
THEOREM KilledIsFinal == Spec => KilledStaysKilled
  <1>1. IInv /\ [Next]_vars =>
          [\A r \in Runs \ orphaned :
             job[r].status = "killed" /\ r \notin api.runs /\ r \notin api'.runs =>
               job'[r].status = "killed" /\ run'[r] = run[r]]_vars
    BY KilledStep
  <1> QED BY <1>1, Inductive, PTL DEF Spec, KilledStaysKilled

-----------------------------------------------------------------------------
(* The limit of launch_discovery.  Outside start_job the processes at work *)
(* are as many as their rows, which launch_discovery counts; the rest is   *)
(* that the sets are finite, since there is one more row per start_job.    *)

\* The processes the limit is about.
Discovering == {p \in Pids : AtWork(p) /\ Kind[owner[p]] = "discovery"}

\* The runs that have a job row.
Known == {r \in Runs : job[r].status # "none"}

LimitInv == IsFiniteSet(Known) /\ IsFiniteSet(Discovering) /\ DiscoveryLimit

\* While no start_job is between Popen and commit, each discovery process at
\* work has a row of its own that launch_discovery counts.
LEMMA CountedByRows ==
  ASSUME IInv, IsFiniteSet(Known), ~ Busy("spawn")
  PROVE  Cardinality(Discovering) <= Cardinality(RunningDiscoveries \ DeadDiscoveries)
  <1> DEFINE Live == RunningDiscoveries \ DeadDiscoveries
             f == [p \in Discovering |-> owner[p]]
  <1>1. IsFiniteSet(Live)
    <2>1. Live \in SUBSET Known
      BY DEF RunningDiscoveries, Known
    <2> QED BY <2>1, FS_Subset
  <1>2. ASSUME NEW p \in Discovering PROVE owner[p] \in Live
    <2>1. p \in Pids /\ AtWork(p) /\ Kind[owner[p]] = "discovery" /\ owner[p] \in Runs
      BY DEF Discovering, AtWork, Working, IInv, Owned
    <2>2. job[owner[p]].status = "running" /\ job[owner[p]].pid = p
      BY <2>1, Tracked DEF IInv
    <2>3. IsProcessAlive(p)
      BY <2>1, DeadNotWorking DEF IsProcessAlive, AtWork
    <2> QED BY <2>1, <2>2, <2>3 DEF RunningDiscoveries, DeadDiscoveries
  <1>3. ASSUME NEW p \in Discovering, NEW q \in Discovering, owner[p] = owner[q] PROVE p = q
    BY <1>3 DEF Discovering, IInv, SingleWorker
  <1>4. f \in Injection(Discovering, Live)
    BY <1>2, <1>3 DEF Injection, IsInjective
  <1> QED BY <1>1, <1>4, FS_Injection

\* Only start_job's commit makes a row, the one of the run it starts.
LEMMA RowsAdded == IInv /\ [Next]_vars => \E r : Known' \subseteq Known \cup {r}
  <1> SUFFICES ASSUME IInv, [Next]_vars PROVE \E r : Known' \subseteq Known \cup {r}
    OBVIOUS
  <1>1. CASE StartCommit
    <2>1. Known' \subseteq Known \cup {owner[api.pid]}
      BY <1>1 DEF StartCommit, Known, IInv, ApiRefers, Busy
    <2> QED BY <2>1
  <1>2. ASSUME NEW R \in SUBSET Runs, NEW s \in Terminal, job' = SetJobs(R, s) PROVE Known' \subseteq Known
    BY <1>2 DEF SetJobs, Known
  <1>3. ASSUME NEW r \in Runs, NEW p \in Pids, Spawn(r, p) PROVE Known' \subseteq Known
    <2>1. (IF Kind[r] = "discovery" THEN DeadDiscoveries ELSE {}) \in SUBSET Runs
      BY DEF DeadDiscoveries, RunningDiscoveries
    <2> QED BY <1>2, <1>3, <2>1 DEF Spawn, UpdateJobStatus, Terminal
  <1>4. CASE KillEnd \/ SyncEnd
    <2>1. api.runs \in SUBSET Runs
      BY DEF IInv, TypeOK
    <2> QED BY <1>2, <1>4, <2>1 DEF KillEnd, SyncEnd, UpdateJobStatus, Terminal, Known
  <1>5. ASSUME NEW r \in Runs, StaleOne(r) PROVE Known' \subseteq Known
    BY <1>2, <1>5 DEF StaleOne, UpdateJobStatus, Terminal
  <1>6. ASSUME NEW p \in Pids, WorkerNext(p) PROVE Known' \subseteq Known
    <2>1. CASE WorkerBoot(p) \/ Heartbeat(p)
      BY <2>1, RefreshedLemma DEF WorkerBoot, Heartbeat, Known, IInv
    <2>2. CASE MarkCompleted(p)
      <3>1. PICK s \in Terminal : job' = SetJobs({owner[p]}, s)
        BY <2>2 DEF MarkCompleted, Outcomes, Terminal, UpdateJobStatus
      <3>2. {owner[p]} \in SUBSET Runs
        BY <2>2 DEF MarkCompleted, CanStep, Alive, IInv, Owned
      <3> QED BY <1>2, <3>1, <3>2
    <2>3. CASE (\E s \in Terminal : RecordOk(p, s)) \/ RecordError(p) \/ WorkerExit(p) \/ WorkerDies(p) \/ WorkerHangs(p)
      BY <2>3 DEF RecordOk, RecordError, WorkerExit, WorkerDies, WorkerHangs, Known
    <2> QED BY <1>6, <2>1, <2>2, <2>3 DEF WorkerNext
  <1>7. CASE Tick
    BY <1>7 DEF Tick, Known, IInv, TypeOK
  <1>8. CASE RouterWrite \/ (\E r \in Runs : KillBegin(r) \/ SyncBegin(r)) \/ StaleBegin \/ ApiCrash \/ UNCHANGED vars
    BY <1>8 DEF RouterWrite, KillBegin, SyncBegin, StaleBegin, ApiCrash, vars, Known
  <1> QED BY <1>1, <1>3, <1>4, <1>5, <1>6, <1>7, <1>8 DEF Next, ApiNext

\* No step but a launch puts a process to work.
LEMMA NobodyElseStarts ==
  ASSUME IInv, [Next]_vars, \A r \in Runs, p \in Pids : ~ Spawn(r, p)
  PROVE  Discovering' \subseteq Discovering
  <1>1. CASE StartCommit \/ RouterWrite \/ SyncEnd \/ StaleBegin \/ Tick \/ UNCHANGED vars
             \/ \E r \in Runs : KillBegin(r) \/ SyncBegin(r)
    BY <1>1 DEF StartCommit, RouterWrite, SyncEnd, StaleBegin, Tick, vars, KillBegin, SyncBegin, Discovering, AtWork
  <1>2. CASE KillEnd \/ \E r \in Runs : StaleOne(r)
    <2>1. \A p \in Pids : pc'[p] \in Working => pc[p] \in Working
      BY <1>2, KillLemma DEF KillEnd, StaleOne, IInv, Working
    <2>2. UNCHANGED <<owner, orphaned>>
      BY <1>2 DEF KillEnd, StaleOne
    <2> QED BY <2>1, <2>2 DEF Discovering, AtWork
  <1>3. CASE ApiCrash
    BY <1>3 DEF ApiCrash, Discovering, AtWork
  <1>4. ASSUME NEW p \in Pids, WorkerNext(p) PROVE Discovering' \subseteq Discovering
    <2>1. \A q \in Pids : pc'[q] \in Working => pc[q] \in Working
      BY <1>4 DEF WorkerNext, WorkerBoot, Heartbeat, RecordOk, RecordError, MarkCompleted, Outcomes,
                  WorkerExit, WorkerDies, WorkerHangs, CanStep, IInv, TypeOK, Working
    <2>2. UNCHANGED <<owner, orphaned>>
      BY <1>4 DEF WorkerNext, WorkerBoot, Heartbeat, RecordOk, RecordError, MarkCompleted,
                  WorkerExit, WorkerDies, WorkerHangs
    <2> QED BY <2>1, <2>2 DEF Discovering, AtWork
  <1> QED BY <1>1, <1>2, <1>3, <1>4 DEF Next, ApiNext

\* A launch is refused at the limit; no other step starts a discovery.
LEMMA LimitStep == IInv /\ LimitInv /\ [Next]_vars => LimitInv'
  <1> SUFFICES ASSUME IInv, LimitInv, [Next]_vars PROVE LimitInv'
    OBVIOUS
  <1> USE BoundAssumption
  <1>1. IsFiniteSet(Known)'
    <2>1. PICK r : Known' \subseteq Known \cup {r}
      BY RowsAdded
    <2>2. IsFiniteSet(Known \cup {r})
      BY FS_AddElement DEF LimitInv
    <2> QED BY <2>1, <2>2, FS_Subset
  <1>2. CASE \A r \in Runs, p \in Pids : ~ Spawn(r, p)
    <2>1. Discovering' \in SUBSET Discovering
      BY <1>2, NobodyElseStarts
    <2>2. IsFiniteSet(Discovering') /\ Cardinality(Discovering') <= Cardinality(Discovering)
      BY <2>1, FS_Subset DEF LimitInv
    <2>3. Cardinality(Discovering) \in Nat /\ Cardinality(Discovering') \in Nat
      BY <2>2, FS_CardinalityType DEF LimitInv
    <2> QED BY <1>1, <2>2, <2>3 DEF LimitInv, DiscoveryLimit, Discovering
  <1>3. ASSUME NEW r \in Runs, NEW p \in Pids, Spawn(r, p) PROVE LimitInv'
    <2>1. ~ Busy("spawn") /\ (Kind[r] = "discovery" => BelowLimit)
      BY <1>3 DEF Spawn, IsIdle, Busy
    <2>2. /\ Cardinality(Discovering) <= Cardinality(RunningDiscoveries \ DeadDiscoveries)
          /\ Cardinality(Discovering) \in Nat
      BY <2>1, CountedByRows, FS_CardinalityType DEF LimitInv
    <2>3. Discovering' \subseteq Discovering \cup (IF Kind[r] = "discovery" THEN {p} ELSE {})
      BY <1>3 DEF Spawn, Discovering, AtWork, IInv, TypeOK
    <2>4. /\ IsFiniteSet(Discovering \cup {p}) /\ Cardinality(Discovering \cup {p}) \in Nat
          /\ Cardinality(Discovering \cup {p}) <= Cardinality(Discovering) + 1
      <3>1. /\ IsFiniteSet(Discovering \cup {p})
            /\ Cardinality(Discovering \cup {p}) =
                 IF p \in Discovering THEN Cardinality(Discovering) ELSE Cardinality(Discovering) + 1
        BY FS_AddElement DEF LimitInv
      <3> QED BY <2>2, <3>1
    <2>5. CASE Kind[r] = "discovery"
      <3>1. Discovering' \in SUBSET (Discovering \cup {p})
        BY <2>3, <2>5
      <3>2. IsFiniteSet(Discovering') /\ Cardinality(Discovering') <= Cardinality(Discovering \cup {p})
        BY <2>4, <3>1, FS_Subset
      <3>3. Cardinality(Discovering') \in Nat
        BY <3>2, FS_CardinalityType
      <3>4. Cardinality(RunningDiscoveries \ DeadDiscoveries) < MaxDiscoveries
        BY <2>1, <2>5 DEF BelowLimit
      <3>5. Cardinality(RunningDiscoveries \ DeadDiscoveries) \in Nat
        <4>1. (RunningDiscoveries \ DeadDiscoveries) \in SUBSET Known
          BY DEF RunningDiscoveries, Known
        <4> QED BY <4>1, FS_Subset, FS_CardinalityType DEF LimitInv
      <3>6. Cardinality(Discovering') <= MaxDiscoveries
        BY <2>2, <2>4, <3>2, <3>3, <3>4, <3>5
      <3> QED BY <1>1, <3>2, <3>6 DEF LimitInv, DiscoveryLimit, Discovering
    <2>6. CASE Kind[r] # "discovery"
      <3>1. Discovering' \in SUBSET Discovering
        BY <2>3, <2>6
      <3>2. IsFiniteSet(Discovering') /\ Cardinality(Discovering') <= Cardinality(Discovering)
        BY <3>1, FS_Subset DEF LimitInv
      <3>3. Cardinality(Discovering') \in Nat
        BY <3>2, FS_CardinalityType
      <3> QED BY <1>1, <2>2, <3>2, <3>3 DEF LimitInv, DiscoveryLimit, Discovering
    <2> QED BY <2>5, <2>6
  <1> QED BY <1>2, <1>3

\* No run is known and nothing is at work when the API first starts.
LEMMA LimitInit == Init => LimitInv
  <1> SUFFICES ASSUME Init PROVE LimitInv
    OBVIOUS
  <1>1. Known = {} /\ Discovering = {}
    BY DEF Init, Known, Discovering, AtWork, Working
  <1>2. IsFiniteSet({}) /\ Cardinality({}) = 0
    BY FS_EmptySet
  <1> QED BY <1>1, <1>2, BoundAssumption DEF LimitInv, DiscoveryLimit, Discovering

\* No more discovery processes are at work than launch_discovery allows, killed,
\* synced or stale as their rows may become.
THEOREM DiscoveriesLimited == Spec => []DiscoveryLimit
  <1> QED BY LimitInit, LimitStep, Inductive, PTL DEF Spec, LimitInv

-----------------------------------------------------------------------------
(* The two tables. *)

\* A final row agrees with the run row, except while start_job is between Popen
\* and commit: the new worker may report before its row exists.
Agree ==
  \A r \in Runs \ orphaned :
    job[r].status \in Terminal /\ ~ (Busy("spawn") /\ r \in api.runs)
      => run[r] \in {job[r].status, "running", "none"}

\* Whoever writes a final status writes it to both tables, and a worker that
\* writes the run row alone has a row that says running.
LEMMA AgreeStep == IInv /\ Agree /\ [Next]_vars => Agree'
  <1> SUFFICES ASSUME IInv, Agree, [Next]_vars,
                      NEW r \in Runs, r \notin orphaned',
                      job'[r].status \in Terminal, ~ (Busy("spawn") /\ r \in api.runs)'
               PROVE  run'[r] \in {job'[r].status, "running", "none"}
    BY DEF Agree
  <1> DEFINE Goal == run'[r] \in {job'[r].status, "running", "none"}
  <1>1. ASSUME NEW R \in SUBSET Runs, NEW s \in Terminal, job' = SetJobs(R, s), run' = SetRuns(R, s),
               orphaned' = orphaned, Busy("spawn") => r \notin api.runs
        PROVE  Goal
    <2>1. CASE r \in R
      <3>1. job[r].status # "none" /\ job'[r] = [job[r] EXCEPT !.status = s]
        BY <1>1, <2>1 DEF SetJobs, Terminal
      <3>2. job'[r].status = s
        BY <3>1 DEF IInv, TypeOK
      <3>3. run'[r] \in {s, "none"}
        BY <1>1, <2>1 DEF SetRuns
      <3> QED BY <3>2, <3>3
    <2>2. CASE r \notin R
      BY <1>1, <2>2 DEF SetJobs, SetRuns, Agree
    <2> QED BY <2>1, <2>2
  <1>2. ASSUME NEW q \in Runs, NEW p \in Pids, Spawn(q, p) PROVE Goal
    <2> DEFINE D == IF Kind[q] = "discovery" THEN DeadDiscoveries ELSE {}
    <2>1. D \in SUBSET Runs
      BY DEF DeadDiscoveries, RunningDiscoveries
    <2>2. job' = SetJobs(D, "failed") /\ run' = SetRuns(D, "failed") /\ orphaned' = orphaned /\ ~ Busy("spawn")
      BY <1>2 DEF Spawn, UpdateJobStatus, IsIdle, Busy
    <2> QED BY <1>1, <2>1, <2>2 DEF Terminal
  <1>3. CASE StartCommit
    <2>1. job'[r] = IF r \in api.runs THEN StartedRow(api.pid) ELSE job[r]
      BY <1>3 DEF StartCommit
    <2>2. r \notin api.runs
      BY <2>1 DEF StartedRow, Terminal
    <2> QED BY <1>3, <2>1, <2>2 DEF StartCommit, SetRuns, Agree
  <1>4. CASE RouterWrite
    BY <1>4 DEF RouterWrite, SetRuns, Agree, Busy
  <1>5. CASE KillEnd
    BY <1>5, <1>1 DEF KillEnd, UpdateJobStatus, Busy, Terminal, IInv, TypeOK
  <1>6. CASE SyncEnd
    <2>1. CASE IsProcessAlive(api.pid)
      BY <1>6, <2>1 DEF SyncEnd, Agree, Busy
    <2>2. CASE ~ IsProcessAlive(api.pid)
      BY <1>6, <1>1, <2>2 DEF SyncEnd, UpdateJobStatus, Busy, Terminal, IInv, TypeOK
    <2> QED BY <2>1, <2>2
  <1>7. ASSUME NEW q \in Runs, StaleOne(q) PROVE Goal
    BY <1>7, <1>1 DEF StaleOne, UpdateJobStatus, Busy, Terminal
  <1>8. CASE (\E q \in Runs : KillBegin(q) \/ SyncBegin(q)) \/ StaleBegin
    BY <1>8 DEF KillBegin, SyncBegin, StaleBegin, IsIdle, Busy, Agree
  <1>9. CASE ApiCrash
    BY <1>9 DEF ApiCrash, Busy, Agree
  <1>10. ASSUME NEW p \in Pids, WorkerNext(p) PROVE Goal
    <2>1. UNCHANGED <<owner, orphaned, api>>
      BY <1>10 DEF WorkerNext, WorkerBoot, Heartbeat, RecordOk, RecordError, MarkCompleted,
                   WorkerExit, WorkerDies, WorkerHangs
    <2>2. CASE WorkerBoot(p) \/ Heartbeat(p)
      <3>1. job'[r].status = job[r].status
        BY <2>2, RefreshedLemma DEF WorkerBoot, Heartbeat, IInv
      <3>2. run'[r] \in {run[r], "running"}
        BY <2>2 DEF WorkerBoot, Heartbeat, SetRuns
      <3> QED BY <2>1, <3>1, <3>2 DEF Agree, Busy
    <2>3. CASE (\E s \in Terminal : RecordOk(p, s)) \/ RecordError(p)
      <3>1. job' = job /\ pc[p] \in Working
        BY <2>3 DEF RecordOk, RecordError, Working
      <3>2. owner[p] # r
        <4> SUFFICES ASSUME owner[p] = r PROVE FALSE
          OBVIOUS
        <4>1. AtWork(p)
          BY <2>1, <3>1 DEF AtWork
        <4>2. CASE Unregistered(p)
          BY <2>1, <4>2 DEF Unregistered, IInv, ApiRefers, Busy
        <4>3. CASE ~ Unregistered(p)
          BY <3>1, <4>1, <4>3 DEF IInv, TrackedWorker, Terminal
        <4> QED BY <4>2, <4>3
      <3>3. run'[r] = run[r]
        BY <2>3, <3>2 DEF RecordOk, RecordError, SetRuns
      <3> QED BY <2>1, <3>1, <3>3 DEF Agree, Busy
    <2>4. CASE MarkCompleted(p)
      <3>1. PICK s \in Terminal : job' = SetJobs({owner[p]}, s) /\ run' = SetRuns({owner[p]}, s)
        BY <2>4 DEF MarkCompleted, Outcomes, Terminal, UpdateJobStatus
      <3>2. {owner[p]} \in SUBSET Runs
        BY <2>4 DEF MarkCompleted, CanStep, Alive, IInv, Owned
      <3> QED BY <1>1, <2>1, <3>1, <3>2 DEF Busy
    <2>5. CASE WorkerExit(p) \/ WorkerDies(p) \/ WorkerHangs(p)
      BY <2>1, <2>5 DEF WorkerExit, WorkerDies, WorkerHangs, Agree, Busy
    <2> QED BY <1>10, <2>2, <2>3, <2>4, <2>5 DEF WorkerNext
  <1>11. CASE Tick
    <2>1. job'[r].status = job[r].status
      BY <1>11 DEF Tick, IInv, TypeOK
    <2> QED BY <1>11, <2>1 DEF Tick, Agree, Busy
  <1>12. CASE UNCHANGED vars
    BY <1>12 DEF vars, Agree, Busy
  <1> QED BY <1>2, <1>3, <1>4, <1>5, <1>6, <1>7, <1>8, <1>9, <1>10, <1>11, <1>12 DEF Next, ApiNext

\* A run that nobody works on has one outcome, whichever table is asked.
THEOREM TablesInAgreement == Spec => []TablesAgree
  <1>1. Init => Agree
    BY DEF Init, Agree, Terminal
  <1>2. Agree => TablesAgree
    BY DEF Agree, TablesAgree, IsIdle, Busy
  <1> QED BY <1>1, <1>2, AgreeStep, Inductive, PTL DEF Spec

=============================================================================
