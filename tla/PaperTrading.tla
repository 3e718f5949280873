---------------------------- MODULE PaperTrading ----------------------------
(***************************************************************************)
(* Paper trading: the endpoints of api/routers/paper_trading.py and the    *)
(* kill switch of api/routers/system.py on one side, the node processes    *)
(* (paper/cli.py, paper/node.py, paper/errors.py) on the other.  The two   *)
(* sides share the job rows and talk by signals only.                      *)
(*                                                                         *)
(* A session is its config file, its background_jobs row and its process;  *)
(* ids grow.  A launch starts the process before it commits the row.       *)
(* Ending a job is detailed in JobLifecycle and is one step here.  Signals *)
(* are delivered in the order they are sent.                               *)
(***************************************************************************)
EXTENDS Integers, Sequences

CONSTANTS
  NSessions,   \* bound: sessions ever created
  Traders,     \* trader ids
  MaxRetries,  \* RetryConfig.max_retries
  MaxQueue,    \* bound: signals a process has not handled yet
  MaxCrash     \* bound: handlers of the API that die half-way

ASSUME PaperBounds == /\ NSessions \in Nat /\ MaxCrash \in Nat
                      /\ MaxRetries \in Nat \ {0} /\ MaxQueue \in Nat \ {0}

VARIABLES
  engaged,  \* system_state.kill_switch
  row,      \* background_jobs.status of each session
  setup,    \* the session's config file: its trader and whether it names symbols
  latest,   \* the newest config file of each trader
  node,     \* the process of each session
  ckpt,     \* the state in the latest checkpoint of each trader
  api,      \* "start" while start_job is between Popen and its commit,
            \* "kill" while the kill endpoint is between its commit and its signals
  crashes,
  lost,     \* history: the API died before it sent the signals of the last kill
  orphans,  \* history: sessions whose start_job died between Popen and its commit
  strayed   \* history: a node the kill switch had reached sent an entry order

vars == <<engaged, row, setup, latest, node, ckpt, api, crashes, lost, orphans, strayed>>

Sessions   == 1 .. NSessions
Signals    == {"USR1", "USR2", "TERM"}
LiveStates == {"running", "paused"}
\* NodeState; ERROR lasts only until _shutdown in the same step.
NodeStates == {"initializing", "halted", "stopped"} \cup LiveStates
Procs      == {"none", "boot", "init", "live", "closing", "gone"}
Rows       == {"none", "running", "completed", "failed", "killed"}
Configs    == {"none", "noSymbols", "ok"}

Reasons    == {"none", "manual", "error"}

\* The last three fields are history: the last of running and paused the node
\* was in, whether an operator halted it since it last traded, and whether it
\* was sent a resume since the switch was engaged.
NodeRecords ==
  [proc : Procs, state : NodeStates, reason : Reasons, prev : {"none"} \cup LiveStates,
   retries : 0 .. MaxRetries, failed : BOOLEAN, sig : Seq(Signals),
   before : LiveStates, byHand : BOOLEAN, resumed : BOOLEAN]

Fresh == [proc |-> "none", state |-> "initializing", reason |-> "none",
          prev |-> "none", retries |-> 0, failed |-> FALSE, sig |-> <<>>,
          before |-> "running", byHand |-> FALSE, resumed |-> FALSE]
Gone  == [Fresh EXCEPT !.proc = "gone"]

TypeOK ==
  /\ engaged \in BOOLEAN
  /\ row \in [Sessions -> Rows]
  /\ setup \in [Sessions -> [trader : Traders, config : Configs]]
  /\ latest \in [Traders -> Configs]
  /\ node \in [Sessions -> NodeRecords]
  /\ ckpt \in [Traders -> {"none"} \cup NodeStates]
  /\ api \in {"idle", "start", "kill"}
  /\ crashes \in 0 .. MaxCrash
  /\ lost \in BOOLEAN /\ strayed \in BOOLEAN
  /\ orphans \subseteq Sessions

\* A config with symbols is one an operator wrote (save_config_to_json).
Init ==
  /\ engaged = FALSE
  /\ row = [s \in Sessions |-> "none"]
  /\ setup \in [Sessions -> [trader : Traders, config : {"none"}]]
  /\ latest \in [Traders -> {"none", "ok"}]
  /\ node = [s \in Sessions |-> Fresh]
  /\ ckpt = [t \in Traders |-> "none"]
  /\ api = "idle"
  /\ crashes = 0
  /\ lost = FALSE /\ orphans = {} /\ strayed = FALSE

-----------------------------------------------------------------------------
(* os.kill *)

Room(s) == Len(node[s].sig) < MaxQueue

\* Mutant: a signal that comes while the node starts is lost.
Signalled_LostAtStart(n, x) ==
  IF n.proc = "boot" \/ (n.proc = "init" /\ x = "TERM")
  THEN Gone ELSE IF n.proc = "live" THEN [n EXCEPT !.sig = Append(@, x)] ELSE n

\* A process without a handler for the signal dies of it: the node installs
\* SIGUSR1 and SIGUSR2 when it starts, Nautilus installs SIGTERM when it runs.
Signalled(n, x) ==
  IF n.proc = "boot" \/ (n.proc = "init" /\ x = "TERM")
  THEN Gone ELSE IF n.proc \in {"init", "live"} THEN [n EXCEPT !.sig = Append(@, x)] ELSE n

-----------------------------------------------------------------------------
(* The API process *)

Active == {s \in Sessions : row[s] = "running"}

\* _find_active_paper_job: the first running row, in the order of run ids.
Found(s) == s \in Active /\ \A u \in Active : s <= u

IsIdle == api = "idle"

\* The endpoint up to the Popen of start_job: the session's config file and its
\* process.  (Dying earlier leaves only a config file.)
Launch(t, c) ==
  \E s \in Sessions :
    /\ setup[s].config = "none" /\ \A u \in 1 .. (s - 1) : setup[u].config # "none"
    /\ setup' = [setup EXCEPT ![s] = [trader |-> t, config |-> c]]
    /\ latest' = [latest EXCEPT ![t] = c]
    /\ node' = [node EXCEPT ![s].proc = "boot"]
    /\ api' = "start"
    /\ UNCHANGED <<engaged, row, ckpt, crashes, lost, orphans, strayed>>

\* The session whose row start_job has still to write.
Launching(s) ==
  api = "start" /\ row[s] = "none" /\ setup[s].config # "none" /\ s \notin orphans

\* start_job commits the row, even of a process that has ended meanwhile.
StartCommit ==
  \E s \in Sessions :
    /\ Launching(s)
    /\ row' = [row EXCEPT ![s] = "running"]
    /\ api' = "idle"
    /\ UNCHANGED <<engaged, setup, latest, node, ckpt, crashes, lost, orphans, strayed>>

\* start_paper writes a config with an empty symbol list.
StartPaper(t) == IsIdle /\ ~ engaged /\ Launch(t, "noSymbols")

\* Mutant: restore does not look for a running session.
NoneRunning_Unchecked == TRUE

\* restore_paper refuses while any paper row says running.
NoneRunning == Active = {}

\* restore_paper reuses the newest config of the trader as it is.
RestorePaper(t) ==
  IsIdle /\ ~ engaged /\ NoneRunning /\ latest[t] # "none" /\ Launch(t, latest[t])

\* The halt, resume and stop endpoints.
SendTo(x) ==
  \E s \in Sessions :
    /\ IsIdle /\ Found(s) /\ Room(s)
    /\ node' = [node EXCEPT ![s] =
                  [Signalled(node[s], x) EXCEPT !.resumed = @ \/ (x = "USR2" /\ engaged)]]
    /\ UNCHANGED <<engaged, row, setup, latest, ckpt, api, crashes, lost, orphans, strayed>>

\* kill up to the commit of set_kill_switch.
KillCommit ==
  /\ IsIdle
  /\ engaged' = TRUE
  /\ api' = "kill"
  /\ node' = [s \in Sessions |-> [node[s] EXCEPT !.resumed = FALSE]]
  /\ lost' = FALSE
  /\ UNCHANGED <<row, setup, latest, ckpt, crashes, orphans, strayed>>

\* kill signals every paper job whose row says running.
KillCascade ==
  /\ api = "kill"
  /\ \A s \in Active : Room(s)
  /\ node' = [s \in Sessions |->
                IF s \in Active THEN Signalled(node[s], "USR1") ELSE node[s]]
  /\ api' = "idle"
  /\ UNCHANGED <<engaged, row, setup, latest, ckpt, crashes, lost, orphans, strayed>>

\* The API dies half-way.  The flag is on disk and the signals are not sent, or
\* the process runs, being a session leader, and no row names it.
ApiCrash ==
  /\ ~ IsIdle /\ crashes < MaxCrash
  /\ api' = "idle"
  /\ crashes' = crashes + 1
  /\ lost' = (lost \/ api = "kill")
  /\ orphans' = orphans \cup {s \in Sessions : Launching(s)}
  /\ UNCHANGED <<engaged, row, setup, latest, node, ckpt, strayed>>

Unlock ==
  /\ IsIdle /\ engaged
  /\ engaged' = FALSE
  /\ UNCHANGED <<row, setup, latest, node, ckpt, api, crashes, lost, orphans, strayed>>

\* Mutant: the row is closed over a process that is not ended.
Ended_Spared(n) == n

Ended(n) == Gone

\* kill_job, cleanup_stale_jobs or sync_job_status ends a session, whose process
\* they find gone or end (JobLifecycle).
EndJob(s) ==
  /\ IsIdle /\ row[s] = "running"
  /\ \E status \in {"failed", "killed"} : row' = [row EXCEPT ![s] = status]
  /\ node' = [node EXCEPT ![s] = Ended(@)]
  /\ UNCHANGED <<engaged, setup, latest, ckpt, api, crashes, lost, orphans, strayed>>

ApiNext ==
  \/ \E t \in Traders : StartPaper(t) \/ RestorePaper(t)
  \/ \E x \in Signals : SendTo(x)
  \/ StartCommit \/ KillCommit \/ KillCascade \/ ApiCrash \/ Unlock
  \/ \E s \in Sessions : EndJob(s)

-----------------------------------------------------------------------------
(* A node process *)

Kept == <<engaged, setup, latest, api, crashes, lost, orphans, strayed>>
Owner(s) == setup[s].trader
Closing(failed) == [Fresh EXCEPT !.proc = "closing", !.state = "stopped", !.failed = failed]
Save(s, state) == ckpt' = [ckpt EXCEPT ![Owner(s)] = state]

\* The CLI refuses a config without symbols and exits; its row is untouched.
RefuseConfig(s) ==
  /\ node[s].proc = "boot" /\ setup[s].config = "noSymbols"
  /\ node' = [node EXCEPT ![s] = Gone]
  /\ UNCHANGED <<row, ckpt, Kept>>

Begin(s) ==
  /\ node[s].proc = "boot" /\ setup[s].config = "ok"
  /\ node' = [node EXCEPT ![s].proc = "init"]
  /\ UNCHANGED <<row, ckpt, Kept>>

\* _initialize and _run_loop up to its first await: no signal in between.
Initialize(s) ==
  /\ node[s].proc = "init"
  /\ node' = [node EXCEPT ![s].proc = "live", ![s].state = "running"]
  /\ Save(s, "initializing")
  /\ UNCHANGED <<row, Kept>>

\* The strategy or the venue client cannot be built: no persistence yet.
InitializeFails(s) ==
  /\ node[s].proc = "init"
  /\ node' = [node EXCEPT ![s] = Closing(TRUE)]
  /\ UNCHANGED <<row, ckpt, Kept>>

\* What the history remembers of the record n.
Noted(n) == [n EXCEPT !.before = IF n.state \in LiveStates THEN n.state ELSE @,
                      !.byHand = n.state = "halted" /\ (@ \/ n.reason = "manual")]

Becomes(s, n) ==
  /\ node' = [node EXCEPT ![s] = Noted(n)]
  /\ UNCHANGED <<row, ckpt, Kept>>

\* Mutant: halt_handler toggles.
HaltHandler_Toggle(n) ==
  IF n.state = "running" THEN [n EXCEPT !.state = "paused"]
  ELSE IF n.state = "paused" THEN [n EXCEPT !.state = "running"] ELSE n

\* halt_handler: the first signal pauses, the second halts.
HaltHandler(n) ==
  IF n.state = "running" THEN [n EXCEPT !.state = "paused"]
  ELSE IF n.state = "paused" THEN [n EXCEPT !.state = "halted", !.reason = "manual"] ELSE n

\* resume_from_halt: only from an error, to the state before it.
ResumeFromHalt(n) ==
  IF n.reason # "error" THEN n
  ELSE [n EXCEPT !.state = IF n.prev = "none" THEN "running" ELSE n.prev,
                 !.reason = "none", !.prev = "none"]

ResumeHandler(n) ==
  IF n.state = "paused" THEN [n EXCEPT !.state = "running"]
  ELSE IF n.state = "halted" THEN ResumeFromHalt(n) ELSE n

Taken(s)   == [node[s] EXCEPT !.sig = Tail(@)]
Next1(s, x) == node[s].proc = "live" /\ node[s].sig # <<>> /\ Head(node[s].sig) = x

OnHalt(s)   == Next1(s, "USR1") /\ Becomes(s, HaltHandler(Taken(s)))
OnResume(s) == Next1(s, "USR2") /\ Becomes(s, ResumeHandler(Taken(s)))

\* _shutdown: state STOPPED and a last checkpoint.
Shutdown(s, failed) ==
  /\ node' = [node EXCEPT ![s] = Closing(failed)]
  /\ Save(s, "stopped")
  /\ UNCHANGED <<row, Kept>>

\* SIGTERM ends run_async, or run_async raises.
OnTerm(s)   == Next1(s, "TERM") /\ Shutdown(s, FALSE)
RunFails(s) == node[s].proc = "live" /\ Shutdown(s, TRUE)

\* Mutant: a second error forgets what the first one remembered.
OnErrorHalt_Overwrites(n) ==
  [n EXCEPT !.state = "halted", !.reason = "error",
            !.prev = IF n.state \in LiveStates THEN n.state ELSE "running"]

\* _on_error_halt remembers a live state, then halts whatever the state is.
OnErrorHalt(n) ==
  [n EXCEPT !.state = "halted", !.reason = "error",
            !.prev = IF n.state \in LiveStates THEN n.state ELSE @]

\* Fatal and strategy errors halt at once.
HaltingError(s) == node[s].proc = "live" /\ Becomes(s, OnErrorHalt(node[s]))

\* Transient errors are counted under one key, and halt from the limit on.
TransientError(s) ==
  LET n == [node[s] EXCEPT !.retries = IF @ < MaxRetries THEN @ + 1 ELSE @]
  IN  /\ node[s].proc = "live"
      /\ Becomes(s, IF n.retries >= MaxRetries THEN OnErrorHalt(n) ELSE n)

\* An operation succeeded: reset_retry_count.
ResetRetries(s) ==
  /\ node[s].proc = "live"
  /\ Becomes(s, [node[s] EXCEPT !.retries = 0])

\* The periodic checkpoint.
Checkpoint(s) ==
  /\ node[s].proc = "live"
  /\ Save(s, node[s].state)
  /\ UNCHANGED <<row, node, Kept>>

\* mark_completed, which updates a row if there is one, and exit.
Outcome(s) == IF node[s].failed THEN "failed" ELSE "completed"

Finish(s) ==
  /\ node[s].proc = "closing"
  /\ row' = IF row[s] = "none" THEN row ELSE [row EXCEPT ![s] = Outcome(s)]
  /\ node' = [node EXCEPT ![s] = Gone]
  /\ UNCHANGED <<ckpt, Kept>>

\* The process dies without a word.
Die(s) ==
  /\ node[s].proc \in {"boot", "init", "live", "closing"}
  /\ node' = [node EXCEPT ![s] = Gone]
  /\ UNCHANGED <<row, ckpt, Kept>>

Live(s) == node[s].proc = "live"

\* The kill switch has reached the node: a kill is over, its signals are taken,
\* and no operator has sent a resume since.  Orphans are out of its reach.
Reached(s) ==
  /\ engaged /\ IsIdle /\ ~ lost
  /\ s \notin orphans /\ Live(s) /\ node[s].sig = <<>> /\ ~ node[s].resumed

\* A strategy on the node submits an entry order: it looks at its own risk state
\* and position, never at the state of the node.
SubmitEntry(s) ==
  /\ Live(s)
  /\ strayed' = (strayed \/ Reached(s))
  /\ UNCHANGED <<engaged, row, setup, latest, node, ckpt, api, crashes, lost, orphans>>

NodeSteps(s) ==
  \/ RefuseConfig(s) \/ Begin(s) \/ Initialize(s) \/ InitializeFails(s)
  \/ OnHalt(s) \/ OnResume(s) \/ OnTerm(s) \/ Finish(s)

NodeNext(s) ==
  \/ NodeSteps(s)
  \/ RunFails(s) \/ HaltingError(s) \/ TransientError(s) \/ ResetRetries(s)
  \/ Checkpoint(s) \/ SubmitEntry(s) \/ Die(s)

Next == ApiNext \/ \E s \in Sessions : NodeNext(s)

Spec == Init /\ [][Next]_vars

\* The event loop of the node takes its signals and its last steps, and the
\* kill handler runs to its end.
FairSpec == /\ Spec
            /\ WF_vars(KillCascade)
            /\ \A s \in Sessions : WF_vars(NodeSteps(s))

-----------------------------------------------------------------------------
(* Safety *)

\* A live node is one the API can find: its row says running, or start_job is
\* about to write it.  The rows are what the halt, stop and kill endpoints go by,
\* and the node, kill_job and the clean-up all write them.  What start_job left
\* behind when it died after Popen (manager.py:166, 210) is named by no row.
LiveTracked ==
  \A s \in Sessions : Live(s) => row[s] = "running" \/ Launching(s) \/ s \in orphans

\* A node that the kill switch has reached does not report itself running
\* (NodeStatus, which is what the dashboard shows): it may have been paused, halted by an
\* error or still starting, with older signals waiting, when the kill endpoint ran.
KillReaches == \A s \in Sessions : Reached(s) => node[s].state # "running"

\* A node halted by errors only goes back, when resumed, to the state the first
\* of them found it in: _on_error_halt and resume_from_halt keep an operator's
\* pause over any number of errors.
PauseOutlivesErrors ==
  \A s \in Sessions :
    Live(s) /\ node[s].reason = "error" /\ ~ node[s].byHand =>
      ResumeFromHalt(node[s]).state = node[s].before

\* restore_paper starts no node beside one that is starting or live, unless that
\* one is an orphan: the check goes by rows (paper_trading.py:205).
RestoreAlone ==
  [][\A s, u \in Sessions :
       /\ node[s].proc = "none" /\ node'[s].proc = "boot" /\ setup'[s].config = "ok"
       /\ u # s /\ u \notin orphans
       => node[u].proc \notin {"boot", "init", "live"}]_vars

\* One venue account never has two live nodes unless the launch of one of them
\* died after its Popen: start_paper does not look for a running session, but the
\* config it writes names no symbol; restore_paper looks, and two handlers of
\* the API do not interleave.
OneTrader ==
  \A s, u \in Sessions : s # u /\ Live(s) /\ Live(u) => s \in orphans \/ u \in orphans

-----------------------------------------------------------------------------
(* Liveness *)

\* The kill switch takes hold of a live node that a row names: it stops to report
\* itself running, unless it is resumed, or the switch released or never signalled.
KillTakesHold ==
  \A s \in Sessions :
    engaged /\ Live(s) /\ s \notin orphans ~>
      ~ engaged \/ lost \/ node[s].resumed \/ ~ Live(s) \/ node[s].state # "running"

-----------------------------------------------------------------------------
(* What the documentation says and the code does not do *)

\* "This halts any active paper trading session" (KillSwitch.tsx:100): a node the
\* switch has reached sends no entry order any more.
KillStopsEntries == ~ strayed

=============================================================================
