----------------------------- MODULE MarketData -----------------------------
(***************************************************************************)
(* Market data: the raw archive (data/archive.py), the bar catalog built   *)
(* from it (data/catalog.py), and the jobs that fill both (data/ingest.py, *)
(* data/downloader.py).  Each job is a process of its own; the API starts  *)
(* them under fresh ids, so any number may run at once.  They share the    *)
(* archive, where each commit is a step, and the catalog's directories,    *)
(* where each removal and each write is a step.  A job can die between any *)
(* two of them.                                                            *)
(*                                                                         *)
(* One symbol, one-minute candles.  A minute is a number; the current      *)
(* minute's candle is still open, and the exchange reports it as it stands.*)
(***************************************************************************)
EXTENDS Integers, Sequences, FiniteSets

CONSTANTS
  Jobs,      \* job processes that may run at once
  Frames,    \* minutes per bar of each timeframe, in the order they are written
  MonthLen,  \* minutes of a month
  Enough,    \* candles from which on a month counts as covered
  Horizon,   \* bound: the last minute
  MaxStarts  \* bound: jobs ever started

ASSUME DataBounds == /\ MonthLen \in Nat \ {0} /\ Enough \in 1 .. MonthLen
                     /\ Horizon \in Nat /\ MaxStarts \in Nat
                     /\ Frames \in Seq(Nat \ {0})

VARIABLES
  clock,    \* the current minute
  archive,  \* raw_klines: the candles archived
  catalog,  \* the bars of each timeframe; a bar is the candles it aggregates
  job,
  starts,
  mixed     \* history: jobs overlapped, and none ran alone to its end since

vars == <<clock, archive, catalog, job, starts, mixed>>

Minutes  == 0 .. Horizon
Candles  == [t : Minutes, q : {"open", "closed"}]
FrameIds == 1 .. Len(Frames)
Kinds    == {"none", "ingest", "update", "rebuild"}
Stages   == {"idle", "months", "fetch", "insert", "read", "clear", "write"}

\* alone is history: no other job ran since this one started.
JobStates ==
  [kind : Kinds, at : Stages, months : SUBSET Minutes, from : Nat, to : Minutes,
   got : SUBSET Candles, snap : SUBSET Candles, left : SUBSET FrameIds, alone : BOOLEAN]

Idle == [kind |-> "none", at |-> "idle", months |-> {}, from |-> 0, to |-> 0,
         got |-> {}, snap |-> {}, left |-> {}, alone |-> FALSE]

TypeOK ==
  /\ clock \in Minutes
  /\ archive \in SUBSET Candles
  /\ catalog \in [FrameIds -> SUBSET SUBSET Candles]
  /\ job \in [Jobs -> JobStates]
  /\ starts \in 0 .. MaxStarts
  /\ mixed \in BOOLEAN

Init ==
  /\ clock \in Minutes
  /\ archive = {}
  /\ catalog = [i \in FrameIds |-> {}]
  /\ job = [j \in Jobs |-> Idle]
  /\ starts = 0
  /\ mixed = FALSE

-----------------------------------------------------------------------------
(* The archive and the exchange *)

Times(S)  == {c.t : c \in S}
Month(t)  == t \div MonthLen
Newest(S) == {t \in Times(S) : \A u \in Times(S) : u <= t}
Covered(m) == Cardinality({c \in archive : Month(c.t) = m}) >= Enough

\* Mutant: INSERT OR REPLACE.
Insert_Replaces(S) == {c \in archive : c.t \notin Times(S)} \cup S

\* insert_klines: INSERT OR IGNORE on the unique open time.
Insert(S) == archive \cup {c \in S : c.t \notin Times(archive)}

\* What the REST API reports now of the minutes a .. b.
Reported(a, b) ==
  {[t |-> u, q |-> IF u < clock THEN "closed" ELSE "open"] : u \in {v \in a .. b : v <= clock}}

\* A monthly file holds a whole month, and is published when it is over.
MonthFile(m) ==
  {[t |-> u, q |-> "closed"] : u \in {v \in Minutes : Month(v) = m /\ (m + 1) * MonthLen <= clock}}

\* Mutant: the last group is forgotten.
Aggregate_NoLast(S, n) ==
  {{c \in S : c.t \div n = k} : k \in {c.t \div n : c \in {d \in S : \A t \in Newest(S) : d.t \div n # t \div n}}}

\* aggregate_bars on candles sorted by time: one bar for each period with a candle.
Aggregate(S, n) == {{c \in S : c.t \div n = k} : k \in {c.t \div n : c \in S}}

-----------------------------------------------------------------------------
(* Starting a job *)

Running == {j \in Jobs : job[j].at # "idle"}

Begin(j, r) ==
  /\ job[j].at = "idle" /\ starts < MaxStarts
  /\ starts' = starts + 1
  /\ job' = [i \in Jobs |->
               IF i = j THEN [r EXCEPT !.alone = Running = {}] ELSE [job[i] EXCEPT !.alone = FALSE]]
  /\ mixed' = (mixed \/ Running # {})
  /\ UNCHANGED <<clock, archive, catalog>>

\* Mutant: a minute is skipped.
NextMinute_Skips(t) == t + 2

\* Where update_symbol goes on: after the newest candle of the archive.
NextMinute(t) == t + 1

\* update_symbol, unless there is nothing to update, or it is up to date.
StartUpdate(j) ==
  \E t \in Newest(archive) :
    /\ NextMinute(t) <= clock
    /\ Begin(j, [Idle EXCEPT !.kind = "update", !.at = "fetch",
                             !.from = NextMinute(t), !.to = clock])

\* ingest_symbol for the months from first up to the minute end: the complete
\* months before that of end, but those covered; without any, not even the rest.
StartIngest(j, first, end) ==
  LET months == first .. (Month(end) - 1)
  IN  Begin(j, [Idle EXCEPT !.kind = "ingest",
                            !.at = IF months = {} THEN "read" ELSE "months",
                            !.months = {m \in months : ~ Covered(m)},
                            !.from = Month(end) * MonthLen, !.to = end])

StartRebuild(j) ==
  Begin(j, [Idle EXCEPT !.kind = "rebuild", !.at = "clear", !.left = FrameIds])

-----------------------------------------------------------------------------
(* Filling the archive *)

Goes(j, r) == job' = [job EXCEPT ![j] = r] /\ UNCHANGED <<clock, starts, mixed>>

\* One month: the file is archived, or it is not there.
FetchMonth(j) ==
  \E m \in job[j].months :
    /\ job[j].at = "months" /\ \A o \in job[j].months : m <= o
    /\ archive' \in {archive, Insert(MonthFile(m))}
    /\ Goes(j, [job[j] EXCEPT !.months = @ \ {m}])
    /\ UNCHANGED catalog

MonthsDone(j) ==
  /\ job[j].at = "months" /\ job[j].months = {}
  /\ Goes(j, [job[j] EXCEPT !.at = "fetch"])
  /\ UNCHANGED <<archive, catalog>>

\* download_recent_klines: pages from the start on, up to the first that fails.
\* An update that gets nothing is over.
Fetch(j) ==
  \E n \in job[j].from .. (job[j].to + 1) :
    LET got == Reported(job[j].from, n - 1)
    IN  /\ job[j].at = "fetch"
        /\ Goes(j, IF got # {} THEN [job[j] EXCEPT !.at = "insert", !.got = got]
                   ELSE IF job[j].kind = "ingest" THEN [job[j] EXCEPT !.at = "read"] ELSE Idle)
        /\ UNCHANGED <<archive, catalog>>

InsertKlines(j) ==
  /\ job[j].at = "insert"
  /\ archive' = Insert(job[j].got)
  /\ Goes(j, [job[j] EXCEPT !.at = "read", !.got = {}])
  /\ UNCHANGED catalog

-----------------------------------------------------------------------------
(* Building the catalog *)

ToClear == FrameIds

\* get_klines: all of the archive, after the directories are gone in a rebuild,
\* before that otherwise.  Nothing archived: nothing to do.
ReadKlines(j) ==
  /\ job[j].at = "read"
  /\ Goes(j, IF archive = {} THEN Idle
             ELSE IF job[j].kind = "rebuild"
             THEN [job[j] EXCEPT !.at = "write", !.snap = archive, !.left = FrameIds]
             ELSE [job[j] EXCEPT !.at = "clear", !.snap = archive, !.left = ToClear])
  /\ UNCHANGED <<archive, catalog>>

InOrder(j, i) == i \in job[j].left /\ \A o \in job[j].left : i <= o

\* clear_bar_data removes the directory of one timeframe; a rebuild removes the
\* catalog's whole tree, in any order.
Clear(j) ==
  \E i \in job[j].left :
    /\ job[j].at = "clear" /\ (job[j].kind = "rebuild" \/ InOrder(j, i))
    /\ catalog' = [catalog EXCEPT ![i] = {}]
    /\ Goes(j, [job[j] EXCEPT !.left = @ \ {i}])
    /\ UNCHANGED archive

Cleared(j) ==
  /\ job[j].at = "clear" /\ job[j].left = {}
  /\ Goes(j, IF job[j].kind = "rebuild" THEN [job[j] EXCEPT !.at = "read"]
             ELSE [job[j] EXCEPT !.at = "write", !.left = FrameIds])
  /\ UNCHANGED <<archive, catalog>>

\* write_bars: the catalog takes no bars where it has some, and the job fails.
Write(j) ==
  \E i \in job[j].left :
    /\ job[j].at = "write" /\ InOrder(j, i)
    /\ catalog[i] = {}
    /\ catalog' = [catalog EXCEPT ![i] = Aggregate(job[j].snap, Frames[i])]
    /\ Goes(j, [job[j] EXCEPT !.left = @ \ {i}])
    /\ UNCHANGED archive

Completes(j) ==
  /\ job[j].at = "write" /\ job[j].left = {}
  /\ job' = [job EXCEPT ![j] = Idle]
  /\ mixed' = (mixed /\ ~ job[j].alone)
  /\ UNCHANGED <<clock, archive, catalog, starts>>

\* The job is killed or raises: no network, a write the catalog refuses.
Dies(j) ==
  /\ job[j].at # "idle"
  /\ Goes(j, Idle)
  /\ UNCHANGED <<archive, catalog>>

Tick ==
  /\ clock < Horizon
  /\ clock' = clock + 1
  /\ UNCHANGED <<archive, catalog, job, starts, mixed>>

JobNext(j) ==
  \/ StartUpdate(j) \/ StartRebuild(j)
  \/ \E first \in Minutes, end \in Minutes : first <= Month(end) /\ StartIngest(j, first, end)
  \/ FetchMonth(j) \/ MonthsDone(j) \/ Fetch(j) \/ InsertKlines(j)
  \/ ReadKlines(j) \/ Clear(j) \/ Cleared(j) \/ Write(j) \/ Completes(j) \/ Dies(j)

Next == Tick \/ \E j \in Jobs : JobNext(j)

Spec == Init /\ [][Next]_vars

-----------------------------------------------------------------------------
(* Properties *)

\* The archive is the source of truth: every candle in a bar of any timeframe is
\* archived as it went into the bar, whatever jobs overlap, die and append, so
\* the catalog can be checked against the archive (docs: append, never modify).
CatalogFromArchive == \A i \in FrameIds : \A bar \in catalog[i] : bar \subseteq archive

\* Unless jobs overlapped, the timeframes never tell different stories: what is
\* there of them was built from the same candles, even after a job died half-way
\* through clearing or writing and the archive went on growing.
OneSnapshot ==
  ~ mixed => \A i, k \in FrameIds :
               catalog[i] # {} /\ catalog[k] # {} => UNION catalog[i] = UNION catalog[k]

\* The minutes that miss in the archive, between its first and its last.
Holes(S) == {t \in Minutes \ Times(S) : (\E u \in Times(S) : u < t) /\ \E u \in Times(S) : u > t}

\* An update never makes a hole in the archive, whatever page of its download
\* fails and whatever other jobs archive meanwhile (update_symbol's start).
UpdateMakesNoHole ==
  [][\A j \in Jobs :
       job[j].kind = "update" /\ job[j].at = "insert" /\ job'[j].at = "read" =>
         Holes(archive') \subseteq Holes(archive)]_vars

\* A job that ran alone to its end leaves every timeframe complete: each archived
\* candle is in a bar, and with all the others of its period, even if jobs that
\* overlapped or died before left the catalog in pieces.
CompletesWhole ==
  [][\A j \in Jobs :
       job[j].at = "write" /\ job[j].left = {} /\ job[j].alone /\ job'[j].at = "idle" =>
         \A i \in FrameIds, c \in archive :
           \E bar \in catalog[i] :
             c \in bar /\ bar = {d \in archive : d.t \div Frames[i] = c.t \div Frames[i]}]_vars
=============================================================================
