-------------------------- MODULE Backtests_proof ---------------------------
(***************************************************************************)
(* What backtests read, what they leave and how that compares with paper:  *)
(* the archive and the catalog, for any jobs, timeframes and months;       *)
(* validation runs, for any configurations, executions and books of        *)
(* positions; and the reconciliation of two logs, for any tolerance.       *)
(*                                                                         *)
(* Nothing leaves the archive, so what a job has read stays archived, and  *)
(* so does the candle an update follows.  A job that runs alone knows what *)
(* each timeframe holds at every stage; that two timeframes agree rests on *)
(* it, since without overlap every job runs alone.                         *)
(*                                                                         *)
(* A validation execution writes its result before its trades and writes   *)
(* them at once, so the trades of an execution lie together in the table   *)
(* and are those of its result, or there are none.  That sorting by entry  *)
(* and then by exit gives back what was written needs the places of a      *)
(* stable sort, and those need a bijection of the indices and the places.  *)
(*                                                                         *)
(* A report accounts for its trades because the matcher's loop keeps its   *)
(* pairs near and one to one and leaves nothing that was near on both      *)
(* sides; trades that have twins are paired with them.                     *)
(***************************************************************************)
EXTENDS MarketData, Validation, Reconciliation, FiniteSetTheorems, WellFoundedInduction, NaturalsInduction, TLAPS

\* What a job has read is archived.
SnapsArchived == \A j \in Jobs : job[j].snap \subseteq archive

\* An update downloads a range without gaps that begins right after an archived
\* candle, and no months.
Adjoins(r) ==
  r.kind = "update" =>
    /\ r.at # "months"
    /\ r.at \in {"fetch", "insert"} =>
         /\ r.from - 1 \in Times(archive)
         /\ \A u \in Times(r.got) : r.from <= u /\ r.from .. u \subseteq Times(r.got)

UpdatesAdjoin == \A j \in Jobs : Adjoins(job[j])

\* A job alone has no company, and without overlap every job is alone.
Solo ==
  /\ \A j, k \in Jobs : job[j].at # "idle" /\ job[j].alone /\ job[k].at # "idle" => j = k
  /\ \A j \in Jobs : ~ mixed /\ job[j].at # "idle" => job[j].alone

\* What a job alone finds in the catalog at each of its stages.
Builds(r) ==
  /\ r.at \in {"months", "fetch", "insert"} => r.kind # "rebuild"
  /\ r.at \in {"clear", "write"} /\ r.kind # "rebuild" => r.snap = archive
  /\ r.at = "clear" => \A i \in FrameIds \ r.left : catalog[i] = {}
  /\ r.at = "read" /\ r.kind = "rebuild" => \A i \in FrameIds : catalog[i] = {}
  /\ r.at = "write" => /\ r.snap = archive
                       /\ \A i \in r.left : catalog[i] = {}
                       /\ \A i \in FrameIds \ r.left : catalog[i] = Aggregate(archive, Frames[i])

SoloBuilds == \A j \in Jobs : job[j].at # "idle" /\ job[j].alone => Builds(job[j])

IInv == /\ TypeOK
        /\ SnapsArchived
        /\ CatalogFromArchive
        /\ UpdatesAdjoin
        /\ Solo
        /\ SoloBuilds
        /\ OneSnapshot

-----------------------------------------------------------------------------
(* The operators *)

LEMMA MonthIsMinute ==
  ASSUME NEW t \in Minutes
  PROVE  Month(t) \in Nat /\ Month(t) <= t
<1>1. MonthLen \in Nat /\ MonthLen >= 1 /\ t \in Nat
  BY DataBounds DEF Minutes
<1>2. t \div MonthLen \in Nat /\ t \div MonthLen <= t
  BY <1>1, Z3
<1> QED
  BY <1>2 DEF Month

LEMMA IdleTyped == Idle \in JobStates
  BY DataBounds DEF Idle, JobStates, Minutes, Kinds, Stages

LEMMA ReportedTyped ==
  ASSUME NEW a \in Nat, NEW b \in Int, clock \in Minutes
  PROVE  Reported(a, b) \subseteq Candles
  BY DataBounds DEF Reported, Candles, Minutes

LEMMA MonthFileTyped ==
  ASSUME NEW m PROVE MonthFile(m) \subseteq Candles
  BY DEF MonthFile, Candles

\* The bars hold the candles and nothing else.
LEMMA AggregateCovers ==
  ASSUME NEW S, NEW n
  PROVE  /\ \A bar \in Aggregate(S, n) : bar \subseteq S
         /\ \A c \in S : \E bar \in Aggregate(S, n) :
                            c \in bar /\ bar = {d \in S : d.t \div n = c.t \div n}
         /\ UNION Aggregate(S, n) = S
<1>1. \A bar \in Aggregate(S, n) : bar \subseteq S
  BY DEF Aggregate
<1>2. ASSUME NEW c \in S
      PROVE  \E bar \in Aggregate(S, n) :
               c \in bar /\ bar = {d \in S : d.t \div n = c.t \div n}
  <2>1. {d \in S : d.t \div n = c.t \div n} \in Aggregate(S, n)
    BY DEF Aggregate
  <2> QED
    BY <2>1
<1>3. UNION Aggregate(S, n) = S
  BY <1>1, <1>2
<1> QED
  BY <1>1, <1>2, <1>3

LEMMA InsertGrows ==
  ASSUME NEW S
  PROVE  /\ archive \subseteq Insert(S)
         /\ Insert(S) \subseteq archive \cup S
         /\ Times(Insert(S)) = Times(archive) \cup Times(S)
  BY DEF Insert, Times

\* What is reported of a range, up to the current minute, has no gaps.
LEMMA ReportedTimes ==
  ASSUME NEW a \in Nat, NEW b \in Int, clock \in Minutes
  PROVE  Times(Reported(a, b)) = {u \in a .. b : u <= clock}
<1>1. ASSUME NEW u \in {v \in a .. b : v <= clock}
      PROVE  u \in Times(Reported(a, b))
  <2> DEFINE c == [t |-> u, q |-> IF u < clock THEN "closed" ELSE "open"]
  <2>1. c \in Reported(a, b) /\ c.t = u
    BY DEF Reported
  <2> QED
    BY <2>1 DEF Times
<1>2. ASSUME NEW u \in Times(Reported(a, b))
      PROVE  u \in {v \in a .. b : v <= clock}
  BY DEF Times, Reported
<1> QED
  BY <1>1, <1>2

-----------------------------------------------------------------------------
(* Types *)

LEMMA BeginTyped ==
  ASSUME TypeOK, NEW j \in Jobs, NEW r \in JobStates, Begin(j, r)
  PROVE  TypeOK'
<1>1. [r EXCEPT !.alone = Running = {}] \in JobStates
  BY DEF JobStates
<1>2. \A i \in Jobs : [job[i] EXCEPT !.alone = FALSE] \in JobStates
  BY DEF TypeOK, JobStates
<1>3. job' \in [Jobs -> JobStates]
  BY <1>1, <1>2, Zenon DEF Begin
<1>4. starts' \in 0 .. MaxStarts
  BY DataBounds DEF Begin, TypeOK
<1>5. mixed' \in BOOLEAN
  BY DEF Begin, TypeOK
<1> QED
  BY <1>3, <1>4, <1>5 DEF TypeOK, Begin

LEMMA GoesTyped ==
  ASSUME TypeOK, NEW j \in Jobs, NEW r \in JobStates, Goes(j, r)
  PROVE  /\ job' \in [Jobs -> JobStates]
         /\ clock' \in Minutes /\ starts' \in 0 .. MaxStarts /\ mixed' \in BOOLEAN
  BY DEF TypeOK, Goes

LEMMA IngestStates ==
  ASSUME NEW M \in SUBSET Minutes, NEW s \in Stages, NEW from \in Nat, NEW end \in Minutes
  PROVE  [Idle EXCEPT !.kind = "ingest", !.at = s, !.months = M, !.from = from, !.to = end]
           \in JobStates
  BY IdleTyped DEF JobStates, Idle, Kinds

LEMMA UpdateStates ==
  ASSUME NEW from \in Nat, NEW to \in Minutes
  PROVE  [Idle EXCEPT !.kind = "update", !.at = "fetch", !.from = from, !.to = to] \in JobStates
  BY IdleTyped DEF JobStates, Idle, Kinds, Stages

\* The new record of each step of a job.
LEMMA StepStates ==
  ASSUME NEW r \in JobStates, NEW s \in Stages, NEW S \in SUBSET Candles,
         NEW L \in SUBSET FrameIds, NEW M \in SUBSET Minutes
  PROVE  /\ [r EXCEPT !.months = M] \in JobStates
         /\ [r EXCEPT !.at = s] \in JobStates
         /\ [r EXCEPT !.at = s, !.got = S] \in JobStates
         /\ [r EXCEPT !.at = s, !.snap = S, !.left = L] \in JobStates
         /\ [r EXCEPT !.left = L] \in JobStates
         /\ [r EXCEPT !.at = s, !.left = L] \in JobStates
<1>1. [r EXCEPT !.months = M] \in JobStates
  BY DEF JobStates
<1>2. [r EXCEPT !.at = s] \in JobStates
  BY DEF JobStates
<1>3. [r EXCEPT !.at = s, !.got = S] \in JobStates
  BY DEF JobStates
<1>4. [r EXCEPT !.at = s, !.snap = S, !.left = L] \in JobStates
  BY DEF JobStates
<1>5. [r EXCEPT !.left = L] \in JobStates
  BY DEF JobStates
<1>6. [r EXCEPT !.at = s, !.left = L] \in JobStates
  BY DEF JobStates
<1> QED
  BY <1>1, <1>2, <1>3, <1>4, <1>5, <1>6

\* How a job starts.
Fresh(r) ==
  /\ r.snap = {} /\ r.got = {}
  /\ r.kind = "update" => r.at # "months" /\ r.from - 1 \in Times(archive)
  /\ \/ r.at \in {"months", "fetch", "read"} /\ r.kind # "rebuild"
     \/ r.at = "clear" /\ r.kind = "rebuild" /\ r.left = FrameIds

Starts(j) == StartUpdate(j) \/ StartRebuild(j)
               \/ \E first \in Minutes, end \in Minutes : StartIngest(j, first, end)

LEMMA StartsFresh ==
  ASSUME TypeOK, NEW j \in Jobs, Starts(j)
  PROVE  \E r \in JobStates : Begin(j, r) /\ Fresh(r)
<1>1. CASE StartUpdate(j)
  <2>1. PICK t \in Newest(archive) :
          Begin(j, [Idle EXCEPT !.kind = "update", !.at = "fetch",
                                !.from = NextMinute(t), !.to = clock])
    BY <1>1 DEF StartUpdate
  <2> DEFINE r == [Idle EXCEPT !.kind = "update", !.at = "fetch",
                               !.from = NextMinute(t), !.to = clock]
  <2>2. NextMinute(t) \in Nat /\ clock \in Minutes
    BY DataBounds DEF Newest, Times, Candles, Minutes, NextMinute, TypeOK
  <2>3. r \in JobStates
    BY <2>2, UpdateStates
  <2>4. NextMinute(t) - 1 \in Times(archive)
    BY DataBounds DEF Newest, Times, Candles, Minutes, NextMinute, TypeOK
  <2>5. Fresh(r)
    BY <2>4 DEF Fresh, Idle
  <2> QED
    BY <2>1, <2>3, <2>5
<1>2. CASE StartRebuild(j)
  <2> DEFINE r == [Idle EXCEPT !.kind = "rebuild", !.at = "clear", !.left = FrameIds]
  <2>1. r \in JobStates
    BY IdleTyped DEF JobStates, Kinds, Stages
  <2>2. Fresh(r)
    BY DEF Fresh, Idle
  <2> QED
    BY <1>2, <2>1, <2>2 DEF StartRebuild
<1>3. ASSUME NEW first \in Minutes, NEW end \in Minutes, StartIngest(j, first, end)
      PROVE  \E r \in JobStates : Begin(j, r) /\ Fresh(r)
  <2> DEFINE months == first .. (Month(end) - 1)
             at == IF months = {} THEN "read" ELSE "months"
             r == [Idle EXCEPT !.kind = "ingest", !.at = at,
                               !.months = {m \in months : ~ Covered(m)},
                               !.from = Month(end) * MonthLen, !.to = end]
  <2>1. Month(end) \in Nat /\ Month(end) <= end /\ Horizon \in Nat /\ MonthLen \in Nat
    BY MonthIsMinute, DataBounds
  <2>2. {m \in months : ~ Covered(m)} \in SUBSET Minutes
    BY <2>1 DEF Minutes
  <2>3. Month(end) * MonthLen \in Nat
    BY <2>1
  <2>4. at \in Stages /\ at \in {"months", "read"}
    BY DEF Stages
  <2>5. r \in JobStates
    <3> HIDE DEF at, months
    <3> QED
      BY <2>2, <2>3, <2>4, IngestStates
  <2>6. Fresh(r)
    <3> HIDE DEF at, months
    <3> QED
      BY <2>4 DEF Fresh, Idle
  <2>7. Begin(j, r)
    BY <1>3, Zenon DEF StartIngest
  <2> QED
    BY <2>5, <2>6, <2>7
<1> QED
  BY <1>1, <1>2, <1>3 DEF Starts

LEMMA TypePreserved == ASSUME TypeOK, [Next]_vars PROVE TypeOK'
<1> USE DEF Stages
<1>1. CASE Tick
  BY <1>1, DataBounds DEF Tick, TypeOK, Minutes
<1>2. ASSUME NEW j \in Jobs, JobNext(j) PROVE TypeOK'
  <2>0. job[j] \in JobStates /\ archive \subseteq Candles
    BY DEF TypeOK
  <2>1. CASE Starts(j)
    BY <2>1, StartsFresh, BeginTyped
  <2>4. CASE FetchMonth(j)
    <3>1. PICK m \in job[j].months :
            /\ archive' \in {archive, Insert(MonthFile(m))}
            /\ Goes(j, [job[j] EXCEPT !.months = job[j].months \ {m}])
            /\ UNCHANGED catalog
      BY <2>4 DEF FetchMonth
    <3>0. job[j].months \ {m} \in SUBSET Minutes
      BY <2>0 DEF JobStates
    <3>2. [job[j] EXCEPT !.months = job[j].months \ {m}] \in JobStates
      BY <2>0, <3>0, StepStates
    <3>3. archive' \subseteq Candles
      BY <3>1, <2>0, MonthFileTyped, InsertGrows
    <3> QED
      BY <3>1, <3>2, <3>3, GoesTyped DEF TypeOK
  <2>5. CASE MonthsDone(j)
    BY <2>0, <2>5, StepStates, GoesTyped DEF MonthsDone, TypeOK
  <2>6. CASE Fetch(j)
    <3>1. PICK n \in job[j].from .. (job[j].to + 1) :
            LET got == Reported(job[j].from, n - 1)
            IN  /\ Goes(j, IF got # {} THEN [job[j] EXCEPT !.at = "insert", !.got = got]
                   ELSE IF job[j].kind = "ingest" THEN [job[j] EXCEPT !.at = "read"] ELSE Idle)
                /\ UNCHANGED <<archive, catalog>>
      BY <2>6 DEF Fetch
    <3> DEFINE got == Reported(job[j].from, n - 1)
    <3>2. got \subseteq Candles
      BY <2>0, ReportedTyped DEF JobStates, TypeOK, Minutes
    <3>3. [job[j] EXCEPT !.at = "insert", !.got = got] \in JobStates
      BY <2>0, <3>2, StepStates
    <3>4. [job[j] EXCEPT !.at = "read"] \in JobStates
      BY <2>0, StepStates
    <3> QED
      BY <3>1, <3>3, <3>4, IdleTyped, GoesTyped DEF TypeOK
  <2>7. CASE InsertKlines(j)
    <3>1. archive' \subseteq Candles
      BY <2>0, <2>7, InsertGrows DEF InsertKlines, JobStates
    <3>2. [job[j] EXCEPT !.at = "read", !.got = {}] \in JobStates
      BY <2>0, StepStates
    <3> QED
      BY <2>7, <3>1, <3>2, GoesTyped DEF InsertKlines, TypeOK
  <2>8. CASE ReadKlines(j)
    <3>1. /\ [job[j] EXCEPT !.at = "write", !.snap = archive, !.left = FrameIds] \in JobStates
          /\ [job[j] EXCEPT !.at = "clear", !.snap = archive, !.left = FrameIds] \in JobStates
      BY <2>0, StepStates
    <3> QED
      BY <2>8, <3>1, IdleTyped, GoesTyped DEF ReadKlines, TypeOK, ToClear
  <2>9. CASE Clear(j)
    <3>1. PICK i \in job[j].left :
            /\ catalog' = [catalog EXCEPT ![i] = {}]
            /\ Goes(j, [job[j] EXCEPT !.left = job[j].left \ {i}])
            /\ UNCHANGED archive
      BY <2>9 DEF Clear
    <3>0. job[j].left \ {i} \in SUBSET FrameIds
      BY <2>0 DEF JobStates
    <3>2. [job[j] EXCEPT !.left = job[j].left \ {i}] \in JobStates
      BY <2>0, <3>0, StepStates
    <3> QED
      BY <3>1, <3>2, GoesTyped DEF TypeOK
  <2>10. CASE Cleared(j)
    <3>1. /\ [job[j] EXCEPT !.at = "read"] \in JobStates
          /\ [job[j] EXCEPT !.at = "write", !.left = FrameIds] \in JobStates
      BY <2>0, StepStates
    <3> QED
      BY <2>10, <3>1, GoesTyped DEF Cleared, TypeOK
  <2>11. CASE Write(j)
    <3>1. PICK i \in job[j].left :
            /\ catalog' = [catalog EXCEPT ![i] = Aggregate(job[j].snap, Frames[i])]
            /\ Goes(j, [job[j] EXCEPT !.left = job[j].left \ {i}])
            /\ UNCHANGED archive
      BY <2>11 DEF Write
    <3>0. job[j].left \ {i} \in SUBSET FrameIds
      BY <2>0 DEF JobStates
    <3>2. [job[j] EXCEPT !.left = job[j].left \ {i}] \in JobStates
      BY <2>0, <3>0, StepStates
    <3>3. Aggregate(job[j].snap, Frames[i]) \in SUBSET SUBSET Candles
      BY <2>0, AggregateCovers DEF JobStates
    <3> QED
      BY <3>1, <3>2, <3>3, GoesTyped DEF TypeOK
  <2>12. CASE Completes(j)
    BY <2>12, IdleTyped DEF Completes, TypeOK
  <2>13. CASE Dies(j)
    BY <2>13, IdleTyped, GoesTyped DEF Dies, TypeOK
  <2> QED
    BY <1>2, <2>1, <2>4, <2>5, <2>6, <2>7, <2>8, <2>9, <2>10, <2>11, <2>12, <2>13
       DEF JobNext, Starts
<1>3. CASE UNCHANGED vars
  BY <1>3 DEF vars, TypeOK
<1> QED
  BY <1>1, <1>2, <1>3 DEF Next

-----------------------------------------------------------------------------
(* What every step of a job has in common *)

Works(j) == \/ FetchMonth(j) \/ MonthsDone(j) \/ Fetch(j) \/ InsertKlines(j)
            \/ ReadKlines(j) \/ Clear(j) \/ Cleared(j) \/ Write(j)

\* A job stays the job it is until it is over.
LEMMA WorkKeeps ==
  ASSUME TypeOK, NEW j \in Jobs, Works(j)
  PROVE  /\ job[j].at # "idle" /\ mixed' = mixed /\ clock' = clock
         /\ \A k \in Jobs \ {j} : job'[k] = job[k]
         /\ \/ job'[j] = Idle
            \/ /\ job'[j].kind = job[j].kind /\ job'[j].alone = job[j].alone
               /\ job'[j].from = job[j].from
               /\ job'[j].snap \in {job[j].snap, archive}
         /\ archive \subseteq archive'
<1>0. job[j] \in JobStates
  BY DEF TypeOK
<1> USE DEF Goes, TypeOK
<1>1. CASE FetchMonth(j)
  BY <1>0, <1>1, InsertGrows DEF FetchMonth, JobStates
<1>2. CASE MonthsDone(j)
  BY <1>0, <1>2 DEF MonthsDone, JobStates
<1>3. CASE Fetch(j)
  BY <1>0, <1>3 DEF Fetch, JobStates
<1>4. CASE InsertKlines(j)
  BY <1>0, <1>4, InsertGrows DEF InsertKlines, JobStates
<1>5. CASE ReadKlines(j)
  BY <1>0, <1>5 DEF ReadKlines, JobStates
<1>6. CASE Clear(j)
  BY <1>0, <1>6 DEF Clear, JobStates
<1>7. CASE Cleared(j)
  BY <1>0, <1>7 DEF Cleared, JobStates
<1>8. CASE Write(j)
  BY <1>0, <1>8 DEF Write, JobStates
<1> QED
  BY <1>1, <1>2, <1>3, <1>4, <1>5, <1>6, <1>7, <1>8 DEF Works

LEMMA StartKeeps ==
  ASSUME TypeOK, NEW j \in Jobs, NEW r \in JobStates, Begin(j, r)
  PROVE  /\ archive' = archive /\ catalog' = catalog /\ clock' = clock
         /\ job'[j] = [r EXCEPT !.alone = Running = {}]
         /\ \A k \in Jobs \ {j} : job'[k] = [job[k] EXCEPT !.alone = FALSE]
         /\ job[j].at = "idle" /\ mixed' = (mixed \/ Running # {})
  BY DEF Begin

\* Whether a job is alone is nothing else of it.
Same(q, r) == /\ q.kind = r.kind /\ q.at = r.at /\ q.from = r.from
              /\ q.got = r.got /\ q.snap = r.snap /\ q.left = r.left

LEMMA AloneOnly ==
  ASSUME NEW r \in JobStates, NEW b
  PROVE  Same([r EXCEPT !.alone = b], r) /\ [r EXCEPT !.alone = b].alone = b
  BY DEF JobStates, Same

LEMMA StartSame ==
  ASSUME TypeOK, NEW j \in Jobs, NEW r \in JobStates, Begin(j, r)
  PROVE  /\ Same(job'[j], r) /\ job'[j].alone = (Running = {})
         /\ \A k \in Jobs \ {j} : Same(job'[k], job[k]) /\ job'[k].alone = FALSE
<1>1. Same(job'[j], r) /\ job'[j].alone = (Running = {})
  <2>1. [r EXCEPT !.alone = Running = {}].alone = (Running = {})
    BY AloneOnly, Zenon
  <2>2. Same([r EXCEPT !.alone = Running = {}], r)
    BY AloneOnly, Zenon
  <2> QED
    BY <2>1, <2>2, StartKeeps, Zenon
<1>2. ASSUME NEW k \in Jobs \ {j} PROVE Same(job'[k], job[k]) /\ job'[k].alone = FALSE
  <2>1. job[k] \in JobStates /\ job'[k] = [job[k] EXCEPT !.alone = FALSE]
    BY StartKeeps DEF TypeOK
  <2> QED
    BY <2>1, AloneOnly
<1> QED
  BY <1>1, <1>2

LEMMA EndKeeps ==
  ASSUME TypeOK, NEW j \in Jobs, Completes(j) \/ Dies(j)
  PROVE  /\ archive' = archive /\ catalog' = catalog /\ clock' = clock
         /\ job[j].at # "idle" /\ job'[j] = Idle
         /\ \A k \in Jobs \ {j} : job'[k] = job[k]
         /\ \/ mixed' = mixed
            \/ Completes(j) /\ job[j].alone /\ ~ mixed'
  BY DEF Completes, Dies, Goes, TypeOK

\* The steps, by what they have in common.
LEMMA Steps ==
  ASSUME [Next]_vars
  PROVE  \/ UNCHANGED <<archive, catalog, job, mixed>>
         \/ \E j \in Jobs : Starts(j) \/ Works(j) \/ Completes(j) \/ Dies(j)
  BY DEF Next, JobNext, Starts, Works, Tick, vars

\* Nothing leaves the archive.
LEMMA ArchiveGrows == ASSUME TypeOK, [Next]_vars PROVE archive \subseteq archive'
<1>1. ASSUME NEW j \in Jobs, Starts(j) PROVE archive' = archive
  BY <1>1, StartsFresh, StartKeeps
<1> QED
  BY <1>1, Steps, WorkKeeps, EndKeeps

-----------------------------------------------------------------------------
(* The catalog comes from the archive *)

LEMMA SnapsPreserved ==
  ASSUME TypeOK, SnapsArchived, [Next]_vars
  PROVE  SnapsArchived'
<1>0. archive \subseteq archive'
  BY ArchiveGrows
<1>1. ASSUME NEW j \in Jobs, Starts(j) PROVE SnapsArchived'
  <2>1. PICK r \in JobStates : Begin(j, r) /\ Fresh(r)
    BY <1>1, StartsFresh
  <2>2. \A k \in Jobs : job'[k].snap \in {job[k].snap, {}}
    BY <2>1, StartSame DEF Fresh, Same
  <2> QED
    BY <2>2, <1>0 DEF SnapsArchived
<1>2. ASSUME NEW j \in Jobs, Works(j) PROVE SnapsArchived'
  <2>1. \A k \in Jobs : job'[k].snap \in {job[k].snap, archive, {}}
    BY <1>2, WorkKeeps DEF Idle
  <2> QED
    BY <2>1, <1>0 DEF SnapsArchived
<1>3. ASSUME NEW j \in Jobs, Completes(j) \/ Dies(j) PROVE SnapsArchived'
  <2>1. \A k \in Jobs : job'[k].snap \in {job[k].snap, {}}
    BY <1>3, EndKeeps DEF Idle
  <2> QED
    BY <2>1, <1>0 DEF SnapsArchived
<1> QED
  BY <1>1, <1>2, <1>3, Steps DEF SnapsArchived

\* How a working job changes the catalog.
LEMMA WorkWrites ==
  ASSUME TypeOK, NEW j \in Jobs, Works(j)
  PROVE  \/ catalog' = catalog
         \/ archive' = archive /\ \E i \in job[j].left :
              /\ catalog' = [catalog EXCEPT ![i] = {}]
              /\ job[j].at = "clear"
              /\ job' = [job EXCEPT ![j] = [job[j] EXCEPT !.left = job[j].left \ {i}]]
         \/ archive' = archive /\ \E i \in job[j].left :
              /\ catalog' = [catalog EXCEPT ![i] = Aggregate(job[j].snap, Frames[i])]
              /\ job[j].at = "write"
              /\ job' = [job EXCEPT ![j] = [job[j] EXCEPT !.left = job[j].left \ {i}]]
  BY DEF Works, FetchMonth, MonthsDone, Fetch, InsertKlines, ReadKlines, Clear, Cleared, Write, Goes

LEMMA CatalogPreserved ==
  ASSUME TypeOK, SnapsArchived, CatalogFromArchive, [Next]_vars
  PROVE  CatalogFromArchive'
<1>0. archive \subseteq archive'
  BY ArchiveGrows
<1>1. CASE catalog' = catalog
  BY <1>0, <1>1 DEF CatalogFromArchive
<1>2. ASSUME NEW j \in Jobs, Works(j) PROVE CatalogFromArchive'
  <2>1. ASSUME NEW i \in FrameIds, catalog' = [catalog EXCEPT ![i] = {}]
        PROVE  CatalogFromArchive'
    BY <2>1, <1>0 DEF CatalogFromArchive, TypeOK
  <2>2. ASSUME NEW i \in FrameIds,
               catalog' = [catalog EXCEPT ![i] = Aggregate(job[j].snap, Frames[i])]
        PROVE  CatalogFromArchive'
    <3>1. \A bar \in Aggregate(job[j].snap, Frames[i]) : bar \subseteq archive
      BY AggregateCovers DEF SnapsArchived
    <3> QED
      BY <2>2, <3>1, <1>0 DEF CatalogFromArchive, TypeOK
  <2>3. job[j].left \subseteq FrameIds
    BY DEF TypeOK, JobStates
  <2> QED
    BY <1>1, <1>2, <2>1, <2>2, <2>3, WorkWrites
<1>3. ASSUME NEW j \in Jobs, Starts(j) \/ Completes(j) \/ Dies(j) PROVE catalog' = catalog
  BY <1>3, StartsFresh, StartKeeps, EndKeeps
<1> QED
  BY <1>1, <1>2, <1>3, Steps

-----------------------------------------------------------------------------
(* An update goes on where the archive ends *)

LEMMA AdjoinsGrows ==
  ASSUME NEW q, NEW r, Same(q, r), Adjoins(r), archive \subseteq archive'
  PROVE  Adjoins(q)'
<1>1. Times(archive) \subseteq Times(archive')
  BY DEF Times
<1> QED
  BY <1>1 DEF Adjoins, Same, Times

LEMMA AdjoinsPreserved ==
  ASSUME TypeOK, UpdatesAdjoin, [Next]_vars
  PROVE  UpdatesAdjoin'
<1>0. archive \subseteq archive' /\ Times(archive) \subseteq Times(archive')
  BY ArchiveGrows DEF Times
<1>1. \A k \in Jobs : job'[k] = job[k] => Adjoins(job[k])'
  BY <1>0 DEF UpdatesAdjoin, Adjoins
<1>2. \A k \in Jobs : job'[k] = Idle => Adjoins(job[k])'
  BY DEF Adjoins, Idle
<1>3. ASSUME NEW j \in Jobs, Starts(j) PROVE UpdatesAdjoin'
  <2>1. PICK r \in JobStates : Begin(j, r) /\ Fresh(r)
    BY <1>3, StartsFresh
  <2>2. Adjoins(job[j])'
    <3>1. Times(job[j].got)' = {}
      BY <2>1, StartSame DEF Fresh, Same, Times
    <3>2. Same(job'[j], r) /\ Fresh(r) /\ Times(archive)' = Times(archive)
      BY <2>1, StartSame, StartKeeps DEF Times
    <3> QED
      BY <3>1, <3>2 DEF Fresh, Same, Adjoins
  <2>3. ASSUME NEW k \in Jobs \ {j} PROVE Adjoins(job[k])'
    BY <2>1, StartSame, <1>0 DEF Same, Adjoins, UpdatesAdjoin
  <2> QED
    BY <2>2, <2>3 DEF UpdatesAdjoin
<1>4. ASSUME NEW j \in Jobs, Works(j) PROVE UpdatesAdjoin'
  <2>0. job[j] \in JobStates /\ Adjoins(job[j]) /\ clock \in Minutes
    BY DEF TypeOK, UpdatesAdjoin
  <2>1. CASE Fetch(j)
    <3>1. PICK n \in job[j].from .. (job[j].to + 1) :
            /\ job[j].at = "fetch"
            /\ Goes(j, IF Reported(job[j].from, n - 1) # {}
                       THEN [job[j] EXCEPT !.at = "insert", !.got = Reported(job[j].from, n - 1)]
                       ELSE IF job[j].kind = "ingest" THEN [job[j] EXCEPT !.at = "read"] ELSE Idle)
      BY <2>1 DEF Fetch
    <3> DEFINE got == Reported(job[j].from, n - 1)
    <3>2. job[j].from \in Nat /\ n - 1 \in Int
      BY <2>0 DEF JobStates, Minutes
    <3>3. Times(got) = {u \in job[j].from .. (n - 1) : u <= clock}
      BY <3>2, <2>0, ReportedTimes
    <3>4. \A u \in Times(got) : job[j].from <= u /\ job[j].from .. u \subseteq Times(got)
      BY <3>2, <3>3, <2>0 DEF Minutes
    <3>5. \/ job'[j] = Idle
          \/ job'[j] = [job[j] EXCEPT !.at = "read"]
          \/ job'[j] = [job[j] EXCEPT !.at = "insert", !.got = got]
      BY <3>1 DEF Goes, TypeOK
    <3>6. ASSUME job'[j] = [job[j] EXCEPT !.at = "read"]
         PROVE  Adjoins(job[j])'
      <4>1. job'[j].at = "read"
        BY <3>6, <2>0 DEF JobStates
      <4> QED
        BY <4>1 DEF Adjoins
    <3>7. ASSUME job'[j] = [job[j] EXCEPT !.at = "insert", !.got = got]
         PROVE  Adjoins(job[j])'
      <4>1. job'[j].kind = job[j].kind /\ job'[j].from = job[j].from /\ job'[j].got = got
        BY <3>7, <2>0 DEF JobStates
      <4>2. job[j].kind = "update" => job[j].from - 1 \in Times(archive)'
        BY <3>1, <2>0, <1>0 DEF Adjoins, Times
      <4> HIDE DEF got
      <4>3. Times(job[j].got)' = Times(got) /\ job'[j].at = "insert"
        BY <4>1, <3>7, <2>0 DEF Times, JobStates
      <4> QED
        BY <4>1, <4>2, <4>3, <3>4 DEF Adjoins
    <3>8. Adjoins(job[j])'
      BY <3>5, <3>6, <3>7, <1>2
    <3> QED
      BY <3>8, <1>1, <1>4, WorkKeeps DEF UpdatesAdjoin
  <2>2. CASE ~ Fetch(j)
    <3>1. \/ job'[j] = Idle
          \/ job'[j].kind = job[j].kind /\ job[j].at = "months"
          \/ job'[j].at \in {"read", "clear", "write"}
      <4> USE DEF Goes, TypeOK
      <4>1. CASE FetchMonth(j) \/ MonthsDone(j)
        BY <2>0, <4>1 DEF FetchMonth, MonthsDone, JobStates
      <4>2. CASE InsertKlines(j)
        BY <2>0, <4>2 DEF InsertKlines, JobStates
      <4>3. CASE ReadKlines(j)
        BY <2>0, <4>3 DEF ReadKlines, JobStates
      <4>4. CASE Clear(j)
        BY <2>0, <4>4 DEF Clear, JobStates
      <4>5. CASE Cleared(j)
        BY <2>0, <4>5 DEF Cleared, JobStates
      <4>6. CASE Write(j)
        BY <2>0, <4>6 DEF Write, JobStates
      <4> QED
        BY <1>4, <2>2, <4>1, <4>2, <4>3, <4>4, <4>5, <4>6 DEF Works
    <3>2. Adjoins(job[j])'
      BY <3>1, <1>2, <2>0 DEF Adjoins
    <3> QED
      BY <3>2, <1>1, <1>4, WorkKeeps DEF UpdatesAdjoin
  <2> QED
    BY <2>1, <2>2
<1> QED
  BY <1>1, <1>2, <1>3, <1>4, Steps, EndKeeps DEF UpdatesAdjoin

-----------------------------------------------------------------------------
(* A job alone *)

LEMMA SoloPreserved ==
  ASSUME TypeOK, Solo, [Next]_vars
  PROVE  Solo'
<1>1. ASSUME NEW j \in Jobs, Starts(j) PROVE Solo'
  <2>1. PICK r \in JobStates : Begin(j, r) /\ Fresh(r)
    BY <1>1, StartsFresh
  <2>2. /\ job'[j].alone = (Running = {}) /\ mixed' = (mixed \/ Running # {})
        /\ \A k \in Jobs \ {j} : job'[k].alone = FALSE /\ job'[k].at = job[k].at
    BY <2>1, StartSame, StartKeeps DEF Same
  <2> QED
    BY <2>2 DEF Solo, Running
<1>2. ASSUME NEW j \in Jobs, Works(j) PROVE Solo'
  <2>1. job'[j].at = "idle" \/ job'[j].alone = job[j].alone
    BY <1>2, WorkKeeps DEF Idle
  <2> QED
    BY <1>2, <2>1, WorkKeeps DEF Solo
<1>3. ASSUME NEW j \in Jobs, Completes(j) \/ Dies(j) PROVE Solo'
  <2>1. job'[j].at = "idle"
    BY <1>3, EndKeeps DEF Idle
  <2> QED
    BY <1>3, <2>1, EndKeeps DEF Solo
<1> QED
  BY <1>1, <1>2, <1>3, Steps DEF Solo

\* Each step of a job alone leaves the catalog as its next stage expects it.
LEMMA WorkBuilds ==
  ASSUME TypeOK, NEW j \in Jobs, Works(j), Builds(job[j])
  PROVE  Builds(job[j])'
<1>0. job[j] \in JobStates /\ job[j].left \subseteq FrameIds
  BY DEF TypeOK, JobStates
<1> USE DEF Goes, TypeOK
<1>1. CASE FetchMonth(j)
  <2>1. job'[j].at = "months" /\ job'[j].kind = job[j].kind /\ job[j].at = "months"
    BY <1>0, <1>1 DEF FetchMonth, JobStates
  <2> QED
    BY <2>1 DEF Builds
<1>2. CASE MonthsDone(j)
  <2>1. job'[j].at = "fetch" /\ job'[j].kind = job[j].kind /\ job[j].at = "months"
    BY <1>0, <1>2 DEF MonthsDone, JobStates
  <2> QED
    BY <2>1 DEF Builds
<1>3. CASE Fetch(j)
  <2>1. /\ job'[j].at \in {"idle", "insert", "read"} /\ job[j].at = "fetch"
        /\ job'[j].at = "idle" \/ job'[j].kind = job[j].kind
    BY <1>0, <1>3 DEF Fetch, JobStates, Idle
  <2> QED
    BY <2>1 DEF Builds
<1>4. CASE InsertKlines(j)
  <2>1. job'[j].at = "read" /\ job'[j].kind = job[j].kind /\ job[j].at = "insert"
    BY <1>0, <1>4 DEF InsertKlines, JobStates
  <2> QED
    BY <2>1 DEF Builds
<1>5. CASE ReadKlines(j)
  <2>1. \/ job'[j].at = "idle"
        \/ /\ job'[j].at = "write" /\ job[j].kind = "rebuild" /\ job[j].at = "read"
           /\ job'[j].snap = archive /\ job'[j].left = FrameIds
        \/ job'[j].at = "clear" /\ job'[j].snap = archive /\ job'[j].left = FrameIds
    BY <1>0, <1>5 DEF ReadKlines, JobStates, Idle, ToClear
  <2>2. archive' = archive /\ catalog' = catalog
    BY <1>5 DEF ReadKlines
  <2> QED
    BY <2>1, <2>2 DEF Builds
<1>6. CASE Clear(j)
  <2>1. PICK i \in job[j].left :
          /\ job[j].at = "clear" /\ archive' = archive
          /\ catalog' = [catalog EXCEPT ![i] = {}]
          /\ job' = [job EXCEPT ![j] = [job[j] EXCEPT !.left = job[j].left \ {i}]]
    BY <1>6 DEF Clear
  <2>2. /\ job'[j].at = "clear" /\ job'[j].left = job[j].left \ {i}
        /\ job'[j].kind = job[j].kind /\ job'[j].snap = job[j].snap
    BY <1>0, <2>1 DEF JobStates
  <2>3. \A k \in FrameIds \ job'[j].left : catalog'[k] = {}
    BY <1>0, <2>1, <2>2 DEF Builds
  <2> QED
    BY <2>1, <2>2, <2>3 DEF Builds
<1>7. CASE Cleared(j)
  <2>1. /\ job[j].at = "clear" /\ job[j].left = {} /\ archive' = archive /\ catalog' = catalog
        /\ \/ job'[j].at = "read"
           \/ /\ job'[j].at = "write" /\ job[j].kind # "rebuild"
              /\ job'[j].left = FrameIds /\ job'[j].snap = job[j].snap
    BY <1>0, <1>7 DEF Cleared, JobStates
  <2>2. \A i \in FrameIds : catalog[i] = {}
    BY <2>1 DEF Builds
  <2> QED
    BY <2>1, <2>2 DEF Builds
<1>8. CASE Write(j)
  <2>1. PICK i \in job[j].left :
          /\ job[j].at = "write" /\ archive' = archive
          /\ catalog' = [catalog EXCEPT ![i] = Aggregate(job[j].snap, Frames[i])]
          /\ job' = [job EXCEPT ![j] = [job[j] EXCEPT !.left = job[j].left \ {i}]]
    BY <1>8 DEF Write
  <2>2. /\ job'[j].at = "write" /\ job'[j].left = job[j].left \ {i}
        /\ job'[j].snap = job[j].snap
    BY <1>0, <2>1 DEF JobStates
  <2>3. job[j].snap = archive
    BY <2>1 DEF Builds
  <2>4. \A k \in FrameIds \ job'[j].left : catalog'[k] = Aggregate(archive, Frames[k])
    BY <1>0, <2>1, <2>2, <2>3 DEF Builds
  <2>5. \A k \in job'[j].left : catalog'[k] = {}
    BY <1>0, <2>1, <2>2 DEF Builds
  <2>6. \A k \in FrameIds : Aggregate(archive, Frames[k])' = Aggregate(archive, Frames[k])
    BY <2>1 DEF Aggregate
  <2> QED
    BY <2>1, <2>2, <2>3, <2>4, <2>5, <2>6 DEF Builds
<1> QED
  BY <1>1, <1>2, <1>3, <1>4, <1>5, <1>6, <1>7, <1>8 DEF Works

LEMMA BuildsPreserved ==
  ASSUME TypeOK, Solo, SoloBuilds, [Next]_vars
  PROVE  SoloBuilds'
<1>1. ASSUME NEW j \in Jobs, Starts(j) PROVE SoloBuilds'
  <2>1. PICK r \in JobStates : Begin(j, r) /\ Fresh(r)
    BY <1>1, StartsFresh
  <2>2. Fresh(r) /\ Same(job'[j], r) /\ catalog' = catalog /\ archive' = archive
        /\ \A k \in Jobs \ {j} : job'[k].alone = FALSE
    BY <2>1, StartSame, StartKeeps
  <2>3. Builds(job[j])'
    BY <2>2 DEF Same, Fresh, Builds
  <2> QED
    BY <2>2, <2>3 DEF SoloBuilds
<1>2. ASSUME NEW j \in Jobs, Works(j) PROVE SoloBuilds'
  <2>1. ASSUME NEW k \in Jobs, job'[k].at # "idle", job'[k].alone PROVE Builds(job[k])'
    <3>1. CASE k = j
      <4>1. job[j].at # "idle" /\ job[j].alone
        BY <1>2, <2>1, <3>1, WorkKeeps DEF Idle
      <4> QED
        BY <4>1, <3>1, <1>2, WorkBuilds DEF SoloBuilds
    <3>2. CASE k # j
      BY <1>2, <2>1, <3>2, WorkKeeps DEF Solo
    <3> QED
      BY <3>1, <3>2
  <2> QED
    BY <2>1 DEF SoloBuilds
<1>3. ASSUME NEW j \in Jobs, Completes(j) \/ Dies(j) PROVE SoloBuilds'
  <2>1. ASSUME NEW k \in Jobs, job'[k].at # "idle", job'[k].alone PROVE FALSE
    <3>1. k # j /\ job[k].at # "idle" /\ job[k].alone /\ job[j].at # "idle"
      BY <1>3, <2>1, EndKeeps DEF Idle
    <3> QED
      BY <3>1 DEF Solo
  <2> QED
    BY <2>1 DEF SoloBuilds
<1>4. CASE UNCHANGED <<archive, catalog, job, mixed>>
  <2>1. \A i \in FrameIds : Aggregate(archive, Frames[i])' = Aggregate(archive, Frames[i])
    BY <1>4 DEF Aggregate
  <2>2. ASSUME NEW k \in Jobs, Builds(job[k]) PROVE Builds(job[k])'
    BY <1>4, <2>1, <2>2 DEF Builds
  <2> QED
    BY <1>4, <2>2 DEF SoloBuilds
<1> QED
  BY <1>1, <1>2, <1>3, <1>4, Steps

LEMMA OneSnapshotPreserved ==
  ASSUME TypeOK, Solo, SoloBuilds, OneSnapshot, [Next]_vars
  PROVE  OneSnapshot'
<1>1. ASSUME NEW j \in Jobs, Starts(j) PROVE OneSnapshot'
  <2>1. catalog' = catalog /\ (mixed => mixed')
    BY <1>1, StartsFresh, StartKeeps
  <2> QED
    BY <2>1 DEF OneSnapshot
<1>2. ASSUME NEW j \in Jobs, Works(j), ~ mixed' PROVE OneSnapshot'
  <2>1. ~ mixed /\ Builds(job[j])
    BY <1>2, WorkKeeps DEF Solo, SoloBuilds
  <2>2. job[j].left \subseteq FrameIds
    BY DEF TypeOK, JobStates
  <2>3. CASE catalog' = catalog
    BY <2>1, <2>3 DEF OneSnapshot
  <2>4. ASSUME NEW i \in job[j].left, catalog' = [catalog EXCEPT ![i] = {}]
        PROVE  OneSnapshot'
    <3>1. \A k \in FrameIds : catalog'[k] \in {catalog[k], {}}
      BY <2>2, <2>4 DEF TypeOK
    <3> QED
      BY <2>1, <3>1 DEF OneSnapshot
  <2>5. ASSUME NEW i \in job[j].left, job[j].at = "write",
               catalog' = [catalog EXCEPT ![i] = Aggregate(job[j].snap, Frames[i])]
        PROVE  OneSnapshot'
    <3>1. \A k \in FrameIds : catalog'[k] \in {Aggregate(archive, Frames[k]), {}}
      BY <2>1, <2>2, <2>5 DEF TypeOK, Builds
    <3>2. \A k \in FrameIds : catalog'[k] # {} => UNION catalog'[k] = archive
      BY <3>1, AggregateCovers
    <3> QED
      BY <3>2 DEF OneSnapshot
  <2> QED
    BY <1>2, <2>3, <2>4, <2>5, WorkWrites
<1>3. ASSUME NEW j \in Jobs, Completes(j) PROVE OneSnapshot'
  <2>1. catalog' = catalog /\ job[j].at = "write" /\ job[j].left = {}
        /\ (mixed' = mixed \/ job[j].alone)
    BY <1>3, EndKeeps DEF Completes
  <2>2. CASE mixed' = mixed
    BY <2>1, <2>2 DEF OneSnapshot
  <2>3. CASE job[j].alone
    <3>1. \A i \in FrameIds : catalog[i] = Aggregate(archive, Frames[i])
      BY <2>1, <2>3 DEF SoloBuilds, Builds
    <3>2. \A i \in FrameIds : UNION catalog[i] = archive
      BY <3>1, AggregateCovers
    <3> QED
      BY <2>1, <3>2 DEF OneSnapshot
  <2> QED
    BY <2>1, <2>2, <2>3
<1>4. ASSUME NEW j \in Jobs, Dies(j) PROVE OneSnapshot'
  BY <1>4 DEF Dies, Goes, OneSnapshot
<1> QED
  BY <1>1, <1>2, <1>3, <1>4, Steps DEF OneSnapshot

-----------------------------------------------------------------------------
(* The theorems *)

LEMMA InitIInv == Init => IInv
<1> SUFFICES ASSUME Init PROVE IInv
  OBVIOUS
<1>1. TypeOK
  <2>1. job \in [Jobs -> JobStates]
    BY IdleTyped DEF Init
  <2>2. catalog \in [FrameIds -> SUBSET SUBSET Candles] /\ archive \in SUBSET Candles
    BY DEF Init
  <2>3. starts \in 0 .. MaxStarts
    BY DataBounds DEF Init
  <2> QED
    BY <2>1, <2>2, <2>3 DEF Init, TypeOK
<1>2. \A j \in Jobs : job[j].at = "idle" /\ job[j].kind = "none" /\ job[j].snap = {}
  BY DEF Init, Idle
<1>3. SnapsArchived /\ UpdatesAdjoin /\ Solo /\ SoloBuilds
  BY <1>2 DEF SnapsArchived, UpdatesAdjoin, Adjoins, Solo, SoloBuilds
<1>4. CatalogFromArchive /\ OneSnapshot
  BY DEF Init, CatalogFromArchive, OneSnapshot
<1> QED
  BY <1>1, <1>3, <1>4 DEF IInv

THEOREM Inductive == Spec => []IInv
<1>1. Init => IInv
  BY InitIInv
<1>2. IInv /\ [Next]_vars => IInv'
  BY TypePreserved, SnapsPreserved, CatalogPreserved, AdjoinsPreserved, SoloPreserved,
     BuildsPreserved, OneSnapshotPreserved DEF IInv
<1> QED
  BY <1>1, <1>2, PTL DEF Spec

\* Every variable has its type, in every reachable state (data/ingest.py).
THEOREM TypeCorrect == Spec => []TypeOK
<1>1. IInv => TypeOK
  BY DEF IInv
<1> QED
  BY <1>1, Inductive, PTL

\* Every candle of every bar is archived as it is in the bar (build_catalog,
\* insert_klines): what a job has read stays in the archive.
THEOREM BarsArchived == Spec => []CatalogFromArchive
<1>1. IInv => CatalogFromArchive
  BY DEF IInv
<1> QED
  BY <1>1, Inductive, PTL

\* While jobs have not overlapped, all timeframes that have bars have those of
\* the same candles (clear_bar_data and write_bars in update_symbol).
THEOREM TimeframesAgree == Spec => []OneSnapshot
<1>1. IInv => OneSnapshot
  BY DEF IInv
<1> QED
  BY <1>1, Inductive, PTL

\* What an update appends closes up with the candle it follows, so any minute
\* between archived ones that it leaves out was left out before (update_symbol).
THEOREM NoNewHole == Spec => UpdateMakesNoHole
<1>1. ASSUME IInv, [Next]_vars, NEW j \in Jobs,
             job[j].kind = "update", job[j].at = "insert", job'[j].at = "read"
      PROVE  Holes(archive') \subseteq Holes(archive)
  <2>1. job[j] \in JobStates /\ archive \subseteq Candles /\ job[j].got \subseteq Candles
    BY <1>1 DEF IInv, TypeOK, JobStates
  <2>2. archive' = Insert(job[j].got)
    <3>1. ASSUME NEW k \in Jobs, Starts(k) PROVE FALSE
      <4>1. PICK r \in JobStates : Begin(k, r) /\ Fresh(r)
        BY <1>1, <3>1, StartsFresh DEF IInv
      <4>2. job'[j].at = job[j].at \/ job[j].at = "idle"
        BY <1>1, <4>1, StartSame, StartKeeps DEF IInv, Same
      <4> QED
        BY <1>1, <4>2
    <3>2. ASSUME NEW k \in Jobs, Completes(k) \/ Dies(k) PROVE FALSE
      BY <1>1, <3>2, EndKeeps DEF IInv, Idle
    <3>3. ASSUME NEW k \in Jobs, Works(k) PROVE k = j
      BY <1>1, <3>3, WorkKeeps DEF IInv
    <3>4. Works(j)
      BY <1>1, <3>1, <3>2, <3>3, Steps
    <3> QED
      BY <1>1, <3>4 DEF Works, FetchMonth, MonthsDone, Fetch, InsertKlines,
                        ReadKlines, Clear, Cleared, Write
  <2>3. Times(archive') = Times(archive) \cup Times(job[j].got)
    BY <2>2, InsertGrows
  <2> DEFINE A == Times(archive)
             G == Times(job[j].got)
             f == job[j].from
  <2>4. f - 1 \in A /\ \A u \in G : f <= u /\ f .. u \subseteq G
    BY <1>1 DEF IInv, UpdatesAdjoin, Adjoins
  <2>5. A \subseteq Minutes /\ G \subseteq Minutes /\ f \in Nat /\ Minutes \subseteq Int
    BY <2>1 DEF Times, Candles, JobStates, Minutes
  <2>6. ASSUME NEW t \in Minutes \ (A \cup G), NEW u \in A \cup G, NEW v \in A \cup G, u < t, t < v
        PROVE  (\E w \in A : w < t) /\ \E w \in A : t < w
    <3> HIDE DEF A, G, f
    <3>1. \E w \in A : w < t
      BY <2>4, <2>5, <2>6
    <3>2. CASE v \in A
      BY <3>1, <3>2, <2>6
    <3>3. CASE v \in G
      <4>1. ~ (f <= t)
        BY <2>4, <2>5, <2>6, <3>3
      <4>2. t < f - 1
        BY <4>1, <2>4, <2>5
      <4> QED
        BY <3>1, <4>2, <2>4
    <3> QED
      BY <3>2, <3>3
  <2>7. ASSUME NEW t \in Holes(archive') PROVE t \in Holes(archive)
    BY <2>3, <2>6, <2>7 DEF Holes
  <2> QED
    BY <2>7
<1>2. IInv /\ [Next]_vars =>
        [\A j \in Jobs :
           job[j].kind = "update" /\ job[j].at = "insert" /\ job'[j].at = "read" =>
             Holes(archive') \subseteq Holes(archive)]_vars
  BY <1>1
<1> QED
  BY <1>2, Inductive, PTL DEF Spec, UpdateMakesNoHole

\* A job alone at its end has put every archived candle into the bar of its period,
\* with the whole period, in every timeframe (write_bars in build_catalog).
THEOREM CatalogComplete == Spec => CompletesWhole
<1>1. ASSUME IInv, NEW j \in Jobs, job[j].at = "write", job[j].left = {}, job[j].alone,
             NEW i \in FrameIds, NEW c \in archive
      PROVE  \E bar \in catalog[i] :
               c \in bar /\ bar = {d \in archive : d.t \div Frames[i] = c.t \div Frames[i]}
  <2>1. catalog[i] = Aggregate(archive, Frames[i])
    BY <1>1 DEF IInv, SoloBuilds, Builds
  <2> QED
    BY <2>1, AggregateCovers
<1>2. IInv /\ [Next]_vars =>
        [\A j \in Jobs :
           job[j].at = "write" /\ job[j].left = {} /\ job[j].alone /\ job'[j].at = "idle" =>
             \A i \in FrameIds, c \in archive :
               \E bar \in catalog[i] :
                 c \in bar /\ bar = {d \in archive : d.t \div Frames[i] = c.t \div Frames[i]}]_vars
  BY <1>1
<1> QED
  BY <1>2, Inductive, PTL DEF Spec, CompletesWhole

-----------------------------------------------------------------------------
(* Numbers.                                                                 *)

LEMMA Least ==
  ASSUME NEW T \in SUBSET Nat, T # {}
  PROVE  \E x \in T : \A y \in T : x <= y
  <1>1. \E x \in T : \A y \in T : <<y, x>> \notin OpToRel(<, Nat)
    BY NatLessThanWellFounded, WFMin
  <1>2. PICK x \in T : \A y \in T : <<y, x>> \notin OpToRel(<, Nat)
    BY <1>1
  <1>3. \A y \in T : ~ (y < x)
    BY <1>2 DEF OpToRel
  <1> QED BY <1>3

\* What holds of nothing and of each number after the one before.
LEMMA UpTo ==
  ASSUME NEW N \in Nat, NEW G, 0 \in G, \A n \in 1 .. N : n - 1 \in G => n \in G
  PROVE  0 .. N \subseteq G
  <1> DEFINE T == (0 .. N) \ G
  <1>1. SUFFICES ASSUME T # {} PROVE FALSE
    OBVIOUS
  <1>2. T \in SUBSET Nat
    OBVIOUS
  <1>3. PICK x \in T : \A y \in T : x <= y
    BY <1>1, <1>2, Least
  <1>4. x \in 1 .. N /\ x - 1 \in 0 .. N /\ x - 1 \notin T
    BY <1>3
  <1> QED BY <1>3, <1>4

\* A function that is defined by recursion up to N exists.
LEMMA Recursion ==
  ASSUME NEW S, NEW a \in S, NEW N \in Nat, NEW step \in [1 .. N -> [S -> S]]
  PROVE  \E f \in [0 .. N -> S] : f[0] = a /\ \A n \in 1 .. N : f[n] = step[n][f[n - 1]]
  <1> DEFINE Good(m) == \E f \in [0 .. m -> S] : f[0] = a /\ \A n \in 1 .. m : f[n] = step[n][f[n - 1]]
             G == {m \in 0 .. N : Good(m)}
  <1>1. 0 \in G
    <2> DEFINE h == [n \in 0 .. 0 |-> a]
    <2>1. h \in [0 .. 0 -> S] /\ h[0] = a
      OBVIOUS
    <2> HIDE DEF h
    <2>2. Good(0)
      BY <2>1
    <2> HIDE DEF Good
    <2> QED BY <2>2
  <1>2. \A m \in 1 .. N : m - 1 \in G => m \in G
    <2> HIDE DEF Good
    <2> SUFFICES ASSUME NEW m \in 1 .. N, Good(m - 1) PROVE Good(m)
      OBVIOUS
    <2> USE DEF Good
    <2>1. PICK f \in [0 .. m - 1 -> S] : f[0] = a /\ \A n \in 1 .. m - 1 : f[n] = step[n][f[n - 1]]
      OBVIOUS
    <2> DEFINE g == [n \in 0 .. m |-> IF n = m THEN step[m][f[m - 1]] ELSE f[n]]
    <2>2. f[m - 1] \in S /\ step[m][f[m - 1]] \in S
      OBVIOUS
    <2>3. g \in [0 .. m -> S] /\ g[m] = step[m][f[m - 1]] /\ \A n \in 0 .. m - 1 : g[n] = f[n]
      BY <2>2
    <2> HIDE DEF g
    <2>4. \A n \in 1 .. m : g[n] = step[n][g[n - 1]]
      BY <2>1, <2>3
    <2>5. g[0] = a
      BY <2>1, <2>3
    <2> QED BY <2>3, <2>4, <2>5
  <1> HIDE DEF G
  <1>3. 0 .. N \subseteq G
    BY <1>1, <1>2, UpTo
  <1>4. Good(N)
    BY <1>3 DEF G
  <1> QED BY <1>4

-----------------------------------------------------------------------------
(* Sorting.                                                                 *)

\* A later index has more below it.
LEMMA PlacesDiffer ==
  ASSUME NEW I, IsFiniteSet(I), I \subseteq Nat, NEW key \in [I -> Int], NEW i \in I, NEW j \in I,
         i # j, Precedes(key, i, j)
  PROVE  /\ Cardinality(Below(key, i)) \in Nat /\ Cardinality(Below(key, j)) \in Nat
         /\ Cardinality(Below(key, i)) < Cardinality(Below(key, j))
  <1>0. DOMAIN key = I /\ \A x \in I : x \in Int /\ key[x] \in Int
    OBVIOUS
  <1>1. Below(key, i) \subseteq Below(key, j) /\ Below(key, j) \subseteq I
    <2>1. \A x \in I : Precedes(key, x, i) => Precedes(key, x, j)
      BY <1>0 DEF Precedes
    <2> QED BY <1>0, <2>1 DEF Below
  <1>2. j \in Below(key, j) /\ j \notin Below(key, i)
    BY DEF Below, Precedes
  <1>3. IsFiniteSet(Below(key, j))
    BY <1>1, FS_Subset
  <1>4. /\ IsFiniteSet(Below(key, i))
        /\ Cardinality(Below(key, i)) <= Cardinality(Below(key, j))
        /\ Cardinality(Below(key, j)) = Cardinality(Below(key, i)) => Below(key, j) = Below(key, i)
    BY <1>1, <1>3, FS_Subset
  <1>5. Cardinality(Below(key, i)) \in Nat /\ Cardinality(Below(key, j)) \in Nat
    BY <1>3, <1>4, FS_CardinalityType
  <1> QED BY <1>2, <1>4, <1>5

LEMMA Comparable ==
  ASSUME NEW I, I \subseteq Nat, NEW key \in [I -> Int], NEW i \in I, NEW j \in I
  PROVE  Precedes(key, i, j) \/ Precedes(key, j, i)
  BY DEF Precedes

\* Every place is taken.
LEMMA PlacesTaken ==
  ASSUME NEW I, IsFiniteSet(I), I \subseteq Nat, NEW key \in [I -> Int], NEW k \in 1 .. Cardinality(I)
  PROVE  \E i \in I : Cardinality(Below(key, i)) = k
  <1> DEFINE n == Cardinality(I)
             place == [i \in I |-> Cardinality(Below(key, i))]
  <1>1. n \in Nat
    BY FS_CardinalityType
  <1>2. \A i \in I : Cardinality(Below(key, i)) \in 1 .. n
    <2> SUFFICES ASSUME NEW i \in I PROVE Cardinality(Below(key, i)) \in 1 .. n
      OBVIOUS
    <2>1. Below(key, i) \subseteq I /\ i \in Below(key, i)
      BY DEF Below, Precedes
    <2>2. IsFiniteSet(Below(key, i)) /\ Cardinality(Below(key, i)) <= n
      BY <2>1, FS_Subset
    <2>3. Cardinality(Below(key, i)) \in Nat /\ Cardinality(Below(key, i)) # 0
      BY <2>1, <2>2, FS_CardinalityType, FS_EmptySet
    <2> QED BY <1>1, <2>2, <2>3
  <1> HIDE DEF n
  <1>3. place \in [I -> 1 .. n]
    BY <1>2
  <1>4. \A i, j \in I : place[i] = place[j] => i = j
    <2> SUFFICES ASSUME NEW i \in I, NEW j \in I, i # j PROVE place[i] # place[j]
      OBVIOUS
    <2>1. CASE Precedes(key, i, j)
      <3>1. Cardinality(Below(key, i)) < Cardinality(Below(key, j)) /\ Cardinality(Below(key, i)) \in Nat
        BY <2>1, PlacesDiffer
      <3> QED BY <3>1
    <2>2. CASE Precedes(key, j, i)
      <3>1. Cardinality(Below(key, j)) < Cardinality(Below(key, i)) /\ Cardinality(Below(key, j)) \in Nat
        BY <2>2, PlacesDiffer
      <3> QED BY <3>1
    <2> QED BY <2>1, <2>2, Comparable
  <1>5. place \in Injection(I, 1 .. n)
    BY <1>3, <1>4 DEF Injection, IsInjective
  <1>6. IsFiniteSet(1 .. n) /\ Cardinality(1 .. n) = n
    BY <1>1, FS_Interval
  <1> HIDE DEF place
  <1>7. place \in Surjection(I, 1 .. n)
    BY <1>5, <1>6, FS_Injection DEF n
  <1>8. PICK i \in I : place[i] = k
    BY <1>7 DEF Surjection, n
  <1> QED BY <1>8 DEF place

LEMMA NthPlace ==
  ASSUME NEW I, IsFiniteSet(I), I \subseteq Nat, NEW key \in [I -> Int], NEW k \in 1 .. Cardinality(I)
  PROVE  Nth(key, k) \in I /\ Cardinality(Below(key, Nth(key, k))) = k
  <1>1. DOMAIN key = I
    OBVIOUS
  <1>2. \E i \in DOMAIN key : Cardinality(Below(key, i)) = k
    BY <1>1, PlacesTaken
  <1>3. Nth(key, k) \in DOMAIN key /\ Cardinality(Below(key, Nth(key, k))) = k
    BY <1>2 DEF Nth
  <1> QED BY <1>1, <1>3

LEMMA NthOrders ==
  ASSUME NEW I, IsFiniteSet(I), I \subseteq Nat, NEW key \in [I -> Int],
         NEW k \in 1 .. Cardinality(I), NEW l \in 1 .. Cardinality(I), k < l
  PROVE  Nth(key, k) # Nth(key, l) /\ key[Nth(key, k)] <= key[Nth(key, l)]
  <1> DEFINE i == Nth(key, k)
             j == Nth(key, l)
  <1>1. i \in I /\ j \in I /\ Cardinality(Below(key, i)) = k /\ Cardinality(Below(key, j)) = l
    BY NthPlace
  <1>2. Cardinality(I) \in Nat
    BY FS_CardinalityType
  <1> HIDE DEF i, j
  <1>3. i # j
    BY <1>1, <1>2
  <1>4. ~ Precedes(key, j, i)
    <2> SUFFICES ASSUME Precedes(key, j, i) PROVE FALSE
      OBVIOUS
    <2>1. Cardinality(Below(key, j)) < Cardinality(Below(key, i))
      BY <1>1, <1>3, PlacesDiffer
    <2> QED BY <1>1, <1>2, <2>1
  <1>5. key[i] <= key[j]
    BY <1>1, <1>4 DEF Precedes
  <1> QED BY <1>3, <1>5 DEF i, j

\* Nothing in front.
LEMMA FrontEmpty ==
  ASSUME NEW T, NEW s \in Seq(T)
  PROVE  << >> \o s = s
  OBVIOUS

Ordered(s, key) == [k \in 1 .. Cardinality(DOMAIN key) |-> s[Nth(key, k)]]

LEMMA SortedForm ==
  ASSUME NEW I, IsFiniteSet(I), I \subseteq Nat, NEW key \in [I -> Int], NEW s
  PROVE  Sorted(s, key) = Ordered(s, key)
  <1> DEFINE n == Cardinality(I)
             list == [k \in 1 .. n |-> s[Nth(key, k)]]
             T == {s[i] : i \in I}
  <1>1. n \in Nat
    BY FS_CardinalityType
  <1>2. \A k \in 1 .. n : s[Nth(key, k)] \in T
    BY NthPlace
  <1>3. Sorted(s, key) = << >> \o list
    BY DEF Sorted
  <1> HIDE DEF n, T
  <1>4. list \in Seq(T)
    BY <1>1, <1>2
  <1> HIDE DEF list
  <1>5. Sorted(s, key) = list
    BY <1>3, <1>4, FrontEmpty
  <1> QED BY <1>5 DEF list, n, Ordered

LEMMA SortedIs ==
  ASSUME NEW I, IsFiniteSet(I), I \subseteq Nat, NEW key \in [I -> Int], NEW T, NEW s, \A i \in I : s[i] \in T
  PROVE  /\ Sorted(s, key) = [k \in 1 .. Cardinality(I) |-> s[Nth(key, k)]]
         /\ Sorted(s, key) \in Seq(T) /\ Len(Sorted(s, key)) = Cardinality(I)
  <1> DEFINE n == Cardinality(I)
             list == [k \in 1 .. n |-> s[Nth(key, k)]]
  <1>1. n \in Nat
    BY FS_CardinalityType
  <1>2. \A k \in 1 .. n : s[Nth(key, k)] \in T
    BY NthPlace
  <1>3. Sorted(s, key) = list
    <2>1. Sorted(s, key) = Ordered(s, key)
      BY SortedForm
    <2> QED BY <2>1 DEF Ordered
  <1> HIDE DEF n
  <1>4. list \in Seq(T) /\ Len(list) = n
    BY <1>1, <1>2
  <1> HIDE DEF list
  <1> QED BY <1>3, <1>4 DEF list, n

LEMMA SortedNothing ==
  ASSUME NEW key, DOMAIN key = {}, NEW s
  PROVE  Sorted(s, key) = << >>
  <1>1. Cardinality(DOMAIN key) = 0
    BY FS_EmptySet
  <1> DEFINE list == [k \in 1 .. 0 |-> s[Nth(key, k)]]
  <1>2. Sorted(s, key) = << >> \o list
    BY <1>1 DEF Sorted
  <1>3. list = << >>
    OBVIOUS
  <1> QED BY <1>2, <1>3

\* What is in order stays as it is.
LEMMA SortedInOrder ==
  ASSUME NEW T, NEW a \in Seq(T), NEW b \in Nat, NEW I, I = b + 1 .. b + Len(a), NEW key \in [I -> Int],
         \A i, j \in I : i < j => key[i] <= key[j],
         NEW s, \A k \in 1 .. Len(a) : s[b + k] = a[k]
  PROVE  Sorted(s, key) = a
  <1> DEFINE n == Len(a)
  <1>0. n \in Nat
    OBVIOUS
  <1>k. key \in [I -> Int]
    OBVIOUS
  <1>i. \A i \in I : key[i] \in Int
    OBVIOUS
  <1> HIDE DEF n
  <1>1. b + n \in Int /\ b + 1 \in Int /\ I = b + 1 .. b + n
    BY <1>0 DEF n
  <1>2. IsFiniteSet(I) /\ Cardinality(I) = n
    BY <1>0, <1>1, FS_Interval
  <1>3. \A k \in 1 .. n : b + k \in I /\ Cardinality(Below(key, b + k)) = k
    <2> SUFFICES ASSUME NEW k \in 1 .. n PROVE b + k \in I /\ Cardinality(Below(key, b + k)) = k
      OBVIOUS
    <2>1. b + k \in I
      BY <1>0, <1>1
    <2>2. Below(key, b + k) = b + 1 .. b + k
      <3>1. \A j \in I : Precedes(key, j, b + k) <=> j <= b + k
        <4> SUFFICES ASSUME NEW j \in I PROVE Precedes(key, j, b + k) <=> j <= b + k
          OBVIOUS
        <4> DEFINE v == b + k
        <4>1. j \in Int /\ v \in Int /\ key[j] \in Int /\ key[v] \in Int
          BY <1>0, <1>1, <1>i, <2>1
        <4>2. (j < v => key[j] <= key[v]) /\ (v < j => key[v] <= key[j])
          BY <2>1
        <4> HIDE DEF v
        <4>3. Precedes(key, j, v) <=> j <= v
          BY ONLY <4>1, <4>2 DEF Precedes
        <4> QED BY <4>3 DEF v
      <3> QED BY <1>0, <1>1, <3>1 DEF Below
    <2> DEFINE u == b + 1
               v == b + k
    <2>3. u \in Int /\ v \in Int /\ u <= v /\ v - u + 1 = k
      BY <1>0
    <2> HIDE DEF u, v
    <2>4. Cardinality(u .. v) = v - u + 1
      <3>1. Cardinality(u .. v) = IF u > v THEN 0 ELSE v - u + 1
        BY ONLY <2>3, FS_Interval
      <3> QED BY <2>3, <3>1
    <2> QED BY <2>1, <2>2, <2>3, <2>4 DEF u, v
  <1>4. I \subseteq Nat
    BY <1>0, <1>1
  <1>5. \A k \in 1 .. n : Nth(key, k) = b + k
    <2> SUFFICES ASSUME NEW k \in 1 .. n PROVE Nth(key, k) = b + k
      OBVIOUS
    <2>2. Nth(key, k) \in I /\ Cardinality(Below(key, Nth(key, k))) = k
      BY <1>2, <1>4, NthPlace
    <2>3. b + k \in I /\ Cardinality(Below(key, b + k)) = k
      BY <1>3
    <2> DEFINE i == Nth(key, k)
               j == b + k
    <2> HIDE DEF i, j
    <2>4. i \in I /\ j \in I /\ Cardinality(Below(key, i)) = k /\ Cardinality(Below(key, j)) = k
      BY <2>2, <2>3 DEF i, j
    <2>5. Precedes(key, i, j) \/ Precedes(key, j, i)
      BY <1>4, <2>4, Comparable
    <2>6. i = j
      <3>1. i # j /\ Precedes(key, i, j) => Cardinality(Below(key, i)) < Cardinality(Below(key, j))
        BY <1>2, <1>4, <1>k, <2>4, PlacesDiffer
      <3>2. i # j /\ Precedes(key, j, i) => Cardinality(Below(key, j)) < Cardinality(Below(key, i))
        BY <1>2, <1>4, <1>k, <2>4, PlacesDiffer
      <3> QED BY <1>0, <2>4, <2>5, <3>1, <3>2
    <2> QED BY <2>6 DEF i, j
  <1>6. Sorted(s, key) = [k \in 1 .. n |-> s[Nth(key, k)]]
    <2>1. Sorted(s, key) = Ordered(s, key)
      BY <1>2, <1>4, <1>k, SortedForm
    <2>2. DOMAIN key = I /\ Cardinality(I) = n
      BY <1>2
    <2> QED BY <2>1, <2>2 DEF Ordered
  <1>7. a = [k \in 1 .. n |-> a[k]]
    BY DEF n
  <1>8. \A k \in 1 .. n : s[Nth(key, k)] = a[k]
    BY <1>5 DEF n
  <1> QED BY <1>6, <1>7, <1>8
-----------------------------------------------------------------------------
(* Validation.  The tables and the executions.                              *)

Positions == [symbol : Symbols, open : Nat, close : Nat, pnl : Int]
TradeRecords == [symbol : Symbols, open : Int, close : Int, pnl : Int]
WindowResults == {ExtractResults(book, start) : book \in Books, start \in Int}
RunResults == WindowResults \cup {AggregateWalkForwardResults(s) : s \in Seq(WindowResults) \ {<<>>}}

\* The words of a row.
Words == {c.timeframe : c \in Configs} \cup {c.detail : c \in Configs} \cup {c.latency : c \in Configs}
         \cup {None, "5s", "cloud"}
RowRecords == [symbols : SUBSET Symbols, timeframe : Words, detail : Words, latency : Words,
               status : {"pending", "running", "completed", "failed"}]
ExecStages == {"load", "run", "result", "trades", "returned", "raised", "ended", "crashed"}
ExecRecords == [run : Nat, by : {"main", "batch", "caller"}, at : ExecStages,
                override : {None, "5s"}, span : Spans \cup {<<>>}, data : SUBSET (Symbols \X Words),
                latency : Words, delay : BOOLEAN, windows : Seq(Int \X Int), done : Seq(WindowResults)]

ValTypes ==
  /\ rows \in Seq(RowRecords) /\ execs \in Seq(ExecRecords)
  /\ results \in Seq([run : Nat, by : Nat, result : RunResults])
  /\ trades \in Seq([run : Nat, by : Nat, trade : TradeRecords])
  /\ batch \in [left : Nat, exec : Nat]
  /\ \A e \in Execs : execs[e].run \in Runs /\ (execs[e].by = "caller" => execs[e].span \in Spans)

\* What one backtest of the whole range left, of a run's own symbols.
LeftBy(x, r) ==
  \E book \in Books :
    /\ x = ExtractResults(book, 0)
    /\ \A k \in DOMAIN book : book[k].symbol \in rows[r].symbols

Loaded == {"run", "result", "trades"}

\* What an execution remembers: a result for each window it is through with.
ExecInv == \A e \in Execs : LET x == execs[e] IN
  /\ x.at = "load" => x.done = <<>>
  /\ x.at \in Loaded =>
       /\ Len(x.windows) > 0 /\ Len(x.done) <= Len(x.windows)
       /\ x.at # "run" => Len(x.done) = Len(x.windows)
       /\ x.data \subseteq rows[x.run].symbols \X Words
       /\ x.by # "caller" => x.windows = WholeRange /\ \A k \in DOMAIN x.done : LeftBy(x.done[k], x.run)

\* The trades of an execution lie together in the table, as they are in its result.
TradesHave(e) == {j \in DOMAIN trades : trades[j].by = e}
Block(e, s) ==
  \E b \in Nat : /\ TradesHave(e) = b + 1 .. b + Len(s)
                 /\ \A k \in 1 .. Len(s) : trades[b + k].trade = s[k]
Whole(i) == Block(results[i].by, results[i].result.trades)

\* A result is of its execution, and has all of the trades or none.
ResultsInv == \A i \in DOMAIN results : LET e == results[i].by IN
  /\ e \in Execs /\ results[i].run = execs[e].run
  /\ execs[e].at \notin {"load", "run"}
  /\ execs[e].at = "result" => results[i].result = Outcome(e)
  /\ execs[e].at \in {"trades", "returned"} => Whole(i)
  /\ TradesHave(e) # {} => Whole(i)
  /\ execs[e].by # "caller" => LeftBy(results[i].result, results[i].run)

\* Trades come after their result.
TradesInv == \A j \in DOMAIN trades : LET e == trades[j].by IN
  /\ e \in Execs /\ trades[j].run = execs[e].run
  /\ execs[e].at \notin {"load", "run", "result"}
  /\ Stored(e)

StoredInv == \A e \in Execs : execs[e].at \in {"result", "trades", "returned"} => Stored(e)

CompletedInv == \A r \in Runs : rows[r].status = "completed" =>
  \E i \in DOMAIN results : results[i].run = r /\ Whole(i)

ValInv == ValTypes /\ ExecInv /\ ResultsInv /\ TradesInv /\ StoredInv /\ CompletedInv

-----------------------------------------------------------------------------
(* What a backtest leaves.                                                  *)

LEMMA BookTyped ==
  ASSUME NEW book \in Books
  PROVE  /\ book \in Seq(Positions)
         /\ DOMAIN book = 1 .. Len(book) /\ Len(book) \in Nat
         /\ \A i \in DOMAIN book : /\ book[i].symbol \in Symbols /\ book[i].open \in Nat
                                   /\ book[i].close \in Nat /\ book[i].pnl \in Int
  <1>1. book \in Seq(Positions)
    BY BooksAssumption DEF Positions
  <1>2. DOMAIN book = 1 .. Len(book) /\ Len(book) \in Nat
    BY <1>1
  <1>3. \A i \in DOMAIN book : book[i] \in Positions
    BY <1>1, <1>2
  <1> QED BY <1>1, <1>2, <1>3 DEF Positions

\* The closed positions and the key they are sorted by.
LEMMA ClosedTyped ==
  ASSUME NEW book \in Books
  PROVE  /\ Closed(book) \subseteq DOMAIN book /\ IsFiniteSet(Closed(book)) /\ Closed(book) \subseteq Nat
         /\ [i \in Closed(book) |-> book[i].open] \in [Closed(book) -> Int]
  <1>1. Closed(book) \subseteq 1 .. Len(book) /\ Len(book) \in Nat /\ DOMAIN book = 1 .. Len(book)
    BY BookTyped DEF Closed
  <1>2. IsFiniteSet(1 .. Len(book))
    BY <1>1, FS_Interval
  <1>3. IsFiniteSet(Closed(book))
    BY <1>1, <1>2, FS_Subset
  <1>4. \A i \in Closed(book) : book[i].open \in Int
    BY <1>1, BookTyped
  <1> QED BY <1>1, <1>3, <1>4

LEMMA FromTyped ==
  ASSUME NEW book \in Books, NEW start \in Int, NEW i \in Closed(book)
  PROVE  /\ From(book, start)[i] \in TradeRecords
         /\ From(book, start)[i].open = book[i].open + start
         /\ From(book, start)[i].close = book[i].close + start
  <1>1. i \in DOMAIN book
    BY DEF Closed
  <1>2. book[i] \in Positions
    BY <1>1, BookTyped
  <1> DEFINE p == book[i]
             t == From(book, start)[i]
  <1>3. t = [p EXCEPT !.open = @ + start, !.close = @ + start]
    BY <1>1 DEF From
  <1>4. p \in Positions
    BY <1>2
  <1> HIDE DEF p, t
  <1>5. t = [symbol |-> p.symbol, open |-> p.open + start, close |-> p.close + start, pnl |-> p.pnl]
    BY <1>3, <1>4 DEF Positions
  <1>6. p.symbol \in Symbols /\ p.open + start \in Int /\ p.close + start \in Int /\ p.pnl \in Int
    BY <1>4 DEF Positions
  <1>7. t \in TradeRecords /\ t.open = p.open + start /\ t.close = p.close + start
    BY <1>5, <1>6 DEF TradeRecords
  <1> QED BY <1>7 DEF p, t

\* The trades are some of the closed positions, by entry.
LEMMA ExtractIs ==
  ASSUME NEW book \in Books, NEW start \in Int
  PROVE  LET I == Closed(book)
             key == [i \in I |-> book[i].open]
         IN  /\ ExtractTrades(book, start) \in Seq(TradeRecords)
             /\ Len(ExtractTrades(book, start)) = Cardinality(I)
             /\ ExtractTrades(book, start) = [k \in 1 .. Cardinality(I) |-> From(book, start)[Nth(key, k)]]
  <1> DEFINE I == Closed(book)
             key == [i \in I |-> book[i].open]
             s == From(book, start)
  <1>1. IsFiniteSet(I) /\ I \subseteq Nat /\ key \in [I -> Int]
    BY ClosedTyped
  <1>2. \A i \in I : s[i] \in TradeRecords
    BY FromTyped
  <1>3. ExtractTrades(book, start) = Sorted(s, key)
    BY DEF ExtractTrades
  <1> HIDE DEF I, key, s
  <1>4. /\ Sorted(s, key) = [k \in 1 .. Cardinality(I) |-> s[Nth(key, k)]]
        /\ Sorted(s, key) \in Seq(TradeRecords) /\ Len(Sorted(s, key)) = Cardinality(I)
    BY <1>1, <1>2, SortedIs
  <1> USE DEF I, key, s
  <1> QED BY <1>3, <1>4

LEMMA WindowTyped ==
  ASSUME NEW x \in WindowResults
  PROVE  x.balance = Balance /\ x.trades \in Seq(TradeRecords)
  <1>1. PICK book \in Books, start \in Int : x = ExtractResults(book, start)
    BY DEF WindowResults
  <1>2. x.balance = Balance /\ x.trades = ExtractTrades(book, start)
    BY <1>1 DEF ExtractResults
  <1> QED BY <1>2, ExtractIs

\* The recursion of Joined.
UpToTrades(s) ==
  LET upTo[n \in 0 .. Len(s)] == IF n = 0 THEN <<>> ELSE upTo[n - 1] \o s[n].trades
  IN upTo

LEMMA JoinedTyped ==
  ASSUME NEW s \in Seq(WindowResults)
  PROVE  Joined(s) \in Seq(TradeRecords)
  <1> DEFINE N == Len(s)
             S == Seq(TradeRecords)
             step == [n \in 1 .. N |-> [t \in S |-> t \o s[n].trades]]
             f == UpToTrades(s)
             G == {n \in 0 .. N : f[n] \in S}
  <1>1. N \in Nat /\ <<>> \in S
    OBVIOUS
  <1>2. \A n \in 1 .. N : s[n].trades \in S
    BY WindowTyped
  <1>3. step \in [1 .. N -> [S -> S]]
    BY <1>2
  <1>4. \E g \in [0 .. N -> S] : g[0] = <<>> /\ \A n \in 1 .. N : g[n] = step[n][g[n - 1]]
    <2> DEFINE a == <<>>
    <2>1. N \in Nat /\ a \in S
      BY <1>1
    <2> HIDE DEF N, S, step, a
    <2>2. \E g \in [0 .. N -> S] : g[0] = a /\ \A n \in 1 .. N : g[n] = step[n][g[n - 1]]
      BY ONLY <2>1, <1>3, Recursion
    <2> QED BY <2>2 DEF a
  <1>5. PICK g \in [0 .. N -> S] : g[0] = <<>> /\ \A n \in 1 .. N : g[n] = step[n][g[n - 1]]
    BY <1>4
  <1>6. g = [n \in 0 .. N |-> IF n = 0 THEN <<>> ELSE g[n - 1] \o s[n].trades]
    <2>1. \A n \in 1 .. N : g[n - 1] \in S
      OBVIOUS
    <2>2. \A n \in 1 .. N : step[n][g[n - 1]] = g[n - 1] \o s[n].trades
      BY <2>1
    <2> HIDE DEF step, S, G
    <2>3. \A n \in 0 .. N : g[n] = IF n = 0 THEN <<>> ELSE g[n - 1] \o s[n].trades
      <3>1. \A n \in 0 .. N : n = 0 \/ n \in 1 .. N
        BY <1>1
      <3>2. \A n \in 1 .. N : n # 0
        BY <1>1
      <3> HIDE DEF N
      <3>3. \A n \in 1 .. N : g[n] = g[n - 1] \o s[n].trades
        BY <1>5, <2>2
      <3> QED BY <3>1, <3>2, <3>3, <1>5
    <2> HIDE DEF N
    <2> QED BY <2>3
  <1>7. f = [n \in 0 .. N |-> IF n = 0 THEN <<>> ELSE f[n - 1] \o s[n].trades]
    <2> HIDE DEF S, step, G
    <2>1. f = CHOOSE h : h = [n \in 0 .. N |-> IF n = 0 THEN <<>> ELSE h[n - 1] \o s[n].trades]
      BY DEF UpToTrades
    <2> HIDE DEF f
    <2> QED BY <1>6, <2>1
  <1> HIDE DEF f, step
  <1>8. 0 \in G
    BY <1>1, <1>7
  <1>9. \A n \in 1 .. N : n - 1 \in G => n \in G
    <2> SUFFICES ASSUME NEW n \in 1 .. N, f[n - 1] \in S PROVE f[n] \in S
      OBVIOUS
    <2> HIDE DEF S, G
    <2>0. n \in 0 .. N /\ n # 0
      BY <1>1
    <2>1. f[n] = f[n - 1] \o s[n].trades
      BY <1>7, <2>0
    <2> USE DEF S
    <2> QED BY <1>2, <2>1
  <1>10. N \in G
    <2> HIDE DEF G, N
    <2>1. 0 .. N \subseteq G
      BY <1>1, <1>8, <1>9, UpTo
    <2> QED BY <1>1, <2>1
  <1> QED BY <1>10 DEF f, Joined, UpToTrades

LEMMA RunTyped ==
  ASSUME NEW x \in RunResults
  PROVE  x.balance = Balance /\ x.trades \in Seq(TradeRecords)
  <1>1. CASE x \in WindowResults
    BY <1>1, WindowTyped
  <1>2. CASE x \notin WindowResults
    <2>1. PICK s \in Seq(WindowResults) \ {<<>>} : x = AggregateWalkForwardResults(s)
      BY <1>2 DEF RunResults
    <2>2. x.balance = s[1].balance /\ x.trades = Joined(s)
      BY <2>1 DEF AggregateWalkForwardResults
    <2>3. s[1] \in WindowResults
      BY <2>1
    <2> QED BY <2>1, <2>2, <2>3, WindowTyped, JoinedTyped
  <1> QED BY <1>1, <1>2

-----------------------------------------------------------------------------
(* Types.                                                                   *)

LEMMA RowTyped ==
  /\ \A c \in Configs : RowOf(c) \in RowRecords /\ RowOf(c).status = "pending"
  /\ BatchRow \in Configs
  <1>1. \A c \in Configs : RowOf(c) \in RowRecords /\ RowOf(c).status = "pending"
    BY ConfigsAssumption DEF RowOf, RowRecords, Words
  <1>2. BatchRow \in Configs
    BY ConfigsAssumption DEF BatchRow
  <1> QED BY <1>1, <1>2

LEMMA ExecTyped ==
  ASSUME NEW r \in Nat, NEW by \in {"main", "batch", "caller"}, NEW override \in {None, "5s"},
         NEW span \in Spans \cup {<<>>}
  PROVE  NewExec(r, by, override, span) \in ExecRecords
  <1>1. {} \in SUBSET (Symbols \X Words) /\ None \in Words
        /\ <<>> \in Seq(Int \X Int) /\ <<>> \in Seq(WindowResults)
    <2>1. {} \in SUBSET (Symbols \X Words)
      BY Zenon
    <2>2. None \in Words
      BY DEF Words
    <2> QED BY <2>1, <2>2
  <1> QED BY <1>1 DEF NewExec, ExecRecords, ExecStages

LEMMA WindowsTyped ==
  ASSUME NEW span \in Spans
  PROVE  BuildWalkForwardWindows(span) \in Seq(Int \X Int)
  <1> DEFINE train == span[1]
             test == span[2]
             step == span[3]
             q == (LastDay - train - test) \div step
             n == IF train + test > LastDay THEN 0 ELSE q + 1
             w == [i \in 1 .. n |-> <<(i - 1) * step + train, (i - 1) * step + train + test>>]
  <1>1. train \in Nat /\ test \in Nat /\ step \in Nat /\ step > 0 /\ LastDay \in Nat
    BY SpansAssumption
  <1>2. train + test <= LastDay => q \in Nat
    <2> SUFFICES ASSUME train + test <= LastDay PROVE q \in Nat
      OBVIOUS
    <2> HIDE DEF train, test, step
    <2>1. LastDay - train - test \in Nat
      BY <1>1
    <2> QED BY <1>1, <2>1, Z3
  <1>3. n \in Nat
    <2> HIDE DEF train, test, step, q
    <2> QED BY <1>1, <1>2
  <1>4. w \in Seq(Int \X Int)
    <2> HIDE DEF n
    <2>1. \A i \in 1 .. n : (i - 1) * step + train \in Int /\ (i - 1) * step + train + test \in Int
      <3> HIDE DEF train, test, step
      <3> QED BY <1>1, <1>3
    <2> HIDE DEF train, test, step
    <2> QED BY <1>3, <2>1
  <1>5. BuildWalkForwardWindows(span) = w
    BY DEF BuildWalkForwardWindows
  <1> QED BY <1>4, <1>5

LEMMA PreparedTyped ==
  ASSUME NEW row \in RowRecords, NEW override \in {None, "5s"}
  PROVE  LET detail == ResolveDetailTimeframe(row, override)
         IN  /\ DataConfigs(row, detail) \in SUBSET (row.symbols \X Words)
             /\ DataConfigs(row, detail) \in SUBSET (Symbols \X Words)
             /\ VenueLatency(row, detail) \in Words /\ DelaysEntries(row, detail) \in BOOLEAN
  <1> DEFINE detail == ResolveDetailTimeframe(row, override)
  <1>1. row.symbols \subseteq Symbols /\ row.timeframe \in Words /\ row.detail \in Words /\ row.latency \in Words
    BY DEF RowRecords
  <1>2. override \in Words /\ None \in Words /\ "5s" \in Words /\ "cloud" \in Words
    BY DEF Words
  <1>3. detail \in Words
    BY <1>1, <1>2 DEF ResolveDetailTimeframe
  <1> HIDE DEF detail
  <1>4. VenueLatency(row, detail) \in Words
    BY <1>1, <1>2 DEF VenueLatency, ResolveLatency
  <1>5. DelaysEntries(row, detail) \in BOOLEAN
    BY DEF DelaysEntries
  <1>6. DataConfigs(row, detail) \subseteq row.symbols \X Words
    BY <1>1, <1>3 DEF DataConfigs
  <1>7. row.symbols \X Words \subseteq Symbols \X Words
    BY <1>1
  <1> QED BY <1>4, <1>5, <1>6, <1>7 DEF detail

\* The steps of one execution change what it remembers of itself only.
RunsKept ==
  \A r \in Runs : r \in DOMAIN rows' /\ rows'[r].symbols = rows[r].symbols
ExecsKept ==
  \A e \in Execs :
    /\ e \in DOMAIN execs' /\ execs'[e].run = execs[e].run /\ execs'[e].by = execs[e].by
    /\ execs'[e].span = execs[e].span
    /\ execs'[e].at \in {"load", "run"} => execs[e].at \in {"load", "run"}
    /\ execs'[e].at \in {"load", "run", "result"} => execs[e].at \in {"load", "run", "result"}

LEMMA StatusKept ==
  ASSUME ValTypes, NEW r \in Runs, NEW st \in {"pending", "running", "completed", "failed"}, SetStatus(r, st)
  PROVE  /\ rows' \in Seq(RowRecords) /\ DOMAIN rows' = Runs /\ RunsKept
         /\ rows'[r].status = st
         /\ \A q \in Runs \ {r} : rows'[q] = rows[q]
  <1>1. rows \in Seq(RowRecords) /\ rows' = [rows EXCEPT ![r].status = st] /\ r \in DOMAIN rows
    BY DEF ValTypes, SetStatus, Runs
  <1>2. \A q \in DOMAIN rows : rows[q] \in RowRecords
    BY <1>1
  <1>3. [rows[r] EXCEPT !.status = st] \in RowRecords /\ [rows[r] EXCEPT !.status = st].symbols = rows[r].symbols
        /\ [rows[r] EXCEPT !.status = st].status = st
    BY <1>1, <1>2 DEF RowRecords
  <1>4. rows'[r] = [rows[r] EXCEPT !.status = st] /\ DOMAIN rows' = DOMAIN rows
        /\ \A q \in DOMAIN rows \ {r} : rows'[q] = rows[q]
    BY <1>1
  <1>5. rows' \in Seq(RowRecords)
    BY <1>1, <1>3
  <1> QED BY <1>3, <1>4, <1>5 DEF RunsKept, Runs

\* One execution becomes x.
LEMMA ExecChanges ==
  ASSUME ValTypes, NEW e \in Execs, NEW x \in ExecRecords, x.run = execs[e].run, x.by = execs[e].by, x.span = execs[e].span,
         x.at \in {"load", "run"} => execs[e].at \in {"load", "run"},
         x.at \in {"load", "run", "result"} => execs[e].at \in {"load", "run", "result"},
         execs' = [execs EXCEPT ![e] = x], DOMAIN rows' = Runs
  PROVE  /\ execs' \in Seq(ExecRecords) /\ DOMAIN execs' = Execs /\ ExecsKept
         /\ execs'[e] = x /\ \A d \in Execs \ {e} : execs'[d] = execs[d]
         /\ \A d \in DOMAIN execs' : /\ execs'[d].run \in DOMAIN rows'
                                     /\ execs'[d].by = "caller" => execs'[d].span \in Spans
  <1>1. execs \in Seq(ExecRecords) /\ \A d \in Execs : execs[d].run \in Runs /\ (execs[d].by = "caller" => execs[d].span \in Spans)
    BY DEF ValTypes
  <1>2. execs' \in Seq(ExecRecords)
    BY <1>1 DEF Execs
  <1>3. DOMAIN execs' = Execs /\ execs'[e] = x /\ \A d \in Execs \ {e} : execs'[d] = execs[d]
    BY <1>1 DEF Execs
  <1> QED BY <1>1, <1>2, <1>3 DEF ExecsKept, Runs

LEMMA ExecIs ==
  ASSUME ValTypes, NEW e \in Execs
  PROVE  execs[e] \in ExecRecords /\ execs[e].run \in Runs
  BY DEF ValTypes, Execs

LEMMA MoveIs ==
  ASSUME ValTypes, NEW e \in Execs, NEW at \in ExecStages, Move(e, at)
  PROVE  LET x == [execs[e] EXCEPT !.at = at]
         IN  /\ x \in ExecRecords /\ x.run = execs[e].run /\ x.by = execs[e].by /\ x.span = execs[e].span /\ x.at = at
             /\ x.done = execs[e].done /\ x.windows = execs[e].windows /\ x.data = execs[e].data
             /\ execs' = [execs EXCEPT ![e] = x]
  <1>1. execs[e] \in ExecRecords
    BY ExecIs
  <1>2. execs' = [execs EXCEPT ![e] = [execs[e] EXCEPT !.at = at]]
    BY DEF Move
  <1> QED BY <1>1, <1>2 DEF ExecRecords

LEMMA LeaveIs ==
  ASSUME ValTypes, NEW e \in Execs, NEW at \in ExecStages, Leave(e, at)
  PROVE  LET x == [execs[e] EXCEPT !.at = at, !.done = <<>>]
         IN  /\ x \in ExecRecords /\ x.run = execs[e].run /\ x.by = execs[e].by /\ x.span = execs[e].span /\ x.at = at
             /\ execs' = [execs EXCEPT ![e] = x]
  <1>1. execs[e] \in ExecRecords /\ execs \in Seq(ExecRecords) /\ e \in DOMAIN execs
    BY ExecIs DEF ValTypes, Execs
  <1>2. execs' = [execs EXCEPT ![e] = [execs[e] EXCEPT !.at = at, !.done = <<>>]]
    BY <1>1 DEF Leave
  <1>3. <<>> \in Seq(WindowResults)
    OBVIOUS
  <1> QED BY <1>1, <1>2, <1>3 DEF ExecRecords

LEMMA OutcomeTyped ==
  ASSUME ValTypes, ExecInv, NEW e \in Execs, execs[e].at \in Loaded, Len(execs[e].done) = Len(execs[e].windows)
  PROVE  /\ Outcome(e) \in RunResults
         /\ execs[e].by # "caller" => LeftBy(Outcome(e), execs[e].run)
  <1> DEFINE x == execs[e]
  <1>1. x \in ExecRecords
    BY ExecIs
  <1>2. Len(x.windows) > 0 /\ x.done \in Seq(WindowResults) /\ x.windows \in Seq(Int \X Int)
    BY <1>1 DEF ExecInv, ExecRecords
  <1>3. Len(x.done) > 0 /\ 1 \in DOMAIN x.done /\ x.done # <<>> /\ x.done[1] \in WindowResults
    BY <1>2
  <1>4. AggregateWalkForwardResults(x.done) \in RunResults
    BY <1>2, <1>3 DEF RunResults
  <1>5. x.done[1] \in RunResults
    BY <1>3 DEF RunResults
  <1>6. x.by # "caller" => LeftBy(x.done[1], x.run)
    BY <1>3 DEF ExecInv
  <1> QED BY <1>4, <1>5, <1>6 DEF Outcome

\* What one execution does.
Prepared(e, x) ==
  /\ execs[e].at = "load" /\ x.at = "run" /\ x.done = execs[e].done
  /\ Len(x.windows) > 0
  /\ x.by # "caller" => x.windows = WholeRange
  /\ x.data \subseteq rows[x.run].symbols \X Words
  /\ rows'[x.run].status = "running" /\ \A q \in Runs \ {x.run} : rows'[q] = rows[q]

LEMMA PrepareIs ==
  ASSUME ValTypes, NEW e \in Execs, Prepare(e)
  PROVE  \E x \in ExecRecords :
           /\ x.run = execs[e].run /\ x.by = execs[e].by /\ x.span = execs[e].span
           /\ execs' = [execs EXCEPT ![e] = x]
           /\ Prepared(e, x)
           /\ rows' \in Seq(RowRecords) /\ DOMAIN rows' = Runs /\ RunsKept
  <1> DEFINE r == execs[e].run
             row == rows[r]
             detail == ResolveDetailTimeframe(row, execs[e].override)
             data == DataConfigs(row, detail)
             latency == VenueLatency(row, detail)
             delay == DelaysEntries(row, detail)
             windows == IF execs[e].by = "caller" THEN BuildWalkForwardWindows(execs[e].span) ELSE WholeRange
             x == [execs[e] EXCEPT !.at = "run", !.data = data, !.windows = windows,
                                   !.latency = latency, !.delay = delay]
  <1>1. execs[e] \in ExecRecords /\ r \in Runs /\ row \in RowRecords
    BY ExecIs DEF ValTypes, Runs
  <1>2. /\ execs[e].at = "load" /\ windows # <<>> /\ SetStatus(r, "running")
        /\ execs' = [execs EXCEPT ![e] = x]
    BY <1>1 DEF Prepare, AtStep
  <1>3. execs[e].override \in {None, "5s"} /\ execs[e].span \in Spans \cup {<<>>} /\ execs[e].by \in {"main", "batch", "caller"}
    BY <1>1 DEF ExecRecords
  <1>4. /\ data \in SUBSET (row.symbols \X Words) /\ data \in SUBSET (Symbols \X Words)
        /\ latency \in Words /\ delay \in BOOLEAN
    <2> HIDE DEF row
    <2> QED BY <1>1, <1>3, PreparedTyped
  <1>5. windows \in Seq(Int \X Int)
    <2>1. WholeRange \in Seq(Int \X Int)
      BY SpansAssumption DEF WholeRange
    <2>2. execs[e].span \in Spans => BuildWalkForwardWindows(execs[e].span) \in Seq(Int \X Int)
      BY WindowsTyped
    <2>3. execs[e].by = "caller" => execs[e].span \in Spans
      BY DEF ValTypes
    <2> QED BY <1>3, <2>1, <2>2, <2>3
  <1>6. Len(windows) > 0
    BY <1>2, <1>5
  <1> HIDE DEF data, latency, delay, windows, row
  <1>7. x \in ExecRecords /\ x.run = r /\ x.by = execs[e].by /\ x.span = execs[e].span /\ x.at = "run" /\ x.done = execs[e].done
        /\ x.data = data /\ x.windows = windows
    BY <1>1, <1>4, <1>5 DEF ExecRecords, ExecStages
  <1>8. /\ rows' \in Seq(RowRecords) /\ DOMAIN rows' = Runs /\ RunsKept
        /\ rows'[r].status = "running" /\ \A q \in Runs \ {r} : rows'[q] = rows[q]
    BY <1>1, <1>2, StatusKept
  <1>9. x.by # "caller" => x.windows = WholeRange
    BY <1>7 DEF windows
  <1>10. x.data \subseteq rows[x.run].symbols \X Words
    BY <1>4, <1>7 DEF row
  <1>11. Prepared(e, x)
    <2> HIDE DEF x
    <2> QED BY <1>2, <1>6, <1>7, <1>8, <1>9, <1>10 DEF Prepared
  <1> HIDE DEF x
  <1> QED BY <1>2, <1>7, <1>8, <1>11

\* A window more; the whole range starts at day 0.
Tested(e, x) ==
  /\ execs[e].at = "run" /\ x.at = "run" /\ x.windows = execs[e].windows /\ x.data = execs[e].data
  /\ Len(execs[e].done) < Len(execs[e].windows) /\ Len(x.done) = Len(execs[e].done) + 1
  /\ \A k \in DOMAIN execs[e].done : x.done[k] = execs[e].done[k]
  /\ x.by # "caller" => LeftBy(x.done[Len(x.done)], x.run)

LEMMA BacktestIs ==
  ASSUME ValTypes, ExecInv, NEW e \in Execs, NEW book \in Books, RunBacktest(e, book)
  PROVE  \E x \in ExecRecords :
           /\ x.run = execs[e].run /\ x.by = execs[e].by /\ x.span = execs[e].span
           /\ execs' = [execs EXCEPT ![e] = x]
           /\ Tested(e, x)
  <1> DEFINE old == execs[e]
             w == old.windows[Len(old.done) + 1]
             result == ExtractResults(book, w[1])
             x == [old EXCEPT !.done = Append(@, result)]
  <1>1. old \in ExecRecords
    BY ExecIs
  <1>2. /\ old.at = "run" /\ Len(old.done) < Len(old.windows)
        /\ \A i \in DOMAIN book : <<book[i].symbol, rows[old.run].timeframe>> \in old.data
        /\ execs' = [execs EXCEPT ![e] = x]
    BY DEF RunBacktest, AtStep
  <1>3. old.done \in Seq(WindowResults) /\ old.windows \in Seq(Int \X Int)
    BY <1>1 DEF ExecRecords
  <1>4. w \in Int \X Int /\ w[1] \in Int
    <2>1. Len(old.done) + 1 \in 1 .. Len(old.windows)
      BY <1>2, <1>3
    <2>2. w \in Int \X Int
      BY <1>3, <2>1
    <2> HIDE DEF w
    <2> QED BY <2>2
  <1>5. result \in WindowResults
    BY <1>4 DEF WindowResults
  <1>6. old.by # "caller" => LeftBy(result, old.run)
    <2> SUFFICES ASSUME old.by # "caller" PROVE LeftBy(result, old.run)
      OBVIOUS
    <2>1. old.windows = WholeRange /\ old.data \subseteq rows[old.run].symbols \X Words
      BY <1>2 DEF ExecInv, Loaded
    <2>2. Len(WholeRange) = 1 /\ WholeRange[1] = <<0, LastDay>>
      BY DEF WholeRange
    <2>3. Len(old.done) = 0
      BY <1>2, <1>3, <2>1, <2>2
    <2>4. w[1] = 0
      BY <2>1, <2>2, <2>3
    <2>5. \A i \in DOMAIN book : book[i].symbol \in rows[old.run].symbols
      BY <1>2, <2>1
    <2> QED BY <2>4, <2>5 DEF LeftBy
  <1> HIDE DEF result, w
  <1>7. Append(old.done, result) \in Seq(WindowResults) /\ Len(Append(old.done, result)) = Len(old.done) + 1
        /\ \A k \in DOMAIN old.done : Append(old.done, result)[k] = old.done[k]
        /\ Append(old.done, result)[Len(old.done) + 1] = result
    BY <1>3, <1>5
  <1>8. /\ x \in ExecRecords /\ x.run = old.run /\ x.by = old.by /\ x.span = old.span /\ x.at = old.at
        /\ x.done = Append(old.done, result) /\ x.windows = old.windows /\ x.data = old.data
    BY <1>1, <1>7 DEF ExecRecords
  <1> HIDE DEF x
  <1>9. Tested(e, x)
    <2>1. x.by # "caller" => LeftBy(x.done[Len(x.done)], x.run)
      BY <1>6, <1>7, <1>8
    <2> QED BY <1>2, <1>7, <1>8, <2>1 DEF Tested
  <1> QED BY <1>2, <1>8, <1>9

\* A new execution.
LEMMA ExecAppears ==
  ASSUME ValTypes, NEW r \in DOMAIN rows', NEW by \in {"main", "batch", "caller"}, NEW override \in {None, "5s"},
         NEW span \in Spans \cup {<<>>}, by = "caller" => span \in Spans,
         execs' = Append(execs, NewExec(r, by, override, span)),
         rows' \in Seq(RowRecords), RunsKept
  PROVE  /\ execs' \in Seq(ExecRecords) /\ ExecsKept
         /\ DOMAIN execs' = Execs \cup {Len(execs) + 1}
         /\ \A d \in Execs : execs'[d] = execs[d]
         /\ Len(execs) + 1 \notin Execs
         /\ execs'[Len(execs) + 1].at = "load" /\ execs'[Len(execs) + 1].done = <<>>
         /\ \A d \in DOMAIN execs' : /\ execs'[d].run \in DOMAIN rows'
                                     /\ execs'[d].by = "caller" => execs'[d].span \in Spans
  <1> DEFINE x == NewExec(r, by, override, span)
             n == Len(execs)
  <1>1. r \in Nat
    BY DEF ValTypes
  <1>2. x \in ExecRecords
    BY <1>1, ExecTyped
  <1>3. x.run = r /\ x.by = by /\ x.at = "load" /\ x.done = <<>> /\ x.span = span
    BY DEF NewExec
  <1>4. execs \in Seq(ExecRecords) /\ execs' = Append(execs, x)
        /\ \A d \in Execs : execs[d].run \in Runs /\ (execs[d].by = "caller" => execs[d].span \in Spans)
    BY DEF ValTypes
  <1> HIDE DEF x
  <1>5. /\ execs' \in Seq(ExecRecords) /\ n \in Nat /\ Execs = 1 .. n /\ DOMAIN execs' = 1 .. n + 1
        /\ execs'[n + 1] = x /\ \A d \in 1 .. n : execs'[d] = execs[d]
    BY <1>2, <1>4 DEF Execs
  <1>6. DOMAIN execs' = Execs \cup {n + 1} /\ n + 1 \notin Execs
    BY <1>5
  <1>7. ExecsKept
    BY <1>5 DEF ExecsKept
  <1>8. \A d \in DOMAIN execs' : /\ execs'[d].run \in DOMAIN rows'
                                 /\ execs'[d].by = "caller" => execs'[d].span \in Spans
    <2> TAKE d \in DOMAIN execs'
    <2>1. CASE d = n + 1
      BY <1>3, <1>5, <2>1
    <2>2. CASE d \in Execs
      BY <1>4, <1>5, <2>2 DEF RunsKept
    <2> QED BY <1>6, <2>1, <2>2
  <1> QED BY <1>3, <1>5, <1>6, <1>7, <1>8

LEMMA RowAppears ==
  ASSUME ValTypes, NEW c \in Configs, rows' = Append(rows, RowOf(c))
  PROVE  /\ rows' \in Seq(RowRecords) /\ RunsKept /\ DOMAIN rows' = Runs \cup {Len(rows) + 1}
         /\ rows'[Len(rows) + 1].status = "pending" /\ Len(rows) + 1 \in DOMAIN rows'
         /\ \A r \in Runs : rows'[r] = rows[r]
  <1>1. rows \in Seq(RowRecords) /\ RowOf(c) \in RowRecords /\ RowOf(c).status = "pending"
    BY RowTyped DEF ValTypes
  <1> DEFINE x == RowOf(c)
  <1> HIDE DEF x
  <1>2. rows' \in Seq(RowRecords) /\ Runs = 1 .. Len(rows) /\ DOMAIN rows' = 1 .. Len(rows) + 1
        /\ rows'[Len(rows) + 1] = x /\ \A r \in 1 .. Len(rows) : rows'[r] = rows[r]
    BY <1>1 DEF Runs, x
  <1>3. x.status = "pending"
    BY <1>1 DEF x
  <1> QED BY <1>1, <1>2, <1>3 DEF RunsKept

LEMMA Untouched ==
  ASSUME ValTypes, rows' = rows
  PROVE  rows' \in Seq(RowRecords) /\ DOMAIN rows' = Runs /\ RunsKept
  BY DEF ValTypes, Runs, RunsKept

LEMMA NoneMoves ==
  ASSUME ValTypes, rows' \in Seq(RowRecords), RunsKept, execs' = execs
  PROVE  /\ execs' \in Seq(ExecRecords) /\ ExecsKept /\ DOMAIN execs' = Execs
         /\ \A d \in DOMAIN execs' : /\ execs'[d].run \in DOMAIN rows'
                                     /\ execs'[d].by = "caller" => execs'[d].span \in Spans
  BY DEF ValTypes, Execs, ExecsKept, RunsKept

-----------------------------------------------------------------------------
(* A step that stores nothing.                                              *)

Quiet ==
  /\ results' = results /\ trades' = trades
  /\ ValTypes' /\ RunsKept /\ ExecsKept
  /\ \A e \in Execs :
       /\ execs'[e].at = "result" => execs'[e] = execs[e]
       /\ execs'[e].at \in {"trades", "returned"} => execs[e].at \in {"trades", "returned"}
       /\ \/ execs'[e] = execs[e]
          \/ execs'[e].at \notin Loaded \cup {"load"}
          \/ Prepared(e, execs'[e]) \/ Tested(e, execs'[e])
  /\ \A e \in DOMAIN execs' \ Execs : execs'[e].at = "load" /\ execs'[e].done = <<>>
  /\ \A r \in DOMAIN rows' : rows'[r].status = "completed" =>
       \/ r \in Runs /\ rows[r].status = "completed"
       \/ \E e \in Execs : execs[e].run = r /\ execs[e].at \in {"trades", "returned"}

LEMMA TypesThen ==
  ASSUME ValTypes, rows' \in Seq(RowRecords), execs' \in Seq(ExecRecords), results' = results, trades' = trades,
         \A d \in DOMAIN execs' : /\ execs'[d].run \in DOMAIN rows'
                                  /\ execs'[d].by = "caller" => execs'[d].span \in Spans,
         batch' \in [left : Nat, exec : Nat]
  PROVE  ValTypes'
  BY DEF ValTypes, Runs, Execs

\* An execution that ends, or goes on without a result.
LEMMA EndsQuietly ==
  ASSUME ValTypes, NEW e \in Execs, NEW x \in ExecRecords,
         x.run = execs[e].run, x.by = execs[e].by, x.span = execs[e].span,
         x.at \in {"returned", "raised", "ended", "crashed"},
         x.at = "returned" => execs[e].at = "trades",
         execs' = [execs EXCEPT ![e] = x],
         rows' \in Seq(RowRecords), DOMAIN rows' = Runs, RunsKept,
         \A r \in Runs : rows'[r].status = "completed" =>
            \/ rows[r].status = "completed"
            \/ r = execs[e].run /\ execs[e].at \in {"trades", "returned"},
         results' = results, trades' = trades, batch' = batch
  PROVE  Quiet
  <1>0. /\ x.at \in {"load", "run"} => execs[e].at \in {"load", "run"}
        /\ x.at \in {"load", "run", "result"} => execs[e].at \in {"load", "run", "result"}
    OBVIOUS
  <1>1. /\ execs' \in Seq(ExecRecords) /\ DOMAIN execs' = Execs /\ ExecsKept
        /\ execs'[e] = x /\ \A d \in Execs \ {e} : execs'[d] = execs[d]
        /\ \A d \in DOMAIN execs' : /\ execs'[d].run \in DOMAIN rows'
                                    /\ execs'[d].by = "caller" => execs'[d].span \in Spans
    <2>1. DOMAIN rows' = Runs /\ execs' = [execs EXCEPT ![e] = x] /\ x.run = execs[e].run /\ x.by = execs[e].by /\ x.span = execs[e].span
      OBVIOUS
    <2>2. ValTypes
      OBVIOUS
    <2> QED BY ONLY <2>1, <2>2, e \in Execs, x \in ExecRecords, <1>0, ExecChanges
  <1>2. batch' \in [left : Nat, exec : Nat]
    BY DEF ValTypes
  <1>3. ValTypes'
    BY <1>1, <1>2, TypesThen
  <1>4. \A d \in Execs :
          /\ execs'[d].at = "result" => execs'[d] = execs[d]
          /\ execs'[d].at \in {"trades", "returned"} => execs[d].at \in {"trades", "returned"}
          /\ execs'[d] = execs[d] \/ execs'[d].at \notin Loaded \cup {"load"}
    BY <1>1 DEF Loaded
  <1> QED BY <1>1, <1>3, <1>4 DEF Quiet

\* The rest of the steps that store nothing.
LEMMA GoesQuietly ==
  ASSUME ValTypes, NEW e \in Execs, NEW x \in ExecRecords,
         x.run = execs[e].run, x.by = execs[e].by, x.span = execs[e].span,
         Prepared(e, x) \/ Tested(e, x),
         execs' = [execs EXCEPT ![e] = x],
         rows' \in Seq(RowRecords), DOMAIN rows' = Runs, RunsKept,
         \A r \in Runs : rows'[r].status = "completed" => rows[r].status = "completed",
         results' = results, trades' = trades, batch' = batch
  PROVE  Quiet
  <1>0. /\ x.at = "run" /\ execs[e].at \in {"load", "run"}
        /\ x.at \in {"load", "run"} => execs[e].at \in {"load", "run"}
        /\ x.at \in {"load", "run", "result"} => execs[e].at \in {"load", "run", "result"}
    BY DEF Prepared, Tested
  <1>1. /\ execs' \in Seq(ExecRecords) /\ DOMAIN execs' = Execs /\ ExecsKept
        /\ execs'[e] = x /\ \A d \in Execs \ {e} : execs'[d] = execs[d]
        /\ \A d \in DOMAIN execs' : /\ execs'[d].run \in DOMAIN rows'
                                    /\ execs'[d].by = "caller" => execs'[d].span \in Spans
    <2>1. DOMAIN rows' = Runs /\ execs' = [execs EXCEPT ![e] = x] /\ x.run = execs[e].run /\ x.by = execs[e].by /\ x.span = execs[e].span
      OBVIOUS
    <2>2. ValTypes
      OBVIOUS
    <2> QED BY ONLY <2>1, <2>2, e \in Execs, x \in ExecRecords, <1>0, ExecChanges
  <1>2. batch' \in [left : Nat, exec : Nat]
    BY DEF ValTypes
  <1>3. ValTypes'
    BY <1>1, <1>2, TypesThen
  <1>4. \A d \in Execs :
          /\ execs'[d].at = "result" => execs'[d] = execs[d]
          /\ execs'[d].at \in {"trades", "returned"} => execs[d].at \in {"trades", "returned"}
          /\ execs'[d] = execs[d] \/ Prepared(d, execs'[d]) \/ Tested(d, execs'[d])
    BY <1>0, <1>1
  <1> QED BY <1>1, <1>3, <1>4 DEF Quiet

LEMMA StartsQuietly ==
  ASSUME ValTypes, NEW r \in DOMAIN rows', NEW by \in {"main", "batch", "caller"}, NEW override \in {None, "5s"},
         NEW span \in Spans \cup {<<>>}, by = "caller" => span \in Spans,
         execs' = Append(execs, NewExec(r, by, override, span)),
         rows' \in Seq(RowRecords), RunsKept,
         \A q \in DOMAIN rows' : rows'[q].status = "completed" => q \in Runs /\ rows[q].status = "completed",
         results' = results, trades' = trades, batch' \in [left : Nat, exec : Nat]
  PROVE  Quiet
  <1>1. /\ execs' \in Seq(ExecRecords) /\ ExecsKept
        /\ DOMAIN execs' = Execs \cup {Len(execs) + 1}
        /\ \A d \in Execs : execs'[d] = execs[d]
        /\ Len(execs) + 1 \notin Execs
        /\ execs'[Len(execs) + 1].at = "load" /\ execs'[Len(execs) + 1].done = <<>>
        /\ \A d \in DOMAIN execs' : /\ execs'[d].run \in DOMAIN rows'
                                    /\ execs'[d].by = "caller" => execs'[d].span \in Spans
    BY ExecAppears
  <1>2. ValTypes'
    BY <1>1, TypesThen
  <1> QED BY <1>1, <1>2 DEF Quiet

LEMMA IdlesQuietly ==
  ASSUME ValTypes, execs' = execs, rows' \in Seq(RowRecords), RunsKept,
         \A q \in DOMAIN rows' : rows'[q].status = "completed" => q \in Runs /\ rows[q].status = "completed",
         results' = results, trades' = trades, batch' \in [left : Nat, exec : Nat]
  PROVE  Quiet
  <1>1. /\ execs' \in Seq(ExecRecords) /\ ExecsKept /\ DOMAIN execs' = Execs
        /\ \A d \in DOMAIN execs' : /\ execs'[d].run \in DOMAIN rows'
                                    /\ execs'[d].by = "caller" => execs'[d].span \in Spans
    BY NoneMoves
  <1>2. ValTypes'
    BY <1>1, TypesThen
  <1> QED BY <1>1, <1>2 DEF Quiet

LEMMA QuietSteps ==
  ASSUME ValTypes, ExecInv, [ValidationNext]_valVars
  PROVE  \/ Quiet
         \/ \E e \in Execs : StoreResult(e) \/ StoreTrades(e)
  <1> USE DEF ValTypes
  <1>0. batch \in [left : Nat, exec : Nat]
    OBVIOUS
  <1> HIDE DEF ValTypes
  <1>u. rows' = rows => /\ rows' \in Seq(RowRecords) /\ DOMAIN rows' = Runs /\ RunsKept
                        /\ \A r \in Runs : rows'[r].status = "completed" => rows[r].status = "completed"
    BY Untouched
  <1>1. ASSUME NEW c \in Configs, CreateBacktestRun(c) PROVE Quiet
    <2>1. /\ rows' = Append(rows, RowOf(c)) /\ execs' = execs /\ results' = results /\ trades' = trades
          /\ batch' = batch
      BY <1>1 DEF CreateBacktestRun
    <2>2. /\ rows' \in Seq(RowRecords) /\ RunsKept /\ DOMAIN rows' = Runs \cup {Len(rows) + 1}
          /\ rows'[Len(rows) + 1].status = "pending" /\ \A r \in Runs : rows'[r] = rows[r]
      BY <2>1, RowAppears
    <2>3. \A q \in DOMAIN rows' : rows'[q].status = "completed" => q \in Runs /\ rows[q].status = "completed"
      BY <2>2
    <2> QED BY <1>0, <2>1, <2>2, <2>3, IdlesQuietly
  <1>2. ASSUME NEW r \in Runs, NEW override \in {None, "5s"}, StartMain(r, override) PROVE Quiet
    <2>1. /\ execs' = Append(execs, NewExec(r, "main", override, <<>>)) /\ rows' = rows
          /\ results' = results /\ trades' = trades /\ batch' = batch
      BY <1>2 DEF StartMain
    <2>2. r \in DOMAIN rows' /\ <<>> \in Spans \cup {<<>>}
      BY <1>u, <2>1
    <2> QED BY <1>0, <1>u, <2>1, <2>2, StartsQuietly
  <1>3. ASSUME NEW r \in Runs, NEW span \in Spans, StartWalkForward(r, span) PROVE Quiet
    <2>1. /\ execs' = Append(execs, NewExec(r, "caller", None, span)) /\ rows' = rows
          /\ results' = results /\ trades' = trades /\ batch' = batch
      BY <1>3 DEF StartWalkForward
    <2>2. r \in DOMAIN rows' /\ span \in Spans \cup {<<>>}
      BY <1>u, <2>1
    <2> QED BY <1>0, <1>u, <2>1, <2>2, StartsQuietly
  <1>4. ASSUME NEW s \in Symbols, NEW c \in Coverages, DetailBarsArrive(s, c) PROVE Quiet
    <2>1. rows' = rows /\ execs' = execs /\ results' = results /\ trades' = trades /\ batch' = batch
      BY <1>4 DEF DetailBarsArrive
    <2> QED BY <1>0, <1>u, <2>1, IdlesQuietly
  <1>5. ASSUME NEW e \in Execs, Prepare(e) PROVE Quiet
    <2>1. PICK x \in ExecRecords :
            /\ x.run = execs[e].run /\ x.by = execs[e].by /\ x.span = execs[e].span
            /\ execs' = [execs EXCEPT ![e] = x]
            /\ Prepared(e, x)
            /\ rows' \in Seq(RowRecords) /\ DOMAIN rows' = Runs /\ RunsKept
      BY <1>5, PrepareIs
    <2>2. results' = results /\ trades' = trades /\ batch' = batch
      BY <1>5 DEF Prepare
    <2>3. \A r \in Runs : rows'[r].status = "completed" => rows[r].status = "completed"
      BY <2>1 DEF Prepared
    <2> QED BY <2>1, <2>2, <2>3, GoesQuietly
  <1>6. ASSUME NEW e \in Execs, PrepareRaises(e) PROVE Quiet
    <2>1. Leave(e, "raised") /\ rows' = rows /\ results' = results /\ trades' = trades /\ batch' = batch
      BY <1>6 DEF PrepareRaises
    <2> DEFINE x == [execs[e] EXCEPT !.at = "raised", !.done = <<>>]
    <2>2. /\ x \in ExecRecords /\ x.run = execs[e].run /\ x.by = execs[e].by /\ x.span = execs[e].span
          /\ x.at = "raised" /\ execs' = [execs EXCEPT ![e] = x]
      BY <2>1, LeaveIs DEF ExecStages
    <2> HIDE DEF x
    <2> QED BY <1>u, <2>1, <2>2, EndsQuietly
  <1>7. ASSUME NEW e \in Execs, Raise(e) PROVE Quiet
    <2>1. /\ Leave(e, "raised") /\ SetStatus(execs[e].run, "failed")
          /\ results' = results /\ trades' = trades /\ batch' = batch
      BY <1>7 DEF Raise
    <2> DEFINE x == [execs[e] EXCEPT !.at = "raised", !.done = <<>>]
    <2>2. /\ x \in ExecRecords /\ x.run = execs[e].run /\ x.by = execs[e].by /\ x.span = execs[e].span
          /\ x.at = "raised" /\ execs' = [execs EXCEPT ![e] = x]
      BY <2>1, LeaveIs DEF ExecStages
    <2> HIDE DEF x
    <2>3. /\ rows' \in Seq(RowRecords) /\ DOMAIN rows' = Runs /\ RunsKept
          /\ rows'[execs[e].run].status = "failed" /\ \A q \in Runs \ {execs[e].run} : rows'[q] = rows[q]
      BY <2>1, ExecIs, StatusKept
    <2>4. \A r \in Runs : rows'[r].status = "completed" => rows[r].status = "completed"
      BY <2>3
    <2> QED BY <2>1, <2>2, <2>3, <2>4, EndsQuietly
  <1>8. ASSUME NEW e \in Execs, NEW book \in Books, RunBacktest(e, book) PROVE Quiet
    <2>1. PICK x \in ExecRecords :
            /\ x.run = execs[e].run /\ x.by = execs[e].by /\ x.span = execs[e].span
            /\ execs' = [execs EXCEPT ![e] = x]
            /\ Tested(e, x)
      BY <1>8, BacktestIs
    <2>2. rows' = rows /\ results' = results /\ trades' = trades /\ batch' = batch
      BY <1>8 DEF RunBacktest
    <2> QED BY <1>u, <2>1, <2>2, GoesQuietly
  <1>9. ASSUME NEW e \in Execs, Conclude(e) PROVE Quiet
    <2> DEFINE st == IF Outcome(e).total = 0 THEN "failed" ELSE "completed"
    <2>1. /\ Leave(e, "returned") /\ SetStatus(execs[e].run, st) /\ execs[e].at = "trades"
          /\ results' = results /\ trades' = trades /\ batch' = batch
      BY <1>9 DEF Conclude, AtStep
    <2> DEFINE x == [execs[e] EXCEPT !.at = "returned", !.done = <<>>]
    <2>2. /\ x \in ExecRecords /\ x.run = execs[e].run /\ x.by = execs[e].by /\ x.span = execs[e].span
          /\ x.at = "returned" /\ execs' = [execs EXCEPT ![e] = x]
      BY <2>1, LeaveIs DEF ExecStages
    <2>s. st \in {"pending", "running", "completed", "failed"}
      OBVIOUS
    <2> HIDE DEF x, st
    <2>3. /\ rows' \in Seq(RowRecords) /\ DOMAIN rows' = Runs /\ RunsKept
          /\ \A q \in Runs \ {execs[e].run} : rows'[q] = rows[q]
      BY <2>1, <2>s, ExecIs, StatusKept
    <2>4. \A r \in Runs : rows'[r].status = "completed" =>
            rows[r].status = "completed" \/ (r = execs[e].run /\ execs[e].at \in {"trades", "returned"})
      BY <2>1, <2>3
    <2> QED BY <2>1, <2>2, <2>3, <2>4, EndsQuietly
  <1>10. ASSUME NEW e \in Execs, MarkCompleted(e) PROVE Quiet
    <2> DEFINE st == IF execs[e].at = "returned" THEN "completed" ELSE "failed"
    <2>1. /\ Move(e, "ended") /\ SetStatus(execs[e].run, st)
          /\ results' = results /\ trades' = trades /\ batch' = batch
      BY <1>10 DEF MarkCompleted
    <2> DEFINE x == [execs[e] EXCEPT !.at = "ended"]
    <2>2. /\ x \in ExecRecords /\ x.run = execs[e].run /\ x.by = execs[e].by /\ x.span = execs[e].span
          /\ x.at = "ended" /\ execs' = [execs EXCEPT ![e] = x]
      BY <2>1, MoveIs DEF ExecStages
    <2>s. st \in {"pending", "running", "completed", "failed"} /\ (st = "completed" => execs[e].at = "returned")
      OBVIOUS
    <2> HIDE DEF x, st
    <2>3. /\ rows' \in Seq(RowRecords) /\ DOMAIN rows' = Runs /\ RunsKept
          /\ rows'[execs[e].run].status = st
          /\ \A q \in Runs \ {execs[e].run} : rows'[q] = rows[q]
      BY <2>1, <2>s, ExecIs, StatusKept
    <2>4. \A r \in Runs : rows'[r].status = "completed" =>
            rows[r].status = "completed" \/ (r = execs[e].run /\ execs[e].at \in {"trades", "returned"})
      BY <2>s, <2>3
    <2> QED BY <2>1, <2>2, <2>3, <2>4, EndsQuietly
  <1>11. ASSUME NEW e \in Execs, Crash(e) PROVE Quiet
    <2>1. Leave(e, "crashed") /\ rows' = rows /\ results' = results /\ trades' = trades /\ batch' = batch
      BY <1>11 DEF Crash
    <2> DEFINE x == [execs[e] EXCEPT !.at = "crashed", !.done = <<>>]
    <2>2. /\ x \in ExecRecords /\ x.run = execs[e].run /\ x.by = execs[e].by /\ x.span = execs[e].span
          /\ x.at = "crashed" /\ execs' = [execs EXCEPT ![e] = x]
      BY <2>1, LeaveIs DEF ExecStages
    <2> HIDE DEF x
    <2> QED BY <1>u, <2>1, <2>2, EndsQuietly
  <1>12. ASSUME NEW n \in 1 .. MaxBatch, NEW ensure \in BOOLEAN, StartBatch(n, ensure) PROVE Quiet
    <2>1. rows' = rows /\ execs' = execs /\ results' = results /\ trades' = trades
      BY <1>12 DEF StartBatch
    <2>2. batch' = batch \/ batch' = [batch EXCEPT !.left = n]
      BY <1>12 DEF StartBatch
    <2>3. n \in Nat
      OBVIOUS
    <2>4. batch' \in [left : Nat, exec : Nat]
      BY <1>0, <2>2, <2>3
    <2> QED BY <1>u, <2>1, <2>4, IdlesQuietly
  <1>13. ASSUME BatchRun PROVE Quiet
    <2>1. /\ rows' = Append(rows, RowOf(BatchRow)) /\ results' = results /\ trades' = trades
          /\ execs' = Append(execs, NewExec(Len(rows) + 1, "batch", None, <<>>))
          /\ batch' = [left |-> batch.left - 1, exec |-> Len(execs) + 1] /\ batch.left > 0
      BY <1>13 DEF BatchRun
    <2>2. /\ rows' \in Seq(RowRecords) /\ RunsKept /\ DOMAIN rows' = Runs \cup {Len(rows) + 1}
          /\ rows'[Len(rows) + 1].status = "pending" /\ \A r \in Runs : rows'[r] = rows[r]
          /\ Len(rows) + 1 \in DOMAIN rows'
      BY <2>1, RowTyped, RowAppears
    <2>3. \A q \in DOMAIN rows' : rows'[q].status = "completed" => q \in Runs /\ rows[q].status = "completed"
      BY <2>2
    <2>4. Len(execs) \in Nat
      BY DEF ValTypes
    <2>5. batch' \in [left : Nat, exec : Nat]
      BY <1>0, <2>1, <2>4
    <2> QED BY <2>1, <2>2, <2>3, <2>5, StartsQuietly
  <1>14. CASE UNCHANGED valVars
    <2>1. rows' = rows /\ execs' = execs /\ results' = results /\ trades' = trades /\ batch' = batch
      BY <1>14 DEF valVars
    <2> QED BY <1>0, <1>u, <2>1, IdlesQuietly
  <1>15. CASE ValidationNext
    BY <1>1, <1>2, <1>3, <1>4, <1>5, <1>6, <1>7, <1>8, <1>9, <1>10, <1>11, <1>12, <1>13, <1>15 DEF ValidationNext
  <1> QED BY <1>14, <1>15

-----------------------------------------------------------------------------
(* The invariant is kept.                                                   *)

LeftThen(x, r) ==
  \E book \in Books :
    /\ x = ExtractResults(book, 0)
    /\ \A k \in DOMAIN book : book[k].symbol \in rows'[r].symbols

LEMMA QuietKeepsExecs ==
  ASSUME ValTypes, ExecInv, Quiet
  PROVE  ExecInv'
  <1> SUFFICES ASSUME NEW e \in DOMAIN execs', NEW x, x = execs'[e]
               PROVE  /\ x.at = "load" => x.done = <<>>
                      /\ x.at \in Loaded =>
                           /\ Len(x.windows) > 0 /\ Len(x.done) <= Len(x.windows)
                           /\ x.at # "run" => Len(x.done) = Len(x.windows)
                           /\ x.data \subseteq rows'[x.run].symbols \X Words
                           /\ x.by # "caller" => /\ x.windows = WholeRange
                                                 /\ \A k \in DOMAIN x.done : LeftThen(x.done[k], x.run)
    BY DEF ExecInv, Execs, LeftBy, LeftThen
  <1> DEFINE old == execs[e]
  <1>0. /\ \A r \in Runs : rows'[r].symbols = rows[r].symbols
        /\ \A r \in Runs : \A y : LeftBy(y, r) => LeftThen(y, r)
    BY DEF Quiet, RunsKept, LeftBy, LeftThen
  <1>1. CASE e \notin Execs
    <2>1. x.at = "load" /\ x.done = <<>>
      BY <1>1 DEF Quiet
    <2> QED BY <2>1 DEF Loaded
  <1>2. CASE e \in Execs
    <2>1. /\ old \in ExecRecords /\ old.run \in Runs /\ x \in ExecRecords
          /\ x.run = old.run /\ x.by = old.by
      BY <1>2, ExecIs DEF Quiet, ValTypes, ExecsKept
    <2>2. /\ old.at = "load" => old.done = <<>>
          /\ old.at \in Loaded =>
               /\ Len(old.windows) > 0 /\ Len(old.done) <= Len(old.windows)
               /\ old.at # "run" => Len(old.done) = Len(old.windows)
               /\ old.data \subseteq rows[old.run].symbols \X Words
               /\ old.by # "caller" => /\ old.windows = WholeRange
                                       /\ \A k \in DOMAIN old.done : LeftBy(old.done[k], old.run)
      BY <1>2 DEF ExecInv
    <2>3. x = old \/ x.at \notin Loaded \cup {"load"} \/ Prepared(e, x) \/ Tested(e, x)
      BY <1>2 DEF Quiet
    <2> HIDE DEF old
    <2>4. CASE x = old
      BY <1>0, <2>1, <2>2, <2>4
    <2>5. CASE x.at \notin Loaded \cup {"load"}
      BY <2>5
    <2>6. CASE Prepared(e, x)
      <3>1. /\ old.at = "load" /\ x.at = "run" /\ x.done = old.done /\ Len(x.windows) > 0
            /\ x.by # "caller" => x.windows = WholeRange
            /\ x.data \subseteq rows[x.run].symbols \X Words
        BY <2>6 DEF Prepared, old
      <3>2. x.done = <<>>
        BY <2>2, <3>1
      <3>3. Len(x.done) <= Len(x.windows) /\ DOMAIN x.done = {}
        BY <3>1, <3>2
      <3>4. x.data \subseteq rows'[x.run].symbols \X Words
        BY <1>0, <2>1, <3>1
      <3> QED BY <3>1, <3>3, <3>4
    <2>7. CASE Tested(e, x)
      <3>1. /\ old.at = "run" /\ x.at = "run" /\ x.windows = old.windows /\ x.data = old.data
            /\ Len(old.done) < Len(old.windows) /\ Len(x.done) = Len(old.done) + 1
            /\ \A k \in DOMAIN old.done : x.done[k] = old.done[k]
            /\ x.by # "caller" => LeftBy(x.done[Len(x.done)], x.run)
        BY <2>7 DEF Tested, old
      <3>2. x.done \in Seq(WindowResults) /\ old.done \in Seq(WindowResults)
            /\ x.windows \in Seq(Int \X Int)
        BY <2>1 DEF ExecRecords
      <3>3. DOMAIN x.done = DOMAIN old.done \cup {Len(x.done)}
        BY <3>1, <3>2
      <3>4. Len(x.windows) > 0 /\ Len(x.done) <= Len(x.windows)
        BY <3>1, <3>2
      <3>5. x.data \subseteq rows'[x.run].symbols \X Words
        BY <1>0, <2>1, <2>2, <3>1 DEF Loaded
      <3>6. ASSUME x.by # "caller" PROVE x.windows = WholeRange /\ \A k \in DOMAIN x.done : LeftThen(x.done[k], x.run)
        <4>1. x.windows = WholeRange /\ \A k \in DOMAIN old.done : LeftBy(old.done[k], old.run)
          BY <2>1, <2>2, <3>1, <3>6 DEF Loaded
        <4>2. \A k \in DOMAIN x.done : LeftBy(x.done[k], x.run)
          BY <2>1, <3>1, <3>3, <3>6, <4>1
        <4> QED BY <1>0, <2>1, <4>1, <4>2
      <3> QED BY <3>1, <3>4, <3>5, <3>6
    <2> QED BY <2>3, <2>4, <2>5, <2>6, <2>7
  <1> QED BY <1>1, <1>2

\* The tables as they were.
LEMMA QuietKeepsTables ==
  ASSUME ValInv, Quiet
  PROVE  ResultsInv' /\ TradesInv' /\ StoredInv' /\ CompletedInv'
  <1>0. /\ results' = results /\ trades' = trades
        /\ \A e : TradesHave(e)' = TradesHave(e)
        /\ \A i \in DOMAIN results : Whole(i)' <=> Whole(i)
        /\ \A e : Stored(e)' <=> Stored(e)
    BY DEF Quiet, TradesHave, Whole, Block, Stored
  <1>1. /\ \A r \in Runs : rows'[r].symbols = rows[r].symbols
        /\ \A r \in Runs : \A y : LeftBy(y, r) => LeftBy(y, r)'
    BY DEF Quiet, RunsKept, LeftBy
  <1>2. \A e \in Execs :
          /\ e \in DOMAIN execs' /\ execs'[e].run = execs[e].run /\ execs'[e].by = execs[e].by
          /\ execs'[e].at \in {"load", "run"} => execs[e].at \in {"load", "run"}
          /\ execs'[e].at \in {"load", "run", "result"} => execs[e].at \in {"load", "run", "result"}
          /\ execs'[e].at = "result" => execs'[e] = execs[e]
          /\ execs'[e].at \in {"trades", "returned"} => execs[e].at \in {"trades", "returned"}
          /\ execs[e].run \in Runs
    BY DEF Quiet, ExecsKept, ValInv, ValTypes
  <1>3. ResultsInv'
    <2> SUFFICES ASSUME NEW i \in DOMAIN results, NEW e, e = results[i].by
                 PROVE  /\ e \in DOMAIN execs' /\ results[i].run = execs'[e].run
                        /\ execs'[e].at \notin {"load", "run"}
                        /\ execs'[e].at = "result" => results[i].result = Outcome(e)'
                        /\ execs'[e].at \in {"trades", "returned"} => Whole(i)'
                        /\ TradesHave(e)' # {} => Whole(i)'
                        /\ execs'[e].by # "caller" => LeftBy(results[i].result, results[i].run)'
      BY <1>0 DEF ResultsInv, Execs
    <2>1. /\ e \in Execs /\ results[i].run = execs[e].run
          /\ execs[e].at \notin {"load", "run"}
          /\ execs[e].at = "result" => results[i].result = Outcome(e)
          /\ execs[e].at \in {"trades", "returned"} => Whole(i)
          /\ TradesHave(e) # {} => Whole(i)
          /\ execs[e].by # "caller" => LeftBy(results[i].result, results[i].run)
      BY DEF ValInv, ResultsInv
    <2>2. execs'[e] = execs[e] => Outcome(e)' = Outcome(e)
      BY DEF Outcome
    <2>3. execs'[e].at = "result" => results[i].result = Outcome(e)'
      BY <1>2, <2>1, <2>2
    <2>4. execs'[e].by # "caller" => LeftBy(results[i].result, results[i].run)'
      BY <1>0, <1>1, <1>2, <2>1 DEF LeftBy
    <2>5. (execs'[e].at \in {"trades", "returned"} => Whole(i)') /\ (TradesHave(e)' # {} => Whole(i)')
      BY <1>0, <1>2, <2>1
    <2>6. e \in DOMAIN execs' /\ results[i].run = execs'[e].run /\ execs'[e].at \notin {"load", "run"}
      BY <1>2, <2>1
    <2> QED BY <2>3, <2>4, <2>5, <2>6
  <1>4. TradesInv'
    <2> SUFFICES ASSUME NEW j \in DOMAIN trades, NEW e, e = trades[j].by
                 PROVE  /\ e \in DOMAIN execs' /\ trades[j].run = execs'[e].run
                        /\ execs'[e].at \notin {"load", "run", "result"}
                        /\ Stored(e)'
      BY <1>0 DEF TradesInv, Execs
    <2>1. /\ e \in Execs /\ trades[j].run = execs[e].run
          /\ execs[e].at \notin {"load", "run", "result"} /\ Stored(e)
      BY DEF ValInv, TradesInv
    <2>2. /\ e \in DOMAIN execs' /\ trades[j].run = execs'[e].run
          /\ execs'[e].at \notin {"load", "run", "result"} /\ Stored(e)'
      BY <1>0, <1>2, <2>1
    <2> QED BY <2>2
  <1>5. StoredInv'
    <2> SUFFICES ASSUME NEW e \in DOMAIN execs', execs'[e].at \in {"result", "trades", "returned"}
                 PROVE  Stored(e)'
      BY DEF StoredInv, Execs
    <2>1. e \in Execs
      BY DEF Quiet
    <2>2. execs[e].at \in {"result", "trades", "returned"}
      BY <1>2, <2>1
    <2> QED BY <1>0, <2>1, <2>2 DEF ValInv, StoredInv
  <1>6. CompletedInv'
    <2> SUFFICES ASSUME NEW r \in DOMAIN rows', rows'[r].status = "completed"
                 PROVE  \E i \in DOMAIN results : results[i].run = r /\ Whole(i)'
      BY <1>0 DEF CompletedInv, Runs
    <2>1. CASE r \in Runs /\ rows[r].status = "completed"
      BY <1>0, <2>1 DEF ValInv, CompletedInv
    <2>2. CASE \E e \in Execs : execs[e].run = r /\ execs[e].at \in {"trades", "returned"}
      <3>1. PICK e \in Execs : execs[e].run = r /\ execs[e].at \in {"trades", "returned"}
        BY <2>2
      <3>2. PICK i \in DOMAIN results : results[i].by = e
        BY <3>1 DEF ValInv, StoredInv, Stored
      <3>3. results[i].run = r /\ Whole(i)
        BY <3>1, <3>2 DEF ValInv, ResultsInv
      <3> QED BY <1>0, <3>3
    <2> QED BY <2>1, <2>2 DEF Quiet
  <1> QED BY <1>3, <1>4, <1>5, <1>6

LEMMA QuietKeeps ==
  ASSUME ValInv, Quiet
  PROVE  ValInv'
  <1>1. ValTypes'
    BY DEF Quiet
  <1>2. ExecInv'
    BY QuietKeepsExecs DEF ValInv
  <1> QED BY <1>1, <1>2, QuietKeepsTables DEF ValInv

LEMMA StoreResultKeeps ==
  ASSUME ValInv, NEW e \in Execs, StoreResult(e)
  PROVE  ValInv'
  <1> DEFINE x == [execs[e] EXCEPT !.at = "result"]
             entry == [run |-> execs[e].run, by |-> e, result |-> Outcome(e)]
             n == Len(results)
  <1>1. /\ execs[e].at = "run" /\ Len(execs[e].done) = Len(execs[e].windows)
        /\ results' = Append(results, entry) /\ Move(e, "result")
        /\ rows' = rows /\ trades' = trades /\ batch' = batch
    BY DEF StoreResult, Finished, AtStep
  <1>2. ValTypes /\ ExecInv /\ ResultsInv /\ TradesInv /\ StoredInv /\ CompletedInv
    BY DEF ValInv
  <1>3. /\ x \in ExecRecords /\ x.run = execs[e].run /\ x.by = execs[e].by /\ x.span = execs[e].span /\ x.at = "result"
        /\ x.done = execs[e].done /\ x.windows = execs[e].windows /\ x.data = execs[e].data
        /\ execs' = [execs EXCEPT ![e] = x]
    BY <1>1, <1>2, MoveIs DEF ExecStages
  <1>4. execs[e].at \in Loaded
    BY <1>1 DEF Loaded
  <1>5. Outcome(e) \in RunResults /\ (execs[e].by # "caller" => LeftBy(Outcome(e), execs[e].run))
    BY <1>1, <1>2, <1>4, OutcomeTyped
  <1>6. /\ execs \in Seq(ExecRecords) /\ results \in Seq([run : Nat, by : Nat, result : RunResults])
        /\ execs[e].run \in Runs /\ execs[e].run \in Nat /\ e \in Nat
        /\ trades \in Seq([run : Nat, by : Nat, trade : TradeRecords])
    BY <1>2 DEF ValTypes, Runs, Execs
  <1>7. Outcome(e)' = Outcome(e)
    <2> HIDE DEF x
    <2>1. execs'[e] = x
      BY <1>3, <1>6 DEF Execs
    <2> QED BY <1>3, <2>1 DEF Outcome
  <1> HIDE DEF x
  <1>8. /\ execs' \in Seq(ExecRecords) /\ DOMAIN execs' = Execs
        /\ execs'[e] = x /\ \A d \in Execs \ {e} : execs'[d] = execs[d]
    BY <1>3, <1>6 DEF Execs
  <1>9. entry \in [run : Nat, by : Nat, result : RunResults]
    <2> DEFINE o == Outcome(e)
               q == execs[e].run
    <2>1. o \in RunResults /\ q \in Nat /\ e \in Nat
      BY <1>5, <1>6
    <2> HIDE DEF o, q
    <2>2. [run |-> q, by |-> e, result |-> o] \in [run : Nat, by : Nat, result : RunResults]
      BY <2>1
    <2> QED BY <2>2 DEF o, q
  <1>e. entry.run = execs[e].run /\ entry.by = e /\ entry.result = Outcome(e)
    OBVIOUS
  <1> HIDE DEF entry
  <1>10. /\ results' \in Seq([run : Nat, by : Nat, result : RunResults])
         /\ n \in Nat /\ DOMAIN results = 1 .. n /\ DOMAIN results' = 1 .. n + 1
         /\ results'[n + 1] = entry /\ \A i \in 1 .. n : results'[i] = results[i]
    BY <1>1, <1>6, <1>9
  <1> HIDE DEF n
  <1>11. /\ \A d : TradesHave(d)' = TradesHave(d)
         /\ \A i \in DOMAIN results : Whole(i) => Whole(i)'
         /\ \A d : Stored(d) => Stored(d)'
         /\ \A y : \A r : LeftBy(y, r)' <=> LeftBy(y, r)
    <2>1. \A d : TradesHave(d)' = TradesHave(d)
      BY <1>1 DEF TradesHave
    <2>2. \A d, s : Block(d, s)' <=> Block(d, s)
      BY <1>1, <2>1 DEF Block
    <2>3. \A i \in DOMAIN results : Whole(i) => Whole(i)'
      <3> SUFFICES ASSUME NEW i \in DOMAIN results, Whole(i), NEW d, d = results[i].by,
                          NEW t, t = results[i].result.trades
                   PROVE  Whole(i)'
        OBVIOUS
      <3>1. results'[i].by = d /\ results'[i].result.trades = t
        BY <1>10
      <3>2. Block(d, t)'
        BY <2>2 DEF Whole
      <3> QED BY <3>1, <3>2 DEF Whole, Block
    <2>4. ASSUME NEW d, Stored(d) PROVE Stored(d)'
      <3>1. PICK i \in DOMAIN results : results[i].by = d
        BY <2>4 DEF Stored
      <3>2. i \in DOMAIN results' /\ results'[i].by = d
        BY <1>10, <3>1
      <3> QED BY <3>2 DEF Stored
    <2>5. \A y : \A r : LeftBy(y, r)' <=> LeftBy(y, r)
      BY <1>1 DEF LeftBy
    <2> QED BY <2>1, <2>3, <2>4, <2>5
  <1>12. ValTypes'
    BY <1>1, <1>2, <1>3, <1>8, <1>10 DEF ValTypes, Runs, Execs
  <1>13. ExecInv'
    <2> SUFFICES ASSUME NEW d \in DOMAIN execs', NEW y, y = execs'[d]
                 PROVE  /\ y.at = "load" => y.done = <<>>
                        /\ y.at \in Loaded =>
                             /\ Len(y.windows) > 0 /\ Len(y.done) <= Len(y.windows)
                             /\ y.at # "run" => Len(y.done) = Len(y.windows)
                             /\ y.data \subseteq rows[y.run].symbols \X Words
                             /\ y.by # "caller" => /\ y.windows = WholeRange
                                                   /\ \A k \in DOMAIN y.done : LeftBy(y.done[k], y.run)
      BY <1>1 DEF ExecInv, Execs, LeftBy
    <2>1. CASE d # e
      BY <1>2, <1>8, <2>1 DEF ExecInv
    <2>2. CASE d = e
      BY <1>1, <1>2, <1>3, <1>4, <1>8, <2>2 DEF ExecInv
    <2> QED BY <2>1, <2>2
  <1>14. ResultsInv'
    <2> SUFFICES ASSUME NEW i \in DOMAIN results', NEW d, d = results'[i].by
                 PROVE  /\ d \in DOMAIN execs' /\ results'[i].run = execs'[d].run
                        /\ execs'[d].at \notin {"load", "run"}
                        /\ execs'[d].at = "result" => results'[i].result = Outcome(d)'
                        /\ execs'[d].at \in {"trades", "returned"} => Whole(i)'
                        /\ TradesHave(d)' # {} => Whole(i)'
                        /\ execs'[d].by # "caller" => LeftBy(results'[i].result, results'[i].run)
      <3>1. \A i \in DOMAIN results' : LeftBy(results'[i].result, results'[i].run) <=> LeftBy(results[i].result, results[i].run)'
        BY <1>1 DEF LeftBy
      <3> QED BY <3>1 DEF ResultsInv, Execs
    <2>1. CASE i \in 1 .. n
      <3>1. /\ d \in Execs /\ results[i].run = execs[d].run
            /\ execs[d].at \notin {"load", "run"}
            /\ execs[d].at = "result" => results[i].result = Outcome(d)
            /\ execs[d].at \in {"trades", "returned"} => Whole(i)
            /\ TradesHave(d) # {} => Whole(i)
            /\ execs[d].by # "caller" => LeftBy(results[i].result, results[i].run)
        BY <1>2, <1>10, <2>1 DEF ResultsInv
      <3>2. d # e
        BY <1>1, <3>1
      <3>3. execs'[d] = execs[d] /\ results'[i] = results[i]
        BY <1>8, <1>10, <2>1, <3>1, <3>2
      <3>4. Outcome(d)' = Outcome(d)
        BY <3>3 DEF Outcome
      <3>5. Whole(i) => Whole(i)'
        BY <1>10, <1>11, <2>1
      <3>6. TradesHave(d)' # {} => Whole(i)'
        BY <1>11, <3>1, <3>5
      <3> QED BY <1>8, <3>1, <3>3, <3>4, <3>5, <3>6
    <2>2. CASE i = n + 1
      <3>1. results'[i] = entry /\ d = e
        BY <1>10, <1>e, <2>2
      <3>2. TradesHave(e) = {}
        BY <1>1, <1>2 DEF TradesInv, TradesHave
      <3>3. TradesHave(d)' = {}
        BY <1>11, <3>1, <3>2
      <3>4. results'[i].result = Outcome(d)'
        BY <1>7, <1>e, <3>1
      <3>5. execs'[d].by # "caller" => LeftBy(results'[i].result, results'[i].run)
        BY <1>3, <1>5, <1>8, <1>e, <3>1
      <3> QED BY <1>3, <1>8, <1>e, <3>1, <3>3, <3>4, <3>5
    <2> QED BY <1>10, <2>1, <2>2
  <1>15. TradesInv'
    <2> SUFFICES ASSUME NEW j \in DOMAIN trades, NEW d, d = trades[j].by
                 PROVE  /\ d \in DOMAIN execs' /\ trades[j].run = execs'[d].run
                        /\ execs'[d].at \notin {"load", "run", "result"}
                        /\ Stored(d)'
      BY <1>1 DEF TradesInv, Execs
    <2>1. /\ d \in Execs /\ trades[j].run = execs[d].run
          /\ execs[d].at \notin {"load", "run", "result"} /\ Stored(d)
      BY <1>2 DEF TradesInv
    <2>2. d # e
      BY <1>1, <2>1
    <2> QED BY <1>8, <1>11, <2>1, <2>2
  <1>16. StoredInv'
    <2> SUFFICES ASSUME NEW d \in DOMAIN execs', execs'[d].at \in {"result", "trades", "returned"}
                 PROVE  Stored(d)'
      BY DEF StoredInv, Execs
    <2>1. CASE d = e
      <3>1. n + 1 \in DOMAIN results' /\ results'[n + 1].by = e
        BY <1>10, <1>e
      <3> QED BY <2>1, <3>1 DEF Stored
    <2>2. CASE d # e
      BY <1>2, <1>8, <1>11, <2>2 DEF StoredInv
    <2> QED BY <2>1, <2>2
  <1>17. CompletedInv'
    <2> SUFFICES ASSUME NEW r \in Runs, rows[r].status = "completed"
                 PROVE  \E i \in DOMAIN results' : results'[i].run = r /\ Whole(i)'
      BY <1>1 DEF CompletedInv, Runs
    <2>1. PICK i \in DOMAIN results : results[i].run = r /\ Whole(i)
      BY <1>2 DEF CompletedInv
    <2>2. i \in DOMAIN results' /\ results'[i].run = r /\ Whole(i)'
      BY <1>10, <1>11, <2>1
    <2> QED BY <2>2
  <1> QED BY <1>12, <1>13, <1>14, <1>15, <1>16, <1>17 DEF ValInv

LEMMA StoreTradesKeeps ==
  ASSUME ValInv, NEW e \in Execs, StoreTrades(e)
  PROVE  ValInv'
  <1> SUFFICES ASSUME NEW s, s = Outcome(e).trades PROVE ValInv'
    OBVIOUS
  <1> DEFINE x == [execs[e] EXCEPT !.at = "trades"]
             more == [k \in DOMAIN s |-> [run |-> execs[e].run, by |-> e, trade |-> s[k]]]
             n == Len(trades)
             TradeRows == [run : Nat, by : Nat, trade : TradeRecords]
  <1>1. /\ execs[e].at = "result" /\ trades' = trades \o more /\ Move(e, "trades")
        /\ rows' = rows /\ results' = results /\ batch' = batch
    BY DEF StoreTrades, AtStep
  <1>2. ValTypes /\ ExecInv /\ ResultsInv /\ TradesInv /\ StoredInv /\ CompletedInv
    BY DEF ValInv
  <1>3. /\ x \in ExecRecords /\ x.run = execs[e].run /\ x.by = execs[e].by /\ x.span = execs[e].span /\ x.at = "trades"
        /\ x.done = execs[e].done /\ x.windows = execs[e].windows /\ x.data = execs[e].data
        /\ execs' = [execs EXCEPT ![e] = x]
    BY <1>1, <1>2, MoveIs DEF ExecStages
  <1>4. execs[e].at \in Loaded /\ Len(execs[e].done) = Len(execs[e].windows)
    BY <1>1, <1>2 DEF Loaded, ExecInv
  <1>5. Outcome(e) \in RunResults
    BY <1>2, <1>4, OutcomeTyped
  <1>6. s \in Seq(TradeRecords)
    <2> DEFINE o == Outcome(e)
    <2>1. o \in RunResults
      BY <1>5
    <2> HIDE DEF o
    <2>2. o.trades \in Seq(TradeRecords)
      BY <2>1, RunTyped
    <2> QED BY <2>2 DEF o
  <1>7. /\ execs \in Seq(ExecRecords) /\ trades \in Seq(TradeRows)
        /\ execs[e].run \in Nat /\ e \in Nat
    BY <1>2 DEF ValTypes, Runs, Execs
  <1> HIDE DEF x
  <1>8. /\ execs' \in Seq(ExecRecords) /\ DOMAIN execs' = Execs
        /\ execs'[e] = x /\ \A d \in Execs \ {e} : execs'[d] = execs[d]
    BY <1>3, <1>7 DEF Execs
  <1>9. /\ more \in Seq(TradeRows) /\ Len(more) = Len(s) /\ Len(s) \in Nat
        /\ \A k \in 1 .. Len(s) : more[k].by = e /\ more[k].run = execs[e].run /\ more[k].trade = s[k]
    <2> DEFINE q == execs[e].run
    <2>1. q \in Nat /\ e \in Nat
      BY <1>7
    <2>2. Len(s) \in Nat /\ DOMAIN s = 1 .. Len(s) /\ \A k \in DOMAIN s : s[k] \in TradeRecords
      BY <1>6
    <2> HIDE DEF q
    <2> DEFINE list == [k \in 1 .. Len(s) |-> [run |-> q, by |-> e, trade |-> s[k]]]
    <2>3. \A k \in 1 .. Len(s) : [run |-> q, by |-> e, trade |-> s[k]] \in TradeRows
      BY <2>1, <2>2
    <2>4. \A k \in 1 .. Len(s) : list[k].by = e /\ list[k].run = q /\ list[k].trade = s[k]
      OBVIOUS
    <2> HIDE DEF TradeRows
    <2>5. list \in Seq(TradeRows) /\ Len(list) = Len(s)
      BY <2>2, <2>3
    <2>6. more = list
      BY <2>2 DEF q
    <2> HIDE DEF list, more
    <2> QED BY <2>2, <2>4, <2>5, <2>6 DEF q
  <1> HIDE DEF more, TradeRows
  <1>10. /\ trades' \in Seq(TradeRows)
         /\ n \in Nat /\ DOMAIN trades = 1 .. n /\ DOMAIN trades' = 1 .. n + Len(s)
         /\ \A j \in 1 .. n : trades'[j] = trades[j]
         /\ \A k \in 1 .. Len(s) : trades'[n + k] = more[k]
    BY <1>1, <1>7, <1>9
  <1> HIDE DEF n
  <1>11. \A j \in 1 .. n : trades[j].by # e
    BY <1>1, <1>2, <1>10 DEF TradesInv
  <1>12. \A j \in DOMAIN trades' : j \in 1 .. n \/ \E k \in 1 .. Len(s) : j = n + k
    <2> SUFFICES ASSUME NEW j \in DOMAIN trades', j \notin 1 .. n
                 PROVE  \E k \in 1 .. Len(s) : j = n + k
      OBVIOUS
    <2>1. j - n \in 1 .. Len(s) /\ j = n + (j - n)
      BY <1>9, <1>10
    <2> QED BY <2>1
  <1>13. TradesHave(e)' = n + 1 .. n + Len(s)
    <2>1. \A j \in DOMAIN trades' : trades'[j].by = e <=> j \notin 1 .. n
      <3> SUFFICES ASSUME NEW j \in DOMAIN trades' PROVE trades'[j].by = e <=> j \notin 1 .. n
        OBVIOUS
      <3>1. CASE j \in 1 .. n
        BY <1>10, <1>11, <3>1
      <3>2. ASSUME NEW k \in 1 .. Len(s), j = n + k PROVE trades'[j].by = e /\ j \notin 1 .. n
        BY <1>9, <1>10, <3>2
      <3> QED BY <1>12, <3>1, <3>2
    <2>2. \A j : j \in n + 1 .. n + Len(s) <=> j \in DOMAIN trades' /\ j \notin 1 .. n
      BY <1>9, <1>10
    <2> QED BY <2>1, <2>2 DEF TradesHave
  <1>14. Block(e, s)'
    <2>1. \A k \in 1 .. Len(s) : trades'[n + k].trade = s[k]
      BY <1>9, <1>10
    <2> QED BY <1>10, <1>13, <2>1 DEF Block
  <1>15. \A d : d # e => TradesHave(d)' = TradesHave(d)
    <2> SUFFICES ASSUME NEW d, d # e PROVE TradesHave(d)' = TradesHave(d)
      OBVIOUS
    <2>1. \A j \in DOMAIN trades' : trades'[j].by = d <=> j \in 1 .. n /\ trades[j].by = d
      BY <1>9, <1>10, <1>12
    <2>2. 1 .. n \subseteq DOMAIN trades'
      BY <1>9, <1>10
    <2> QED BY <1>10, <2>1, <2>2 DEF TradesHave
  <1>16. \A d : \A t : d # e /\ Block(d, t) => Block(d, t)'
    <2> SUFFICES ASSUME NEW d, NEW t, d # e, Block(d, t) PROVE Block(d, t)'
      OBVIOUS
    <2>1. PICK b \in Nat : /\ TradesHave(d) = b + 1 .. b + Len(t)
                           /\ \A k \in 1 .. Len(t) : trades[b + k].trade = t[k]
      BY DEF Block
    <2>2. \A j \in TradesHave(d) : trades'[j] = trades[j]
      BY <1>10 DEF TradesHave
    <2>3. \A k \in 1 .. Len(t) : b + k \in b + 1 .. b + Len(t)
      OBVIOUS
    <2>4. \A k \in 1 .. Len(t) : trades'[b + k].trade = t[k]
      BY <2>1, <2>2, <2>3
    <2> QED BY <1>15, <2>1, <2>4 DEF Block
  <1>17. /\ \A i \in DOMAIN results : Whole(i) => Whole(i)'
         /\ \A i \in DOMAIN results : results[i].by = e => Whole(i)'
    <2>1. \A i \in DOMAIN results : results[i].by = e => results[i].result = Outcome(e)
      BY <1>1, <1>2 DEF ResultsInv
    <2>2. \A i \in DOMAIN results : results[i].by = e => Whole(i)'
      BY <1>1, <1>14, <2>1 DEF Whole
    <2>3. \A i \in DOMAIN results : results[i].by # e /\ Whole(i) => Whole(i)'
      BY <1>1, <1>16 DEF Whole
    <2> QED BY <2>2, <2>3
  <1>18. /\ \A d : Stored(d)' <=> Stored(d)
         /\ \A y : \A r : LeftBy(y, r)' <=> LeftBy(y, r)
    BY <1>1 DEF Stored, LeftBy
  <1>19. ValTypes'
    BY <1>1, <1>2, <1>3, <1>8, <1>10 DEF ValTypes, Runs, Execs, TradeRows
  <1>20. ExecInv'
    <2> SUFFICES ASSUME NEW d \in DOMAIN execs', NEW y, y = execs'[d]
                 PROVE  /\ y.at = "load" => y.done = <<>>
                        /\ y.at \in Loaded =>
                             /\ Len(y.windows) > 0 /\ Len(y.done) <= Len(y.windows)
                             /\ y.at # "run" => Len(y.done) = Len(y.windows)
                             /\ y.data \subseteq rows[y.run].symbols \X Words
                             /\ y.by # "caller" => /\ y.windows = WholeRange
                                                   /\ \A k \in DOMAIN y.done : LeftBy(y.done[k], y.run)
      BY <1>1 DEF ExecInv, Execs, LeftBy
    <2>1. CASE d # e
      BY <1>2, <1>8, <2>1 DEF ExecInv
    <2>2. CASE d = e
      BY <1>1, <1>2, <1>3, <1>4, <1>8, <2>2 DEF ExecInv
    <2> QED BY <2>1, <2>2
  <1>21. ResultsInv'
    <2> SUFFICES ASSUME NEW i \in DOMAIN results, NEW d, d = results[i].by
                 PROVE  /\ d \in DOMAIN execs' /\ results[i].run = execs'[d].run
                        /\ execs'[d].at \notin {"load", "run"}
                        /\ execs'[d].at = "result" => results[i].result = Outcome(d)'
                        /\ execs'[d].at \in {"trades", "returned"} => Whole(i)'
                        /\ TradesHave(d)' # {} => Whole(i)'
                        /\ execs'[d].by # "caller" => LeftBy(results[i].result, results[i].run)
      <3>1. \A i \in DOMAIN results : LeftBy(results[i].result, results[i].run) <=> LeftBy(results[i].result, results[i].run)'
        BY <1>1 DEF LeftBy
      <3> QED BY <1>1, <3>1 DEF ResultsInv, Execs
    <2>1. /\ d \in Execs /\ results[i].run = execs[d].run
          /\ execs[d].at \notin {"load", "run"}
          /\ execs[d].at = "result" => results[i].result = Outcome(d)
          /\ execs[d].at \in {"trades", "returned"} => Whole(i)
          /\ TradesHave(d) # {} => Whole(i)
          /\ execs[d].by # "caller" => LeftBy(results[i].result, results[i].run)
      BY <1>2 DEF ResultsInv
    <2>2. CASE d = e
      <3>1. Whole(i)'
        BY <1>17, <2>2
      <3> QED BY <1>3, <1>8, <2>1, <2>2, <3>1
    <2>3. CASE d # e
      <3>1. execs'[d] = execs[d]
        BY <1>8, <2>1, <2>3
      <3>2. Outcome(d)' = Outcome(d)
        BY <3>1 DEF Outcome
      <3> QED BY <1>8, <1>15, <1>17, <2>1, <2>3, <3>1, <3>2
    <2> QED BY <2>2, <2>3
  <1>22. TradesInv'
    <2> SUFFICES ASSUME NEW j \in DOMAIN trades', NEW d, d = trades'[j].by
                 PROVE  /\ d \in DOMAIN execs' /\ trades'[j].run = execs'[d].run
                        /\ execs'[d].at \notin {"load", "run", "result"}
                        /\ Stored(d)
      BY <1>18 DEF TradesInv, Execs
    <2>1. CASE j \in 1 .. n
      <3>1. /\ d \in Execs /\ trades[j].run = execs[d].run
            /\ execs[d].at \notin {"load", "run", "result"} /\ Stored(d)
        BY <1>2, <1>10, <2>1 DEF TradesInv
      <3>2. d # e
        BY <1>1, <3>1
      <3>3. execs'[d] = execs[d] /\ trades'[j] = trades[j]
        BY <1>8, <1>10, <2>1, <3>1, <3>2
      <3> QED BY <1>8, <3>1, <3>3
    <2>2. CASE \E k \in 1 .. Len(s) : j = n + k
      <3>1. d = e /\ trades'[j].run = execs[e].run
        BY <1>9, <1>10, <2>2
      <3>2. Stored(e)
        BY <1>1, <1>2 DEF StoredInv
      <3> QED BY <1>3, <1>8, <3>1, <3>2
    <2> QED BY <1>12, <2>1, <2>2
  <1>23. StoredInv'
    <2> SUFFICES ASSUME NEW d \in DOMAIN execs', execs'[d].at \in {"result", "trades", "returned"}
                 PROVE  Stored(d)
      BY <1>18 DEF StoredInv, Execs
    <2>1. execs[d].at \in {"result", "trades", "returned"} /\ d \in Execs
      BY <1>1, <1>8
    <2> QED BY <1>2, <2>1 DEF StoredInv
  <1>24. CompletedInv'
    BY <1>1, <1>2, <1>17 DEF CompletedInv, Runs
  <1> QED BY <1>19, <1>20, <1>21, <1>22, <1>23, <1>24 DEF ValInv

\* The invariant of validation runs: what an execution remembers, and where its
\* results and trades are (ValidationRunner._store_results, runner.py:1161).
THEOREM ValidationHolds == ValidationSpec => []ValInv
  <1>1. ValidationInit => ValInv
    <2> SUFFICES ASSUME ValidationInit PROVE ValInv
      OBVIOUS
    <2>1. /\ rows = <<>> /\ results = <<>> /\ trades = <<>> /\ execs = <<>>
          /\ batch = [left |-> 0, exec |-> 0]
      BY DEF ValidationInit
    <2>2. DOMAIN rows = {} /\ DOMAIN results = {} /\ DOMAIN trades = {} /\ DOMAIN execs = {}
      BY <2>1
    <2>3. ValTypes
      BY <2>1, <2>2 DEF ValTypes, Execs
    <2> QED BY <2>2, <2>3 DEF ValInv, ExecInv, ResultsInv, TradesInv, StoredInv, CompletedInv, Execs, Runs
  <1>2. ValInv /\ [ValidationNext]_valVars => ValInv'
    BY QuietSteps, QuietKeeps, StoreResultKeeps, StoreTradesKeeps DEF ValInv
  <1> QED BY <1>1, <1>2, PTL DEF ValidationSpec

\* The rows, results, trades and executions refer to what exists (state_manager.py).
THEOREM ValidationTypes == ValidationSpec => []ValidationTypeOK
  <1>1. ValInv => ValidationTypeOK
    <2> SUFFICES ASSUME ValInv PROVE ValidationTypeOK
      OBVIOUS
    <2>1. ValTypes /\ ResultsInv /\ TradesInv
      BY DEF ValInv
    <2>2. \A r \in Runs : rows[r].status \in {"pending", "running", "completed", "failed"}
      <3>1. rows \in Seq(RowRecords)
        BY <2>1 DEF ValTypes
      <3>2. \A r \in Runs : rows[r] \in RowRecords
        BY <3>1 DEF Runs
      <3> QED BY <3>2 DEF RowRecords
    <2>3. \A e \in Execs : execs[e].run \in Runs
      BY <2>1 DEF ValTypes
    <2>4. \A i \in DOMAIN results : results[i].run \in Runs /\ results[i].by \in Execs
      BY <2>1, <2>3 DEF ResultsInv
    <2>5. \A i \in DOMAIN trades : trades[i].run \in Runs /\ trades[i].by \in Execs
      BY <2>1, <2>3 DEF TradesInv
    <2> QED BY <2>2, <2>3, <2>4, <2>5 DEF ValidationTypeOK
  <1> QED BY <1>1, ValidationHolds, PTL

-----------------------------------------------------------------------------
(* What the endpoints read.                                                 *)

LEMMA CountsAgree ==
  ASSUME NEW e, NEW s, Len(s) \in Nat, Block(e, s)
  PROVE  TradesBy(e) = Len(s)
  <1>1. PICK b \in Nat : TradesHave(e) = b + 1 .. b + Len(s)
    BY DEF Block
  <1> DEFINE u == b + 1
             v == b + Len(s)
  <1>2. u \in Int /\ v \in Int /\ (u <= v => v - u + 1 = Len(s)) /\ (u > v => Len(s) = 0)
    OBVIOUS
  <1>3. TradesBy(e) = Cardinality(u .. v)
    BY <1>1 DEF TradesBy, TradesHave
  <1> HIDE DEF u, v
  <1>4. Cardinality(u .. v) = IF u > v THEN 0 ELSE v - u + 1
    BY <1>2, FS_Interval
  <1> QED BY <1>2, <1>3, <1>4

LEMMA TablesTyped ==
  ASSUME ValTypes
  PROVE  /\ Len(trades) \in Nat /\ DOMAIN trades = 1 .. Len(trades)
         /\ \A i \in DOMAIN trades : trades[i].trade \in TradeRecords
         /\ Len(results) \in Nat /\ DOMAIN results = 1 .. Len(results)
         /\ \A i \in DOMAIN results : results[i].result \in RunResults
  <1> DEFINE A == [run : Nat, by : Nat, trade : TradeRecords]
             B == [run : Nat, by : Nat, result : RunResults]
  <1>1. trades \in Seq(A) /\ results \in Seq(B)
    BY DEF ValTypes
  <1>2. (\A a \in A : a.trade \in TradeRecords) /\ (\A a \in B : a.result \in RunResults)
    OBVIOUS
  <1> HIDE DEF A, B
  <1>3. /\ Len(trades) \in Nat /\ DOMAIN trades = 1 .. Len(trades)
        /\ \A i \in DOMAIN trades : trades[i] \in A
    BY <1>1
  <1>4. /\ Len(results) \in Nat /\ DOMAIN results = 1 .. Len(results)
        /\ \A i \in DOMAIN results : results[i] \in B
    BY <1>1
  <1> QED BY <1>2, <1>3, <1>4

\* The first result of a run.
LEMMA FirstIs ==
  ASSUME ValTypes, NEW r, \E i \in DOMAIN results : results[i].run = r
  PROVE  FirstResult(r) \in DOMAIN results /\ results[FirstResult(r)].run = r
  <1> DEFINE T == {i \in DOMAIN results : results[i].run = r}
  <1>1. T \in SUBSET Nat /\ T # {}
    BY DEF ValTypes
  <1>2. \E i \in T : \A j \in T : i <= j
    <2> HIDE DEF T
    <2> QED BY <1>1, Least
  <1>3. \E i \in DOMAIN results : results[i].run = r /\ \A j \in DOMAIN results : results[j].run = r => i <= j
    BY <1>2
  <1> QED BY <1>3 DEF FirstResult

LEMMA StartsWithBalance ==
  ASSUME ValTypes, NEW r
  PROVE  /\ (\E i \in DOMAIN results : results[i].run = r) => StartingBalance(r) = Balance
         /\ StartingBalance(r) \in Int
  <1>1. CASE \E i \in DOMAIN results : results[i].run = r
    <2>1. FirstResult(r) \in DOMAIN results
      BY <1>1, FirstIs
    <2>2. \A i \in DOMAIN results : results[i].result \in RunResults
      BY TablesTyped
    <2>3. results[FirstResult(r)].result.balance = Balance
      BY <2>1, <2>2, RunTyped
    <2> QED BY <1>1, <2>3, BalanceAssumption DEF StartingBalance
  <1>2. CASE ~ \E i \in DOMAIN results : results[i].run = r
    BY <1>2, BalanceAssumption DEF StartingBalance, DefaultBalance
  <1> QED BY <1>1, <1>2

\* The trades of a run are trades.
LEMMA TradesOfTyped ==
  ASSUME ValTypes, NEW r
  PROVE  LET I == {i \in DOMAIN trades : trades[i].run = r}
         IN  /\ IsFiniteSet(I) /\ I \subseteq Nat
             /\ TradesOf(r) \in Seq(TradeRecords)
             /\ Len(TradesOf(r)) = Cardinality(I)
  <1> DEFINE I == {i \in DOMAIN trades : trades[i].run = r}
             s == [i \in DOMAIN trades |-> trades[i].trade]
             key == [i \in I |-> trades[i].trade.open]
  <1>1. /\ Len(trades) \in Nat /\ DOMAIN trades = 1 .. Len(trades)
        /\ \A i \in DOMAIN trades : trades[i].trade \in TradeRecords
    BY TablesTyped
  <1>2. IsFiniteSet(1 .. Len(trades))
    BY <1>1, FS_Interval
  <1>3. IsFiniteSet(I) /\ I \subseteq Nat
    BY <1>1, <1>2, FS_Subset
  <1>4. key \in [I -> Int] /\ \A i \in I : s[i] \in TradeRecords
    BY <1>1 DEF TradeRecords
  <1>5. TradesOf(r) = Sorted(s, key)
    BY DEF TradesOf
  <1> HIDE DEF I, s, key
  <1>6. Sorted(s, key) \in Seq(TradeRecords) /\ Len(Sorted(s, key)) = Cardinality(I)
    BY <1>3, <1>4, SortedIs
  <1> QED BY <1>3, <1>5, <1>6 DEF I

LEMMA ByExitTyped ==
  ASSUME NEW s \in Seq(TradeRecords)
  PROVE  ByExit(s) \in Seq(TradeRecords) /\ Len(ByExit(s)) = Len(s)
  <1> DEFINE I == DOMAIN s
             key == [i \in I |-> s[i].close]
  <1>1. I = 1 .. Len(s) /\ Len(s) \in Nat /\ \A i \in I : s[i] \in TradeRecords
    OBVIOUS
  <1>2. IsFiniteSet(I) /\ Cardinality(I) = Len(s)
    BY <1>1, FS_Interval
  <1>3. key \in [I -> Int] /\ I \subseteq Nat
    BY <1>1 DEF TradeRecords
  <1>4. ByExit(s) = Sorted(s, key)
    BY DEF ByExit
  <1> HIDE DEF I, key
  <1>5. Sorted(s, key) \in Seq(TradeRecords) /\ Len(Sorted(s, key)) = Cardinality(I)
    BY <1>1, <1>2, <1>3, SortedIs
  <1> QED BY <1>2, <1>4, <1>5

\* The balance before every trade, and after the last.
Points(start, s) ==
  LET point[k \in 1 .. Len(s) + 1] == IF k = 1 THEN start ELSE point[k - 1] + s[k - 1].pnl
  IN point

LEMMA PointsStart ==
  ASSUME NEW s \in Seq(TradeRecords), NEW start \in Int
  PROVE  Points(start, s)[1] = start /\ Points(start, s) # <<>>
  <1> DEFINE N == Len(s)
             step == [n \in 1 .. N |-> [t \in Int |-> t + s[n].pnl]]
             f == Points(start, s)
  <1>1. N \in Nat /\ \A n \in 1 .. N : s[n].pnl \in Int
    <2>1. N \in Nat /\ \A n \in 1 .. N : s[n] \in TradeRecords
      OBVIOUS
    <2> QED BY <2>1 DEF TradeRecords
  <1>2. step \in [1 .. N -> [Int -> Int]]
    BY <1>1
  <1> HIDE DEF N
  <1>3. PICK g \in [0 .. N -> Int] : g[0] = start /\ \A n \in 1 .. N : g[n] = step[n][g[n - 1]]
    <2> DEFINE S == Int
               a == start
    <2>1. N \in Nat /\ a \in S
      BY <1>1
    <2>2. step \in [1 .. N -> [S -> S]]
      BY <1>2
    <2> HIDE DEF step, f, S, a
    <2>3. \E g \in [0 .. N -> S] : g[0] = a /\ \A n \in 1 .. N : g[n] = step[n][g[n - 1]]
      BY ONLY <2>1, <2>2, Recursion
    <2> QED BY <2>3 DEF S, a
  <1> DEFINE h == [k \in 1 .. N + 1 |-> g[k - 1]]
  <1>4. h = [k \in 1 .. N + 1 |-> IF k = 1 THEN start ELSE h[k - 1] + s[k - 1].pnl]
    <2> SUFFICES ASSUME NEW k \in 1 .. N + 1
                 PROVE  h[k] = IF k = 1 THEN start ELSE h[k - 1] + s[k - 1].pnl
      OBVIOUS
    <2>1. CASE k = 1
      BY <1>1, <1>3, <2>1
    <2>2. CASE k # 1
      <3>1. k - 1 \in 1 .. N /\ k - 1 \in 1 .. N + 1 /\ (k - 1) - 1 \in 0 .. N
        BY <1>1, <2>2
      <3>2. g[k - 1] = g[(k - 1) - 1] + s[k - 1].pnl
        BY <1>3, <3>1
      <3> QED BY <2>2, <3>1, <3>2
    <2> QED BY <2>1, <2>2
  <1>5. f = [k \in 1 .. N + 1 |-> IF k = 1 THEN start ELSE f[k - 1] + s[k - 1].pnl]
    <2>1. f = CHOOSE p : p = [k \in 1 .. N + 1 |-> IF k = 1 THEN start ELSE p[k - 1] + s[k - 1].pnl]
      BY DEF Points, N
    <2> HIDE DEF f, h, step
    <2> QED BY <1>4, <2>1
  <1> HIDE DEF f, h, step
  <1>6. DOMAIN f = 1 .. N + 1 /\ f[1] = start
    BY <1>1, <1>5
  <1>7. f # <<>>
    BY <1>1, <1>6
  <1> QED BY <1>6, <1>7 DEF f

LEMMA CurveStarts ==
  ASSUME ValInv, NEW r, Len(EquityCurve(r)) > 0
  PROVE  EquityCurve(r)[1] = Balance
  <1> DEFINE I == {i \in DOMAIN trades : trades[i].run = r}
             s == ByExit(TradesOf(r))
  <1>1. ValTypes /\ TradesInv /\ ResultsInv
    BY DEF ValInv
  <1>2. TradesOf(r) \in Seq(TradeRecords) /\ Len(TradesOf(r)) = Cardinality(I)
    BY <1>1, TradesOfTyped
  <1>3. s \in Seq(TradeRecords) /\ Len(s) = Cardinality(I)
    BY <1>2, ByExitTyped
  <1>4. EquityCurve(r) = IF s = <<>> THEN <<>> ELSE Points(StartingBalance(r), s)
    BY DEF EquityCurve, Points
  <1> HIDE DEF s
  <1>5. s # <<>>
    BY <1>4
  <1>6. I # {}
    <2>1. Len(s) # 0
      BY <1>3, <1>5
    <2>2. Cardinality(I) # 0
      BY <1>3, <2>1
    <2> QED BY <2>2, FS_EmptySet
  <1>7. PICK j \in DOMAIN trades : trades[j].run = r
    BY <1>6
  <1>8. \E i \in DOMAIN results : results[i].run = r
    <2>1. trades[j].run = execs[trades[j].by].run /\ Stored(trades[j].by)
      BY <1>1, <1>7 DEF TradesInv
    <2>2. PICK i \in DOMAIN results : results[i].by = trades[j].by
      BY <2>1 DEF Stored
    <2>3. results[i].run = execs[trades[j].by].run
      BY <1>1, <2>2 DEF ResultsInv
    <2> QED BY <1>7, <2>1, <2>3
  <1>9. StartingBalance(r) = Balance /\ StartingBalance(r) \in Int
    BY <1>1, <1>8, StartsWithBalance
  <1>10. Points(StartingBalance(r), s)[1] = Balance
    BY <1>3, <1>9, PointsStart
  <1> QED BY <1>4, <1>5, <1>10

\* Whoever reads the trades of a run finds their result, and a completed run has a
\* result with all of its trades (_store_results, runner.py:169).
THEOREM ResultFirst == ValidationSpec => []TradesFollowResult
  <1>1. ValInv => TradesFollowResult
    <2> SUFFICES ASSUME ValInv PROVE TradesFollowResult
      OBVIOUS
    <2>0. ValTypes /\ TradesInv /\ ResultsInv /\ CompletedInv
      BY DEF ValInv
    <2>1. ASSUME NEW e \in Execs, TradesBy(e) > 0 PROVE Stored(e)
      <3>1. TradesHave(e) # {}
        BY <2>1, FS_EmptySet DEF TradesBy, TradesHave
      <3>2. PICK j \in DOMAIN trades : trades[j].by = e
        BY <3>1 DEF TradesHave
      <3> QED BY <2>0, <3>2 DEF TradesInv
    <2>2. ASSUME NEW r \in Runs, Len(EquityCurve(r)) > 0 PROVE EquityCurve(r)[1] = Balance
      BY <2>2, CurveStarts
    <2>3. ASSUME NEW r \in Runs, rows[r].status = "completed"
          PROVE  \E i \in DOMAIN results :
                   /\ results[i].run = r
                   /\ TradesBy(results[i].by) = Len(results[i].result.trades)
      <3>1. PICK i \in DOMAIN results : results[i].run = r /\ Whole(i)
        BY <2>0, <2>3 DEF CompletedInv
      <3>2. results[i].result \in RunResults
        BY <2>0, TablesTyped
      <3>3. Len(results[i].result.trades) \in Nat
        BY <3>2, RunTyped
      <3>4. TradesBy(results[i].by) = Len(results[i].result.trades)
        BY <3>1, <3>3, CountsAgree DEF Whole
      <3> QED BY <3>1, <3>4
    <2> QED BY <2>1, <2>2, <2>3 DEF TradesFollowResult
  <1> QED BY <1>1, ValidationHolds, PTL

\* The positions of one symbol end in the order they begin.
LEMMA ExtractOrdered ==
  ASSUME NEW book \in Books, NEW name, \A k \in DOMAIN book : book[k].symbol = name
  PROVE  LET s == ExtractTrades(book, 0)
         IN  \A k, l \in 1 .. Len(s) : k < l => s[k].open <= s[l].open /\ s[k].close <= s[l].close
  <1> DEFINE I == Closed(book)
             key == [i \in I |-> book[i].open]
             n == Cardinality(I)
             s == ExtractTrades(book, 0)
  <1>1. s = [k \in 1 .. n |-> From(book, 0)[Nth(key, k)]] /\ Len(s) = n
    BY ExtractIs
  <1>2. IsFiniteSet(I) /\ I \subseteq Nat /\ key \in [I -> Int] /\ I \subseteq DOMAIN book
    BY ClosedTyped
  <1>3. \A i \in I : From(book, 0)[i].open = book[i].open + 0 /\ From(book, 0)[i].close = book[i].close + 0
    BY FromTyped
  <1>4. \A i \in I : /\ book[i].close # 0 /\ book[i].symbol = name
                     /\ book[i].open \in Nat /\ book[i].close \in Nat
                     /\ book[i].open <= book[i].close
    <2>1. \A i \in I : i \in DOMAIN book /\ book[i].close # 0
      BY DEF Closed
    <2>2. \A i \in DOMAIN book : book[i].close # 0 => book[i].open <= book[i].close
      BY BooksAssumption
    <2> QED BY <2>1, <2>2, BookTyped
  <1>5. \A i, j \in I : i # j /\ book[i].open <= book[j].open => book[i].close <= book[j].open
    <2>1. \A i, j \in DOMAIN book :
            (i # j /\ book[i].symbol = book[j].symbol /\ book[i].close # 0 /\ book[j].close # 0
               /\ book[i].open <= book[j].open) => book[i].close <= book[j].open
      BY BooksAssumption
    <2> QED BY <1>2, <1>4, <2>1
  <1> HIDE DEF s, n
  <1> SUFFICES ASSUME NEW k \in 1 .. n, NEW l \in 1 .. n, k < l
               PROVE  s[k].open <= s[l].open /\ s[k].close <= s[l].close
    BY <1>1 DEF s
  <1> DEFINE i == Nth(key, k)
             j == Nth(key, l)
  <1>6. i \in I /\ j \in I /\ i # j /\ key[i] <= key[j]
    <2> HIDE DEF I, key
    <2>1. k \in 1 .. Cardinality(I) /\ l \in 1 .. Cardinality(I)
      BY DEF n
    <2> QED BY <1>2, <2>1, NthPlace, NthOrders
  <1>7. s[k] = From(book, 0)[i] /\ s[l] = From(book, 0)[j]
    BY <1>1
  <1>8. key[i] = book[i].open /\ key[j] = book[j].open
    BY <1>6
  <1> HIDE DEF i, j, key, I
  <1> QED BY <1>3, <1>4, <1>5, <1>6, <1>7, <1>8

\* What is in the order of its exits stays so.
LEMMA ByExitKeeps ==
  ASSUME NEW s \in Seq(TradeRecords), \A k, l \in 1 .. Len(s) : k < l => s[k].close <= s[l].close
  PROVE  ByExit(s) = s
  <1> DEFINE b == 0
             I == DOMAIN s
             key == [k \in I |-> s[k].close]
  <1>1. b \in Nat /\ I = b + 1 .. b + Len(s) /\ I = 1 .. Len(s) /\ \A k \in I : s[k] \in TradeRecords
    OBVIOUS
  <1>2. key \in [I -> Int]
    BY <1>1 DEF TradeRecords
  <1>3. \A i, j \in I : i < j => key[i] <= key[j]
    BY <1>1
  <1>4. ByExit(s) = Sorted(s, key)
    BY DEF ByExit
  <1>5. \A k \in 1 .. Len(s) : s[b + k] = s[k]
    OBVIOUS
  <1> HIDE DEF b, I, key
  <1>6. Sorted(s, key) = s
    BY <1>1, <1>2, <1>3, <1>5, SortedInOrder
  <1> QED BY <1>4, <1>6

\* The trades of one execution are read as they were written.
LEMMA ReadAsWritten ==
  ASSUME ValTypes, NEW r, NEW e, NEW s \in Seq(TradeRecords), Block(e, s),
         {j \in DOMAIN trades : trades[j].run = r} = TradesHave(e),
         \A k, l \in 1 .. Len(s) : k < l => s[k].open <= s[l].open
  PROVE  TradesOf(r) = s
  <1> DEFINE n == Len(s)
             all == [j \in DOMAIN trades |-> trades[j].trade]
             I == {j \in DOMAIN trades : trades[j].run = r}
             key == [j \in I |-> trades[j].trade.open]
  <1>1. PICK b \in Nat : /\ I = b + 1 .. b + n
                         /\ \A k \in 1 .. n : trades[b + k].trade = s[k]
    BY DEF Block
  <1>2. n \in Nat /\ \A k \in 1 .. n : s[k] \in TradeRecords
    OBVIOUS
  <1>3. \A j \in I : j \in DOMAIN trades /\ j - b \in 1 .. n /\ trades[j].trade = s[j - b]
    <2>1. \A j \in I : j - b \in 1 .. n /\ b + (j - b) = j
      BY <1>1, <1>2
    <2> QED BY <1>1, <2>1
  <1>4. key \in [I -> Int]
    BY <1>2, <1>3 DEF TradeRecords
  <1>5. \A i, j \in I : i < j => key[i] <= key[j]
    <2> SUFFICES ASSUME NEW i \in I, NEW j \in I, i < j PROVE key[i] <= key[j]
      OBVIOUS
    <2>0. i \in Int /\ j \in Int
      BY <1>1
    <2>1. i - b \in 1 .. Len(s) /\ j - b \in 1 .. Len(s) /\ i - b < j - b
      BY <1>3, <2>0
    <2>2. s[i - b].open <= s[j - b].open
      BY <2>1
    <2> QED BY <1>3, <2>2
  <1>6. \A k \in 1 .. n : all[b + k] = s[k]
    <2>1. \A k \in 1 .. n : b + k \in I
      BY <1>1, <1>2
    <2> QED BY <1>1, <1>3, <2>1
  <1>7. TradesOf(r) = Sorted(all, key)
    BY DEF TradesOf
  <1>8. I = b + 1 .. b + Len(s) /\ \A k \in 1 .. Len(s) : all[b + k] = s[k]
    BY <1>1, <1>6
  <1> HIDE DEF I, all, key, n
  <1>9. Sorted(all, key) = s
    BY <1>4, <1>5, <1>8, SortedInOrder
  <1> QED BY <1>7, <1>9

\* The drawdown of a result and that of the stored trades are the same number, for
\* one backtest of one symbol (extraction.py:438, results.py:303).
THEOREM DrawdownsSame == ValidationSpec => []DrawdownsAgree
  <1>1. ValInv => DrawdownsAgree
    <2> SUFFICES ASSUME ValInv, NEW i \in DOMAIN results, NEW r, r = results[i].run, OnlyOnce(r),
                        execs[results[i].by].by # "caller", Cardinality(rows[r].symbols) = 1,
                        TradesOf(r) # <<>>
                 PROVE  Largest(DrawdownCurve(r)) = results[i].result.drawdown
      BY DEF DrawdownsAgree
    <2>0. ValTypes /\ TradesInv /\ ResultsInv
      BY DEF ValInv
    <2> DEFINE e == results[i].by
               result == results[i].result
               T == {j \in DOMAIN trades : trades[j].run = r}
    <2>1. e \in Execs /\ execs[e].run = r /\ LeftBy(result, r) /\ (TradesHave(e) # {} => Whole(i))
      BY <2>0 DEF ResultsInv
    <2>2. PICK book \in Books : /\ result = ExtractResults(book, 0)
                                /\ \A k \in DOMAIN book : book[k].symbol \in rows[r].symbols
      BY <2>1 DEF LeftBy
    <2>3. \E name : rows[r].symbols = {name}
      <3> DEFINE S == rows[r].symbols
      <3>1. S \subseteq Symbols
        <4>1. r \in Runs
          BY <2>0, <2>1 DEF ValTypes
        <4>2. rows[r] \in RowRecords
          BY <2>0, <4>1 DEF ValTypes, Runs
        <4> QED BY <4>2 DEF RowRecords
      <3>2. IsFiniteSet(S)
        BY <3>1, SymbolsAssumption, FS_Subset
      <3> QED BY <3>2, FS_Singleton
    <2>4. PICK name : \A k \in DOMAIN book : book[k].symbol = name
      BY <2>2, <2>3
    <2> DEFINE s == ExtractTrades(book, 0)
    <2>5. s \in Seq(TradeRecords) /\ result.trades = s /\ result.drawdown = ComputeMaxDrawdown(s)
      <3>1. s \in Seq(TradeRecords)
        BY ExtractIs
      <3> QED BY <2>2, <3>1 DEF ExtractResults
    <2>6. \A k, l \in 1 .. Len(s) : k < l => s[k].open <= s[l].open /\ s[k].close <= s[l].close
      BY <2>4, ExtractOrdered
    <2> HIDE DEF s
    <2>7. T = TradesHave(e)
      <3>1. \A d \in Execs : execs[d].run = r => d = e
        <4> DEFINE D == {d \in Execs : execs[d].run = r}
        <4>1. Execs = 1 .. Len(execs) /\ Len(execs) \in Nat
          BY <2>0 DEF ValTypes, Execs
        <4>2. IsFiniteSet(D)
          <5> DEFINE n == Len(execs)
          <5>1. IsFiniteSet(1 .. n)
            <6>1. n \in Int
              BY <4>1
            <6> HIDE DEF n
            <6> QED BY ONLY <6>1, FS_Interval
          <5>2. D \subseteq 1 .. Len(execs)
            BY <4>1
          <5> QED BY <5>1, <5>2, FS_Subset
        <4>3. Cardinality(D) = 1
          BY DEF OnlyOnce
        <4>4. \E d : D = {d}
          <5> HIDE DEF D
          <5> QED BY <4>2, <4>3, FS_Singleton
        <4>5. e \in D
          BY <2>1
        <4> QED BY <4>4, <4>5
      <3>2. \A j \in DOMAIN trades : trades[j].by \in Execs /\ trades[j].run = execs[trades[j].by].run
        BY <2>0 DEF TradesInv
      <3> QED BY <2>1, <3>1, <3>2 DEF TradesHave
    <2>8. T # {}
      <3> SUFFICES ASSUME T = {} PROVE FALSE
        OBVIOUS
      <3> DEFINE all == [j \in DOMAIN trades |-> trades[j].trade]
                 key == [j \in T |-> trades[j].trade.open]
      <3>1. TradesOf(r) = Sorted(all, key) /\ DOMAIN key = {}
        BY DEF TradesOf
      <3> HIDE DEF all, key
      <3> QED BY <3>1, SortedNothing
    <2>9. Block(e, s)
      BY <2>1, <2>5, <2>7, <2>8 DEF Whole
    <2>10. TradesOf(r) = s
      <3> HIDE DEF e
      <3> QED BY <2>0, <2>5, <2>6, <2>7, <2>9, ReadAsWritten
    <2>11. ByExit(s) = s
      BY <2>5, <2>6, ByExitKeeps
    <2>12. StartingBalance(r) = Balance
      BY <2>0, StartsWithBalance
    <2> QED BY <2>5, <2>10, <2>11, <2>12 DEF DrawdownCurve, ComputeMaxDrawdown
  <1> QED BY <1>1, ValidationHolds, PTL

-----------------------------------------------------------------------------
(* Reconciliation.                                                          *)

PositionIds == Ids \cup {NoId}
EventRecords == [kind : {"open", "close"}, id : PositionIds, symbol : Traded \cup {NoId}, ts : Int]
Trips == [id : PositionIds, symbol : Traded \cup {NoId}, entry : Int, exit : Int]

OpenMaps == UNION {[D -> EventRecords] : D \in SUBSET PositionIds}
Readings == [opens : OpenMaps, trades : Seq(Trips)]

LEMMA ReadTyped ==
  ASSUME NEW acc \in Readings, NEW e \in EventRecords
  PROVE  ReadEvent(acc, e) \in Readings
  <1>1. PICK D \in SUBSET PositionIds : acc.opens \in [D -> EventRecords]
    BY DEF Readings, OpenMaps
  <1>2. acc = [opens |-> acc.opens, trades |-> acc.trades] /\ acc.trades \in Seq(Trips) /\ DOMAIN acc.opens = D
    BY <1>1 DEF Readings
  <1>3. e.id \in PositionIds
    BY DEF EventRecords
  <1>4. CASE e.kind = "open" /\ e.id # NoId
    <2> DEFINE f == [k \in D \cup {e.id} |-> IF k = e.id THEN e ELSE acc.opens[k]]
    <2>1. f \in [D \cup {e.id} -> EventRecords] /\ D \cup {e.id} \in SUBSET PositionIds
      BY <1>1, <1>3
    <2>2. f \in OpenMaps
      <3> HIDE DEF f
      <3> QED BY <2>1 DEF OpenMaps
    <2>3. ReadEvent(acc, e) = [opens |-> f, trades |-> acc.trades]
      BY <1>2, <1>4 DEF ReadEvent, Readings
    <2> HIDE DEF f
    <2> QED BY <1>2, <2>2, <2>3 DEF Readings
  <1>5. CASE e.kind = "close" /\ e.id \in D
    <2> DEFINE o == acc.opens[e.id]
               t == [id |-> o.id, symbol |-> o.symbol, entry |-> o.ts, exit |-> e.ts]
               f == Without(acc.opens, e.id)
    <2>1. o \in EventRecords
      BY <1>1, <1>5
    <2>2. t \in Trips
      <3> HIDE DEF o
      <3> QED BY <2>1 DEF EventRecords, Trips
    <2>3. f \in [D \ {e.id} -> EventRecords] /\ D \ {e.id} \in SUBSET PositionIds
      BY <1>1, <1>2 DEF Without
    <2>4. f \in OpenMaps
      <3> HIDE DEF f
      <3> QED BY <2>3 DEF OpenMaps
    <2>5. ReadEvent(acc, e) = [opens |-> f, trades |-> Append(acc.trades, t)]
      BY <1>2, <1>5 DEF ReadEvent
    <2> HIDE DEF f, t
    <2>6. Append(acc.trades, t) \in Seq(Trips)
      BY <1>2, <2>2
    <2> QED BY <2>4, <2>5, <2>6 DEF Readings
  <1>6. CASE ~ (e.kind = "open" /\ e.id # NoId) /\ ~ (e.kind = "close" /\ e.id \in D)
    BY <1>2, <1>6 DEF ReadEvent
  <1> QED BY <1>4, <1>5, <1>6

\* The recursion of LoadTrades.
ReadUpTo(log) ==
  LET read[n \in 0 .. Len(log)] == IF n = 0 THEN [opens |-> << >>, trades |-> << >>]
                                   ELSE ReadEvent(read[n - 1], log[n])
  IN  read

LEMMA ReadRecursion ==
  ASSUME NEW N \in Nat, NEW a \in Readings, NEW step \in [1 .. N -> [Readings -> Readings]]
  PROVE  \E g \in [0 .. N -> Readings] : g[0] = a /\ \A n \in 1 .. N : g[n] = step[n][g[n - 1]]
  BY ONLY Recursion

LEMMA ReadUpToTyped ==
  ASSUME NEW log \in Seq(EventRecords)
  PROVE  ReadUpTo(log)[Len(log)] \in Readings
  <1> DEFINE N == Len(log)
             a == [opens |-> << >>, trades |-> << >>]
             step == [n \in 1 .. N |-> [acc \in Readings |-> ReadEvent(acc, log[n])]]
             f == ReadUpTo(log)
  <1>1. N \in Nat /\ \A n \in 1 .. N : log[n] \in EventRecords
    OBVIOUS
  <1>2. a \in Readings
    <2>1. << >> \in [{} -> EventRecords] /\ {} \in SUBSET PositionIds
      OBVIOUS
    <2>2. << >> \in OpenMaps
      BY <2>1 DEF OpenMaps
    <2>3. << >> \in Seq(Trips)
      OBVIOUS
    <2> QED BY <2>2, <2>3 DEF Readings
  <1>3. step \in [1 .. N -> [Readings -> Readings]]
    BY <1>1, ReadTyped
  <1> HIDE DEF N, a
  <1>4. PICK g \in [0 .. N -> Readings] : g[0] = a /\ \A n \in 1 .. N : g[n] = step[n][g[n - 1]]
    <2>1. N \in Nat /\ a \in Readings
      BY <1>1, <1>2
    <2> HIDE DEF step, f
    <2> QED BY ONLY <2>1, <1>3, ReadRecursion
  <1>5. g = [n \in 0 .. N |-> IF n = 0 THEN a ELSE ReadEvent(g[n - 1], log[n])]
    <2>1. \A n \in 1 .. N : g[n - 1] \in Readings
      BY <1>1
    <2>2. \A n \in 1 .. N : g[n] = ReadEvent(g[n - 1], log[n])
      BY <1>4, <2>1
    <2> HIDE DEF step, f
    <2>3. \A n \in 0 .. N : n = 0 \/ n \in 1 .. N
      BY <1>1
    <2>4. \A n \in 1 .. N : n # 0
      BY <1>1
    <2>5. \A n \in 0 .. N : g[n] = IF n = 0 THEN a ELSE ReadEvent(g[n - 1], log[n])
      BY <1>4, <2>2, <2>3, <2>4
    <2> QED BY <2>5
  <1>6. f = [n \in 0 .. N |-> IF n = 0 THEN a ELSE ReadEvent(f[n - 1], log[n])]
    <2>1. f = CHOOSE h : h = [n \in 0 .. N |-> IF n = 0 THEN a ELSE ReadEvent(h[n - 1], log[n])]
      BY DEF ReadUpTo, N, a
    <2> HIDE DEF f, step
    <2> QED BY <1>5, <2>1
  <1> DEFINE G == {n \in 0 .. N : f[n] \in Readings}
  <1> HIDE DEF f, step
  <1>7. 0 \in G
    BY <1>1, <1>2, <1>6
  <1>8. \A n \in 1 .. N : n - 1 \in G => n \in G
    <2> SUFFICES ASSUME NEW n \in 1 .. N, f[n - 1] \in Readings PROVE n \in 0 .. N /\ f[n] \in Readings
      OBVIOUS
    <2>1. n \in 0 .. N /\ n # 0
      BY <1>1
    <2>2. f[n] = ReadEvent(f[n - 1], log[n])
      BY <1>6, <2>1
    <2> QED BY <1>1, <2>1, <2>2, ReadTyped
  <1>9. N \in G
    <2> HIDE DEF G
    <2>1. 0 .. N \subseteq G
      BY <1>1, <1>7, <1>8, UpTo
    <2> QED BY <1>1, <2>1
  <1> QED BY <1>9 DEF f, N

LEMMA LoadTyped ==
  ASSUME NEW r, events[r] \in Seq(EventRecords)
  PROVE  LoadTrades(r) \in Seq(Trips)
  <1> DEFINE log == events[r]
             trips == ReadUpTo(log)[Len(log)].trades
             I == DOMAIN trips
             key == [i \in I |-> trips[i].entry]
  <1>1. trips \in Seq(Trips)
    <2> HIDE DEF log
    <2>1. log \in Seq(EventRecords)
      BY DEF log
    <2>2. ReadUpTo(log)[Len(log)] \in Readings
      BY <2>1, ReadUpToTyped
    <2> QED BY <2>2 DEF Readings
  <1>2. LoadTrades(r) = Sorted(trips, key)
    BY DEF LoadTrades, ReadUpTo
  <1> HIDE DEF trips
  <1>3. I = 1 .. Len(trips) /\ Len(trips) \in Nat /\ \A i \in I : trips[i] \in Trips
    BY <1>1
  <1>4. IsFiniteSet(I)
    BY <1>3, FS_Interval
  <1>5. key \in [I -> Int] /\ I \subseteq Nat
    BY <1>3 DEF Trips
  <1> HIDE DEF I, key
  <1>6. Sorted(trips, key) \in Seq(Trips)
    BY <1>3, <1>4, <1>5, SortedIs
  <1> QED BY <1>2, <1>6

-----------------------------------------------------------------------------
(* Pairing.                                                                  *)

LEMMA GapIs ==
  ASSUME NEW p \in Trips, NEW v \in Trips
  PROVE  Gap(p, v) \in Nat /\ (Gap(p, v) = 0 <=> p.entry = v.entry)
  <1>1. p.entry \in Int /\ v.entry \in Int
    BY DEF Trips
  <1> QED BY <1>1 DEF Gap

\* What is picked is left and near, and the nearest; there is one if anything
\* near is left.
LEMMA PickIs ==
  ASSUME NEW p \in Trips, NEW V \in Seq(Trips), NEW left \in SUBSET DOMAIN V
  PROVE  /\ \A j \in Pick(p, V, left) :
              /\ j \in left /\ Near(p, V[j])
              /\ \A k \in left : Near(p, V[k]) => Gap(p, V[j]) <= Gap(p, V[k])
         /\ \A j, k \in Pick(p, V, left) : j = k
         /\ (\E k \in left : Near(p, V[k])) => Pick(p, V, left) # {}
  <1> DEFINE near == {i \in left : Near(p, V[i])}
             gap(i) == Gap(p, V[i])
             picked == {i \in near : \A j \in near : gap(i) < gap(j) \/ (gap(i) = gap(j) /\ i <= j)}
  <1>1. Pick(p, V, left) = picked
    BY DEF Pick
  <1>2. left \subseteq Nat /\ \A i \in left : gap(i) \in Nat
    <2>1. \A i \in DOMAIN V : i \in Nat /\ V[i] \in Trips
      OBVIOUS
    <2> QED BY <2>1, GapIs
  <1>3. near \subseteq left /\ \A i \in left : i \in near <=> Near(p, V[i])
    OBVIOUS
  <1> HIDE DEF gap, near
  <1>4. \A j \in picked : \A k \in near : gap(j) <= gap(k)
    BY <1>2, <1>3
  <1>5. \A j, k \in picked : j = k
    <2> SUFFICES ASSUME NEW j \in picked, NEW k \in picked PROVE j = k
      OBVIOUS
    <2>1. j \in Nat /\ k \in Nat /\ gap(j) \in Nat /\ gap(k) \in Nat
      BY <1>2, <1>3
    <2>2. /\ gap(j) < gap(k) \/ (gap(j) = gap(k) /\ j <= k)
          /\ gap(k) < gap(j) \/ (gap(k) = gap(j) /\ k <= j)
      OBVIOUS
    <2> QED BY <2>1, <2>2
  <1>6. ASSUME near # {} PROVE picked # {}
    <2> DEFINE T == {gap(i) : i \in near}
    <2>1. T \in SUBSET Nat /\ T # {}
      BY <1>2, <1>3, <1>6
    <2>2. PICK x \in T : \A y \in T : x <= y
      <3> HIDE DEF T
      <3> QED BY <2>1, Least
    <2> DEFINE U == {i \in near : gap(i) = x}
    <2>3. U \in SUBSET Nat /\ U # {}
      BY <1>2, <1>3
    <2>4. PICK i \in U : \A j \in U : i <= j
      <3> HIDE DEF U
      <3> QED BY <2>3, Least
    <2>5. i \in near /\ gap(i) = x
      OBVIOUS
    <2>6. ASSUME NEW j \in near PROVE gap(i) < gap(j) \/ (gap(i) = gap(j) /\ i <= j)
      <3>1. x <= gap(j) /\ gap(j) \in Nat /\ x \in Nat
        BY <1>2, <1>3, <2>1, <2>2
      <3>2. gap(j) = x => i <= j
        BY <2>4
      <3> QED BY <2>5, <3>1, <3>2
    <2>7. i \in picked
      BY <2>5, <2>6
    <2> QED BY <2>7
  <1>7. (\E k \in left : Near(p, V[k])) => near # {}
    BY <1>3
  <1>8. \A j \in picked : j \in left /\ Near(p, V[j])
    BY <1>3
  <1>9. \A j \in picked : \A k \in left : Near(p, V[k]) => Gap(p, V[j]) <= Gap(p, V[k])
    BY <1>3, <1>4 DEF gap
  <1> HIDE DEF picked
  <1> QED BY <1>1, <1>5, <1>6, <1>7, <1>8, <1>9

\* The recursion of Compare.
PairsUpTo(P, V) ==
  LET used[i \in 0 .. Len(P)] == IF i = 0 THEN {} ELSE Pair(P, V, used[i - 1], i)
  IN  used

Pairings == SUBSET (Nat \X Nat)

Unpaired(V, u) == DOMAIN V \ {m[2] : m \in u}

LEMMA PairTyped ==
  ASSUME NEW P \in Seq(Trips), NEW V \in Seq(Trips), NEW u \in Pairings, NEW i \in 1 .. Len(P)
  PROVE  Pair(P, V, u, i) \in Pairings
  <1> DEFINE left == Unpaired(V, u)
  <1>1. P[i] \in Trips /\ i \in Nat /\ left \in SUBSET DOMAIN V /\ DOMAIN V \subseteq Nat
    BY DEF Unpaired
  <1>2. Pair(P, V, u, i) = u \cup {<<i, j>> : j \in Pick(P[i], V, left)}
    BY DEF Pair, Unpaired
  <1> HIDE DEF left
  <1>3. \A j \in Pick(P[i], V, left) : j \in Nat
    BY <1>1, PickIs
  <1> QED BY <1>1, <1>2, <1>3 DEF Pairings

LEMMA PairsRecursion ==
  ASSUME NEW N \in Nat, NEW a \in Pairings, NEW step \in [1 .. N -> [Pairings -> Pairings]]
  PROVE  \E g \in [0 .. N -> Pairings] : g[0] = a /\ \A i \in 1 .. N : g[i] = step[i][g[i - 1]]
  BY ONLY Recursion

LEMMA PairsUnroll ==
  ASSUME NEW P \in Seq(Trips), NEW V \in Seq(Trips)
  PROVE  /\ PairsUpTo(P, V)[0] = {}
         /\ \A i \in 1 .. Len(P) : PairsUpTo(P, V)[i] = Pair(P, V, PairsUpTo(P, V)[i - 1], i)
  <1> DEFINE N == Len(P)
             a == {}
             step == [i \in 1 .. N |-> [u \in Pairings |-> Pair(P, V, u, i)]]
             f == PairsUpTo(P, V)
  <1>1. N \in Nat
    OBVIOUS
  <1>2. a \in Pairings
    BY Zenon DEF a, Pairings
  <1>3. step \in [1 .. N -> [Pairings -> Pairings]]
    <2>1. \A i \in 1 .. N : \A u \in Pairings : Pair(P, V, u, i) \in Pairings
      BY PairTyped
    <2> HIDE DEF N
    <2> QED BY <2>1
  <1> HIDE DEF N, a
  <1>4. PICK g \in [0 .. N -> Pairings] : g[0] = a /\ \A i \in 1 .. N : g[i] = step[i][g[i - 1]]
    <2>1. N \in Nat /\ a \in Pairings
      BY <1>1, <1>2
    <2> HIDE DEF step, f
    <2> QED BY ONLY <2>1, <1>3, PairsRecursion
  <1>5. g = [i \in 0 .. N |-> IF i = 0 THEN a ELSE Pair(P, V, g[i - 1], i)]
    <2>1. \A i \in 1 .. N : g[i - 1] \in Pairings
      BY <1>1
    <2>2. \A i \in 1 .. N : g[i] = Pair(P, V, g[i - 1], i)
      BY <1>4, <2>1
    <2> HIDE DEF step, f
    <2>3. \A i \in 0 .. N : (i = 0 \/ i \in 1 .. N) /\ (i \in 1 .. N => i # 0)
      BY <1>1
    <2>4. \A i \in 0 .. N : g[i] = IF i = 0 THEN a ELSE Pair(P, V, g[i - 1], i)
      BY <1>4, <2>2, <2>3
    <2> QED BY <2>4
  <1>6. f = [i \in 0 .. N |-> IF i = 0 THEN a ELSE Pair(P, V, f[i - 1], i)]
    <2>1. f = CHOOSE h : h = [i \in 0 .. N |-> IF i = 0 THEN a ELSE Pair(P, V, h[i - 1], i)]
      BY DEF PairsUpTo, N, a
    <2> HIDE DEF f, step
    <2> QED BY <1>5, <2>1
  <1> HIDE DEF f, step
  <1>7. f[0] = a
    BY <1>1, <1>6
  <1>8. \A i \in 1 .. N : f[i] = Pair(P, V, f[i - 1], i)
    <2>1. \A i \in 1 .. N : i \in 0 .. N /\ i # 0
      BY <1>1
    <2> QED BY <1>6, <2>1
  <1> QED BY <1>7, <1>8 DEF f, N, a

\* After n paper trades: pairs are near and one to one, and of what was near one
\* side at least is paired.
Paired(P, V, u, n) ==
  /\ \A m \in u : m \in (1 .. n) \X DOMAIN V /\ Near(P[m[1]], V[m[2]])
  /\ \A m, o \in u : (m[1] = o[1]) <=> (m[2] = o[2])
  /\ \A i \in 1 .. n, j \in DOMAIN V :
       Near(P[i], V[j]) => (\E m \in u : m[1] = i) \/ (\E m \in u : m[2] = j)

Twins(p, v) == p.symbol = v.symbol /\ p.entry = v.entry

\* The same where every trade has its twin: each of them is paired with it.
TwinsPaired(P, V, u, n) ==
  /\ \A i \in 1 .. n : \E m \in u : m[1] = i
  /\ \A m \in u : Twins(P[m[1]], V[m[2]])

\* What one paper trade adds.
LEMMA PairAdds ==
  ASSUME NEW P \in Seq(Trips), NEW V \in Seq(Trips), NEW n \in 1 .. Len(P), NEW u, Paired(P, V, u, n - 1)
  PROVE  LET w == Pair(P, V, u, n)
             free == Unpaired(V, u)
         IN  /\ u \subseteq w
             /\ \A m \in w : m \in u \/ (/\ m = <<n, m[2]>> /\ m[2] \in free /\ Near(P[n], V[m[2]])
                                         /\ \A k \in free : Near(P[n], V[k]) => Gap(P[n], V[m[2]]) <= Gap(P[n], V[k]))
             /\ \A m, o \in w : m \notin u /\ o \notin u => m = o
             /\ (\E k \in free : Near(P[n], V[k])) => \E m \in w : m[1] = n
  <1> DEFINE free == Unpaired(V, u)
             picked == Pick(P[n], V, free)
             w == Pair(P, V, u, n)
  <1>1. P[n] \in Trips /\ free \in SUBSET DOMAIN V
    BY DEF Unpaired
  <1>2. w = u \cup {<<n, j>> : j \in picked}
    BY DEF Pair, Unpaired
  <1> HIDE DEF free
  <1>3. /\ \A j \in picked : j \in free
        /\ \A j \in picked : Near(P[n], V[j])
        /\ \A j \in picked : \A k \in free : Near(P[n], V[k]) => Gap(P[n], V[j]) <= Gap(P[n], V[k])
        /\ \A j, k \in picked : j = k
        /\ (\E k \in free : Near(P[n], V[k])) => picked # {}
    BY <1>1, PickIs
  <1> HIDE DEF picked, w
  <1>4. \A m \in w : m \in u \/ (m = <<n, m[2]>> /\ m[2] \in picked)
    BY <1>2
  <1>5. \A j \in picked : <<n, j>> \in w /\ <<n, j>>[1] = n
    BY <1>2
  <1>6. u \subseteq w
    BY <1>2
  <1>7. \A m \in w : m \in u \/ (/\ m = <<n, m[2]>> /\ m[2] \in free /\ Near(P[n], V[m[2]])
                                 /\ \A k \in free : Near(P[n], V[k]) => Gap(P[n], V[m[2]]) <= Gap(P[n], V[k]))
    BY <1>3, <1>4
  <1>8. \A m, o \in w : m \notin u /\ o \notin u => m = o
    BY <1>3, <1>4
  <1>9. (\E k \in free : Near(P[n], V[k])) => \E m \in w : m[1] = n
    BY <1>3, <1>5
  <1> QED BY <1>6, <1>7, <1>8, <1>9 DEF free, w

LEMMA PairedStep ==
  ASSUME NEW P \in Seq(Trips), NEW V \in Seq(Trips), NEW n \in 1 .. Len(P), NEW u, Paired(P, V, u, n - 1)
  PROVE  Paired(P, V, Pair(P, V, u, n), n)
  <1> DEFINE w == Pair(P, V, u, n)
             free == Unpaired(V, u)
  <1>1. /\ u \subseteq w
        /\ \A m \in w : m \in u \/ (m = <<n, m[2]>> /\ m[2] \in free /\ Near(P[n], V[m[2]]))
        /\ \A m, o \in w : m \notin u /\ o \notin u => m = o
        /\ (\E k \in free : Near(P[n], V[k])) => \E m \in w : m[1] = n
    BY PairAdds
  <1> HIDE DEF w
  <1>2. \A j \in DOMAIN V : j \in free <=> \A m \in u : m[2] # j
    BY DEF Unpaired
  <1>3. free \subseteq DOMAIN V
    BY DEF Unpaired
  <1> HIDE DEF free
  <1>4. n \in Nat /\ n \in 1 .. n /\ 1 .. (n - 1) \subseteq 1 .. n /\ n \notin 1 .. (n - 1)
    OBVIOUS
  <1>5. \A m \in u : m[1] \in 1 .. (n - 1) /\ m[2] \in DOMAIN V /\ m = <<m[1], m[2]>> /\ Near(P[m[1]], V[m[2]])
    BY DEF Paired
  <1>6. \A m \in w : m = <<m[1], m[2]>> /\ m[1] \in 1 .. n /\ m[2] \in DOMAIN V /\ Near(P[m[1]], V[m[2]])
    <2> SUFFICES ASSUME NEW m \in w
                 PROVE  m = <<m[1], m[2]>> /\ m[1] \in 1 .. n /\ m[2] \in DOMAIN V /\ Near(P[m[1]], V[m[2]])
      OBVIOUS
    <2>1. CASE m \in u
      BY <1>4, <1>5, <2>1
    <2>2. CASE m \notin u
      <3>1. m = <<n, m[2]>> /\ m[2] \in free /\ Near(P[n], V[m[2]])
        BY <1>1, <2>2
      <3>2. m[1] = n
        BY <3>1
      <3> QED BY <1>3, <1>4, <3>1, <3>2
    <2> QED BY <2>1, <2>2
  <1>7. \A m, o \in w : (m[1] = o[1]) <=> (m[2] = o[2])
    <2> SUFFICES ASSUME NEW m \in w, NEW o \in w PROVE (m[1] = o[1]) <=> (m[2] = o[2])
      OBVIOUS
    <2>1. ASSUME NEW x \in w, NEW y \in w, x \in u, y \notin u PROVE x[1] # y[1] /\ x[2] # y[2]
      <3>1. y = <<n, y[2]>> /\ y[2] \in free
        BY <1>1, <2>1
      <3>2. y[1] = n
        BY <3>1
      <3>3. x[1] # n
        BY <1>4, <1>5, <2>1
      <3>4. x[2] # y[2]
        BY <1>2, <1>3, <2>1, <3>1
      <3> QED BY <3>2, <3>3, <3>4
    <2>2. CASE m \in u /\ o \in u
      BY <2>2 DEF Paired
    <2>3. CASE m \notin u /\ o \notin u
      BY <1>1, <2>3
    <2> QED BY <2>1, <2>2, <2>3
  <1>8. \A i \in 1 .. n, j \in DOMAIN V :
          Near(P[i], V[j]) => (\E m \in w : m[1] = i) \/ (\E m \in w : m[2] = j)
    <2> SUFFICES ASSUME NEW i \in 1 .. n, NEW j \in DOMAIN V, Near(P[i], V[j])
                 PROVE  (\E m \in w : m[1] = i) \/ (\E m \in w : m[2] = j)
      OBVIOUS
    <2>1. CASE i \in 1 .. (n - 1)
      <3>1. (\E m \in u : m[1] = i) \/ (\E m \in u : m[2] = j)
        BY <2>1 DEF Paired
      <3> QED BY <1>1, <3>1
    <2>2. CASE i = n
      BY <1>1, <1>2, <2>2
    <2>3. i = n \/ i \in 1 .. (n - 1)
      OBVIOUS
    <2> QED BY <2>1, <2>2, <2>3
  <1>9. \A m \in w : m \in (1 .. n) \X DOMAIN V
    BY <1>6
  <1> QED BY <1>6, <1>7, <1>8, <1>9 DEF Paired, w

LEMMA TwinsStep ==
  ASSUME NEW P \in Seq(Trips), NEW V \in Seq(Trips), NEW n \in 1 .. Len(P), NEW u, Paired(P, V, u, n - 1),
         Distinct(P), Tolerance \in Nat, NEW t \in DOMAIN V, Twins(P[n], V[t]), TwinsPaired(P, V, u, n - 1)
  PROVE  TwinsPaired(P, V, Pair(P, V, u, n), n)
  <1> DEFINE w == Pair(P, V, u, n)
             free == Unpaired(V, u)
  <1>1. /\ u \subseteq w
        /\ \A m \in w : m \in u \/ (/\ m = <<n, m[2]>> /\ m[2] \in free /\ Near(P[n], V[m[2]])
                                    /\ \A k \in free : Near(P[n], V[k]) => Gap(P[n], V[m[2]]) <= Gap(P[n], V[k]))
        /\ (\E k \in free : Near(P[n], V[k])) => \E m \in w : m[1] = n
    BY PairAdds
  <1> HIDE DEF w
  <1>2. \A j \in DOMAIN V : j \in free <=> \A m \in u : m[2] # j
    BY DEF Unpaired
  <1>3. free \subseteq DOMAIN V
    BY DEF Unpaired
  <1> HIDE DEF free
  <1>4. n \in DOMAIN P /\ 1 .. (n - 1) \subseteq DOMAIN P /\ n \notin 1 .. (n - 1) /\ \A i \in 1 .. n : i = n \/ i \in 1 .. (n - 1)
    OBVIOUS
  <1>5. P[n] \in Trips /\ \A j \in DOMAIN V : V[j] \in Trips
    OBVIOUS
  <1>6. t \in free
    <2> SUFFICES ASSUME NEW m \in u, m[2] = t PROVE FALSE
      BY <1>2
    <2>1. m[1] \in 1 .. (n - 1)
      BY DEF Paired
    <2>2. Twins(P[m[1]], V[t])
      BY DEF TwinsPaired
    <2>3. m[1] \in DOMAIN P /\ m[1] # n
      BY <1>4, <2>1
    <2>4. <<P[m[1]].symbol, P[m[1]].entry>> = <<P[n].symbol, P[n].entry>>
      BY <2>2 DEF Twins
    <2> QED BY <1>4, <2>3, <2>4 DEF Distinct
  <1>7. Gap(P[n], V[t]) = 0 /\ Near(P[n], V[t])
    <2>1. Gap(P[n], V[t]) = 0
      BY <1>5, GapIs DEF Twins
    <2> QED BY <2>1 DEF Twins, Near
  <1>8. \A m \in w : Twins(P[m[1]], V[m[2]])
    <2> SUFFICES ASSUME NEW m \in w, m \notin u PROVE Twins(P[m[1]], V[m[2]])
      BY DEF TwinsPaired
    <2>1. /\ m = <<n, m[2]>> /\ m[2] \in free /\ Near(P[n], V[m[2]])
          /\ Gap(P[n], V[m[2]]) <= Gap(P[n], V[t])
      BY <1>1, <1>6, <1>7
    <2>2. m[1] = n
      BY <2>1
    <2>3. V[m[2]] \in Trips
      BY <1>3, <1>5, <2>1
    <2>4. Gap(P[n], V[m[2]]) \in Nat
      BY <1>5, <2>3, GapIs
    <2>5. Gap(P[n], V[m[2]]) = 0
      BY <1>7, <2>1, <2>4
    <2>6. P[n].entry = V[m[2]].entry
      BY <1>5, <2>3, <2>5, GapIs
    <2> QED BY <2>1, <2>2, <2>6 DEF Twins, Near
  <1>9. \A i \in 1 .. n : \E m \in w : m[1] = i
    <2>1. \E m \in w : m[1] = n
      BY <1>1, <1>6, <1>7
    <2>2. \A i \in 1 .. (n - 1) : \E m \in w : m[1] = i
      BY <1>1 DEF TwinsPaired
    <2> QED BY <1>4, <2>1, <2>2
  <1> QED BY <1>8, <1>9 DEF TwinsPaired, w

Matches(P, V) == PairsUpTo(P, V)[Len(P)]

LEMMA MatchesPaired ==
  ASSUME NEW P \in Seq(Trips), NEW V \in Seq(Trips)
  PROVE  Paired(P, V, Matches(P, V), Len(P))
  <1> DEFINE N == Len(P)
             f == PairsUpTo(P, V)
             G == {n \in 0 .. N : Paired(P, V, f[n], n)}
  <1>1. N \in Nat
    OBVIOUS
  <1>2. f[0] = {} /\ \A n \in 1 .. N : f[n] = Pair(P, V, f[n - 1], n)
    BY PairsUnroll
  <1> HIDE DEF f
  <1>3. 0 \in G
    <2>1. Paired(P, V, {}, 0)
      BY DEF Paired
    <2>2. 0 \in 0 .. N
      BY <1>1
    <2>3. Paired(P, V, f[0], 0)
      BY <1>2, <2>1
    <2> QED BY <2>2, <2>3
  <1>4. \A n \in 1 .. N : n - 1 \in G => n \in G
    <2> SUFFICES ASSUME NEW n \in 1 .. N, Paired(P, V, f[n - 1], n - 1) PROVE n \in 0 .. N /\ Paired(P, V, f[n], n)
      OBVIOUS
    <2>1. Paired(P, V, Pair(P, V, f[n - 1], n), n)
      BY PairedStep
    <2> QED BY <1>1, <1>2, <2>1
  <1>5. N \in G
    <2> HIDE DEF G, N
    <2>1. 0 .. N \subseteq G
      BY <1>1, <1>3, <1>4, UpTo
    <2> QED BY <1>1, <2>1
  <1> QED BY <1>5 DEF f, Matches

LEMMA TwinsMatched ==
  ASSUME NEW P \in Seq(Trips), NEW V \in Seq(Trips), Distinct(P), \A i \in DOMAIN P : \E t \in DOMAIN V : Twins(P[i], V[t])
  PROVE  TwinsPaired(P, V, Matches(P, V), Len(P))
  <1> DEFINE N == Len(P)
             f == PairsUpTo(P, V)
             G == {n \in 0 .. N : Paired(P, V, f[n], n) /\ TwinsPaired(P, V, f[n], n)}
  <1>1. N \in Nat /\ DOMAIN P = 1 .. N
    OBVIOUS
  <1>2. f[0] = {} /\ \A n \in 1 .. N : f[n] = Pair(P, V, f[n - 1], n)
    BY PairsUnroll
  <1> HIDE DEF f
  <1>3. 0 \in G
    <2>1. Paired(P, V, {}, 0) /\ TwinsPaired(P, V, {}, 0)
      BY DEF Paired, TwinsPaired
    <2>2. 0 \in 0 .. N
      BY <1>1
    <2>3. Paired(P, V, f[0], 0) /\ TwinsPaired(P, V, f[0], 0)
      BY <1>2, <2>1
    <2> QED BY <2>2, <2>3
  <1>4. \A n \in 1 .. N : n - 1 \in G => n \in G
    <2> SUFFICES ASSUME NEW n \in 1 .. N, Paired(P, V, f[n - 1], n - 1), TwinsPaired(P, V, f[n - 1], n - 1)
                 PROVE  n \in 0 .. N /\ Paired(P, V, f[n], n) /\ TwinsPaired(P, V, f[n], n)
      OBVIOUS
    <2>1. Paired(P, V, Pair(P, V, f[n - 1], n), n)
      BY PairedStep
    <2>2. PICK t \in DOMAIN V : Twins(P[n], V[t])
      BY <1>1
    <2>3. TwinsPaired(P, V, Pair(P, V, f[n - 1], n), n)
      BY <2>2, TwinsStep, ReconConfig
    <2> QED BY <1>1, <1>2, <2>1, <2>3
  <1>5. N \in G
    <2> HIDE DEF G, N
    <2>1. 0 .. N \subseteq G
      BY <1>1, <1>3, <1>4, UpTo
    <2> QED BY <1>1, <2>1
  <1> QED BY <1>5 DEF f, Matches

LEMMA CompareIs ==
  ASSUME NEW P, NEW V, NEW R, R = Compare(P, V)
  PROVE  /\ R.paper = P /\ R.validation = V /\ R.matches = Matches(P, V)
         /\ R.paperOnly = {i \in DOMAIN P : P[i].id \notin {P[m[1]].id : m \in Matches(P, V)}}
         /\ R.validationOnly = DOMAIN V \ {m[2] : m \in Matches(P, V)}
  BY DEF Compare, Matches, PairsUpTo

\* Every paper trade that is not paired is left over by id, and where ids are
\* distinct these are all.
LEMMA LeftOver ==
  ASSUME NEW P \in Seq(Trips), NEW V \in Seq(Trips), NEW R, R = Compare(P, V)
  PROVE  /\ \A i \in R.paperOnly : i \in DOMAIN P /\ \A m \in R.matches : m[1] # i
         /\ Distinct(P) => R.paperOnly = DOMAIN P \ {m[1] : m \in R.matches}
         /\ \A j \in R.validationOnly : j \in DOMAIN V /\ \A m \in R.matches : m[2] # j
  <1> DEFINE M == Matches(P, V)
  <1>1. /\ R.matches = M /\ R.validationOnly = DOMAIN V \ {m[2] : m \in M}
        /\ R.paperOnly = {i \in DOMAIN P : P[i].id \notin {P[m[1]].id : m \in M}}
    BY CompareIs
  <1>2. \A m \in M : m[1] \in DOMAIN P
    <2>1. Paired(P, V, M, Len(P))
      BY MatchesPaired
    <2> QED BY <2>1 DEF Paired
  <1> HIDE DEF M
  <1>3. ASSUME Distinct(P) PROVE R.paperOnly = DOMAIN P \ {m[1] : m \in M}
    <2>1. \A i \in DOMAIN P : P[i].id \in {P[m[1]].id : m \in M} <=> i \in {m[1] : m \in M}
      BY <1>2, <1>3 DEF Distinct
    <2> QED BY <1>1, <2>1
  <1> QED BY <1>1, <1>3

LEMMA FullOfTwins ==
  ASSUME NEW P \in Seq(Trips), NEW V \in Seq(Trips), NEW R, R = Compare(P, V),
         Distinct(P), Distinct(V), Entries(P) = Entries(V)
  PROVE  R.paperOnly = {} /\ R.validationOnly = {}
  <1> DEFINE M == Matches(P, V)
  <1>1. /\ \A i \in DOMAIN P : <<P[i].symbol, P[i].entry>> \in Entries(V)
        /\ \A j \in DOMAIN V : <<V[j].symbol, V[j].entry>> \in Entries(P)
    BY DEF Entries
  <1>2. /\ \A i \in DOMAIN P : \E t \in DOMAIN V : Twins(P[i], V[t])
        /\ \A j \in DOMAIN V : \E i \in DOMAIN P : Twins(P[i], V[j])
    <2>1. /\ \A x \in Entries(V) : \E t \in DOMAIN V : x = <<V[t].symbol, V[t].entry>>
          /\ \A x \in Entries(P) : \E i \in DOMAIN P : x = <<P[i].symbol, P[i].entry>>
      BY DEF Entries
    <2>2. \A i \in DOMAIN P : \E t \in DOMAIN V : <<P[i].symbol, P[i].entry>> = <<V[t].symbol, V[t].entry>>
      BY <1>1, <2>1
    <2>3. \A j \in DOMAIN V : \E i \in DOMAIN P : <<V[j].symbol, V[j].entry>> = <<P[i].symbol, P[i].entry>>
      BY <1>1, <2>1
    <2> QED BY <2>2, <2>3 DEF Twins
  <1>3. TwinsPaired(P, V, M, Len(P)) /\ Paired(P, V, M, Len(P))
    BY <1>2, TwinsMatched, MatchesPaired
  <1>4. R.matches = M
    BY CompareIs
  <1> HIDE DEF M
  <1>5. R.paperOnly = {}
    <2>1. \A i \in DOMAIN P : \E m \in M : m[1] = i
      BY <1>3 DEF TwinsPaired
    <2> QED BY <1>4, <2>1, LeftOver
  <1>6. R.validationOnly = {}
    <2> SUFFICES ASSUME NEW j \in DOMAIN V PROVE \E m \in M : m[2] = j
      BY <1>4, LeftOver
    <2>1. PICK i \in DOMAIN P : Twins(P[i], V[j])
      BY <1>2
    <2>2. PICK m \in M : m[1] = i
      BY <1>3 DEF TwinsPaired
    <2>3. Twins(P[i], V[m[2]]) /\ m[2] \in DOMAIN V
      BY <1>3, <2>2 DEF TwinsPaired, Paired
    <2>4. <<V[m[2]].symbol, V[m[2]].entry>> = <<V[j].symbol, V[j].entry>>
      BY <2>1, <2>3 DEF Twins
    <2> QED BY <2>3, <2>4 DEF Distinct
  <1> QED BY <1>5, <1>6

LEMMA MatchesFinite ==
  ASSUME NEW P \in Seq(Trips), NEW V \in Seq(Trips)
  PROVE  IsFiniteSet(Matches(P, V))
  <1> DEFINE A == 1 .. Len(P)
             B == 1 .. Len(V)
             M == Matches(P, V)
  <1>1. M \subseteq A \X B
    <2>1. Paired(P, V, M, Len(P)) /\ DOMAIN V = B
      BY MatchesPaired
    <2> HIDE DEF M
    <2> QED BY <2>1 DEF Paired
  <1>2. IsFiniteSet(A) /\ IsFiniteSet(B)
    BY FS_Interval
  <1> HIDE DEF A, B, M
  <1>3. IsFiniteSet(A \X B)
    BY <1>2, FS_Product
  <1>4. IsFiniteSet(M)
    BY <1>1, <1>3, FS_Subset
  <1> QED BY <1>4 DEF M

\* Any comparison accounts for every trade.
LEMMA ComparedAccounted ==
  ASSUME NEW P \in Seq(Trips), NEW V \in Seq(Trips), NEW R, R = Compare(P, V)
  PROVE  /\ \A m \in R.matches : Near(P[m[1]], V[m[2]])
         /\ \A m, n \in R.matches : (m[1] = n[1]) <=> (m[2] = n[2])
         /\ \A i \in R.paperOnly, j \in R.validationOnly : ~ Near(P[i], V[j])
         /\ Distinct(P) => R.paperOnly = DOMAIN P \ {m[1] : m \in R.matches}
         /\ Distinct(P) /\ Distinct(V) /\ Entries(P) = Entries(V) =>
              Cardinality(R.matches) = Cardinality(R.matches) + Cardinality(R.paperOnly) + Cardinality(R.validationOnly)
  <1>1. R.matches = Matches(P, V)
    BY CompareIs
  <1>2. Paired(P, V, R.matches, Len(P)) /\ DOMAIN P = 1 .. Len(P)
    BY <1>1, MatchesPaired
  <1>3. /\ \A m \in R.matches : Near(P[m[1]], V[m[2]])
        /\ \A m, n \in R.matches : (m[1] = n[1]) <=> (m[2] = n[2])
    BY <1>2 DEF Paired
  <1>4. \A i \in R.paperOnly, j \in R.validationOnly : ~ Near(P[i], V[j])
    <2> SUFFICES ASSUME NEW i \in R.paperOnly, NEW j \in R.validationOnly, Near(P[i], V[j]) PROVE FALSE
      OBVIOUS
    <2>1. i \in DOMAIN P /\ j \in DOMAIN V /\ (\A m \in R.matches : m[1] # i) /\ \A m \in R.matches : m[2] # j
      BY LeftOver
    <2> QED BY <1>2, <2>1 DEF Paired
  <1>5. Distinct(P) => R.paperOnly = DOMAIN P \ {m[1] : m \in R.matches}
    BY LeftOver
  <1>6. ASSUME Distinct(P), Distinct(V), Entries(P) = Entries(V)
        PROVE  Cardinality(R.matches) = Cardinality(R.matches) + Cardinality(R.paperOnly) + Cardinality(R.validationOnly)
    <2>1. R.paperOnly = {} /\ R.validationOnly = {}
      BY <1>6, FullOfTwins
    <2>2. Cardinality(R.matches) \in Nat
      BY <1>1, MatchesFinite, FS_CardinalityType
    <2>3. Cardinality({}) = 0
      BY FS_EmptySet
    <2> QED BY <2>1, <2>2, <2>3
  <1> QED BY <1>3, <1>4, <1>5, <1>6

\* What is in the logs, and that a report is a comparison of trips.
ReconInv ==
  /\ events \in [Sides -> Seq(EventRecords)]
  /\ report = NoReport \/ \E P, V \in Seq(Trips) : report = Compare(P, V)

LEMMA ReconInitial == ReconInit => ReconInv
  <1> SUFFICES ASSUME ReconInit PROVE ReconInv
    OBVIOUS
  <1>1. << >> \in Seq(EventRecords)
    OBVIOUS
  <1>2. events \in [Sides -> Seq(EventRecords)] /\ report = NoReport
    BY <1>1 DEF ReconInit
  <1> QED BY <1>2 DEF ReconInv

LEMMA EventTyped ==
  ASSUME NEW kind \in {"open", "close"}, NEW id \in PositionIds, NEW symbol \in Traded \cup {NoId}, NEW ts \in Int
  PROVE  Event(kind, id, symbol, ts) \in EventRecords
  BY DEF Event, EventRecords

LEMMA NowTyped ==
  ASSUME ReconInv, NEW r \in Sides
  PROVE  Now(r) \in Int /\ events[r] \in Seq(EventRecords)
  <1>1. events[r] \in Seq(EventRecords)
    BY DEF ReconInv
  <1>2. CASE events[r] = << >>
    BY <1>1, <1>2 DEF Now
  <1>3. CASE events[r] # << >>
    <2>1. Last(events[r]) \in EventRecords
      BY <1>1, <1>3 DEF Last
    <2>2. Last(events[r]).ts \in Int
      BY <2>1 DEF EventRecords
    <2> QED BY <1>1, <1>3, <2>2 DEF Now
  <1> QED BY <1>2, <1>3

\* A longer log.
LEMMA LogGrows ==
  ASSUME ReconInv, NEW r \in Sides, NEW log \in Seq(EventRecords),
         events' = [events EXCEPT ![r] = log], UNCHANGED report
  PROVE  ReconInv'
  <1>1. events' \in [Sides -> Seq(EventRecords)]
    BY DEF ReconInv
  <1> QED BY <1>1 DEF ReconInv

LEMMA OpenKeeps ==
  ASSUME ReconInv, NEW r \in Sides, WriteOpen(r)
  PROVE  ReconInv'
  <1>1. PICK id \in Ids \ Live(r), ts \in Now(r) .. MaxTime :
          events' = [events EXCEPT ![r] = Append(@, Event("open", id, SymbolOf[id], ts))]
    BY DEF WriteOpen
  <1> DEFINE e == Event("open", id, SymbolOf[id], ts)
             log == Append(events[r], e)
  <1>2. Now(r) \in Int /\ events[r] \in Seq(EventRecords)
    BY NowTyped
  <1>3. id \in PositionIds /\ SymbolOf[id] \in Traded \cup {NoId} /\ ts \in Int
    BY <1>2, ReconConfig DEF PositionIds
  <1>4. e \in EventRecords
    BY <1>3, EventTyped
  <1>5. events' = [events EXCEPT ![r] = log] /\ UNCHANGED report
    BY <1>1 DEF WriteOpen
  <1> HIDE DEF e
  <1>6. log \in Seq(EventRecords)
    BY <1>2, <1>4
  <1> HIDE DEF log
  <1> QED BY <1>5, <1>6, LogGrows

LEMMA CloseKeeps ==
  ASSUME ReconInv, NEW r \in Sides, WriteClose(r)
  PROVE  ReconInv'
  <1>1. PICK id \in Live(r) : events' = [events EXCEPT ![r] = Append(@, Event("close", id, SymbolOf[id], Now(r)))]
    BY DEF WriteClose
  <1> DEFINE e == Event("close", id, SymbolOf[id], Now(r))
             log == Append(events[r], e)
  <1>2. Now(r) \in Int /\ events[r] \in Seq(EventRecords)
    BY NowTyped
  <1>3. id \in PositionIds /\ SymbolOf[id] \in Traded \cup {NoId}
    <2>1. id \in Ids
      BY DEF Live
    <2> QED BY <2>1, ReconConfig DEF PositionIds
  <1>4. e \in EventRecords
    BY <1>2, <1>3, EventTyped
  <1>5. events' = [events EXCEPT ![r] = log] /\ UNCHANGED report
    BY <1>1 DEF WriteClose
  <1> HIDE DEF e
  <1>6. log \in Seq(EventRecords)
    BY <1>2, <1>4
  <1> HIDE DEF log
  <1> QED BY <1>5, <1>6, LogGrows

LEMMA EndValidationKeeps ==
  ASSUME ReconInv, EndValidation
  PROVE  ReconInv'
  <1>1. PICK n \in 0 .. MaxOpens : events' = [events EXCEPT !["validation"] = @ \o TradeEvents(n)]
    <2>1. (IF events["validation"] = << >> THEN 0 .. MaxOpens ELSE {0}) \subseteq 0 .. MaxOpens
      BY ReconConfig
    <2>2. \E n \in IF events["validation"] = << >> THEN 0 .. MaxOpens ELSE {0} :
            events' = [events EXCEPT !["validation"] = @ \o TradeEvents(n)]
      BY DEF EndValidation
    <2> QED BY <2>1, <2>2
  <1> DEFINE log == events["validation"] \o TradeEvents(n)
  <1>2. events["validation"] \in Seq(EventRecords) /\ "validation" \in Sides
    BY NowTyped DEF Sides
  <1>3. TradeEvents(n) \in Seq(EventRecords)
    <2>1. NoId \in PositionIds /\ NoId \in Traded \cup {NoId} /\ MaxTime \in Int
      BY ReconConfig DEF PositionIds
    <2>2. Event("open", NoId, NoId, MaxTime) \in EventRecords /\ Event("close", NoId, NoId, MaxTime) \in EventRecords
      BY <2>1, EventTyped
    <2>3. 2 * n \in Nat
      OBVIOUS
    <2>4. \A i \in 1 .. 2 * n : Event(IF i % 2 = 1 THEN "open" ELSE "close", NoId, NoId, MaxTime) \in EventRecords
      BY <2>2
    <2> QED BY <2>3, <2>4 DEF TradeEvents
  <1>4. events' = [events EXCEPT !["validation"] = log] /\ UNCHANGED report
    BY <1>1 DEF EndValidation
  <1>5. log \in Seq(EventRecords)
    BY <1>2, <1>3
  <1> HIDE DEF log
  <1> QED BY <1>2, <1>4, <1>5, LogGrows

LEMMA ReconcileKeeps ==
  ASSUME ReconInv, Reconcile
  PROVE  ReconInv'
  <1> DEFINE P == LoadTrades("paper")
             V == LoadTrades("validation")
  <1>1. events["paper"] \in Seq(EventRecords) /\ events["validation"] \in Seq(EventRecords)
    BY NowTyped DEF Sides
  <1>2. P \in Seq(Trips) /\ V \in Seq(Trips)
    BY <1>1, LoadTyped
  <1>3. report' = Compare(P, V) /\ UNCHANGED events
    BY DEF Reconcile
  <1> HIDE DEF P, V
  <1>4. \E A, B \in Seq(Trips) : report' = Compare(A, B)
    BY <1>2, <1>3
  <1> QED BY <1>3, <1>4 DEF ReconInv

LEMMA ReconInductive == ReconInv /\ [ReconNext]_rvars => ReconInv'
  <1> SUFFICES ASSUME ReconInv, [ReconNext]_rvars PROVE ReconInv'
    OBVIOUS
  <1>1. CASE UNCHANGED <<events, report>>
    BY <1>1 DEF ReconInv
  <1>2. ASSUME NEW r \in Sides, StartRun(r) PROVE ReconInv'
    BY <1>1, <1>2 DEF StartRun
  <1>3. CASE PaperRoundTrip \/ StopPaper
    BY <1>1, <1>3 DEF PaperRoundTrip, StopPaper
  <1>4. CASE UNCHANGED rvars
    BY <1>1, <1>4 DEF rvars
  <1> QED BY <1>2, <1>3, <1>4, OpenKeeps, CloseKeeps, EndValidationKeeps, ReconcileKeeps DEF ReconNext

LEMMA ReconInvImplies == ReconInv => Accounted
  <1> SUFFICES ASSUME ReconInv, report.made PROVE Accounted
    BY DEF Accounted
  <1>1. PICK P, V \in Seq(Trips) : report = Compare(P, V)
    BY DEF ReconInv, NoReport
  <1>2. report.paper = P /\ report.validation = V
    BY <1>1, CompareIs
  <1>3. /\ \A m \in report.matches : Near(P[m[1]], V[m[2]])
        /\ \A m, n \in report.matches : (m[1] = n[1]) <=> (m[2] = n[2])
        /\ \A i \in report.paperOnly, j \in report.validationOnly : ~ Near(P[i], V[j])
        /\ Distinct(P) => report.paperOnly = DOMAIN P \ {m[1] : m \in report.matches}
        /\ Distinct(P) /\ Distinct(V) /\ Entries(P) = Entries(V) =>
             Cardinality(report.matches) = Cardinality(report.matches)
               + Cardinality(report.paperOnly) + Cardinality(report.validationOnly)
    BY <1>1, ComparedAccounted
  <1> QED BY <1>2, <1>3 DEF Accounted, FullParity

\* A report leaves nothing that could still be paired, pairs no trade twice and,
\* where ids are distinct, forgets none; runs that entered at the same times are
\* in full parity (reconcile and parity_rate, reconciliation.py).
THEOREM ReportsAccounted == ReconSpec => []Accounted
  <1>1. ReconInv => Accounted
    BY ReconInvImplies
  <1> QED BY <1>1, ReconInitial, ReconInductive, PTL DEF ReconSpec

=============================================================================
