--------------------------- MODULE Campaign_proof ---------------------------
(***************************************************************************)
(* What holds of a regime-cross campaign for any windows, champions and    *)
(* bounds.  Three facts carry the rest: a training window's discovery row  *)
(* is settled once the plan is made, a run's first report is settled once  *)
(* it is there, and the plan in the memory of a runner that is past the    *)
(* planning knows every row that there is, also when it was loaded from    *)
(* the database.                                                           *)
(***************************************************************************)
EXTENDS Campaign, FiniteSetTheorems, SequenceTheorems, WellFoundedInduction, TLAPS

Names == Labels \X (1 .. MaxTops)
RunRecords == [mode : {"discovery", "oos", "validation"}, label : Labels \cup {NoWindow}, idx : Nat,
               oos : Windows \cup {NoWindow}, strategy : Names \cup {<< >>},
               status : {"pending", "running", "completed", "failed"}]
Reports == [run : Nat, tops : Tops]
WorkerRecords == [pc : {"free", "boot", "work", "saved", "told", "ended"}, run : Nat, tops : {<< >>}, trades : BOOLEAN, rc : Int]
Planned == [key : Keys, id : Nat]
Discoveries == UNION {[S -> Nat] : S \in SUBSET Labels}
RunnerRecords ==
    [at : Phases, go : BOOLEAN, force : BOOLEAN, topK : Nat, train : Seq(Labels), windows : Seq(Windows),
     disc : Discoveries, oos : Seq(Planned), i : Nat \ {0}, j : Nat \ {0}, k : Nat,
     champs : Seq(Dsls), child : Procs \cup {NoProc}]

CampaignTypes ==
    /\ runs \in Seq(RunRecords) /\ results \in Seq(Reports)
    /\ runner \in RunnerRecords /\ workers \in [Procs -> WorkerRecords]
    /\ DOMAIN strategies \subseteq Names /\ \A s \in DOMAIN strategies : strategies[s] \in Dsls
    /\ \A r \in DOMAIN results : results[r].run \in RunIds
    /\ \A p \in Procs : workers[p].pc # "free" => workers[p].run \in RunIds

\* A worker that has saved has a result.
ResultInv == CompletedHasResult /\ \A p \in Procs : workers[p].pc \in {"saved", "told"} => \E r \in DOMAIN results : results[r].run = workers[p].run

\* Discoveries are of training windows; validations are planned of a strategy that
\* is there, one for each cell.
RowsInv ==
    /\ \A id \in RunIds : runs[id].mode = "discovery" => runs[id].label \in Labels
    /\ \A id \in RunIds : runs[id].mode = "oos" =>
           /\ KeyOf(runs[id]) \in Keys /\ runs[id].strategy = <<runs[id].label, runs[id].idx>>
           /\ runs[id].strategy \in DOMAIN strategies
    /\ \A a, b \in RunIds : runs[a].mode = "oos" /\ runs[b].mode = "oos" /\ KeyOf(runs[a]) = KeyOf(runs[b]) => a = b

\* The last discovery row (of the rows R) of a window, the first report (of the results Q) of a run.
Newest(R, l, id) ==
    /\ id \in DOMAIN R /\ R[id].mode = "discovery" /\ R[id].label = l
    /\ \A o \in DOMAIN R : R[o].mode = "discovery" /\ R[o].label = l => o <= id
First(Q, id, r) ==
    /\ r \in DOMAIN Q /\ Q[r].run = id
    /\ \A o \in DOMAIN Q : Q[o].run = id => r <= o

\* A strategy is what the first report of its window's newest discovery has in its place.
ReportedInv ==
    \A s \in DOMAIN strategies : \E id \in RunIds, r \in DOMAIN results :
        /\ Newest(runs, s[1], id) /\ First(results, id, r)
        /\ s[2] <= Len(results[r].tops) /\ strategies[s] = results[r].tops[s[2]]

\* The plan q knows the newest discoveries, and all the validations that have rows.
KnowsRows(q) ==
    /\ \A l \in DOMAIN q.disc : Newest(runs, l, q.disc[l])
    /\ \A id \in RunIds : runs[id].mode = "oos" => \E e \in DOMAIN q.oos : q.oos[e].key = KeyOf(runs[id])
    /\ \A m \in DOMAIN q.train : q.at # "plan" \/ m < q.i => q.train[m] \in DOMAIN q.disc

\* Nothing but rows of discoveries is there while they are planned.
Planning(q) ==
    /\ DOMAIN strategies = {} /\ results = << >> /\ \A p \in Procs : workers[p].pc = "free"
    /\ q.train = Train /\ Len(runs) = q.i - 1 /\ q.i <= Len(Train) + 1
    /\ \A id \in RunIds : runs[id].mode = "discovery"

\* The champions in hand are the best of the first report.
Ranked(q) ==
    /\ q.i \in DOMAIN q.train /\ q.j \in DOMAIN q.champs /\ q.k <= Len(q.windows)
    /\ \E r \in DOMAIN results :
           /\ First(results, q.disc[q.train[q.i]], r) /\ Len(q.champs) <= Len(results[r].tops)
           /\ \A n \in DOMAIN q.champs : q.champs[n] = results[r].tops[n]
    /\ q.k > 0 => <<q.train[q.i], q.j>> \in DOMAIN strategies

RunnerOK(q) ==
    /\ q.child # NoProc => q.at \in {"discover", "validate"}
    /\ \A e \in DOMAIN q.oos : q.oos[e].id \in RunIds
    /\ q.at # "idle" => KnowsRows(q)
    /\ q.at = "plan" => Planning(q)
    /\ q.at = "champions" => Ranked(q)

\* The rows of each mode are limited.
OfMode(R, mode) == {id \in DOMAIN R : R[id].mode = mode}
CountInv ==
    /\ Cardinality(OfMode(runs, "discovery")) <= Len(Train)
    /\ Cardinality(OfMode(runs, "validation")) <= MaxManual

CampaignInv ==
    CampaignTypes /\ ResultInv /\ RowsInv /\ ReportedInv /\ RunnerOK(runner) /\ CountInv

-----------------------------------------------------------------------------
(* Numbers and counting. *)

\* A nonempty set of numbers has a least element, and one below a bound a greatest.
LEMMA Least ==
  ASSUME NEW T \in SUBSET Nat, T # {}
  PROVE  \E x \in T : \A y \in T : x <= y
  <1> DEFINE R == OpToRel(<, Nat)
  <1>1. IsWellFoundedOn(R, Nat)
    BY NatLessThanWellFounded
  <1>2. \A x, y \in Nat : <<y, x>> \in R <=> y < x
    BY DEF OpToRel
  <1> HIDE DEF R
  <1>3. PICK x \in T : \A y \in T : ~ (<<y, x>> \in R)
    BY <1>1, WFMin
  <1>4. ASSUME NEW y \in T PROVE x <= y
    <2>1. x \in Nat /\ y \in Nat /\ ~ (y < x)
      BY <1>2, <1>3
    <2> QED BY <2>1
  <1> QED BY <1>4

LEMMA Greatest ==
  ASSUME NEW n \in Nat, NEW T \in SUBSET (1 .. n), T # {}
  PROVE  \E x \in T : \A y \in T : y <= x
  <1> DEFINE U == {n - x : x \in T}
  <1>0. \A x \in T : n - x \in Nat
    OBVIOUS
  <1>1. U \in SUBSET Nat /\ U # {}
    BY <1>0
  <1>2. PICK u \in U : \A y \in U : u <= y
    BY <1>1, Least
  <1>3. PICK x \in T : u = n - x
    BY <1>2
  <1>4. \A y \in T : u <= n - y
    BY <1>2
  <1> HIDE DEF U
  <1>5. ASSUME NEW y \in T PROVE y <= x
    <2>1. n - x <= n - y /\ x \in Nat /\ y \in Nat
      BY <1>3, <1>4
    <2> QED BY <2>1
  <1> QED BY <1>5

\* The members of a set of row ids below one of them, and how they are counted:
\* each number up to the size of the set is the rank of exactly one member.
Below(S, id) == {o \in S : o <= id}

LEMMA RankFacts ==
  ASSUME NEW n \in Nat, NEW S \in SUBSET (1 .. n)
  PROVE  /\ IsFiniteSet(S) /\ Cardinality(S) \in Nat
         /\ \A id \in S : Cardinality(Below(S, id)) \in 1 .. Cardinality(S)
         /\ \A a, b \in S : Cardinality(Below(S, a)) = Cardinality(Below(S, b)) => a = b
         /\ \A m \in 1 .. Cardinality(S) : \E id \in S : Cardinality(Below(S, id)) = m
  <1>1. IsFiniteSet(S) /\ Cardinality(S) \in Nat
    <2>1. IsFiniteSet(1 .. n)
      BY FS_Interval
    <2>2. IsFiniteSet(S)
      BY <2>1, FS_Subset
    <2> QED BY <2>2, FS_CardinalityType
  <1>2. ASSUME NEW id \in S PROVE Cardinality(Below(S, id)) \in 1 .. Cardinality(S)
    <2>1. Below(S, id) \in SUBSET S /\ id \in Below(S, id)
      BY DEF Below
    <2>2. IsFiniteSet(Below(S, id)) /\ Cardinality(Below(S, id)) <= Cardinality(S)
      BY <1>1, <2>1, FS_Subset
    <2>3. Cardinality(Below(S, id)) \in Nat /\ Cardinality(Below(S, id)) # 0
      BY <2>1, <2>2, FS_CardinalityType, FS_EmptySet
    <2> QED BY <1>1, <2>2, <2>3
  <1>3. ASSUME NEW a \in S, NEW b \in S, a < b PROVE Cardinality(Below(S, a)) # Cardinality(Below(S, b))
    <2>1. Below(S, a) \in SUBSET Below(S, b)
      <3>1. \A o \in S : o <= a => o <= b
        BY <1>3
      <3> QED BY <3>1 DEF Below
    <2>2. b \in Below(S, b) /\ b \notin Below(S, a)
      BY <1>3 DEF Below
    <2>3. IsFiniteSet(Below(S, b))
      <3>1. Below(S, b) \in SUBSET S
        BY DEF Below
      <3> QED BY <1>1, <3>1, FS_Subset
    <2> QED BY <2>1, <2>2, <2>3, FS_Subset
  <1>4. \A a, b \in S : Cardinality(Below(S, a)) = Cardinality(Below(S, b)) => a = b
    <2>1. \A a, b \in S : a \in Nat /\ b \in Nat /\ (a = b \/ a < b \/ b < a)
      OBVIOUS
    <2> QED BY <1>3, <2>1
  <1>5. \A m \in 1 .. Cardinality(S) : \E id \in S : Cardinality(Below(S, id)) = m
    <2> DEFINE T == 1 .. Cardinality(S)
               f == [id \in S |-> Cardinality(Below(S, id))]
    <2>1. f \in Injection(S, T)
      BY <1>2, <1>4 DEF Injection, IsInjective
    <2>2. IsFiniteSet(T) /\ Cardinality(T) = Cardinality(S)
      BY <1>1, FS_Interval
    <2>3. f \in Surjection(S, T)
      BY <2>1, <2>2, FS_Injection
    <2>4. \A m \in T : \E id \in S : f[id] = m
      BY <2>3 DEF Surjection
    <2> QED BY <2>4
  <1> QED BY <1>1, <1>2, <1>4, <1>5

-----------------------------------------------------------------------------
(* Rows, reports and plans. *)

\* The rows of R2 are those of R, but for their status.
Same(R, R2) ==
    /\ R2 \in Seq(RunRecords) /\ Len(R2) = Len(R)
    /\ \A id \in 1 .. Len(R) : /\ R2[id].mode = R[id].mode /\ R2[id].label = R[id].label /\ R2[id].idx = R[id].idx
                               /\ R2[id].oos = R[id].oos /\ R2[id].strategy = R[id].strategy

\* update_backtest_run_status changes nothing but the status of one row.
LEMMA StatusOnly ==
  ASSUME runs \in Seq(RunRecords), NEW id \in RunIds, NEW s \in {"pending", "running", "completed", "failed"},
         runs' = SetStatus(id, s)
  PROVE  Same(runs, runs') /\ runs'[id].status = s /\ \A o \in RunIds : o # id => runs'[o] = runs[o]
  <1> DEFINE e == [runs[id] EXCEPT !.status = s]
  <1>1. Len(runs) \in Nat /\ RunIds = 1 .. Len(runs) /\ \A o \in RunIds : runs[o] \in RunRecords
    BY LenProperties, ElementOfSeq DEF RunIds
  <1>2. runs' = [runs EXCEPT ![id] = e]
    BY DEF SetStatus
  <1>3. /\ e \in RunRecords /\ e.status = s /\ e.mode = runs[id].mode /\ e.label = runs[id].label
        /\ e.idx = runs[id].idx /\ e.oos = runs[id].oos /\ e.strategy = runs[id].strategy
    BY <1>1 DEF RunRecords
  <1> HIDE DEF e
  <1>4. /\ runs' \in Seq(RunRecords) /\ Len(runs') = Len(runs)
        /\ \A o \in 1 .. Len(runs) : runs'[o] = IF o = id THEN e ELSE runs[o]
    BY <1>1, <1>2, <1>3, ExceptSeq
  <1> QED BY <1>1, <1>3, <1>4 DEF Same

\* There is at most one newest row of a window, and one if there is any row of it.
LEMMA NewestFacts ==
  ASSUME NEW R \in Seq(RunRecords), NEW l
  PROVE  /\ \A a, b : Newest(R, l, a) /\ Newest(R, l, b) => a = b
         /\ (\E id \in DOMAIN R : R[id].mode = "discovery" /\ R[id].label = l) => \E id \in DOMAIN R : Newest(R, l, id)
  <1>1. Len(R) \in Nat /\ DOMAIN R = 1 .. Len(R)
    BY LenProperties
  <1>2. ASSUME NEW a, NEW b, Newest(R, l, a), Newest(R, l, b) PROVE a = b
    <2>1. a \in Nat /\ b \in Nat /\ a <= b /\ b <= a
      BY <1>1, <1>2 DEF Newest
    <2> QED BY <2>1
  <1>3. ASSUME NEW id \in DOMAIN R, R[id].mode = "discovery", R[id].label = l PROVE \E o \in DOMAIN R : Newest(R, l, o)
    <2> DEFINE T == {o \in DOMAIN R : R[o].mode = "discovery" /\ R[o].label = l}
    <2>1. PICK x \in T : \A y \in T : y <= x
      <3>1. T \in SUBSET (1 .. Len(R)) /\ T # {}
        BY <1>1, <1>3
      <3> HIDE DEF T
      <3> QED BY <1>1, <3>1, Greatest
    <2> QED BY <2>1 DEF Newest
  <1> QED BY <1>2, <1>3

\* So it is with first reports; and _load_notes takes the first.
LEMMA FirstFacts ==
  ASSUME NEW Q \in Seq(Reports), NEW id
  PROVE  /\ \A a, b : First(Q, id, a) /\ First(Q, id, b) => a = b
         /\ (\E r \in DOMAIN Q : Q[r].run = id) => \E r \in DOMAIN Q : First(Q, id, r)
  <1>1. Len(Q) \in Nat /\ DOMAIN Q = 1 .. Len(Q)
    BY LenProperties
  <1>2. ASSUME NEW a, NEW b, First(Q, id, a), First(Q, id, b) PROVE a = b
    <2>1. a \in Nat /\ b \in Nat /\ a <= b /\ b <= a
      BY <1>1, <1>2 DEF First
    <2> QED BY <2>1
  <1>3. ASSUME NEW r \in DOMAIN Q, Q[r].run = id PROVE \E o \in DOMAIN Q : First(Q, id, o)
    <2> DEFINE T == {o \in DOMAIN Q : Q[o].run = id}
    <2>1. T \in SUBSET Nat /\ T # {}
      BY <1>1, <1>3
    <2>2. PICK x \in T : \A y \in T : x <= y
      <3> HIDE DEF T
      <3> QED BY <2>1, Least
    <2> QED BY <2>2 DEF First
  <1> QED BY <1>2, <1>3

\* A report more leaves the first ones what they are.
LEMMA FirstKept ==
  ASSUME NEW Q \in Seq(Reports), NEW e \in Reports, NEW id, NEW r, First(Q, id, r)
  PROVE  First(Append(Q, e), id, r) /\ Append(Q, e)[r] = Q[r]
  <1>1. Len(Q) \in Nat /\ DOMAIN Q = 1 .. Len(Q)
    BY LenProperties
  <1>2. /\ Append(Q, e) \in Seq(Reports) /\ Len(Append(Q, e)) = Len(Q) + 1
        /\ \A i \in 1 .. Len(Q) : Append(Q, e)[i] = Q[i]
    BY AppendProperties
  <1>3. DOMAIN Append(Q, e) = 1 .. Len(Q) + 1
    BY <1>2, LenProperties
  <1>4. r \in 1 .. Len(Q) /\ Append(Q, e)[r] = Q[r]
    BY <1>1, <1>2 DEF First
  <1>5. ASSUME NEW o \in DOMAIN Append(Q, e), Append(Q, e)[o].run = id PROVE r <= o
    <2>1. CASE o \in 1 .. Len(Q)
      BY <1>1, <1>2, <1>5, <2>1 DEF First
    <2>2. CASE o \notin 1 .. Len(Q)
      BY <1>1, <1>3, <1>4, <2>2
    <2> QED BY <2>1, <2>2
  <1> QED BY <1>1, <1>3, <1>4, <1>5 DEF First

\* Rows that differ in status only are the same to a plan.
LEMMA NewestKept ==
  ASSUME NEW R \in Seq(RunRecords), NEW R2, Same(R, R2), NEW l, NEW id
  PROVE  Newest(R, l, id) <=> Newest(R2, l, id)
  <1>1. DOMAIN R = 1 .. Len(R) /\ DOMAIN R2 = 1 .. Len(R)
    BY LenProperties DEF Same
  <1> QED BY <1>1 DEF Same, Newest

\* A runner without a plan.
LEMMA IdleFacts == /\ Idle \in RunnerRecords /\ Idle.at = "idle" /\ Idle.child = NoProc /\ Idle.oos = << >>
                   /\ EMPTY \in Discoveries
  <1>1. /\ << >> \in Seq(Labels) /\ << >> \in Seq(Windows) /\ << >> \in Seq(Planned) /\ << >> \in Seq(Dsls)
        /\ 1 \in Nat \ {0} /\ 0 \in Nat
    OBVIOUS
  <1>2. EMPTY \in Discoveries
    <2>1. EMPTY \in [{} -> Nat] /\ {} \in SUBSET Labels
      BY DEF EMPTY
    <2> QED BY <2>1 DEF Discoveries
  <1>3. "idle" \in Phases
    BY DEF Phases
  <1>4. Idle.at = "idle" /\ Idle.child = NoProc /\ Idle.oos = << >>
    BY DEF Idle
  <1> HIDE DEF EMPTY
  <1>5. Idle \in RunnerRecords
    BY <1>1, <1>2, <1>3 DEF Idle, RunnerRecords
  <1> QED BY <1>2, <1>4, <1>5

\* At the start there is nothing.
LEMMA CampaignInitInv == Init => CampaignInv
  <1> SUFFICES ASSUME Init PROVE CampaignInv
    OBVIOUS
  <1>0. /\ runs = << >> /\ results = << >> /\ DOMAIN strategies = {} /\ runner = Idle
        /\ \A p \in Procs : workers[p] = NoWorker
    BY DEF Init, EMPTY
  <1>1. DOMAIN runs = {} /\ DOMAIN results = {} /\ RunIds = {}
    BY <1>0 DEF RunIds
  <1>2. Idle \in RunnerRecords /\ Idle.at = "idle" /\ Idle.child = NoProc /\ Idle.oos = << >>
    BY IdleFacts
  <1>4. NoWorker \in WorkerRecords /\ NoWorker.pc = "free"
    BY DEF NoWorker, WorkerRecords
  <1>5. CampaignTypes
    <2>1. runs \in Seq(RunRecords) /\ results \in Seq(Reports)
      BY <1>0
    <2>2. workers \in [Procs -> WorkerRecords]
      BY <1>4 DEF Init
    <2> QED BY <1>0, <1>1, <1>2, <1>4, <2>1, <2>2 DEF CampaignTypes
  <1>6. ResultInv
    BY <1>0, <1>1, <1>4 DEF ResultInv, CompletedHasResult
  <1>7. RowsInv /\ ReportedInv
    BY <1>0, <1>1 DEF RowsInv, ReportedInv
  <1>8. RunnerOK(runner)
    BY <1>0, <1>2 DEF RunnerOK
  <1>9. CountInv
    <2>1. OfMode(runs, "discovery") = {} /\ OfMode(runs, "validation") = {}
      BY <1>1 DEF OfMode
    <2>2. 0 <= Len(Train) /\ 0 <= MaxManual /\ Cardinality({}) = 0
      BY FS_EmptySet, ConfigAssumption
    <2> QED BY <2>1, <2>2 DEF CountInv
  <1> QED BY <1>5, <1>6, <1>7, <1>8, <1>9 DEF CampaignInv

\* What the domains of the sequences are.
LEMMA DomainFacts ==
  ASSUME CampaignTypes
  PROVE  /\ Len(runs) \in Nat /\ RunIds = 1 .. Len(runs) /\ \A id \in RunIds : runs[id] \in RunRecords
         /\ Len(results) \in Nat /\ DOMAIN results = 1 .. Len(results) /\ \A r \in DOMAIN results : results[r] \in Reports
  <1>1. runs \in Seq(RunRecords) /\ results \in Seq(Reports)
    BY DEF CampaignTypes
  <1> QED BY <1>1, LenProperties, ElementOfSeq DEF RunIds

\* A step of a worker: it writes a status, or adds a report, and the plan of
\* the runner and the strategies stand.
LEMMA PlanStands ==
  ASSUME CampaignInv, runner.at # "plan", Same(runs, runs'), UNCHANGED <<strategies, runner>>,
         results' = results \/ \E e \in Reports : results' = Append(results, e)
  PROVE  RowsInv' /\ ReportedInv' /\ RunnerOK(runner)' /\ CountInv'
  <1>t. CampaignTypes /\ runs \in Seq(RunRecords) /\ results \in Seq(Reports)
    BY DEF CampaignInv, CampaignTypes
  <1>1. Len(runs) \in Nat /\ RunIds = 1 .. Len(runs) /\ RunIds' = 1 .. Len(runs)
    BY <1>t, DomainFacts, LenProperties DEF RunIds, Same
  <1>2. \A id \in RunIds : /\ runs'[id].mode = runs[id].mode /\ runs'[id].label = runs[id].label
                           /\ runs'[id].strategy = runs[id].strategy /\ runs'[id].idx = runs[id].idx
                           /\ KeyOf(runs'[id]) = KeyOf(runs[id])
    BY <1>1 DEF Same, KeyOf
  <1>3. \A l, id : Newest(runs, l, id) => Newest(runs', l, id)
    BY <1>t, NewestKept
  <1>4. \A id, r : First(results, id, r) => First(results', id, r) /\ r \in DOMAIN results' /\ results'[r] = results[r]
    <2>1. CASE results' = results
      BY <2>1 DEF First
    <2>2. ASSUME NEW e \in Reports, results' = Append(results, e),
                 NEW id, NEW r, First(results, id, r)
          PROVE  First(results', id, r) /\ r \in DOMAIN results' /\ results'[r] = results[r]
      BY <1>t, <2>2, FirstKept DEF First
    <2> QED BY <2>1, <2>2
  <1>5. RowsInv'
    <2>1. RowsInv
      BY DEF CampaignInv
    <2>2. \A id \in RunIds' : runs'[id].mode = "oos" =>
           /\ KeyOf(runs'[id]) \in Keys /\ runs'[id].strategy = <<runs'[id].label, runs'[id].idx>>
           /\ runs'[id].strategy \in DOMAIN strategies'
      BY <1>1, <1>2, <2>1 DEF RowsInv
    <2>4. \A id \in RunIds' : runs'[id].mode = "discovery" => runs'[id].label \in Labels
      BY <1>1, <1>2, <2>1 DEF RowsInv
    <2>3. \A a, b \in RunIds' : runs'[a].mode = "oos" /\ runs'[b].mode = "oos" /\ KeyOf(runs'[a]) = KeyOf(runs'[b]) => a = b
      BY <1>1, <1>2, <2>1 DEF RowsInv
    <2> QED BY <2>2, <2>3, <2>4 DEF RowsInv
  <1>6. ReportedInv'
    <2> SUFFICES ASSUME NEW s \in DOMAIN strategies
                 PROVE  \E id \in RunIds', r \in DOMAIN results' :
                          /\ Newest(runs', s[1], id) /\ First(results', id, r)
                          /\ s[2] <= Len(results'[r].tops) /\ strategies'[s] = results'[r].tops[s[2]]
      BY DEF ReportedInv
    <2>1. PICK id \in RunIds, r \in DOMAIN results :
            /\ Newest(runs, s[1], id) /\ First(results, id, r)
            /\ s[2] <= Len(results[r].tops) /\ strategies[s] = results[r].tops[s[2]]
      BY DEF CampaignInv, ReportedInv
    <2>2. Newest(runs', s[1], id) /\ First(results', id, r) /\ r \in DOMAIN results' /\ results'[r] = results[r]
      BY <1>3, <1>4, <2>1
    <2> QED BY <1>1, <2>1, <2>2
  <1>7. RunnerOK(runner)'
    <2>0. RunnerOK(runner)
      BY DEF CampaignInv
    <2>1. runner.at # "idle" => KnowsRows(runner)'
      <3> SUFFICES ASSUME KnowsRows(runner) PROVE KnowsRows(runner)'
        BY <2>0 DEF RunnerOK
      <3>1. \A l \in DOMAIN runner.disc : Newest(runs', l, runner.disc[l])
        BY <1>3 DEF KnowsRows
      <3>2. \A id \in RunIds' : runs'[id].mode = "oos" => \E e \in DOMAIN runner.oos : runner.oos[e].key = KeyOf(runs'[id])
        BY <1>1, <1>2 DEF KnowsRows
      <3> QED BY <3>1, <3>2 DEF KnowsRows
    <2>2. runner.at = "champions" => Ranked(runner)'
      <3> SUFFICES ASSUME Ranked(runner) PROVE Ranked(runner)'
        BY <2>0 DEF RunnerOK
      <3>1. PICK r \in DOMAIN results :
              /\ First(results, runner.disc[runner.train[runner.i]], r) /\ Len(runner.champs) <= Len(results[r].tops)
              /\ \A n \in DOMAIN runner.champs : runner.champs[n] = results[r].tops[n]
        BY DEF Ranked
      <3>2. First(results', runner.disc[runner.train[runner.i]], r) /\ r \in DOMAIN results' /\ results'[r] = results[r]
        BY <1>4, <3>1
      <3> QED BY <3>1, <3>2 DEF Ranked
    <2> QED BY <1>1, <2>0, <2>1, <2>2 DEF RunnerOK
  <1>8. CountInv'
    <2>1. OfMode(runs', "discovery") = OfMode(runs, "discovery") /\ OfMode(runs', "validation") = OfMode(runs, "validation")
      BY <1>1, <1>2 DEF OfMode, RunIds
    <2> QED BY <2>1 DEF CampaignInv, CountInv
  <1> QED BY <1>5, <1>6, <1>7, <1>8

\* A step of the runner that writes nothing: it must have a plan that holds,
\* and may have started a worker for one of its rows, or seen one out.
LEMMA RunnerMoves ==
  ASSUME CampaignInv, NEW r \in RunnerRecords, runner' = r, RunnerOK(r), UNCHANGED <<runs, results, strategies>>,
         workers' \in [Procs -> WorkerRecords], r.at = "plan" => UNCHANGED workers,
         \A p \in Procs : \/ workers'[p] = workers[p] \/ workers'[p].pc = "free"
                          \/ workers'[p].pc = "boot" /\ workers'[p].run \in RunIds
  PROVE  CampaignInv'
  <1>1. RunIds' = RunIds
    BY DEF RunIds
  <1>2. CampaignTypes'
    BY <1>1 DEF CampaignInv, CampaignTypes
  <1>3. ResultInv'
    BY <1>1 DEF CampaignInv, ResultInv, CompletedHasResult
  <1>4. RowsInv' /\ ReportedInv' /\ CountInv'
    BY <1>1 DEF CampaignInv, RowsInv, ReportedInv, CountInv
  <1>5. RunnerOK(runner)'
    <2>1. KnowsRows(r) => KnowsRows(runner)'
      BY <1>1 DEF KnowsRows
    <2>2. Planning(r) /\ r.at = "plan" => Planning(runner)'
      BY <1>1 DEF Planning
    <2>3. Ranked(r) => Ranked(runner)'
      BY DEF Ranked
    <2> QED BY <1>1, <2>1, <2>2, <2>3 DEF RunnerOK
  <1> QED BY <1>2, <1>3, <1>4, <1>5 DEF CampaignInv

-----------------------------------------------------------------------------
(* The workers. *)

\* A worker that does not write.
LEMMA Unwritten ==
  ASSUME CampaignInv, UNCHANGED <<runs, results, strategies, runner>>, workers' \in [Procs -> WorkerRecords],
         runner.at # "plan",
         \A p \in Procs : \/ workers'[p] = workers[p] \/ workers'[p].pc = "free"
                          \/ workers'[p].pc \in {"work", "ended"} /\ workers'[p].run \in RunIds
  PROVE  CampaignInv'
  <1>1. RunIds' = RunIds
    BY DEF RunIds
  <1>2. CampaignTypes'
    BY <1>1 DEF CampaignInv, CampaignTypes
  <1>3. ResultInv'
    BY <1>1 DEF CampaignInv, ResultInv, CompletedHasResult
  <1>4. RowsInv' /\ ReportedInv' /\ CountInv'
    BY <1>1 DEF CampaignInv, RowsInv, ReportedInv, CountInv
  <1>5. RunnerOK(runner)'
    <2>1. KnowsRows(runner) => KnowsRows(runner)'
      BY <1>1 DEF KnowsRows
    <2>2. Ranked(runner) => Ranked(runner)'
      BY DEF Ranked
    <2> QED BY <1>1, <2>1, <2>2 DEF RunnerOK, CampaignInv
  <1> QED BY <1>2, <1>3, <1>4, <1>5 DEF CampaignInv

\* A worker is about a row that is there; none lives while the rows are planned.
LEMMA WorkerFacts ==
  ASSUME CampaignInv, NEW p \in Procs, workers[p].pc # "free"
  PROVE  /\ workers \in [Procs -> WorkerRecords] /\ workers[p] \in WorkerRecords /\ workers[p].run \in RunIds
         /\ runner.at # "plan"
  BY DEF CampaignInv, CampaignTypes, RunnerOK, Planning

\* A worker that writes a status of its run: completed only when it has saved.
LEMMA StatusStep ==
  ASSUME CampaignInv, NEW p \in Procs, workers[p].pc # "free", NEW s \in {"running", "completed", "failed"},
         NEW w \in WorkerRecords, w.pc \in {"work", "told", "ended"}, w.pc = "told" => workers[p].pc = "saved", w.run = workers[p].run, workers' = [workers EXCEPT ![p] = w],
         runs' = SetStatus(workers[p].run, s), UNCHANGED <<results, strategies, runner>>,
         s = "completed" => workers[p].pc \in {"saved", "told"}
  PROVE  CampaignInv'
  <1> DEFINE id == workers[p].run
  <1>t. CampaignTypes /\ runs \in Seq(RunRecords) /\ ResultInv
    BY DEF CampaignInv, CampaignTypes
  <1>w. workers \in [Procs -> WorkerRecords] /\ id \in RunIds /\ runner.at # "plan"
    BY WorkerFacts
  <1>1. /\ Same(runs, runs') /\ runs'[id].status = s
        /\ \A o \in RunIds : o # id => runs'[o] = runs[o]
    <2>1. s \in {"pending", "running", "completed", "failed"}
      OBVIOUS
    <2> QED BY <1>t, <1>w, <2>1, StatusOnly
  <1>2. RunIds' = RunIds
    <2>1. runs' \in Seq(RunRecords) /\ Len(runs') = Len(runs)
      BY <1>1 DEF Same
    <2>2. DOMAIN runs' = 1 .. Len(runs)
      BY <2>1, LenProperties
    <2> QED BY <1>t, <2>2, DomainFacts DEF RunIds
  <1>3. /\ workers' \in [Procs -> WorkerRecords] /\ workers'[p] = w
        /\ \A q \in Procs : q # p => workers'[q] = workers[q]
    BY <1>w
  <1> HIDE DEF id
  <1>4. CampaignTypes'
    <2>1. \A q \in Procs : workers'[q].pc # "free" => workers'[q].run \in RunIds
      BY <1>t, <1>w, <1>3 DEF CampaignTypes, id
    <2>2. runs' \in Seq(RunRecords)
      BY <1>1 DEF Same
    <2> QED BY <1>t, <1>2, <1>3, <2>1, <2>2 DEF CampaignTypes
  <1>5. ResultInv'
    <2>1. \A o \in RunIds : runs'[o].status = "completed" => \E r \in DOMAIN results : results[r].run = o
      <3>1. s = "completed" => \E r \in DOMAIN results : results[r].run = id
        BY <1>t DEF ResultInv, id
      <3>2. \A o \in RunIds : runs[o].status = "completed" => \E r \in DOMAIN results : results[r].run = o
        BY <1>t DEF ResultInv, CompletedHasResult
      <3> QED BY <1>1, <3>1, <3>2
    <2>2. \A q \in Procs : workers'[q].pc \in {"saved", "told"} => \E r \in DOMAIN results : results[r].run = workers'[q].run
      BY <1>t, <1>3 DEF ResultInv
    <2> QED BY <1>2, <2>1, <2>2 DEF ResultInv, CompletedHasResult
  <1>6. RowsInv' /\ ReportedInv' /\ RunnerOK(runner)' /\ CountInv'
    BY <1>1, <1>w, PlanStands
  <1> QED BY <1>4, <1>5, <1>6 DEF CampaignInv

\* A worker that adds a report.
LEMMA SaveStep == \A p \in Procs, tops \in Tops, t \in BOOLEAN : CampaignInv /\ Save(p, tops, t) => CampaignInv'
  <1> SUFFICES ASSUME NEW p \in Procs, NEW tops \in Tops, NEW t \in BOOLEAN, CampaignInv, Save(p, tops, t)
               PROVE  CampaignInv'
    OBVIOUS
  <1> DEFINE e == [run |-> workers[p].run, tops |-> tops]
             w == [workers[p] EXCEPT !.pc = "saved", !.trades = t]
  <1>0. workers[p].pc = "work" /\ results' = Append(results, e) /\ UNCHANGED <<runs, strategies, runner>>
    BY DEF Save
  <1>t. CampaignTypes /\ ResultInv /\ runs \in Seq(RunRecords) /\ results \in Seq(Reports)
    BY DEF CampaignInv, CampaignTypes
  <1>w. /\ workers \in [Procs -> WorkerRecords] /\ workers[p] \in WorkerRecords /\ workers[p].run \in RunIds
        /\ runner.at # "plan"
    BY <1>0, WorkerFacts
  <1>1. workers' = [workers EXCEPT ![p] = w]
    BY <1>w DEF Save
  <1>2. w \in WorkerRecords /\ w.pc = "saved" /\ w.run = workers[p].run
    BY <1>w DEF WorkerRecords
  <1>3. e \in Reports /\ e.run = workers[p].run
    <2>1. workers[p].run \in Nat
      BY <1>t, <1>w, DomainFacts
    <2> QED BY <2>1 DEF Reports
  <1> HIDE DEF w, e
  <1>4. /\ Len(results) \in Nat /\ DOMAIN results = 1 .. Len(results) /\ DOMAIN results' = 1 .. Len(results) + 1
        /\ results' \in Seq(Reports) /\ results'[Len(results) + 1] = e
        /\ \A r \in 1 .. Len(results) : results'[r] = results[r]
    <2>1. /\ Append(results, e) \in Seq(Reports) /\ Len(Append(results, e)) = Len(results) + 1
          /\ \A r \in 1 .. Len(results) : Append(results, e)[r] = results[r]
          /\ Append(results, e)[Len(results) + 1] = e
      BY <1>t, <1>3, AppendProperties
    <2>2. DOMAIN Append(results, e) = 1 .. Len(results) + 1
      BY <2>1, LenProperties
    <2> QED BY <1>0, <1>t, <2>1, <2>2, DomainFacts
  <1>5. RunIds' = RunIds
    BY <1>0 DEF RunIds
  <1>6. /\ workers' \in [Procs -> WorkerRecords] /\ workers'[p] = w
        /\ \A q \in Procs : q # p => workers'[q] = workers[q]
    BY <1>w, <1>1, <1>2
  <1>7. CampaignTypes'
    <2>1. \A q \in Procs : workers'[q].pc # "free" => workers'[q].run \in RunIds
      BY <1>t, <1>w, <1>2, <1>6 DEF CampaignTypes
    <2>2. \A r \in DOMAIN results' : results'[r].run \in RunIds
      <3>1. \A r \in 1 .. Len(results) : results[r].run \in RunIds
        BY <1>t, <1>4 DEF CampaignTypes
      <3>2. \A r \in DOMAIN results' : r \in 1 .. Len(results) \/ r = Len(results) + 1
        BY <1>4
      <3> QED BY <1>3, <1>4, <1>w, <3>1, <3>2
    <2> QED BY <1>0, <1>t, <1>4, <1>5, <1>6, <2>1, <2>2 DEF CampaignTypes
  <1>8. ResultInv'
    <2>1. \A id : (\E r \in DOMAIN results : results[r].run = id) => \E r \in DOMAIN results' : results'[r].run = id
      BY <1>4
    <2>2. \E r \in DOMAIN results' : results'[r].run = workers[p].run
      <3>1. Len(results) + 1 \in DOMAIN results'
        BY <1>4
      <3> QED BY <1>3, <1>4, <3>1
    <2>3. \A o \in RunIds : runs'[o].status = "completed" => \E r \in DOMAIN results' : results'[r].run = o
      BY <1>0, <1>t, <2>1 DEF ResultInv, CompletedHasResult
    <2>4. \A q \in Procs : workers'[q].pc \in {"saved", "told"} => \E r \in DOMAIN results' : results'[r].run = workers'[q].run
      <3>1. \A q \in Procs : workers[q].pc \in {"saved", "told"} => \E r \in DOMAIN results' : results'[r].run = workers[q].run
        <4>1. \A q \in Procs : workers[q].pc \in {"saved", "told"} => \E r \in DOMAIN results : results[r].run = workers[q].run
          BY <1>t DEF ResultInv
        <4> QED BY <2>1, <4>1
      <3>2. \E r \in DOMAIN results' : results'[r].run = workers'[p].run
        BY <1>2, <1>6, <2>2
      <3> QED BY <1>6, <3>1, <3>2
    <2> QED BY <1>5, <2>3, <2>4 DEF ResultInv, CompletedHasResult
  <1>9. RowsInv' /\ ReportedInv' /\ RunnerOK(runner)' /\ CountInv'
    <2>1. Same(runs, runs')
      BY <1>0, <1>t DEF Same
    <2> QED BY <1>0, <1>3, <1>w, <2>1, PlanStands
  <1> QED BY <1>7, <1>8, <1>9 DEF CampaignInv

\* Every other step of a worker.
LEMMA WorkerStep ==
  \A p \in Procs : CampaignInv /\ (Begin(p) \/ Refuse(p) \/ Tell(p) \/ Finish(p) \/ Fail(p) \/ Die(p) \/ Gone(p)) => CampaignInv'
  <1> SUFFICES ASSUME NEW p \in Procs, CampaignInv, Begin(p) \/ Refuse(p) \/ Tell(p) \/ Finish(p) \/ Fail(p) \/ Die(p) \/ Gone(p)
               PROVE  CampaignInv'
    OBVIOUS
  <1>0. workers[p].pc # "free" /\ UNCHANGED <<results, strategies, runner>>
    BY DEF Begin, Refuse, Tell, Finish, Fail, Die, Gone
  <1>w. /\ workers \in [Procs -> WorkerRecords] /\ workers[p] \in WorkerRecords /\ workers[p].run \in RunIds
        /\ runner.at # "plan"
    BY <1>0, WorkerFacts
  <1> DEFINE w(pc, rc) == [workers[p] EXCEPT !.pc = pc, !.rc = rc]
  <1>1. \A pc, rc : Becomes(p, pc, rc) => workers' = [workers EXCEPT ![p] = w(pc, rc)]
    BY <1>w DEF Becomes
  <1>2. \A pc \in {"work", "told", "ended"}, rc \in Int :
          /\ w(pc, rc) \in WorkerRecords /\ w(pc, rc).pc = pc /\ w(pc, rc).run = workers[p].run
    BY <1>w DEF WorkerRecords
  <1> HIDE DEF w
  <1>3. ASSUME NEW pc \in {"work", "ended"}, NEW rc \in Int, Becomes(p, pc, rc), UNCHANGED runs PROVE CampaignInv'
    <2>1. /\ workers' \in [Procs -> WorkerRecords] /\ workers'[p] = w(pc, rc)
          /\ \A q \in Procs : q # p => workers'[q] = workers[q]
      BY <1>w, <1>1, <1>2, <1>3
    <2>2. \A q \in Procs : \/ workers'[q] = workers[q]
                           \/ workers'[q].pc \in {"work", "ended"} /\ workers'[q].run \in RunIds
      BY <1>w, <1>2, <2>1
    <2> QED BY <1>0, <1>3, <1>w, <2>1, <2>2, Unwritten
  <1>4. ASSUME NEW pc \in {"work", "told", "ended"}, NEW rc \in Int, Becomes(p, pc, rc),
               pc = "told" => workers[p].pc = "saved",
               NEW s \in {"running", "completed", "failed"}, runs' = SetStatus(workers[p].run, s),
               s = "completed" => workers[p].pc \in {"saved", "told"}
        PROVE  CampaignInv'
    BY <1>0, <1>1, <1>2, <1>4, StatusStep
  <1>5. CASE Begin(p)
    <2>1. Becomes(p, "work", 0)
      BY <1>5 DEF Begin
    <2>2. UNCHANGED runs \/ runs' = SetStatus(workers[p].run, "running")
      BY <1>5 DEF Begin
    <2> QED BY <1>3, <1>4, <2>1, <2>2
  <1>6. CASE Refuse(p)
    <2>1. Becomes(p, "ended", 1) /\ (UNCHANGED runs \/ runs' = SetStatus(workers[p].run, "failed"))
      BY <1>6 DEF Refuse
    <2> QED BY <1>3, <1>4, <2>1
  <1>7. CASE Finish(p)
    <2>1. Becomes(p, "ended", 0) /\ workers[p].pc = "told" /\ runs' = SetStatus(workers[p].run, "completed")
      BY <1>7 DEF Finish
    <2> QED BY <1>4, <2>1
  <1>11. CASE Tell(p)
    <2>1. Becomes(p, "told", 0) /\ workers[p].pc = "saved" /\ runs' = SetStatus(workers[p].run, FirstStatus(p))
      BY <1>11 DEF Tell
    <2>2. FirstStatus(p) \in {"running", "completed", "failed"}
      BY DEF FirstStatus
    <2> QED BY <1>4, <2>1, <2>2
  <1>8. CASE Fail(p)
    <2>1. Becomes(p, "ended", 1) /\ runs' = SetStatus(workers[p].run, "failed")
      BY <1>8 DEF Fail
    <2> QED BY <1>4, <2>1
  <1>9. CASE Die(p)
    <2>1. Becomes(p, "ended", -9) /\ UNCHANGED runs /\ -9 \in Int
      BY <1>9 DEF Die
    <2> QED BY <1>3, <2>1
  <1>10. CASE Gone(p)
    <2>1. workers' = [workers EXCEPT ![p] = NoWorker] /\ UNCHANGED runs
      BY <1>10 DEF Gone
    <2>2. NoWorker \in WorkerRecords /\ NoWorker.pc = "free"
      BY DEF NoWorker, WorkerRecords
    <2>3. /\ workers' \in [Procs -> WorkerRecords]
          /\ \A q \in Procs : workers'[q] = workers[q] \/ workers'[q].pc = "free"
      BY <1>w, <2>1, <2>2
    <2> QED BY <1>0, <1>w, <2>1, <2>3, Unwritten
  <1> QED BY <1>5, <1>6, <1>7, <1>8, <1>9, <1>10, <1>11

-----------------------------------------------------------------------------
(* Commands. *)

\* What Cmd_plan starts with.
LEMMA CmdPlanStep == \A b \in BOOLEAN : CampaignInv /\ CmdPlan(b) => CampaignInv'
  <1> SUFFICES ASSUME NEW b \in BOOLEAN, CampaignInv, CmdPlan(b) PROVE CampaignInv'
    OBVIOUS
  <1> DEFINE r == [Idle EXCEPT !.at = "plan", !.go = b, !.topK = TopK, !.train = Train, !.windows = Oos]
  <1>0. runs = << >> /\ runner' = r /\ UNCHANGED <<runs, results, strategies, workers>>
    BY DEF CmdPlan, Start
  <1>1. /\ r \in RunnerRecords /\ r.at = "plan" /\ r.train = Train /\ r.oos = << >> /\ r.disc = EMPTY
        /\ r.i = 1 /\ r.child = NoProc
    <2>1. /\ << >> \in Seq(Planned) /\ << >> \in Seq(Dsls) /\ 1 \in Nat \ {0} /\ 0 \in Nat
          /\ TopK \in Nat /\ "plan" \in Phases
      BY ConfigAssumption DEF Phases
    <2>2. EMPTY \in Discoveries
      BY IdleFacts
    <2>3. Train \in Seq(Labels) /\ Oos \in Seq(Windows)
      BY ConfigAssumption DEF Labels, Windows
    <2> QED BY <2>1, <2>2, <2>3 DEF Idle, RunnerRecords
  <1> HIDE DEF r
  <1>2. RunIds = {}
    BY <1>0 DEF RunIds
  <1>3. DOMAIN strategies = {} /\ results = << >> /\ \A p \in Procs : workers[p].pc = "free"
    <2>1. DOMAIN strategies = {}
      BY <1>2 DEF CampaignInv, ReportedInv
    <2>2. DOMAIN results = {} /\ results \in Seq(Reports)
      BY <1>2 DEF CampaignInv, CampaignTypes
    <2>3. Len(results) = 0
      BY <2>2, LenProperties
    <2>4. \A q \in Seq(Reports) : Len(q) = 0 => q = << >>
      OBVIOUS
    <2> QED BY <1>2, <2>1, <2>2, <2>3, <2>4 DEF CampaignInv, CampaignTypes
  <1>4. KnowsRows(r)
    BY <1>1, <1>2, LenProperties, ConfigAssumption DEF KnowsRows, EMPTY
  <1>5. Planning(r)
    <2>1. Len(runs) = 0 /\ Len(Train) \in Nat
      BY <1>0, ConfigAssumption
    <2> QED BY <1>1, <1>2, <1>3, <2>1 DEF Planning
  <1>6. RunnerOK(r)
    BY <1>1, <1>4, <1>5 DEF RunnerOK
  <1>7. workers' \in [Procs -> WorkerRecords]
    BY <1>0 DEF CampaignInv, CampaignTypes
  <1> QED BY <1>0, <1>1, <1>6, <1>7, RunnerMoves

\* The values of a field in the rows of a mode are read off those rows.
LEMMA InOrder ==
  ASSUME CampaignTypes, NEW mode, NEW field, NEW V,
         \A id \in RunIds : runs[id].mode = mode => runs[id][field] \in V
  PROVE  /\ LabelsInOrder(mode, field) \in Seq(V)
         /\ \A m \in DOMAIN LabelsInOrder(mode, field) :
              \E id \in RunIds : runs[id].mode = mode /\ runs[id][field] = LabelsInOrder(mode, field)[m]
  <1> DEFINE rows == {id \in RunIds : runs[id].mode = mode}
             firsts == {id \in rows : \A o \in rows : runs[o][field] = runs[id][field] => id <= o}
             Nth(m) == CHOOSE id \in firsts : Cardinality({o \in firsts : o <= id}) = m
             f == [m \in 1 .. Cardinality(firsts) |-> runs[Nth(m)][field]]
  <1>1. firsts \in SUBSET (1 .. Len(runs)) /\ Len(runs) \in Nat
    BY DomainFacts
  <1>2. \A id \in firsts : id \in RunIds /\ runs[id].mode = mode
    OBVIOUS
  <1>3. LabelsInOrder(mode, field) = f
    BY DEF LabelsInOrder
  <1> HIDE DEF firsts
  <1>4. Cardinality(firsts) \in Nat /\ \A m \in 1 .. Cardinality(firsts) : Nth(m) \in firsts
    <2>1. /\ Cardinality(firsts) \in Nat
          /\ \A m \in 1 .. Cardinality(firsts) : \E id \in firsts : Cardinality({o \in firsts : o <= id}) = m
      BY <1>1, RankFacts DEF Below
    <2> QED BY <2>1
  <1> HIDE DEF Nth
  <1>5. \A m \in 1 .. Cardinality(firsts) : f[m] = runs[Nth(m)][field] /\ f[m] \in V
    BY <1>2, <1>4
  <1>6. f \in [1 .. Cardinality(firsts) -> V] /\ DOMAIN f = 1 .. Cardinality(firsts)
    BY <1>5
  <1>7. f \in Seq(V)
    BY <1>4, <1>6, SeqDef
  <1>8. \A m \in DOMAIN f : \E id \in RunIds : runs[id].mode = mode /\ runs[id][field] = f[m]
    BY <1>2, <1>4, <1>5, <1>6
  <1> HIDE DEF f
  <1> QED BY <1>3, <1>7, <1>8

\* All validations that have rows are in a plan that is loaded.
LEMMA OosRowsFacts ==
  ASSUME CampaignTypes, RowsInv
  PROVE  /\ OosRows \in Seq(Planned) /\ \A e \in DOMAIN OosRows : OosRows[e].id \in RunIds
         /\ \A id \in RunIds : runs[id].mode = "oos" => \E e \in DOMAIN OosRows : OosRows[e].key = KeyOf(runs[id])
  <1> DEFINE ids == {id \in RunIds : runs[id].mode = "oos"}
             Nth(m) == CHOOSE id \in ids : Cardinality({o \in ids : o <= id}) = m
             f == [m \in 1 .. Cardinality(ids) |-> [key |-> KeyOf(runs[Nth(m)]), id |-> Nth(m)]]
  <1>1. ids \in SUBSET (1 .. Len(runs)) /\ Len(runs) \in Nat
    BY DomainFacts
  <1>2. \A id \in ids : id \in RunIds /\ id \in Nat /\ KeyOf(runs[id]) \in Keys
    BY DomainFacts DEF RowsInv
  <1>3. OosRows = f
    BY DEF OosRows
  <1>i. \A id \in RunIds : runs[id].mode = "oos" => id \in ids
    OBVIOUS
  <1> HIDE DEF ids
  <1>4. /\ Cardinality(ids) \in Nat
        /\ \A id \in ids : Cardinality({o \in ids : o <= id}) \in 1 .. Cardinality(ids)
        /\ \A a, b \in ids : Cardinality({o \in ids : o <= a}) = Cardinality({o \in ids : o <= b}) => a = b
        /\ \A m \in 1 .. Cardinality(ids) : \E id \in ids : Cardinality({o \in ids : o <= id}) = m
    BY <1>1, RankFacts DEF Below
  <1>5. \A m \in 1 .. Cardinality(ids) : Nth(m) \in ids /\ Cardinality({o \in ids : o <= Nth(m)}) = m
    BY <1>4
  <1> HIDE DEF Nth
  <1>6. /\ DOMAIN f = 1 .. Cardinality(ids)
        /\ \A m \in 1 .. Cardinality(ids) : f[m] = [key |-> KeyOf(runs[Nth(m)]), id |-> Nth(m)]
    <2>1. DOMAIN f = 1 .. Cardinality(ids)
      OBVIOUS
    <2>2. ASSUME NEW m \in 1 .. Cardinality(ids) PROVE f[m] = [key |-> KeyOf(runs[Nth(m)]), id |-> Nth(m)]
      BY Zenon
    <2> QED BY <2>1, <2>2
  <1> HIDE DEF f
  <1>7. \A m \in 1 .. Cardinality(ids) : f[m] \in Planned /\ f[m].id \in RunIds /\ f[m].key = KeyOf(runs[Nth(m)])
    <2> SUFFICES ASSUME NEW m \in 1 .. Cardinality(ids)
                 PROVE  f[m] \in Planned /\ f[m].id \in RunIds /\ f[m].key = KeyOf(runs[Nth(m)])
      BY Zenon
    <2>1. Nth(m) \in RunIds /\ Nth(m) \in Nat /\ KeyOf(runs[Nth(m)]) \in Keys
      BY <1>2, <1>5
    <2>2. f[m] = [key |-> KeyOf(runs[Nth(m)]), id |-> Nth(m)]
      BY <1>6, Zenon
    <2> QED BY <2>1, <2>2 DEF Planned
  <1>8. f \in Seq(Planned)
    <2>1. f \in [1 .. Cardinality(ids) -> Planned]
      BY <1>6, <1>7 DEF f
    <2> QED BY <1>4, <2>1, SeqDef
  <1>9. ASSUME NEW id \in ids PROVE \E e \in DOMAIN f : f[e].key = KeyOf(runs[id])
    <2> DEFINE m == Cardinality({o \in ids : o <= id})
    <2>1. m \in 1 .. Cardinality(ids) /\ Nth(m) = id
      BY <1>4, <1>5
    <2> HIDE DEF m
    <2> QED BY <1>6, <1>7, <2>1
  <1> QED BY <1>3, <1>6, <1>7, <1>8, <1>9, <1>i

\* load_plan and run_campaign: the plan that is read back knows all rows.
LEMMA CmdRunStep == \A b \in BOOLEAN : CampaignInv /\ CmdRun(b) => CampaignInv'
  <1> SUFFICES ASSUME NEW b \in BOOLEAN, CampaignInv, CmdRun(b) PROVE CampaignInv'
    OBVIOUS
  <1> DEFINE train == LabelsInOrder("discovery", "label")
             windows == LabelsInOrder("oos", "oos")
             disc == [l \in {train[m] : m \in DOMAIN train} |-> NewestRow(l)]
             r == [LoadPlan EXCEPT !.at = "discover", !.go = TRUE, !.force = b]
  <1>0. runner' = r /\ UNCHANGED <<runs, results, strategies, workers>>
    BY DEF CmdRun, Start
  <1>t. CampaignTypes /\ RowsInv /\ runs \in Seq(RunRecords)
    BY DEF CampaignInv, CampaignTypes
  <1>1. /\ train \in Seq(Labels)
        /\ \A m \in DOMAIN train : \E id \in RunIds : runs[id].mode = "discovery" /\ runs[id].label = train[m]
    <2>1. \A id \in RunIds : runs[id].mode = "discovery" => runs[id]["label"] \in Labels
      BY <1>t DEF RowsInv
    <2> QED BY <1>t, <2>1, InOrder
  <1>2. windows \in Seq(Windows)
    <2>1. \A id \in RunIds : runs[id].mode = "oos" => runs[id]["oos"] \in Windows
      BY <1>t DEF RowsInv, KeyOf, Keys
    <2> QED BY <1>t, <2>1, InOrder
  <1>3. LoadPlan = [Idle EXCEPT !.topK = LoadedTopK, !.train = train, !.windows = windows, !.disc = disc, !.oos = OosRows]
    BY DEF LoadPlan
  <1> HIDE DEF train, windows
  <1>4. \A m \in DOMAIN train : Newest(runs, train[m], NewestRow(train[m])) /\ NewestRow(train[m]) \in Nat
    <2> SUFFICES ASSUME NEW m \in DOMAIN train
                 PROVE  Newest(runs, train[m], NewestRow(train[m])) /\ NewestRow(train[m]) \in Nat
      OBVIOUS
    <2> DEFINE l == train[m]
    <2>1. \E id \in RunIds : Newest(runs, l, id)
      BY <1>1, <1>t, NewestFacts DEF RunIds
    <2> HIDE DEF l
    <2>2. NewestRow(l) \in RunIds /\ Newest(runs, l, NewestRow(l))
      <3>1. NewestRow(l) = CHOOSE id \in RunIds : Newest(runs, l, id)
        BY DEF NewestRow, Newest, RunIds
      <3> QED BY <2>1, <3>1
    <2> QED BY <1>t, <2>2, DomainFacts DEF l
  <1>5. /\ \A l \in DOMAIN disc : Newest(runs, l, disc[l])
        /\ \A m \in DOMAIN train : train[m] \in DOMAIN disc
    BY <1>4
  <1>6. disc \in Discoveries
    <2>1. {train[m] : m \in DOMAIN train} \in SUBSET Labels
      BY <1>1, LenProperties, ElementOfSeq
    <2>2. disc \in [{train[m] : m \in DOMAIN train} -> Nat]
      BY <1>4
    <2> HIDE DEF disc
    <2> QED BY <2>1, <2>2 DEF Discoveries
  <1> HIDE DEF disc
  <1>7. /\ r \in RunnerRecords /\ r.at = "discover" /\ r.child = NoProc /\ r.train = train /\ r.disc = disc
        /\ r.oos = OosRows
    <2>1. /\ << >> \in Seq(Dsls) /\ 1 \in Nat \ {0} /\ 0 \in Nat /\ LoadedTopK \in Nat /\ "discover" \in Phases
      BY ConfigAssumption DEF Phases
    <2>2. OosRows \in Seq(Planned)
      BY <1>t, OosRowsFacts
    <2> QED BY <1>1, <1>2, <1>3, <1>6, <2>1, <2>2 DEF Idle, RunnerRecords
  <1> HIDE DEF r
  <1>8. KnowsRows(r)
    BY <1>t, <1>5, <1>7, OosRowsFacts DEF KnowsRows
  <1>9. RunnerOK(r)
    BY <1>t, <1>7, <1>8, OosRowsFacts DEF RunnerOK
  <1>10. workers' \in [Procs -> WorkerRecords]
    BY <1>0, <1>t DEF CampaignTypes
  <1> QED BY <1>0, <1>7, <1>9, <1>10, RunnerMoves

-----------------------------------------------------------------------------
(* The runner. *)

\* Past the planning of the discoveries, a step that keeps the plan.
LEMMA PlanKept ==
  ASSUME CampaignInv, runner.at \notin {"idle", "plan"}, NEW r \in RunnerRecords,
         r.at \in {"discover", "extract", "validate", "done"}, r.child # NoProc => r.at \in {"discover", "validate"},
         r.disc = runner.disc, r.train = runner.train, r.oos = runner.oos
  PROVE  RunnerOK(r)
  <1>1. RunnerOK(runner)
    BY DEF CampaignInv
  <1>2. KnowsRows(r)
    BY <1>1 DEF RunnerOK, KnowsRows
  <1> QED BY <1>1, <1>2 DEF RunnerOK

\* The runner is a record, and a step that leaves the workers alone may write it.
LEMMA RunnerAlone ==
  ASSUME CampaignInv, NEW r \in RunnerRecords, runner' = r, RunnerOK(r), UNCHANGED <<runs, results, strategies, workers>>
  PROVE  CampaignInv'
  <1>1. workers' \in [Procs -> WorkerRecords]
    BY DEF CampaignInv, CampaignTypes
  <1> QED BY <1>1, RunnerMoves

\* A loop ends.
LEMMA PhaseEndsStep == CampaignInv /\ PhaseEnds => CampaignInv'
  <1> SUFFICES ASSUME CampaignInv, PhaseEnds PROVE CampaignInv'
    OBVIOUS
  <1>t. runner \in RunnerRecords /\ RunnerOK(runner) /\ UNCHANGED <<runs, results, strategies, workers>>
    BY DEF CampaignInv, CampaignTypes, PhaseEnds
  <1>1. CASE At("plan") /\ runner.i > Len(runner.train) /\ ~ runner.go /\ runner' = Idle
    <2>1. RunnerOK(Idle)
      BY IdleFacts DEF RunnerOK
    <2> QED BY <1>t, <1>1, <2>1, IdleFacts, RunnerAlone
  <1>2. CASE At("plan") /\ runner.i > Len(runner.train) /\ runner' = [runner EXCEPT !.at = "discover", !.i = 1]
    <2> DEFINE r == [runner EXCEPT !.at = "discover", !.i = 1]
    <2>1. /\ r \in RunnerRecords /\ r.at = "discover" /\ r.disc = runner.disc /\ r.train = runner.train
          /\ r.oos = runner.oos /\ r.child = NoProc
      <3>1. "discover" \in Phases /\ 1 \in Nat \ {0} /\ runner.child = NoProc
        BY <1>2 DEF Phases, At
      <3> QED BY <1>t, <3>1 DEF RunnerRecords
    <2>6. runner' = r
      BY <1>2
    <2> HIDE DEF r
    <2>2. runner.train \in Seq(Labels) /\ runner.i \in Nat
      BY <1>t DEF RunnerRecords
    <2>3. \A m \in DOMAIN runner.train : m < runner.i
      BY <1>2, <2>2, LenProperties
    <2>4. KnowsRows(runner)
      BY <1>t, <1>2 DEF RunnerOK, At
    <2>5. RunnerOK(r)
      BY <1>t, <2>1, <2>3, <2>4 DEF RunnerOK, KnowsRows
    <2> QED BY <1>t, <2>1, <2>5, <2>6, RunnerAlone
  <1>3. ASSUME NEW a \in {"discover", "extract", "validate"}, At(a), NEW b \in {"extract", "validate", "done"},
               NEW n \in Nat \ {0}, runner' = [runner EXCEPT !.at = b, !.i = n]
        PROVE  CampaignInv'
    <2> DEFINE r == [runner EXCEPT !.at = b, !.i = n]
    <2>1. /\ r \in RunnerRecords /\ r.at = b /\ r.disc = runner.disc /\ r.train = runner.train
          /\ r.oos = runner.oos /\ r.child = NoProc
      <3>1. b \in Phases /\ runner.child = NoProc
        BY <1>3 DEF Phases, At
      <3> QED BY <1>t, <3>1 DEF RunnerRecords
    <2>4. runner' = r
      BY <1>3
    <2> HIDE DEF r
    <2>2. runner.at \notin {"idle", "plan"}
      BY <1>3 DEF At
    <2>3. RunnerOK(r)
      BY <2>1, <2>2, PlanKept
    <2> QED BY <1>t, <2>1, <2>3, <2>4, RunnerAlone
  <1>4. CASE At("discover") /\ runner' = [runner EXCEPT !.at = "extract", !.i = 1]
    <2>1. "discover" \in {"discover", "extract", "validate"} /\ "extract" \in {"extract", "validate", "done"} /\ 1 \in Nat \ {0}
      OBVIOUS
    <2> QED BY <1>3, <1>4, <2>1
  <1>5. CASE At("extract") /\ runner' = [runner EXCEPT !.at = "validate", !.i = 1]
    <2>1. "extract" \in {"discover", "extract", "validate"} /\ "validate" \in {"extract", "validate", "done"} /\ 1 \in Nat \ {0}
      OBVIOUS
    <2> QED BY <1>3, <1>5, <2>1
  <1>6. CASE At("validate") /\ runner' = [runner EXCEPT !.at = "done"]
    <2>1. runner' = [runner EXCEPT !.at = "done", !.i = runner.i] /\ runner.i \in Nat \ {0}
      BY <1>t, <1>6 DEF RunnerRecords
    <2> QED BY <1>3, <1>6, <2>1
  <1> QED BY <1>1, <1>2, <1>4, <1>5, <1>6 DEF PhaseEnds

\* The run the loop has come to is a row.
LEMMA DueFacts ==
  ASSUME CampaignInv, AtRun
  PROVE  /\ Due \in RunIds /\ runner.at \in {"discover", "validate"} /\ runner.child = NoProc
         /\ runner \in RunnerRecords /\ RunnerOK(runner)
  <1>t. runner \in RunnerRecords /\ RunnerOK(runner)
    BY DEF CampaignInv, CampaignTypes
  <1>1. runner.train \in Seq(Labels) /\ runner.oos \in Seq(Planned) /\ runner.i \in Nat \ {0}
    BY <1>t DEF RunnerRecords
  <1>2. CASE At("discover") /\ runner.i <= Len(runner.train)
    <2>1. runner.i \in DOMAIN runner.train
      BY <1>1, <1>2, LenProperties
    <2>2. KnowsRows(runner) /\ runner.at = "discover"
      BY <1>t, <1>2 DEF RunnerOK, At
    <2>3. Newest(runs, runner.train[runner.i], runner.disc[runner.train[runner.i]])
      BY <2>1, <2>2 DEF KnowsRows
    <2> QED BY <1>t, <1>2, <2>2, <2>3 DEF Newest, Due, At, RunIds
  <1>3. CASE At("validate") /\ runner.i <= Len(runner.oos)
    <2>1. runner.i \in DOMAIN runner.oos
      BY <1>1, <1>3, LenProperties
    <2>2. runner.oos[runner.i].id \in RunIds
      BY <1>t, <2>1 DEF RunnerOK
    <2> QED BY <1>t, <1>3, <2>2 DEF Due, At
  <1> QED BY <1>2, <1>3 DEF AtRun

\* A free slot takes a new worker, of a row that is there.
LEMMA SpawnFacts ==
  ASSUME workers \in [Procs -> WorkerRecords], Free # {}, NEW id \in Nat, Spawned(id)
  PROVE  /\ workers' \in [Procs -> WorkerRecords] /\ (CHOOSE p \in Free : TRUE) \in Procs
         /\ \A p \in Procs : workers'[p] = workers[p] \/ (workers'[p].pc = "boot" /\ workers'[p].run = id)
  <1> DEFINE q == CHOOSE p \in Free : TRUE
             w == [NoWorker EXCEPT !.pc = "boot", !.run = id]
  <1>1. q \in Procs
    BY DEF Free
  <1>2. w \in WorkerRecords /\ w.pc = "boot" /\ w.run = id
    <2>1. NoWorker \in WorkerRecords
      BY DEF NoWorker, WorkerRecords
    <2> QED BY <2>1 DEF WorkerRecords
  <1>3. workers' = [workers EXCEPT ![q] = w]
    BY DEF Spawned
  <1> HIDE DEF q, w
  <1>4. /\ workers' \in [Procs -> WorkerRecords]
        /\ \A p \in Procs : workers'[p] = workers[p] \/ (workers'[p].pc = "boot" /\ workers'[p].run = id)
    BY <1>1, <1>2, <1>3
  <1> QED BY <1>1, <1>4 DEF q

\* A run is skipped, started, or its worker has ended.
LEMMA RunStep == CampaignInv /\ (Skip \/ Launch \/ Reap) => CampaignInv'
  <1> SUFFICES ASSUME CampaignInv, Skip \/ Launch \/ Reap PROVE CampaignInv'
    OBVIOUS
  <1>t. /\ runner \in RunnerRecords /\ RunnerOK(runner) /\ workers \in [Procs -> WorkerRecords]
        /\ runner.i + 1 \in Nat \ {0} /\ CampaignTypes
    BY DEF CampaignInv, CampaignTypes, RunnerRecords
  <1>u. UNCHANGED <<runs, results, strategies>>
    BY DEF Skip, Launch, Reap
  <1>1. CASE Skip
    <2> DEFINE r == [runner EXCEPT !.i = @ + 1]
    <2>1. /\ r \in RunnerRecords /\ r.at = runner.at /\ r.disc = runner.disc /\ r.train = runner.train
          /\ r.oos = runner.oos /\ r.child = runner.child
      BY <1>t DEF RunnerRecords
    <2>2. runner' = r /\ AtRun /\ UNCHANGED workers
      BY <1>1 DEF Skip
    <2> HIDE DEF r
    <2>3. RunnerOK(r)
      BY <2>1, <2>2, DueFacts, PlanKept
    <2> QED BY <1>u, <2>1, <2>2, <2>3, RunnerAlone
  <1>2. CASE Launch
    <2> DEFINE q == CHOOSE p \in Free : TRUE
               r == [runner EXCEPT !.child = q]
    <2>1. AtRun /\ Free # {} /\ Spawned(Due) /\ runner' = r
      BY <1>2 DEF Launch
    <2>2. Due \in RunIds /\ Due \in Nat
      BY <1>t, <2>1, DueFacts, DomainFacts
    <2>3. /\ workers' \in [Procs -> WorkerRecords] /\ q \in Procs
          /\ \A p \in Procs : workers'[p] = workers[p] \/ (workers'[p].pc = "boot" /\ workers'[p].run = Due)
      BY <1>t, <2>1, <2>2, SpawnFacts
    <2> HIDE DEF q
    <2>4. /\ r \in RunnerRecords /\ r.at = runner.at /\ r.disc = runner.disc /\ r.train = runner.train
          /\ r.oos = runner.oos
      BY <1>t, <2>3 DEF RunnerRecords
    <2> HIDE DEF r
    <2>5. runner.at \in {"discover", "validate"}
      BY <2>1, DueFacts
    <2>6. RunnerOK(r)
      BY <2>4, <2>5, PlanKept
    <2> QED BY <1>u, <2>1, <2>2, <2>3, <2>4, <2>5, <2>6, RunnerMoves
  <1>3. CASE Reap
    <2> DEFINE r == [runner EXCEPT !.child = NoProc, !.i = @ + 1]
    <2>1. runner.child # NoProc /\ workers' = [workers EXCEPT ![runner.child] = NoWorker] /\ runner' = r
      BY <1>3 DEF Reap
    <2>2. /\ r \in RunnerRecords /\ r.at = runner.at /\ r.disc = runner.disc /\ r.train = runner.train
          /\ r.oos = runner.oos /\ r.child = NoProc
      BY <1>t DEF RunnerRecords
    <2> HIDE DEF r
    <2>3. runner.at \in {"discover", "validate"}
      BY <1>t, <2>1 DEF RunnerOK
    <2>4. RunnerOK(r)
      BY <2>2, <2>3, PlanKept
    <2>5. NoWorker \in WorkerRecords /\ NoWorker.pc = "free"
      BY DEF NoWorker, WorkerRecords
    <2>6. /\ workers' \in [Procs -> WorkerRecords]
          /\ \A p \in Procs : workers'[p] = workers[p] \/ workers'[p].pc = "free"
      BY <1>t, <2>1, <2>5
    <2> QED BY <1>u, <2>1, <2>2, <2>3, <2>4, <2>6, RunnerMoves
  <1> QED BY <1>1, <1>2, <1>3

\* The runner is killed.
LEMMA CrashStep == \A b \in BOOLEAN : CampaignInv /\ Crash(b) => CampaignInv'
  <1> SUFFICES ASSUME NEW b \in BOOLEAN, CampaignInv, Crash(b) PROVE CampaignInv'
    OBVIOUS
  <1>1. /\ runner' = Idle /\ UNCHANGED <<runs, results, strategies>>
        /\ workers' = IF b THEN [workers EXCEPT ![runner.child] = NoWorker] ELSE workers
    BY DEF Crash
  <1>2. NoWorker \in WorkerRecords /\ NoWorker.pc = "free"
    BY DEF NoWorker, WorkerRecords
  <1>3. /\ workers' \in [Procs -> WorkerRecords]
        /\ \A p \in Procs : workers'[p] = workers[p] \/ workers'[p].pc = "free"
    BY <1>1, <1>2 DEF CampaignInv, CampaignTypes
  <1>4. RunnerOK(Idle)
    BY IdleFacts DEF RunnerOK
  <1> QED BY <1>1, <1>3, <1>4, IdleFacts, RunnerMoves

\* The champions are the best of the first report that the window's discovery has.
LEMMA NotesFacts ==
  ASSUME CampaignTypes, NEW id, NEW n \in Nat, TopOf(Notes(id), n) # << >>
  PROVE  /\ TopOf(Notes(id), n) \in Seq(Dsls)
         /\ \E r \in DOMAIN results :
              /\ First(results, id, r) /\ Len(TopOf(Notes(id), n)) <= Len(results[r].tops)
              /\ \A i \in DOMAIN TopOf(Notes(id), n) : TopOf(Notes(id), n)[i] = results[r].tops[i]
  <1> DEFINE first == CHOOSE r \in ReportsOf(id) : \A o \in ReportsOf(id) : r <= o
  <1>t. results \in Seq(Reports)
    BY DEF CampaignTypes
  <1>1. ReportsOf(id) # {}
    <2> SUFFICES ASSUME ReportsOf(id) = {} PROVE FALSE
      OBVIOUS
    <2>1. Notes(id) = << >>
      BY DEF Notes
    <2>2. TopOf(<< >>, n) = << >>
      <3>1. Len(<< >>) = 0 /\ (IF Len(<< >>) < n THEN Len(<< >>) ELSE n) = 0
        OBVIOUS
      <3>2. SubSeq(<< >>, 1, 0) = << >>
        BY SubSeqEmpty
      <3> QED BY <3>1, <3>2 DEF TopOf
    <2> QED BY <2>1, <2>2
  <1>2. first \in ReportsOf(id) /\ \A o \in ReportsOf(id) : first <= o
    <2>1. \E r \in DOMAIN results : First(results, id, r)
      BY <1>t, <1>1, FirstFacts DEF ReportsOf
    <2> QED BY <2>1 DEF First, ReportsOf
  <1>3. Notes(id) = results[first].tops
    BY <1>1 DEF Notes
  <1> HIDE DEF first
  <1>4. first \in DOMAIN results /\ First(results, id, first)
    BY <1>2 DEF First, ReportsOf
  <1> DEFINE tops == results[first].tops
             m == IF Len(tops) < n THEN Len(tops) ELSE n
  <1>5. tops \in Seq(Dsls)
    BY <1>4, DomainFacts, TopsAssumption DEF Reports
  <1>6. TopOf(Notes(id), n) = SubSeq(tops, 1, m)
    BY <1>3 DEF TopOf
  <1> HIDE DEF tops
  <1>7. m \in Nat /\ m <= Len(tops) /\ Len(tops) \in Nat
    BY <1>5
  <1> HIDE DEF m
  <1>8. /\ SubSeq(tops, 1, m) \in Seq(Dsls) /\ Len(SubSeq(tops, 1, m)) = m
        /\ \A i \in 1 .. m : SubSeq(tops, 1, m)[i] = tops[i]
    <2>1. \A i \in 1 .. m : tops[i] \in Dsls
      BY <1>5, <1>7
    <2>2. /\ SubSeq(tops, 1, m) \in Seq(Dsls)
          /\ Len(SubSeq(tops, 1, m)) = IF 1 <= m THEN m - 1 + 1 ELSE 0
          /\ \A i \in 1 .. m - 1 + 1 : SubSeq(tops, 1, m)[i] = tops[1 + i - 1]
      BY <1>7, <2>1, SubSeqProperties
    <2>3. (IF 1 <= m THEN m - 1 + 1 ELSE 0) = m /\ m - 1 + 1 = m /\ \A i \in 1 .. m : 1 + i - 1 = i
      BY <1>7
    <2> QED BY <2>2, <2>3
  <1>9. DOMAIN SubSeq(tops, 1, m) = 1 .. m
    BY <1>8, LenProperties
  <1> QED BY <1>4, <1>6, <1>7, <1>8, <1>9 DEF tops

\* extract_top_chromosomes, once for each window.
LEMMA ExtractStep == CampaignInv /\ Extract => CampaignInv'
  <1> SUFFICES ASSUME CampaignInv, Extract PROVE CampaignInv'
    OBVIOUS
  <1> DEFINE id == runner.disc[runner.train[runner.i]]
             champs == TopOf(Notes(id), runner.topK)
  <1>t. /\ runner \in RunnerRecords /\ RunnerOK(runner) /\ CampaignTypes
        /\ runner.topK \in Nat /\ runner.i \in Nat \ {0} /\ runner.train \in Seq(Labels)
    BY DEF CampaignInv, CampaignTypes, RunnerRecords
  <1>0. /\ runner.at = "extract" /\ runner.child = NoProc /\ runner.i <= Len(runner.train)
        /\ UNCHANGED <<runs, results, strategies, workers>>
        /\ runner' = IF champs = << >> THEN [runner EXCEPT !.i = @ + 1]
                     ELSE [runner EXCEPT !.at = "champions", !.champs = champs, !.j = 1, !.k = 0]
    BY DEF Extract, At
  <1> HIDE DEF champs
  <1>1. CASE champs = << >>
    <2> DEFINE r == [runner EXCEPT !.i = @ + 1]
    <2>1. runner' = r
      BY <1>0, <1>1
    <2>2. /\ r \in RunnerRecords /\ r.at = "extract" /\ r.disc = runner.disc /\ r.train = runner.train
          /\ r.oos = runner.oos /\ r.child = NoProc
      <3>1. runner.i + 1 \in Nat \ {0}
        BY <1>t
      <3> QED BY <1>t, <1>0, <3>1 DEF RunnerRecords
    <2> HIDE DEF r
    <2>3. RunnerOK(r)
      BY <1>0, <2>2, PlanKept
    <2> QED BY <1>0, <2>1, <2>2, <2>3, RunnerAlone
  <1>2. CASE champs # << >>
    <2> DEFINE r == [runner EXCEPT !.at = "champions", !.champs = champs, !.j = 1, !.k = 0]
    <2>1. runner' = r
      BY <1>0, <1>2
    <2>2. /\ champs \in Seq(Dsls)
          /\ \E q \in DOMAIN results : /\ First(results, id, q) /\ Len(champs) <= Len(results[q].tops)
                                       /\ \A n \in DOMAIN champs : champs[n] = results[q].tops[n]
      BY <1>t, <1>2, NotesFacts DEF champs
    <2>3. 1 \in DOMAIN champs
      <3>1. Len(champs) \in Nat /\ Len(champs) # 0 /\ DOMAIN champs = 1 .. Len(champs)
        BY <1>2, <2>2, EmptySeq, LenProperties
      <3> QED BY <3>1
    <2>4. /\ r \in RunnerRecords /\ r.at = "champions" /\ r.disc = runner.disc /\ r.train = runner.train
          /\ r.oos = runner.oos /\ r.child = NoProc /\ r.champs = champs /\ r.j = 1 /\ r.k = 0 /\ r.i = runner.i
          /\ r.windows \in Seq(Windows)
      <3>1. "champions" \in Phases /\ 1 \in Nat \ {0} /\ 0 \in Nat
        BY DEF Phases
      <3> QED BY <1>t, <1>0, <2>2, <3>1 DEF RunnerRecords
    <2> HIDE DEF r
    <2>5. KnowsRows(r)
      <3>1. KnowsRows(runner)
        BY <1>t, <1>0 DEF RunnerOK
      <3> QED BY <1>0, <2>4, <3>1 DEF KnowsRows
    <2>6. Ranked(r)
      <3>1. r.i \in DOMAIN r.train
        BY <1>t, <1>0, <2>4, LenProperties
      <3>2. 0 <= Len(r.windows) /\ ~ (0 > 0)
        BY <2>4, LenProperties
      <3> QED BY <2>2, <2>3, <2>4, <3>1, <3>2 DEF Ranked
    <2>7. RunnerOK(r)
      BY <1>t, <2>4, <2>5, <2>6 DEF RunnerOK
    <2> QED BY <1>0, <2>1, <2>4, <2>7, RunnerAlone
  <1> QED BY <1>1, <1>2

\* The next place of plan_oos_validations.
LEMMA AdvancedFacts ==
  ASSUME CampaignInv, At("champions")
  PROVE  /\ runner \in RunnerRecords /\ RunnerOK(runner) /\ KnowsRows(runner) /\ Ranked(runner)
         /\ Advanced \in RunnerRecords /\ Advanced.at \in {"champions", "extract"} /\ Advanced.child = NoProc
         /\ Advanced.disc = runner.disc /\ Advanced.train = runner.train /\ Advanced.oos = runner.oos
         /\ Advanced.at = "champions" =>
              /\ Advanced.champs = runner.champs /\ Advanced.i = runner.i /\ Advanced.windows = runner.windows
              /\ Advanced.j \in DOMAIN runner.champs /\ Advanced.k <= Len(runner.windows)
              /\ Advanced.k > 0 => Advanced.j = runner.j
  <1>1. runner \in RunnerRecords /\ RunnerOK(runner) /\ runner.at = "champions" /\ runner.child = NoProc
    BY DEF CampaignInv, CampaignTypes, At
  <1>2. KnowsRows(runner) /\ Ranked(runner)
    BY <1>1 DEF RunnerOK
  <1>3. /\ runner.windows \in Seq(Windows) /\ runner.champs \in Seq(Dsls) /\ runner.i \in Nat \ {0}
        /\ runner.j \in Nat \ {0} /\ runner.k \in Nat
    BY <1>1 DEF RunnerRecords
  <1>4. /\ Len(runner.windows) \in Nat /\ Len(runner.champs) \in Nat /\ DOMAIN runner.champs = 1 .. Len(runner.champs)
        /\ runner.k + 1 \in Nat /\ runner.j + 1 \in Nat \ {0} /\ runner.i + 1 \in Nat \ {0} /\ 0 \in Nat
        /\ runner.j \in DOMAIN runner.champs /\ "extract" \in Phases
    BY <1>2, <1>3, LenProperties DEF Ranked, Phases
  <1>5. CASE runner.k < Len(runner.windows)
    <2>1. Advanced = [runner EXCEPT !.k = runner.k + 1]
      BY <1>5 DEF Advanced
    <2>2. runner.k + 1 <= Len(runner.windows)
      BY <1>3, <1>4, <1>5
    <2> QED BY <1>1, <1>2, <1>4, <2>1, <2>2 DEF RunnerRecords
  <1>6. CASE ~ (runner.k < Len(runner.windows)) /\ runner.j < Len(runner.champs)
    <2>1. Advanced = [runner EXCEPT !.j = runner.j + 1, !.k = 0]
      BY <1>6 DEF Advanced
    <2>2. runner.j + 1 \in DOMAIN runner.champs /\ 0 <= Len(runner.windows) /\ ~ (0 > 0)
      BY <1>3, <1>4, <1>6
    <2> QED BY <1>1, <1>2, <1>4, <2>1, <2>2 DEF RunnerRecords
  <1>7. CASE ~ (runner.k < Len(runner.windows)) /\ ~ (runner.j < Len(runner.champs))
    <2>1. Advanced = [runner EXCEPT !.at = "extract", !.i = runner.i + 1]
      BY <1>7 DEF Advanced
    <2> QED BY <1>1, <1>2, <1>4, <2>1 DEF RunnerRecords
  <1> QED BY <1>5, <1>6, <1>7

\* A champion becomes a strategy, unless its name is taken.
LEMMA PlanStrategyStep == CampaignInv /\ PlanStrategy => CampaignInv'
  <1> SUFFICES ASSUME CampaignInv, PlanStrategy PROVE CampaignInv'
    OBVIOUS
  <1> DEFINE l == runner.train[runner.i]
             name == <<l, runner.j>>
             r == Advanced
  <1>0. /\ At("champions") /\ runner.k = 0 /\ runner' = r /\ UNCHANGED <<runs, results, workers>>
        /\ strategies' = IF name \in DOMAIN strategies THEN strategies
                         ELSE [s \in DOMAIN strategies \cup {name} |->
                                  IF s = name THEN runner.champs[runner.j] ELSE strategies[s]]
    BY DEF PlanStrategy
  <1>t. CampaignTypes /\ ResultInv /\ RowsInv /\ ReportedInv /\ CountInv
    BY DEF CampaignInv
  <1>a. /\ runner \in RunnerRecords /\ KnowsRows(runner) /\ Ranked(runner) /\ r \in RunnerRecords
        /\ r.at \in {"champions", "extract"} /\ r.child = NoProc /\ r.disc = runner.disc /\ r.train = runner.train
        /\ r.oos = runner.oos /\ RunnerOK(runner)
        /\ r.at = "champions" =>
             /\ r.champs = runner.champs /\ r.i = runner.i /\ r.windows = runner.windows
             /\ r.j \in DOMAIN runner.champs /\ r.k <= Len(runner.windows)
             /\ r.k > 0 => r.j = runner.j
    BY <1>0, AdvancedFacts
  <1> HIDE DEF r
  <1>1. PICK q \in DOMAIN results :
          /\ First(results, runner.disc[l], q) /\ Len(runner.champs) <= Len(results[q].tops)
          /\ \A n \in DOMAIN runner.champs : runner.champs[n] = results[q].tops[n]
    BY <1>a DEF Ranked
  <1>2. /\ runner.i \in DOMAIN runner.train /\ runner.j \in DOMAIN runner.champs /\ runner.train \in Seq(Labels)
        /\ runner.champs \in Seq(Dsls) /\ runner.at = "champions"
    BY <1>0, <1>a DEF Ranked, RunnerRecords, At
  <1>3. /\ l \in Labels /\ runner.champs[runner.j] \in Dsls /\ runner.j \in Nat \ {0}
        /\ runner.j <= Len(runner.champs) /\ Len(runner.champs) \in Nat
    BY <1>2, LenProperties, ElementOfSeq
  <1>4. Len(results[q].tops) \in Nat /\ Len(results[q].tops) <= MaxTops /\ MaxTops \in Nat
    BY <1>t, DomainFacts, TopsAssumption, ConfigAssumption DEF Reports
  <1>5. runner.j <= Len(results[q].tops) /\ runner.j \in 1 .. MaxTops
    BY <1>1, <1>3, <1>4
  <1>6. Newest(runs, l, runner.disc[l]) /\ runner.disc[l] \in RunIds
    <2>1. l \in DOMAIN runner.disc
      BY <1>2, <1>a DEF KnowsRows
    <2> QED BY <2>1, <1>a DEF KnowsRows, Newest, RunIds
  <1>7. /\ name \in Names /\ name \in DOMAIN strategies' /\ DOMAIN strategies' = DOMAIN strategies \cup {name}
        /\ \A s \in DOMAIN strategies : strategies'[s] = strategies[s]
        /\ name \notin DOMAIN strategies => strategies'[name] = runner.champs[runner.j]
    BY <1>0, <1>3, <1>5 DEF Names
  <1>8. name[1] = l /\ name[2] = runner.j
    OBVIOUS
  <1> HIDE DEF name, l
  <1>9. RunIds' = RunIds
    BY <1>0 DEF RunIds
  <1>10. CampaignTypes'
    <2>1. DOMAIN strategies' \subseteq Names /\ \A s \in DOMAIN strategies' : strategies'[s] \in Dsls
      BY <1>t, <1>3, <1>7 DEF CampaignTypes
    <2> QED BY <1>0, <1>t, <1>a, <1>9, <2>1 DEF CampaignTypes
  <1>11. ResultInv' /\ CountInv'
    BY <1>0, <1>t, <1>9 DEF ResultInv, CompletedHasResult, CountInv
  <1>12. RowsInv'
    BY <1>0, <1>t, <1>7, <1>9 DEF RowsInv
  <1>13. ReportedInv'
    <2> SUFFICES ASSUME NEW s \in DOMAIN strategies'
                 PROVE  \E id \in RunIds, x \in DOMAIN results :
                          /\ Newest(runs, s[1], id) /\ First(results, id, x)
                          /\ s[2] <= Len(results[x].tops) /\ strategies'[s] = results[x].tops[s[2]]
      BY <1>0, <1>9 DEF ReportedInv
    <2>1. CASE s \in DOMAIN strategies
      BY <1>t, <1>7, <2>1 DEF ReportedInv
    <2>2. CASE s = name /\ name \notin DOMAIN strategies
      <3>1. strategies'[s] = results[q].tops[runner.j]
        BY <1>1, <1>2, <1>7, <2>2
      <3> QED BY <1>1, <1>5, <1>6, <1>8, <2>2, <3>1
    <2> QED BY <1>7, <2>1, <2>2
  <1>14. RunnerOK(runner)'
    <2>1. KnowsRows(runner)'
      BY <1>0, <1>2, <1>a, <1>9 DEF KnowsRows
    <2>2. r.at = "champions" => Ranked(runner)'
      <3> SUFFICES ASSUME r.at = "champions" PROVE Ranked(runner)'
        OBVIOUS
      <3>1. r.k > 0 => <<r.train[r.i], r.j>> \in DOMAIN strategies'
        BY <1>a, <1>7 DEF name, l
      <3>2. \E x \in DOMAIN results :
              /\ First(results, r.disc[r.train[r.i]], x) /\ Len(r.champs) <= Len(results[x].tops)
              /\ \A n \in DOMAIN r.champs : r.champs[n] = results[x].tops[n]
        BY <1>a, <1>1 DEF l
      <3>3. r.i \in DOMAIN r.train /\ r.j \in DOMAIN r.champs /\ r.k <= Len(r.windows)
        BY <1>a, <1>2
      <3> QED BY <1>0, <3>1, <3>2, <3>3 DEF Ranked
    <2>3. \A e \in DOMAIN r.oos : r.oos[e].id \in RunIds
      BY <1>a DEF RunnerOK
    <2> QED BY <1>0, <1>9, <1>a, <2>1, <2>2, <2>3 DEF RunnerOK
  <1> QED BY <1>10, <1>11, <1>12, <1>13, <1>14 DEF CampaignInv

\* A row more.
LEMMA RowAdded ==
  ASSUME CampaignTypes, NEW row \in RunRecords, runs' = Append(runs, row)
  PROVE  /\ runs' \in Seq(RunRecords) /\ Len(runs') = Len(runs) + 1 /\ Len(runs) \in Nat /\ Len(runs) + 1 \in Nat
         /\ RunIds' = RunIds \cup {Len(runs) + 1} /\ Len(runs) + 1 \notin RunIds
         /\ \A id \in RunIds : runs'[id] = runs[id]
         /\ runs'[Len(runs) + 1] = row
  <1>1. runs \in Seq(RunRecords) /\ Len(runs) \in Nat /\ RunIds = 1 .. Len(runs)
    BY DomainFacts DEF CampaignTypes
  <1>2. /\ runs' \in Seq(RunRecords) /\ Len(runs') = Len(runs) + 1
        /\ \A i \in 1 .. Len(runs) : runs'[i] = runs[i]
        /\ runs'[Len(runs) + 1] = row
    BY <1>1, AppendProperties
  <1>3. RunIds' = 1 .. (Len(runs) + 1)
    BY <1>2, LenProperties DEF RunIds
  <1>4. 1 .. (Len(runs) + 1) = (1 .. Len(runs)) \cup {Len(runs) + 1} /\ Len(runs) + 1 \notin 1 .. Len(runs)
    BY <1>1
  <1> QED BY <1>1, <1>2, <1>3, <1>4

\* How a row more counts.
LEMMA CountAdded ==
  ASSUME CampaignTypes, NEW row \in RunRecords, runs' = Append(runs, row), NEW mode
  PROVE  /\ IsFiniteSet(OfMode(runs, mode)) /\ Cardinality(OfMode(runs, mode)) \in Nat
         /\ Cardinality(OfMode(runs', mode)) = Cardinality(OfMode(runs, mode)) + (IF row.mode = mode THEN 1 ELSE 0)
  <1> DEFINE n == Len(runs) + 1
  <1>0. /\ n \in Nat /\ RunIds' = RunIds \cup {n} /\ n \notin RunIds /\ runs'[n] = row
        /\ \A id \in RunIds : runs'[id] = runs[id]
    BY RowAdded
  <1>f. IsFiniteSet(OfMode(runs, mode)) /\ Cardinality(OfMode(runs, mode)) \in Nat
    <2>1. OfMode(runs, mode) \in SUBSET (1 .. Len(runs)) /\ Len(runs) \in Nat
      BY DomainFacts DEF OfMode, RunIds
    <2> QED BY <2>1, RankFacts
  <1> HIDE DEF n
  <1>1. CASE row.mode = mode
    <2>1. OfMode(runs', mode) = OfMode(runs, mode) \cup {n} /\ n \notin OfMode(runs, mode)
      BY <1>0, <1>1 DEF OfMode, RunIds
    <2> QED BY <1>f, <1>1, <2>1, FS_AddElement
  <1>2. CASE row.mode # mode
    <2>1. OfMode(runs', mode) = OfMode(runs, mode)
      BY <1>0, <1>2 DEF OfMode, RunIds
    <2> QED BY <1>f, <1>2, <2>1
  <1> QED BY <1>f, <1>1, <1>2

\* A validation more: its cell is new, or it belongs to none.
LEMMA ValidationAdded ==
  ASSUME CampaignInv, NEW row \in RunRecords, row.mode \in {"oos", "validation"}, row.status = "pending",
         runs' = Append(runs, row), UNCHANGED <<results, strategies>>, runner' \in RunnerRecords,
         workers' \in [Procs -> WorkerRecords],
         \A p \in Procs : workers'[p] = workers[p] \/ (workers'[p].pc = "boot" /\ workers'[p].run \in RunIds'),
         row.mode = "oos" => /\ KeyOf(row) \in Keys /\ row.strategy = <<row.label, row.idx>> /\ row.strategy \in DOMAIN strategies
                             /\ \A id \in RunIds : runs[id].mode = "oos" => KeyOf(runs[id]) # KeyOf(row),
         row.mode = "validation" => Cardinality(OfMode(runs, "validation")) < MaxManual
  PROVE  /\ CampaignTypes' /\ ResultInv' /\ RowsInv' /\ ReportedInv' /\ CountInv'
         /\ \A l, id : Newest(runs, l, id) => Newest(runs', l, id)
  <1> DEFINE n == Len(runs) + 1
  <1>t. CampaignTypes /\ ResultInv /\ RowsInv /\ ReportedInv /\ CountInv
    BY DEF CampaignInv
  <1>0. /\ runs' \in Seq(RunRecords) /\ RunIds' = RunIds \cup {n} /\ n \notin RunIds /\ runs'[n] = row
        /\ \A id \in RunIds : runs'[id] = runs[id]
    BY <1>t, RowAdded
  <1> HIDE DEF n
  <1>1. CampaignTypes'
    <2>1. \A p \in Procs : workers'[p].pc # "free" => workers'[p].run \in RunIds'
      BY <1>t, <1>0 DEF CampaignTypes
    <2>2. \A r \in DOMAIN results' : results'[r].run \in RunIds'
      BY <1>t, <1>0 DEF CampaignTypes
    <2> QED BY <1>t, <1>0, <2>1, <2>2 DEF CampaignTypes
  <1>2. ResultInv'
    <2>1. \A id \in RunIds' : runs'[id].status = "completed" => \E r \in DOMAIN results' : results'[r].run = id
      BY <1>t, <1>0 DEF ResultInv, CompletedHasResult
    <2>2. \A p \in Procs : workers'[p].pc \in {"saved", "told"} => \E r \in DOMAIN results' : results'[r].run = workers'[p].run
      BY <1>t DEF ResultInv
    <2> QED BY <2>1, <2>2 DEF ResultInv, CompletedHasResult
  <1>3. RowsInv'
    <2>1. \A id \in RunIds' : runs'[id].mode = "discovery" => runs'[id].label \in Labels
      BY <1>t, <1>0 DEF RowsInv
    <2>2. \A id \in RunIds' : runs'[id].mode = "oos" =>
           /\ KeyOf(runs'[id]) \in Keys /\ runs'[id].strategy = <<runs'[id].label, runs'[id].idx>>
           /\ runs'[id].strategy \in DOMAIN strategies'
      BY <1>t, <1>0 DEF RowsInv
    <2>3. ASSUME NEW a \in RunIds', NEW b \in RunIds', runs'[a].mode = "oos", runs'[b].mode = "oos",
                 KeyOf(runs'[a]) = KeyOf(runs'[b])
          PROVE  a = b
      <3>1. CASE a \in RunIds /\ b \in RunIds
        BY <1>t, <1>0, <2>3, <3>1 DEF RowsInv
      <3>2. CASE a = n /\ b \in RunIds
        BY <1>0, <2>3, <3>2
      <3>3. CASE b = n /\ a \in RunIds
        BY <1>0, <2>3, <3>3
      <3> QED BY <1>0, <3>1, <3>2, <3>3
    <2> QED BY <2>1, <2>2, <2>3 DEF RowsInv
  <1>4. \A l, id : Newest(runs, l, id) => Newest(runs', l, id)
    BY <1>0 DEF Newest, RunIds
  <1>5. ReportedInv'
    BY <1>t, <1>0, <1>4 DEF ReportedInv
  <1>6. CountInv'
    <2>1. \A m \in {"discovery", "validation"} :
            /\ Cardinality(OfMode(runs, m)) \in Nat
            /\ Cardinality(OfMode(runs', m)) = Cardinality(OfMode(runs, m)) + (IF row.mode = m THEN 1 ELSE 0)
      BY <1>t, CountAdded
    <2>2. Cardinality(OfMode(runs', "discovery")) <= Len(Train)
      BY <1>t, <2>1 DEF CountInv
    <2>3. Cardinality(OfMode(runs', "validation")) <= MaxManual
      BY <1>t, <2>1, ConfigAssumption DEF CountInv
    <2> QED BY <2>2, <2>3 DEF CountInv
  <1> QED BY <1>1, <1>2, <1>3, <1>4, <1>5, <1>6

\* What PlanOos plans: a cell of the matrix, of a strategy that is there.
LEMMA CellFacts ==
  ASSUME CampaignInv, At("champions"), runner.k > 0,
         NEW key, key = <<runner.train[runner.i], runner.j, runner.windows[runner.k]>>
  PROVE  /\ key \in Keys /\ OosRow(key) \in RunRecords /\ <<key[1], key[2]>> \in DOMAIN strategies
         /\ KeyOf(OosRow(key)) = key
  <1>1. runner \in RunnerRecords /\ Ranked(runner)
    BY AdvancedFacts
  <1>2. /\ runner.train \in Seq(Labels) /\ runner.windows \in Seq(Windows) /\ runner.k \in Nat /\ runner.i \in DOMAIN runner.train
        /\ runner.k <= Len(runner.windows) /\ <<runner.train[runner.i], runner.j>> \in DOMAIN strategies
    BY <1>1 DEF RunnerRecords, Ranked
  <1>3. runner.k \in 1 .. Len(runner.windows)
    BY <1>2, LenProperties
  <1>4. runner.train[runner.i] \in Labels /\ runner.windows[runner.k] \in Windows
    BY <1>2, <1>3, LenProperties, ElementOfSeq
  <1>5. <<runner.train[runner.i], runner.j>> \in Names
    BY <1>2 DEF CampaignInv, CampaignTypes
  <1>6. runner.j \in 1 .. MaxTops /\ runner.j \in Nat
    BY <1>5, ConfigAssumption DEF Names
  <1> DEFINE l == runner.train[runner.i]
             j == runner.j
             w == runner.windows[runner.k]
  <1>7. l \in Labels /\ j \in 1 .. MaxTops /\ j \in Nat /\ w \in Windows /\ <<l, j>> \in DOMAIN strategies /\ <<l, j>> \in Names
    BY <1>2, <1>4, <1>5, <1>6
  <1>8. key = <<l, j, w>>
    OBVIOUS
  <1> HIDE DEF l, j, w
  <1>9. key[1] = l /\ key[2] = j /\ key[3] = w /\ key \in Keys
    BY <1>7, <1>8 DEF Keys
  <1>10. OosRow(key) = [mode |-> "oos", label |-> l, idx |-> j, oos |-> w, strategy |-> <<l, j>>, status |-> "pending"]
    BY <1>9 DEF OosRow
  <1>11. OosRow(key) \in RunRecords
    BY <1>7, <1>10 DEF RunRecords
  <1>12. KeyOf(OosRow(key)) = key
    BY <1>8, <1>10 DEF KeyOf
  <1> QED BY <1>7, <1>9, <1>11, <1>12

\* plan_oos_validations' row, unless the plan has it.
LEMMA PlanOosStep == CampaignInv /\ PlanOos => CampaignInv'
  <1> SUFFICES ASSUME CampaignInv, PlanOos PROVE CampaignInv'
    OBVIOUS
  <1> DEFINE key == <<runner.train[runner.i], runner.j, runner.windows[runner.k]>>
             a == Advanced
             e == [key |-> key, id |-> Len(runs) + 1]
             r == [a EXCEPT !.oos = Append(runner.oos, e)]
  <1>0. /\ At("champions") /\ runner.k > 0 /\ UNCHANGED <<results, strategies, workers>>
        /\ \/ InPlan(key) /\ runs' = runs /\ runner' = a
           \/ ~ InPlan(key) /\ runs' = Append(runs, OosRow(key)) /\ runner' = [a EXCEPT !.oos = Append(@, e)]
    BY DEF PlanOos
  <1>a. /\ runner \in RunnerRecords /\ KnowsRows(runner) /\ Ranked(runner) /\ a \in RunnerRecords /\ RunnerOK(runner)
        /\ a.at \in {"champions", "extract"} /\ a.child = NoProc /\ a.disc = runner.disc /\ a.train = runner.train
        /\ a.oos = runner.oos
        /\ a.at = "champions" =>
             /\ a.champs = runner.champs /\ a.i = runner.i /\ a.windows = runner.windows
             /\ a.j \in DOMAIN runner.champs /\ a.k <= Len(runner.windows)
             /\ a.k > 0 => a.j = runner.j
    BY <1>0, AdvancedFacts
  <1> HIDE DEF a
  <1>r. a.at = "champions" => Ranked(a)
    BY <1>0, <1>a DEF Ranked
  <1>1. CASE InPlan(key) /\ runs' = runs /\ runner' = a
    <2>1. KnowsRows(a)
      BY <1>0, <1>a DEF KnowsRows, At
    <2>2. RunnerOK(a)
      BY <1>a, <1>r, <2>1 DEF RunnerOK
    <2> QED BY <1>0, <1>1, <1>a, <2>2, RunnerAlone
  <1>2. CASE ~ InPlan(key) /\ runs' = Append(runs, OosRow(key)) /\ runner' = [a EXCEPT !.oos = Append(@, e)]
    <2>1. key \in Keys /\ OosRow(key) \in RunRecords /\ <<key[1], key[2]>> \in DOMAIN strategies /\ KeyOf(OosRow(key)) = key
      BY <1>0, CellFacts
    <2>2. \A id \in RunIds : runs[id].mode = "oos" => KeyOf(runs[id]) # key
      BY <1>2, <1>a DEF KnowsRows, InPlan
    <2>t. CampaignTypes
      BY DEF CampaignInv
    <2>3. runner' = r
      BY <1>2, <1>a
    <2> HIDE DEF key
    <2>4. /\ Len(runs) + 1 \in Nat /\ RunIds' = RunIds \cup {Len(runs) + 1} /\ runs'[Len(runs) + 1] = OosRow(key)
          /\ \A id \in RunIds : runs'[id] = runs[id]
      BY <1>2, <2>1, <2>t, RowAdded
    <2>5. e \in Planned /\ e.key = key /\ e.id = Len(runs) + 1
      BY <2>1, <2>4 DEF Planned
    <2> HIDE DEF e
    <2>6. /\ Append(runner.oos, e) \in Seq(Planned) /\ Len(runner.oos) \in Nat /\ DOMAIN runner.oos = 1 .. Len(runner.oos)
          /\ DOMAIN Append(runner.oos, e) = 1 .. Len(runner.oos) + 1
          /\ \A m \in 1 .. Len(runner.oos) : Append(runner.oos, e)[m] = runner.oos[m]
          /\ Append(runner.oos, e)[Len(runner.oos) + 1] = e
      <3>1. runner.oos \in Seq(Planned)
        BY <1>a DEF RunnerRecords
      <3>2. /\ Append(runner.oos, e) \in Seq(Planned) /\ Len(Append(runner.oos, e)) = Len(runner.oos) + 1
            /\ \A m \in 1 .. Len(runner.oos) : Append(runner.oos, e)[m] = runner.oos[m]
            /\ Append(runner.oos, e)[Len(runner.oos) + 1] = e
        BY <2>5, <3>1, AppendProperties
      <3> QED BY <3>1, <3>2, LenProperties
    <2>7. /\ r \in RunnerRecords /\ r.at = a.at /\ r.child = NoProc /\ r.disc = runner.disc /\ r.train = runner.train
          /\ r.oos = Append(runner.oos, e) /\ r.champs = a.champs /\ r.i = a.i /\ r.j = a.j /\ r.k = a.k
          /\ r.windows = a.windows
      BY <1>a, <2>6 DEF RunnerRecords
    <2> HIDE DEF r
    <2>8. /\ CampaignTypes' /\ ResultInv' /\ RowsInv' /\ ReportedInv' /\ CountInv'
          /\ \A l, id : Newest(runs, l, id) => Newest(runs', l, id)
      <3>1. /\ OosRow(key).mode = "oos" /\ OosRow(key).status = "pending" /\ OosRow(key).label = key[1]
            /\ OosRow(key).idx = key[2] /\ OosRow(key).strategy = <<key[1], key[2]>>
        BY DEF OosRow
      <3>2. /\ workers' \in [Procs -> WorkerRecords] /\ runner' \in RunnerRecords
            /\ \A p \in Procs : workers'[p] = workers[p]
        BY <1>0, <2>3, <2>7, <2>t DEF CampaignTypes
      <3>3. OosRow(key).mode \in {"oos", "validation"} /\ OosRow(key).mode # "validation"
        BY <3>1
      <3> QED BY <1>0, <1>2, <2>1, <2>2, <3>1, <3>2, <3>3, ValidationAdded
    <2>9. KnowsRows(runner)'
      <3>1. \A l \in DOMAIN r.disc : Newest(runs', l, r.disc[l])
        BY <1>a, <2>7, <2>8 DEF KnowsRows
      <3>2. ASSUME NEW id \in RunIds', runs'[id].mode = "oos" PROVE \E x \in DOMAIN r.oos : r.oos[x].key = KeyOf(runs'[id])
        <4>1. CASE id \in RunIds
          <5>1. PICK x \in DOMAIN runner.oos : runner.oos[x].key = KeyOf(runs[id])
            BY <1>a, <2>4, <3>2, <4>1 DEF KnowsRows
          <5>2. x \in DOMAIN r.oos /\ r.oos[x] = runner.oos[x]
            BY <2>6, <2>7
          <5> QED BY <2>4, <4>1, <5>1, <5>2
        <4>2. CASE id = Len(runs) + 1
          <5>1. Len(runner.oos) + 1 \in DOMAIN r.oos
            BY <2>6, <2>7
          <5> QED BY <2>1, <2>4, <2>5, <2>6, <2>7, <4>2, <5>1
        <4> QED BY <2>4, <4>1, <4>2
      <3>3. \A m \in DOMAIN r.train : r.train[m] \in DOMAIN r.disc
        BY <1>0, <1>a, <2>7 DEF KnowsRows, At
      <3> QED BY <2>3, <3>1, <3>2, <3>3 DEF KnowsRows
    <2>10. \A x \in DOMAIN r.oos : r.oos[x].id \in RunIds'
      <3>1. \A x \in DOMAIN runner.oos : runner.oos[x].id \in RunIds
        BY <1>a DEF RunnerOK
      <3>2. \A x \in DOMAIN r.oos : x \in DOMAIN runner.oos \/ x = Len(runner.oos) + 1
        BY <2>6, <2>7
      <3> QED BY <2>4, <2>5, <2>6, <2>7, <3>1, <3>2
    <2>11. r.at = "champions" => Ranked(runner)'
      BY <1>0, <1>a, <1>r, <2>3, <2>7 DEF Ranked
    <2>12. RunnerOK(runner)'
      BY <1>a, <2>3, <2>7, <2>9, <2>10, <2>11 DEF RunnerOK
    <2> QED BY <2>8, <2>12 DEF CampaignInv
  <1> QED BY <1>0, <1>1, <1>2

\* A user has a strategy of the campaign validated.
LEMMA LaunchValidationStep == \A s \in DOMAIN strategies : CampaignInv /\ LaunchValidation(s) => CampaignInv'
  <1> SUFFICES ASSUME NEW s \in DOMAIN strategies, CampaignInv, LaunchValidation(s) PROVE CampaignInv'
    OBVIOUS
  <1> DEFINE row == ManualRow(s)
  <1>0. /\ runner.at = "done" /\ Cardinality(OfMode(runs, "validation")) < MaxManual /\ Free # {} /\ Spawned(Len(runs) + 1)
        /\ runs' = Append(runs, row) /\ UNCHANGED <<results, strategies, runner>>
    BY DEF LaunchValidation, OfMode, RunIds
  <1>t. CampaignTypes /\ workers \in [Procs -> WorkerRecords] /\ runner \in RunnerRecords /\ RunnerOK(runner) /\ s \in Names
    BY DEF CampaignInv, CampaignTypes
  <1>1. row \in RunRecords /\ row.mode = "validation" /\ row.status = "pending"
    BY <1>t DEF ManualRow, RunRecords
  <1> HIDE DEF row
  <1>2. /\ Len(runs) + 1 \in Nat /\ RunIds' = RunIds \cup {Len(runs) + 1} /\ runs'[Len(runs) + 1] = row
        /\ \A id \in RunIds : runs'[id] = runs[id]
    BY <1>0, <1>1, <1>t, RowAdded
  <1>3. /\ workers' \in [Procs -> WorkerRecords]
        /\ \A p \in Procs : workers'[p] = workers[p] \/ (workers'[p].pc = "boot" /\ workers'[p].run \in RunIds')
    BY <1>0, <1>2, <1>t, SpawnFacts
  <1>4. /\ CampaignTypes' /\ ResultInv' /\ RowsInv' /\ ReportedInv' /\ CountInv'
        /\ \A l, id : Newest(runs, l, id) => Newest(runs', l, id)
    <2>1. row.mode \in {"oos", "validation"} /\ row.mode # "oos"
      BY <1>1
    <2>2. runner' \in RunnerRecords
      BY <1>0, <1>t
    <2> QED BY <1>0, <1>1, <1>3, <2>1, <2>2, ValidationAdded
  <1>5. KnowsRows(runner)'
    <2>1. KnowsRows(runner)
      BY <1>0, <1>t DEF RunnerOK
    <2>2. \A l \in DOMAIN runner.disc : Newest(runs', l, runner.disc[l])
      BY <1>4, <2>1 DEF KnowsRows
    <2>3. \A id \in RunIds' : runs'[id].mode = "oos" => \E e \in DOMAIN runner.oos : runner.oos[e].key = KeyOf(runs'[id])
      BY <1>1, <1>2, <2>1 DEF KnowsRows
    <2> QED BY <1>0, <2>1, <2>2, <2>3 DEF KnowsRows
  <1>6. RunnerOK(runner)'
    BY <1>0, <1>2, <1>5, <1>t DEF RunnerOK
  <1> QED BY <1>4, <1>6 DEF CampaignInv

\* A discovery is planned: it is the newest of its window.
LEMMA PlanDiscoveryStep == CampaignInv /\ PlanDiscovery => CampaignInv'
  <1> SUFFICES ASSUME CampaignInv, PlanDiscovery PROVE CampaignInv'
    OBVIOUS
  <1> DEFINE w == runner.train[runner.i]
             n == Len(runs) + 1
             row == DiscoveryRow(w)
             d == [l \in DOMAIN runner.disc \cup {w} |-> IF l = w THEN n ELSE runner.disc[l]]
             r == [runner EXCEPT !.i = runner.i + 1, !.disc = d]
  <1>t. CampaignTypes /\ ResultInv /\ RowsInv /\ CountInv /\ runner \in RunnerRecords /\ RunnerOK(runner)
    BY DEF CampaignInv, CampaignTypes
  <1>0. /\ runner.at = "plan" /\ runner.child = NoProc /\ runner.i <= Len(runner.train) /\ runs' = Append(runs, row)
        /\ UNCHANGED <<results, strategies, workers>>
    BY DEF PlanDiscovery, At
  <1>r. runner' = r
    BY <1>t DEF PlanDiscovery, RunnerRecords
  <1>1. KnowsRows(runner) /\ Planning(runner)
    BY <1>t, <1>0 DEF RunnerOK
  <1>2. /\ runner.i \in Nat \ {0} /\ runner.i + 1 \in Nat \ {0} /\ runner.train \in Seq(Labels) /\ runner.disc \in Discoveries
        /\ runner.i \in DOMAIN runner.train /\ runner.train = Train /\ Len(Train) \in Nat /\ Len(runs) = runner.i - 1
    <2>1. runner.i \in Nat \ {0} /\ runner.train \in Seq(Labels) /\ runner.disc \in Discoveries
      BY <1>t DEF RunnerRecords
    <2>2. Len(runner.train) \in Nat /\ DOMAIN runner.train = 1 .. Len(runner.train)
      BY <2>1, LenProperties
    <2> QED BY <1>0, <1>1, <2>1, <2>2 DEF Planning
  <1>3. w \in Labels /\ n = runner.i
    BY <1>2, LenProperties, ElementOfSeq
  <1> HIDE DEF w
  <1>4. row \in RunRecords /\ row.mode = "discovery" /\ row.label = w /\ row.status = "pending"
    BY <1>3 DEF DiscoveryRow, RunRecords
  <1> HIDE DEF row
  <1>5. /\ runs' \in Seq(RunRecords) /\ Len(runs') = n /\ n \in Nat /\ RunIds' = RunIds \cup {n} /\ n \notin RunIds
        /\ \A id \in RunIds : runs'[id] = runs[id]
        /\ runs'[n] = row /\ RunIds = 1 .. Len(runs) /\ Len(runs) \in Nat
    BY <1>0, <1>4, <1>t, RowAdded, DomainFacts
  <1>6. \A id \in RunIds : id < n
    BY <1>5
  <1> HIDE DEF n
  <1>7. d \in Discoveries
    <2>1. PICK S \in SUBSET Labels : runner.disc \in [S -> Nat]
      BY <1>2 DEF Discoveries
    <2>2. S \cup {w} \in SUBSET Labels /\ d \in [S \cup {w} -> Nat]
      BY <1>3, <1>5, <2>1
    <2> HIDE DEF d
    <2> QED BY <2>2 DEF Discoveries
  <1>8. DOMAIN d = DOMAIN runner.disc \cup {w} /\ d[w] = n /\ \A l \in DOMAIN runner.disc : l # w => d[l] = runner.disc[l]
    OBVIOUS
  <1> HIDE DEF d
  <1>9. /\ r \in RunnerRecords /\ r.at = "plan" /\ r.child = NoProc /\ r.train = runner.train /\ r.i = runner.i + 1
        /\ r.disc = d /\ r.oos = runner.oos
    BY <1>t, <1>0, <1>2, <1>7 DEF RunnerRecords
  <1> HIDE DEF r
  <1>10. CampaignTypes'
    <2>1. DOMAIN results' = {} /\ \A p \in Procs : workers'[p].pc = "free"
      BY <1>0, <1>1 DEF Planning
    <2> QED BY <1>0, <1>t, <1>5, <1>9, <1>r, <2>1 DEF CampaignTypes
  <1>11. ResultInv'
    <2>1. \A id \in RunIds' : runs'[id].status = "completed" => \E q \in DOMAIN results' : results'[q].run = id
      BY <1>0, <1>t, <1>4, <1>5 DEF ResultInv, CompletedHasResult
    <2> QED BY <1>0, <1>t, <2>1 DEF ResultInv, CompletedHasResult
  <1>12. \A id \in RunIds' : runs'[id].mode = "discovery" /\ runs'[id].label \in Labels
    BY <1>t, <1>1, <1>3, <1>4, <1>5 DEF Planning, RowsInv
  <1>13. RowsInv'
    <2>1. \A id \in RunIds' : runs'[id].mode # "oos"
      BY <1>12
    <2> QED BY <1>12, <2>1 DEF RowsInv
  <1>14. ReportedInv'
    BY <1>0, <1>1 DEF Planning, ReportedInv
  <1>15. CountInv'
    <2>1. /\ Cardinality(OfMode(runs', "validation")) = Cardinality(OfMode(runs, "validation")) + (IF row.mode = "validation" THEN 1 ELSE 0)
          /\ Cardinality(OfMode(runs, "validation")) \in Nat
      BY <1>0, <1>4, <1>t, CountAdded
    <2>2. OfMode(runs', "discovery") = 1 .. n
      <3>1. RunIds' = 1 .. n
        BY <1>5, LenProperties DEF RunIds
      <3> QED BY <1>12, <3>1 DEF OfMode, RunIds
    <2>3. Cardinality(1 .. n) = n
      <3>1. Cardinality(1 .. n) = IF 1 > n THEN 0 ELSE n - 1 + 1
        BY <1>5, FS_Interval
      <3> QED BY <1>5, <3>1
    <2>4. n <= Len(Train)
      BY <1>0, <1>2, <1>3
    <2>5. Cardinality(OfMode(runs', "validation")) <= MaxManual
      BY <1>t, <1>4, <2>1 DEF CountInv
    <2> QED BY <2>2, <2>3, <2>4, <2>5 DEF CountInv
  <1>16. KnowsRows(runner)'
    <2>1. ASSUME NEW l \in DOMAIN d PROVE Newest(runs', l, d[l])
      <3>1. CASE l = w
        <4>1. \A o \in RunIds' : o <= n
          BY <1>5, <1>6
        <4> QED BY <1>4, <1>5, <1>8, <3>1, <4>1 DEF Newest, RunIds
      <3>2. CASE l # w
        <4>1. Newest(runs, l, runner.disc[l]) /\ d[l] = runner.disc[l]
          BY <1>1, <1>8, <2>1, <3>2 DEF KnowsRows
        <4> QED BY <1>4, <1>5, <3>2, <4>1 DEF Newest, RunIds
      <3> QED BY <3>1, <3>2
    <2>2. \A id \in RunIds' : runs'[id].mode # "oos"
      BY <1>12
    <2>3. ASSUME NEW m \in DOMAIN r.train, m < r.i PROVE r.train[m] \in DOMAIN d
      <3>1. m \in Nat /\ (m < runner.i \/ m = runner.i)
        BY <1>2, <1>9, <2>3, LenProperties
      <3> QED BY <1>1, <1>8, <1>9, <2>3, <3>1 DEF KnowsRows, w
    <2> QED BY <1>9, <1>r, <2>1, <2>2, <2>3 DEF KnowsRows
  <1>17. Planning(runner)'
    <2>1. Len(runs') = r.i - 1 /\ r.i <= Len(Train) + 1
      BY <1>0, <1>2, <1>3, <1>5, <1>9
    <2> QED BY <1>0, <1>1, <1>2, <1>9, <1>12, <1>r, <2>1 DEF Planning
  <1>18. \A e \in DOMAIN r.oos : r.oos[e].id \in RunIds'
    BY <1>t, <1>5, <1>9 DEF RunnerOK
  <1>19. RunnerOK(runner)'
    BY <1>9, <1>r, <1>16, <1>17, <1>18 DEF RunnerOK
  <1> QED BY <1>10, <1>11, <1>13, <1>14, <1>15, <1>19 DEF CampaignInv

\* Every step.
LEMMA CampaignStep == CampaignInv /\ [Next]_vars => CampaignInv'
  <1> SUFFICES ASSUME CampaignInv, [Next]_vars PROVE CampaignInv'
    OBVIOUS
  <1>1. CASE UNCHANGED vars
    <2>1. runner' \in RunnerRecords /\ RunnerOK(runner) /\ UNCHANGED <<runs, results, strategies, workers, runner>>
      BY <1>1 DEF CampaignInv, CampaignTypes, vars
    <2> QED BY <2>1, RunnerAlone
  <1>2. CASE RunnerNext
    BY <1>2, CmdPlanStep, CmdRunStep, CrashStep, PlanDiscoveryStep, PhaseEndsStep, RunStep, ExtractStep,
       PlanStrategyStep, PlanOosStep DEF RunnerNext
  <1>3. CASE \E p \in Procs : WorkerNext(p)
    BY <1>3, WorkerStep, SaveStep DEF WorkerNext, WorkerProceeds
  <1>4. CASE \E s \in DOMAIN strategies : LaunchValidation(s)
    BY <1>4, LaunchValidationStep
  <1> QED BY <1>1, <1>2, <1>3, <1>4 DEF Next

\* A run that says completed has a result (discovery/__main__.py and
\* validation/runner.py save before they or validation/__main__.py report), whatever the runner, the
\* workers and the user do, and whenever they are killed.
THEOREM CompletedIsBacked == Spec => []CompletedHasResult
  <1>1. CampaignInv => CompletedHasResult
    BY DEF CampaignInv, ResultInv
  <1> QED BY <1>1, CampaignInitInv, CampaignStep, PTL DEF Spec

\* The champions of a training window come from one report
\* (extract_top_chromosomes takes the run's first, and the plan's run of a
\* window is settled), although a window can be discovered again.
THEOREM RankedByOneReport == Spec => []OneReportPerWindow
  <1>1. CampaignInv => OneReportPerWindow
    <2> SUFFICES ASSUME CampaignInv, NEW l \in Labels, NEW t \in DOMAIN strategies, t[1] = l
                 PROVE  \E r \in DOMAIN results :
                          /\ runs[results[r].run].label = l
                          /\ \A s \in DOMAIN strategies : s[1] = l =>
                               s[2] <= Len(results[r].tops) /\ results[r].tops[s[2]] = strategies[<<l, s[2]>>]
      BY DEF OneReportPerWindow
    <2>t. runs \in Seq(RunRecords) /\ results \in Seq(Reports)
      BY DEF CampaignInv, CampaignTypes
    <2>1. PICK id \in RunIds, r \in DOMAIN results : Newest(runs, l, id) /\ First(results, id, r)
      BY DEF CampaignInv, ReportedInv
    <2>2. runs[results[r].run].label = l
      BY <2>1 DEF Newest, First
    <2>3. ASSUME NEW s \in DOMAIN strategies, s[1] = l
          PROVE  s[2] <= Len(results[r].tops) /\ results[r].tops[s[2]] = strategies[<<l, s[2]>>]
      <3>1. PICK i2 \in RunIds, r2 \in DOMAIN results :
              /\ Newest(runs, l, i2) /\ First(results, i2, r2)
              /\ s[2] <= Len(results[r2].tops) /\ strategies[s] = results[r2].tops[s[2]]
        BY <2>3 DEF CampaignInv, ReportedInv
      <3>2. i2 = id
        BY <2>t, <2>1, <3>1, NewestFacts
      <3>3. r2 = r
        BY <2>t, <2>1, <3>1, <3>2, FirstFacts
      <3>4. s = <<l, s[2]>>
        <4>1. s \in Labels \X (1 .. MaxTops)
          BY DEF CampaignInv, CampaignTypes, Names
        <4> QED BY <2>3, <4>1
      <3> QED BY <3>1, <3>3, <3>4
    <2> QED BY <2>2, <2>3
  <1> QED BY <1>1, CampaignInitInv, CampaignStep, PTL DEF Spec

-----------------------------------------------------------------------------
(* The matrix: Campaign implements CellLedger. *)

\* No row is a cell of the matrix that was not, and the cells are as they were.
CellsKept ==
    /\ \A id \in RunIds : /\ id \in RunIds' /\ runs'[id].mode = runs[id].mode /\ KeyOf(runs'[id]) = KeyOf(runs[id])
                          /\ runs'[id].strategy = runs[id].strategy
    /\ \A id \in RunIds' : id \in RunIds \/ runs'[id].mode # "oos"
    /\ \A s \in DOMAIN strategies : strategies'[s] = strategies[s]

LEMMA MatrixStands ==
  ASSUME CampaignInv, CellsKept
  PROVE  Cells' = Cells
  <1> DEFINE Cell(id) == [key |-> KeyOf(runs[id]), dsl |-> strategies[runs[id].strategy], run |-> id]
             Cell2(id) == [key |-> KeyOf(runs'[id]), dsl |-> strategies'[runs'[id].strategy], run |-> id]
             Ids == {o \in RunIds : runs[o].mode = "oos"}
             Ids2 == {o \in RunIds' : runs'[o].mode = "oos"}
  <1>1. Ids2 = Ids
    BY DEF CellsKept
  <1>2. \A id \in Ids : Cell2(id) = Cell(id)
    BY DEF CellsKept, CampaignInv, RowsInv
  <1>3. Cells = {Cell(id) : id \in Ids} /\ Cells' = {Cell2(id) : id \in Ids2}
    BY DEF Cells
  <1> HIDE DEF Cell, Cell2, Ids, Ids2
  <1> QED BY <1>1, <1>2, <1>3

\* The steps that plan no cell.
LEMMA MatrixKept ==
  CampaignInv /\ [Next]_vars /\ ~ (PlanOos /\ runs' # runs) => CellsKept
  <1> SUFFICES ASSUME CampaignInv, [Next]_vars, ~ (PlanOos /\ runs' # runs) PROVE CellsKept
    OBVIOUS
  <1>t. CampaignTypes /\ runs \in Seq(RunRecords)
    BY DEF CampaignInv, CampaignTypes
  <1>1. ASSUME UNCHANGED <<runs, strategies>> PROVE CellsKept
    BY <1>1 DEF CellsKept, RunIds
  <1>2. ASSUME NEW id \in RunIds, NEW s \in {"pending", "running", "completed", "failed"}, runs' = SetStatus(id, s),
               UNCHANGED strategies
        PROVE  CellsKept
    <2>1. Same(runs, runs')
      BY <1>t, <1>2, StatusOnly
    <2>2. RunIds = 1 .. Len(runs) /\ RunIds' = 1 .. Len(runs)
      BY <1>t, <2>1, LenProperties DEF Same, RunIds
    <2> QED BY <1>2, <2>1, <2>2 DEF Same, CellsKept, KeyOf
  <1>3. ASSUME NEW row \in RunRecords, row.mode # "oos", runs' = Append(runs, row), UNCHANGED strategies PROVE CellsKept
    <2>1. /\ RunIds' = RunIds \cup {Len(runs) + 1} /\ runs'[Len(runs) + 1] = row
          /\ \A id \in RunIds : runs'[id] = runs[id]
      BY <1>t, <1>3, RowAdded
    <2> QED BY <1>3, <2>1 DEF CellsKept
  <1>4. CASE UNCHANGED vars
    BY <1>1, <1>4 DEF vars
  <1>5. CASE RunnerNext
    <2>1. CASE PlanDiscovery
      <3>1. /\ runner \in RunnerRecords /\ runner.i <= Len(runner.train) /\ UNCHANGED strategies
            /\ runs' = Append(runs, DiscoveryRow(runner.train[runner.i]))
        BY <2>1, <1>t DEF PlanDiscovery, CampaignTypes
      <3>2. runner.train[runner.i] \in Labels
        BY <3>1, LenProperties, ElementOfSeq DEF RunnerRecords
      <3>3. DiscoveryRow(runner.train[runner.i]) \in RunRecords /\ DiscoveryRow(runner.train[runner.i]).mode # "oos"
        BY <3>2 DEF DiscoveryRow, RunRecords
      <3> QED BY <1>3, <3>1, <3>3
    <2>2. CASE PlanStrategy
      <3>1. UNCHANGED runs /\ \A s \in DOMAIN strategies : strategies'[s] = strategies[s]
        BY <2>2 DEF PlanStrategy
      <3> QED BY <3>1 DEF CellsKept, RunIds
    <2>3. CASE PlanOos
      <3>1. UNCHANGED <<runs, strategies>>
        BY <2>3 DEF PlanOos
      <3> QED BY <1>1, <3>1
    <2>4. CASE ~ PlanDiscovery /\ ~ PlanStrategy /\ ~ PlanOos
      <3>1. UNCHANGED <<runs, strategies>>
        BY <1>5, <2>4 DEF RunnerNext, CmdPlan, CmdRun, Start, Crash, PhaseEnds, Skip, Reap, Extract, Launch
      <3> QED BY <1>1, <3>1
    <2> QED BY <2>1, <2>2, <2>3, <2>4
  <1>6. ASSUME NEW p \in Procs, WorkerNext(p) PROVE CellsKept
    <2>1. workers[p].pc # "free" /\ UNCHANGED strategies
      BY <1>6 DEF WorkerNext, WorkerProceeds, Begin, Refuse, Save, Tell, Finish, Fail, Die, Gone
    <2>2. workers[p].run \in RunIds
      BY <2>1, WorkerFacts
    <2>3. UNCHANGED runs \/ \E s \in {"pending", "running", "completed", "failed"} : runs' = SetStatus(workers[p].run, s)
      <3>1. FirstStatus(p) \in {"pending", "running", "completed", "failed"}
        BY DEF FirstStatus
      <3>2. \/ UNCHANGED runs \/ runs' = SetStatus(workers[p].run, "running")
            \/ runs' = SetStatus(workers[p].run, "failed") \/ runs' = SetStatus(workers[p].run, "completed")
            \/ runs' = SetStatus(workers[p].run, FirstStatus(p))
        BY <1>6 DEF WorkerNext, WorkerProceeds, Begin, Refuse, Save, Tell, Finish, Fail, Die, Gone
      <3> QED BY <3>1, <3>2
    <2> QED BY <1>1, <1>2, <2>1, <2>2, <2>3
  <1>7. ASSUME NEW s \in DOMAIN strategies, LaunchValidation(s) PROVE CellsKept
    <2>1. UNCHANGED strategies /\ runs' = Append(runs, ManualRow(s))
      BY <1>7 DEF LaunchValidation
    <2>2. ManualRow(s) \in RunRecords /\ ManualRow(s).mode # "oos"
      BY <1>t DEF ManualRow, RunRecords, CampaignTypes
    <2> QED BY <1>3, <2>1, <2>2
  <1> QED BY <1>4, <1>5, <1>6, <1>7 DEF Next

\* The windows are finitely many, and so are the cells.
LEMMA ImageFinite ==
  ASSUME NEW S, NEW q \in Seq(S)
  PROVE  IsFiniteSet({q[i] : i \in DOMAIN q})
  <1> DEFINE T == {q[i] : i \in DOMAIN q}
             f == [i \in DOMAIN q |-> q[i]]
  <1>1. DOMAIN q = 1 .. Len(q) /\ Len(q) \in Nat
    BY LenProperties
  <1>2. IsFiniteSet(DOMAIN q)
    BY <1>1, FS_Interval
  <1>3. f \in Surjection(DOMAIN q, T)
    BY DEF Surjection
  <1> QED BY <1>2, <1>3, FS_Surjection

LEMMA KeysFinite == IsFiniteSet(Keys) /\ Cardinality(Keys) \in Nat
  <1>1. IsFiniteSet(Labels) /\ IsFiniteSet(Windows)
    BY ConfigAssumption, ImageFinite DEF Labels, Windows
  <1>2. IsFiniteSet(1 .. MaxTops)
    BY ConfigAssumption, FS_Interval
  <1>3. IsFiniteSet((Labels \X (1 .. MaxTops)) \X Windows)
    BY <1>1, <1>2, FS_Product
  <1> DEFINE P == (Labels \X (1 .. MaxTops)) \X Windows
             f == [p \in P |-> <<p[1][1], p[1][2], p[2]>>]
  <1>4. f \in Surjection(P, Keys)
    <2>1. f \in [P -> Keys]
      BY DEF Keys
    <2>2. ASSUME NEW k \in Keys PROVE \E p \in P : f[p] = k
      <3>1. PICK a \in Labels, b \in 1 .. MaxTops, c \in Windows : k = <<a, b, c>>
        BY DEF Keys
      <3>2. <<<<a, b>>, c>> \in P
        OBVIOUS
      <3>3. f[<<<<a, b>>, c>>] = <<a, b, c>>
        BY <3>2
      <3> QED BY <3>1, <3>2, <3>3
    <2> HIDE DEF f
    <2> QED BY <2>1, <2>2 DEF Surjection
  <1> HIDE DEF f, P
  <1>5. IsFiniteSet(Keys)
    BY <1>3, <1>4, FS_Surjection DEF P
  <1> QED BY <1>5, FS_CardinalityType

\* There is room in the table for a cell that is not yet there.
LEMMA RowsLimited ==
  ASSUME CampaignInv, NEW key \in Keys, \A id \in RunIds : runs[id].mode = "oos" => KeyOf(runs[id]) # key
  PROVE  Len(runs) + 1 \in 1 .. MaxRows
  <1> DEFINE D == OfMode(runs, "discovery")
             O == OfMode(runs, "oos")
             V == OfMode(runs, "validation")
             f == [id \in O |-> KeyOf(runs[id])]
             K == Keys \ {key}
  <1>t. CampaignTypes /\ RowsInv /\ CountInv
    BY DEF CampaignInv
  <1>1. Len(runs) \in Nat /\ RunIds = 1 .. Len(runs) /\ \A id \in RunIds : runs[id].mode \in {"discovery", "oos", "validation"}
    BY <1>t, DomainFacts DEF RunRecords
  <1>2. \A m : OfMode(runs, m) \in SUBSET (1 .. Len(runs))
    BY <1>1 DEF OfMode, RunIds
  <1>3. /\ IsFiniteSet(D) /\ Cardinality(D) \in Nat /\ IsFiniteSet(O) /\ Cardinality(O) \in Nat
        /\ IsFiniteSet(V) /\ Cardinality(V) \in Nat
    BY <1>1, <1>2, RankFacts
  <1>4. f \in Injection(O, K)
    <2>1. \A id \in O : KeyOf(runs[id]) \in K
      BY <1>t DEF RowsInv, OfMode, RunIds
    <2>2. \A a, b \in O : KeyOf(runs[a]) = KeyOf(runs[b]) => a = b
      BY <1>t DEF RowsInv, OfMode, RunIds
    <2> QED BY <2>1, <2>2 DEF Injection, IsInjective
  <1>5. IsFiniteSet(K) /\ Cardinality(K) = Cardinality(Keys) - 1
    BY KeysFinite, FS_RemoveElement
  <1>6. Cardinality(O) <= Cardinality(K)
    BY <1>4, <1>5, FS_Injection
  <1>7. 1 .. Len(runs) = D \cup (O \cup V)
    BY <1>1 DEF OfMode, RunIds
  <1>8. D \cap (O \cup V) = {} /\ O \cap V = {}
    BY DEF OfMode
  <1>9. Cardinality(1 .. Len(runs)) = Len(runs)
    <2>1. Cardinality(1 .. Len(runs)) = IF 1 > Len(runs) THEN 0 ELSE Len(runs) - 1 + 1
      BY <1>1, FS_Interval
    <2> QED BY <1>1, <2>1
  <1> HIDE DEF D, O, V, f, K
  <1>10. IsFiniteSet(O \cup V) /\ Cardinality(O \cup V) = Cardinality(O) + Cardinality(V)
    <2>1. Cardinality(O \cap V) = 0
      BY <1>8, FS_EmptySet
    <2>2. IsFiniteSet(O \cup V) /\ Cardinality(O \cup V) = Cardinality(O) + Cardinality(V) - Cardinality(O \cap V)
      BY <1>3, FS_Union
    <2> QED BY <1>3, <2>1, <2>2
  <1>11. Cardinality(D \cup (O \cup V)) = Cardinality(D) + Cardinality(O) + Cardinality(V)
    <2>1. Cardinality(D \cap (O \cup V)) = 0
      BY <1>8, FS_EmptySet
    <2>2. Cardinality(D \cup (O \cup V)) = Cardinality(D) + Cardinality(O \cup V) - Cardinality(D \cap (O \cup V))
      BY <1>3, <1>10, FS_Union
    <2> QED BY <1>3, <1>10, <2>1, <2>2
  <1>12. Len(runs) = Cardinality(D) + Cardinality(O) + Cardinality(V)
    BY <1>7, <1>9, <1>11
  <1>13. Cardinality(D) <= Len(Train) /\ Cardinality(V) <= MaxManual
    BY <1>t DEF CountInv, D, V
  <1>14. Len(Train) \in Nat /\ MaxManual \in Nat /\ Cardinality(Keys) \in Nat
    BY ConfigAssumption, KeysFinite
  <1>15. Len(runs) + 1 <= Len(Train) + Cardinality(Keys) + MaxManual
    BY <1>1, <1>3, <1>5, <1>6, <1>12, <1>13, <1>14
  <1>16. MaxRows \in Nat
    BY <1>14 DEF MaxRows
  <1> QED BY <1>1, <1>15, <1>16 DEF MaxRows

\* A cell is planned: one that was not there, with its strategy.
LEMMA MatrixPlanned ==
  ASSUME CampaignInv, PlanOos, runs' # runs
  PROVE  \E k \in Keys, d \in Dsls, n \in 1 .. MaxRows :
           /\ \A c \in Cells : c.key # k
           /\ Cells' = Cells \cup {[key |-> k, dsl |-> d, run |-> n]}
  <1> DEFINE key == <<runner.train[runner.i], runner.j, runner.windows[runner.k]>>
             row == OosRow(key)
             name == <<key[1], key[2]>>
             n == Len(runs) + 1
  <1>t. CampaignTypes /\ RowsInv
    BY DEF CampaignInv
  <1>0. At("champions") /\ runner.k > 0 /\ UNCHANGED strategies /\ ~ InPlan(key) /\ runs' = Append(runs, row)
    BY DEF PlanOos
  <1>1. key \in Keys /\ row \in RunRecords /\ name \in DOMAIN strategies /\ KeyOf(row) = key
    BY <1>0, CellFacts
  <1>2. \A id \in RunIds : runs[id].mode = "oos" => KeyOf(runs[id]) # key
    <2>1. KnowsRows(runner)
      BY <1>0, AdvancedFacts
    <2> QED BY <1>0, <2>1 DEF KnowsRows, InPlan
  <1>3. row.mode = "oos" /\ row.strategy = name
    BY DEF OosRow
  <1> HIDE DEF key, row, name
  <1>4. n \in 1 .. MaxRows
    BY <1>1, <1>2, RowsLimited
  <1>5. /\ RunIds' = RunIds \cup {n} /\ n \notin RunIds /\ runs'[n] = row
        /\ \A id \in RunIds : runs'[id] = runs[id]
    BY <1>0, <1>1, <1>t, RowAdded
  <1>6. strategies[name] \in Dsls
    BY <1>1, <1>t DEF CampaignTypes
  <1> HIDE DEF n
  <1> DEFINE Cell(id) == [key |-> KeyOf(runs[id]), dsl |-> strategies[runs[id].strategy], run |-> id]
             Cell2(id) == [key |-> KeyOf(runs'[id]), dsl |-> strategies'[runs'[id].strategy], run |-> id]
             Ids == {o \in RunIds : runs[o].mode = "oos"}
             Ids2 == {o \in RunIds' : runs'[o].mode = "oos"}
             new == [key |-> key, dsl |-> strategies[name], run |-> n]
  <1>7. Cells = {Cell(id) : id \in Ids} /\ Cells' = {Cell2(id) : id \in Ids2}
    BY DEF Cells
  <1>8. Ids2 = Ids \cup {n} /\ n \notin Ids
    BY <1>3, <1>5
  <1>9. \A id \in Ids : Cell2(id) = Cell(id)
    BY <1>0, <1>5
  <1>10. Cell2(n) = new
    BY <1>0, <1>1, <1>3, <1>5
  <1>11. \A id \in Ids : Cell(id).key # key
    BY <1>2
  <1> HIDE DEF Cell, Cell2, Ids, Ids2, new
  <1>12. Cells' = Cells \cup {new}
    BY <1>7, <1>8, <1>9, <1>10
  <1>13. \A c \in Cells : c.key # key
    BY <1>7, <1>11
  <1> QED BY <1>1, <1>4, <1>6, <1>12, <1>13 DEF new

\* The matrix only grows, by one cell for each champion and window, each with
\* the strategy it was planned for: Campaign implements CellLedger
\* (plan_oos_validations, "safe to re-call", after any crash, restart or force).
THEOREM MatrixGrows == Spec => MatrixOnlyGrows
  <1>1. Init => Ledger!Init
    BY DEF Init, Cells, RunIds, Ledger!Init
  <1>2. CampaignInv /\ [Next]_vars => [Ledger!Next]_Cells
    <2> SUFFICES ASSUME CampaignInv, [Next]_vars PROVE [Ledger!Next]_Cells
      OBVIOUS
    <2>1. CASE PlanOos /\ runs' # runs
      BY <2>1, MatrixPlanned DEF Ledger!Next, Ledger!Plan
    <2>2. CASE ~ (PlanOos /\ runs' # runs)
      BY <2>2, MatrixKept, MatrixStands
    <2> QED BY <2>1, <2>2
  <1> QED BY <1>1, <1>2, CampaignInitInv, CampaignStep, PTL DEF Spec, MatrixOnlyGrows, Ledger!Spec
=============================================================================
