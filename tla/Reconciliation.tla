--------------------------- MODULE Reconciliation ---------------------------
(***************************************************************************)
(* The comparison of a paper session with a validation run                 *)
(* (vibe_quant/reconciliation.py): round trips are rebuilt from the open   *)
(* and close events of each run's log and paired by symbol and entry time. *)
(*                                                                         *)
(* The code that writes these events is the validation runner, and it      *)
(* names no position; the paper node writes none at all.  A writer that    *)
(* follows the schema of logging/events.py, as the tests do, is external;  *)
(* without Ids there is none.  A log is read from logs/events, where the   *)
(* validation runner writes it; the paper node writes to the logs_path of  *)
(* its configuration, by default logs/paper.                               *)
(***************************************************************************)
EXTENDS Integers, Sequences, FiniteSets, SequencesExt, Sorting

CONSTANTS
  Traded,     \* symbols
  Ids,        \* ids of positions, as a writer of the schema names them
  SymbolOf,   \* their symbols
  NoId,       \* the empty id
  MaxTime,    \* bound: the times of events
  MaxOpens,   \* bound: positions opened in one log
  Tolerance   \* tolerance_seconds

ASSUME ReconConfig ==
  /\ SymbolOf \in [Ids -> Traded] /\ NoId \notin Ids
  /\ MaxTime \in Nat /\ MaxOpens \in Nat /\ Tolerance \in Nat

VARIABLES
  events,  \* the POSITION_OPEN and POSITION_CLOSE events of each log
  phase,   \* of each run: "new", "running", "stopped"
  logsAt,  \* the directory of each run's log: "events", or another one, "paper"
  closed,  \* history: round trips each run has made
  report   \* ReconciliationReport: [made, paper, validation, matches, paperOnly, validationOnly]

rvars == <<events, phase, logsAt, closed, report>>

Sides == {"paper", "validation"}

NoReport == [made |-> FALSE, paper |-> << >>, validation |-> << >>, matches |-> {},
             paperOnly |-> {}, validationOnly |-> {}]

ReconInit ==
  /\ events = [r \in Sides |-> << >>] /\ phase = [r \in Sides |-> "new"]
  /\ logsAt = [r \in Sides |-> "events"] /\ closed = [r \in Sides |-> 0] /\ report = NoReport

-----------------------------------------------------------------------------
(* The runs.  A strategy is validated before it is traded on paper. *)

Event(kind, id, symbol, ts) == [kind |-> kind, id |-> id, symbol |-> symbol, ts |-> ts]

Now(r) == IF events[r] = << >> THEN 0 ELSE Last(events[r]).ts

Opens(r) == Cardinality({i \in DOMAIN events[r] : events[r][i].kind = "open"})

\* Positions whose last event in the log is an open.
Live(r) == {id \in Ids :
  LET of == SelectSeq(events[r], LAMBDA e : e.id = id)
  IN  of # << >> /\ Last(of).kind = "open"}

StartRun(r) ==
  /\ phase[r] = "new" /\ (r = "paper" => phase["validation"] = "stopped")
  /\ phase' = [phase EXCEPT ![r] = "running"]
  /\ \E d \in IF r = "paper" THEN {"paper", "events"} ELSE {"events"} : logsAt' = [logsAt EXCEPT ![r] = d]
  /\ UNCHANGED <<events, closed, report>>

WriteOpen(r) ==
  /\ phase[r] = "running" /\ Opens(r) < MaxOpens /\ (events[r] = << >> => closed[r] = 0)
  /\ \E id \in Ids \ Live(r), ts \in Now(r) .. MaxTime :
       events' = [events EXCEPT ![r] = Append(@, Event("open", id, SymbolOf[id], ts))]
  /\ UNCHANGED <<phase, logsAt, closed, report>>

\* (Nothing is compared by the time of a close: it is the time of the event before.)
WriteClose(r) ==
  /\ phase[r] = "running"
  /\ \E id \in Live(r) :
       events' = [events EXCEPT ![r] = Append(@, Event("close", id, SymbolOf[id], Now(r)))]
  /\ closed' = [closed EXCEPT ![r] = @ + 1]
  /\ UNCHANGED <<phase, logsAt, report>>

\* The engine of the paper node opens and closes a position: no event is written.
\* (The positions of a run have one writer or none.)
PaperRoundTrip ==
  /\ phase["paper"] = "running" /\ events["paper"] = << >> /\ closed["paper"] < MaxOpens
  /\ closed' = [closed EXCEPT !["paper"] = @ + 1]
  /\ UNCHANGED <<events, phase, logsAt, report>>

StopPaper ==
  /\ phase["paper"] = "running"
  /\ phase' = [phase EXCEPT !["paper"] = "stopped"]
  /\ UNCHANGED <<events, logsAt, closed, report>>

\* _write_trade_events, for every trade once the backtest is over: no position
\* id, and the time of writing; the symbol makes no difference.
TradeEvents(n) == [i \in 1 .. 2 * n |-> Event(IF i % 2 = 1 THEN "open" ELSE "close", NoId, NoId, MaxTime)]

EndValidation ==
  /\ phase["validation"] = "running"
  /\ \E n \in IF events["validation"] = << >> THEN 0 .. MaxOpens ELSE {0} :
       /\ events' = [events EXCEPT !["validation"] = @ \o TradeEvents(n)]
       /\ closed' = [closed EXCEPT !["validation"] = @ + n]
  /\ phase' = [phase EXCEPT !["validation"] = "stopped"]
  /\ UNCHANGED <<logsAt, report>>

-----------------------------------------------------------------------------
(* load_trades *)

Without(opens, id) == [k \in DOMAIN opens \ {id} |-> opens[k]]

\* One line: an open replaces an earlier one of its id, a close without an open
\* is left out.
ReadEvent(acc, e) ==
  CASE e.kind = "open" /\ e.id # NoId ->
         [acc EXCEPT !.opens = [k \in DOMAIN @ \cup {e.id} |-> IF k = e.id THEN e ELSE @[k]]]
    [] e.kind = "close" /\ e.id \in DOMAIN acc.opens ->
         LET o == acc.opens[e.id]
         IN  [opens  |-> Without(acc.opens, e.id),
              trades |-> Append(acc.trades, [id |-> o.id, symbol |-> o.symbol, entry |-> o.ts, exit |-> e.ts])]
    [] OTHER -> acc

LoadTrades(r) ==
  LET log == events[r]
      read[n \in 0 .. Len(log)] == IF n = 0 THEN [opens |-> << >>, trades |-> << >>]
                                   ELSE ReadEvent(read[n - 1], log[n])
      trips == read[Len(log)].trades
  IN  Sorted(trips, [i \in DOMAIN trips |-> trips[i].entry])

-----------------------------------------------------------------------------
(* reconcile *)

Gap(p, v) == IF p.entry > v.entry THEN p.entry - v.entry ELSE v.entry - p.entry

Near(p, v) == p.symbol = v.symbol /\ Gap(p, v) <= Tolerance

\* The nearest of the trades left, the first of several.
Pick(p, V, left) ==
  LET near == {i \in left : Near(p, V[i])}
  IN  {i \in near : \A j \in near : \/ Gap(p, V[i]) < Gap(p, V[j])
                                    \/ Gap(p, V[i]) = Gap(p, V[j]) /\ i <= j}

\* Mutant: `if best_idx:` takes the first trade of the list for none.
Pair_IfIndex(P, V, used, i) ==
  used \cup {<<i, j>> : j \in Pick(P[i], V, DOMAIN V \ {m[2] : m \in used}) \ {1}}

Pair(P, V, used, i) == used \cup {<<i, j>> : j \in Pick(P[i], V, DOMAIN V \ {m[2] : m \in used})}

\* Paper trades are told apart by their position ids, validation trades by their
\* place.
Compare(P, V) ==
  LET used[i \in 0 .. Len(P)] == IF i = 0 THEN {} ELSE Pair(P, V, used[i - 1], i)
      matches == used[Len(P)]
      ids     == {P[m[1]].id : m \in matches}
  IN  [made |-> TRUE, paper |-> P, validation |-> V, matches |-> matches,
       paperOnly |-> {i \in DOMAIN P : P[i].id \notin ids},
       validationOnly |-> DOMAIN V \ {m[2] : m \in matches}]

\* parity_rate() = 1.0
FullParity == Cardinality(report.matches) = Cardinality(report.matches)
                + Cardinality(report.paperOnly) + Cardinality(report.validationOnly)

\* The endpoint refuses a session that is still running, and answers 404 when
\* load_trades finds no log: where the paper node logs by default, always.
Reconcile ==
  /\ phase["paper"] = "stopped" /\ phase["validation"] = "stopped"
  /\ \A r \in Sides : logsAt[r] = "events"
  /\ report' = Compare(LoadTrades("paper"), LoadTrades("validation"))
  /\ UNCHANGED <<events, phase, logsAt, closed>>

ReconNext ==
  \/ \E r \in Sides : StartRun(r) \/ WriteOpen(r) \/ WriteClose(r)
  \/ PaperRoundTrip \/ StopPaper \/ EndValidation \/ Reconcile

ReconSpec == ReconInit /\ [][ReconNext]_rvars

-----------------------------------------------------------------------------
(* Properties *)

Entries(s) == {<<t.symbol, t.entry>> : t \in {s[i] : i \in DOMAIN s}}

Distinct(s) == \A i, j \in DOMAIN s :
  i # j => s[i].id # s[j].id /\ <<s[i].symbol, s[i].entry>> # <<s[j].symbol, s[j].entry>>

\* The greedy matcher leaves nothing that could still be paired, uses no trade
\* twice and, where ids are distinct, forgets no trade; and two runs that entered
\* at the same times are in full parity, whatever else is near
\* (reconciliation.py:306).
Accounted ==
  report.made =>
    LET P == report.paper  V == report.validation  M == report.matches
    IN  /\ \A m \in M : Near(P[m[1]], V[m[2]])
        /\ \A m, n \in M : (m[1] = n[1]) <=> (m[2] = n[2])
        /\ \A i \in report.paperOnly, j \in report.validationOnly : ~ Near(P[i], V[j])
        /\ Distinct(P) => report.paperOnly = DOMAIN P \ {m[1] : m \in M}
        /\ Distinct(P) /\ Distinct(V) /\ Entries(P) = Entries(V) => FullParity

\* "1.0 means perfect parity" (reconciliation.py:110): a session that logs to where
\* load_trades reads, and is compared as equal to its validation, made as many
\* round trips.
ParityMeansAgreement ==
  report.made /\ FullParity => closed["paper"] = closed["validation"]

=============================================================================
