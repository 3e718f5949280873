--------------------------- MODULE EtherealArchive ---------------------------
(***************************************************************************)
(* The Ethereal venue's historical data: monthly files downloaded into a   *)
(* SQLite archive (vibe_quant/ethereal/ingestion.py, archive.py), and the  *)
(* archive converted into the bar catalog.  Each is a command of its own   *)
(* (ethereal/__main__.py), run by hand, and any of them may run at once;   *)
(* the archive commits one series at a time, and a command can die between *)
(* two commits.                                                            *)
(*                                                                         *)
(* A series is the bars of a symbol and a timeframe, or the funding rates  *)
(* of a symbol; the rows of a month are one unit.  (A row archived once is *)
(* never replaced, INSERT OR IGNORE: a correction published later is lost.)*)
(***************************************************************************)
EXTENDS Integers, Sequences, FiniteSets, FiniteSetsExt

CONSTANTS
  Bars,        \* the series of bars, in the order they are worked through
  Funding,     \* the series of funding rates that follow
  Months,      \* how many months there may be
  Commands,    \* processes
  MaxFailures, \* bound: downloads that fail
  MaxCommands  \* bound: commands started

ASSUME ArchiveConfig ==
  /\ Months \in Nat \ {0}
  /\ Bars # << >> /\ Bars \in Seq({Bars[i] : i \in DOMAIN Bars}) /\ Funding \in Seq({Funding[i] : i \in DOMAIN Funding})

VARIABLES
  today,       \* the current month
  published,   \* series -> the months the venue has a file of
  rows,        \* raw_klines and raw_funding_rates: series -> months archived
  files,       \* catalog: series -> the files written, each a set of months
  cmd,         \* command -> [pc, from, to, left, month, got, ok]; had is history: what
               \* was published, or archived, when it began
  failures, started

avars == <<today, published, rows, files, cmd, failures, started>>

Series  == Bars \o Funding
SeriesSet == {Series[i] : i \in 1 .. Len(Series)}
NoCommand == [pc |-> "none", from |-> 1, to |-> 1, left |-> << >>, month |-> 1,
              got |-> {}, ok |-> TRUE, had |-> {}]
There(f) == {x \in SeriesSet \X (1 .. Months) : x[2] \in f[x[1]]}

ArchiveInit ==
  /\ today = 1 /\ failures = 0 /\ started = 0
  /\ published = [s \in SeriesSet |-> {}]
  /\ rows = [s \in SeriesSet |-> {}]
  /\ files = [s \in SeriesSet |-> {}]
  /\ cmd = [c \in Commands |-> NoCommand]

---------------------------------------------------------------------------
(* The venue: a month passes, a file appears, not always in order. *)
NextMonth ==
  /\ today < Months /\ today' = today + 1
  /\ UNCHANGED <<published, rows, files, cmd, failures, started>>

Publish(s) ==
  /\ \E m \in 1 .. today \ published[s] : published' = [published EXCEPT ![s] = @ \cup {m}]
  /\ UNCHANGED <<today, rows, files, cmd, failures, started>>

---------------------------------------------------------------------------
(* ingest: from `years` before now until now; the series one by one, each  *)
(* month by month.                                                         *)
Ingest(c) ==
  /\ cmd[c].pc = "none" /\ started < MaxCommands /\ started' = started + 1
  /\ \E from \in 1 .. today :
       cmd' = [cmd EXCEPT ![c] = [NoCommand EXCEPT !.pc = "fetch", !.from = from, !.to = today,
                                                   !.left = Series, !.month = from, !.had = There(published)]]
  /\ UNCHANGED <<today, published, rows, files, failures>>

Fetching(c) == cmd[c].pc = "fetch" /\ cmd[c].month <= cmd[c].to

Fetch_EndsAtMissing(c) ==
  /\ Fetching(c)
  /\ LET s == Head(cmd[c].left) m == cmd[c].month
     IN  cmd' = [cmd EXCEPT ![c].got = @ \cup ({m} \cap published[s]),
                            ![c].month = IF m \in published[s] THEN m + 1 ELSE cmd[c].to + 1]
  /\ UNCHANGED <<today, published, rows, files, failures, started>>

(* A month's file: its rows, or none when it is not there (404). *)
Fetch(c) ==
  /\ Fetching(c)
  /\ LET s == Head(cmd[c].left) m == cmd[c].month
     IN  cmd' = [cmd EXCEPT ![c].got = @ \cup ({m} \cap published[s]), ![c].month = m + 1]
  /\ UNCHANGED <<today, published, rows, files, failures, started>>

(* Any error, of the transport or of the file, is logged, and the months   *)
(* after it go on: a hole for this time.                                   *)
FetchFails(c) ==
  /\ Fetching(c) /\ failures < MaxFailures
  /\ failures' = failures + 1
  /\ cmd' = [cmd EXCEPT ![c].month = @ + 1, ![c].ok = FALSE]
  /\ UNCHANGED <<today, published, rows, files, started>>

(* INSERT OR IGNORE of what the series had, and the commit. *)
Insert(c) ==
  /\ cmd[c].pc = "fetch" /\ cmd[c].month > cmd[c].to
  /\ LET s == Head(cmd[c].left) rest == Tail(cmd[c].left)
     IN  /\ rows' = [rows EXCEPT ![s] = @ \cup cmd[c].got]
         /\ cmd' = [cmd EXCEPT ![c].left = rest, ![c].month = cmd[c].from, ![c].got = {},
                               ![c].pc = IF rest = << >> THEN "ingested" ELSE "fetch"]
  /\ UNCHANGED <<today, published, files, failures, started>>

---------------------------------------------------------------------------
(* catalog: the archive's bars, series by series, as one file each, named  *)
(* by its first and last bar: the same span replaces the file, another one *)
(* that overlaps raises.                                                   *)
Span(f)       == <<Min(f), Max(f)>>
Overlap(f, g) == Span(f) # Span(g) /\ Min(f) <= Max(g) /\ Min(g) <= Max(f)

Convert(c) ==
  /\ cmd[c].pc = "none" /\ started < MaxCommands /\ started' = started + 1
  /\ cmd' = [cmd EXCEPT ![c] = [NoCommand EXCEPT !.pc = "convert", !.left = Bars, !.had = There(rows)]]
  /\ UNCHANGED <<today, published, rows, files, failures>>

Written(c) == [cmd EXCEPT ![c].left = Tail(@), ![c].pc = IF Len(cmd[c].left) = 1 THEN "converted" ELSE "convert"]
Write(c) ==
  /\ cmd[c].pc = "convert"
  /\ LET s == Head(cmd[c].left) f == rows[s]
     IN  \/ f = {} /\ cmd' = Written(c) /\ UNCHANGED files
         \/ /\ f # {} /\ \A g \in files[s] : ~Overlap(f, g)
            /\ files' = [files EXCEPT ![s] = {g \in @ : Span(g) # Span(f)} \cup {f}]
            /\ cmd' = Written(c)
         \/ /\ f # {} /\ \E g \in files[s] : Overlap(f, g)
            /\ cmd' = [cmd EXCEPT ![c].pc = "raised"]
            /\ UNCHANGED files
  /\ UNCHANGED <<today, published, rows, failures, started>>

(* A command ends, or dies, and another may be started. *)
End(c) ==
  /\ cmd[c].pc # "none"
  /\ cmd' = [cmd EXCEPT ![c] = NoCommand]
  /\ UNCHANGED <<today, published, rows, files, failures, started>>

ArchiveNext ==
  \/ NextMonth \/ \E s \in SeriesSet : Publish(s)
  \/ \E c \in Commands :
       Ingest(c) \/ Fetch(c) \/ FetchFails(c) \/ Insert(c) \/ Convert(c) \/ Write(c) \/ End(c)

ArchiveSpec == ArchiveInit /\ [][ArchiveNext]_avars

---------------------------------------------------------------------------
(* A command that ends without an error has done all it was asked.  An     *)
(* ingestion has filled every hole of its range, in every series, with     *)
(* what was published when it began: months that are not there yet, or     *)
(* that failed before, stop nothing.  A conversion has put every bar that  *)
(* was archived into the catalog, and none of them twice.                  *)
EndedDidAll ==
  \A c \in Commands :
    /\ cmd[c].pc = "ingested" /\ cmd[c].ok
         => \A x \in cmd[c].had : x[2] \in cmd[c].from .. cmd[c].to => x \in There(rows)
    /\ cmd[c].pc = "converted"
         => \A x \in cmd[c].had : x[1] \in {Bars[i] : i \in 1 .. Len(Bars)} =>
              Cardinality({f \in files[x[1]] : x[2] \in f}) = 1

=============================================================================
