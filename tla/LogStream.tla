------------------------------ MODULE LogStream ------------------------------
(***************************************************************************)
(* The log of a job as the browser sees it (vibe_quant/api/sse/progress.py)*)
(* while the worker writes it: the generator behind the endpoint reads the *)
(* job's status, then the whole file, sends the lines it has not sent yet, *)
(* and ends when the status it had read was a final one.  The connection   *)
(* may be lost between any two events; the browser then asks again, naming *)
(* the id of the last event it received.                                   *)
(*                                                                         *)
(* The worker's output reaches the file in blocks, so the last line of the *)
(* file may be half a line; the text of a line is left out.                *)
(***************************************************************************)
EXTENDS Integers, Sequences, SequencesExt

CONSTANTS
  MaxLines,   \* bound: lines the worker writes
  MaxDrops    \* bound: connections lost

VARIABLES
  log,      \* [lines, half, exists]: whole lines, and whether half a line follows
  final,    \* whether the job's status is a final one
  marked,   \* history: the lines in the file when it became final
  stream,   \* the generator: [pc, seen, num, out]
  got,      \* the browser: the ids received, in order; "complete" is its last event
  ended,    \* the browser received "complete"
  drops

lvars == <<log, final, marked, stream, got, ended, drops>>

InFile == log.lines + (IF log.half THEN 1 ELSE 0)

StreamInit ==
  /\ log = [lines |-> 0, half |-> FALSE, exists |-> FALSE]
  /\ final = FALSE /\ marked = 0
  /\ stream = [pc |-> "closed", seen |-> FALSE, num |-> 0, out |-> << >>]
  /\ got = << >> /\ ended = FALSE /\ drops = 0

---------------------------------------------------------------------------
(* The worker, which may write on after it has marked its job. *)
WriteHalf ==
  /\ ~log.half /\ log.lines < MaxLines
  /\ log' = [log EXCEPT !.half = TRUE, !.exists = TRUE]
  /\ UNCHANGED <<final, marked, stream, got, ended, drops>>

WriteLine ==
  /\ log.lines < MaxLines
  /\ log' = [lines |-> log.lines + 1, half |-> FALSE, exists |-> TRUE]
  /\ UNCHANGED <<final, marked, stream, got, ended, drops>>

Mark ==
  /\ ~final
  /\ final' = TRUE /\ marked' = InFile
  /\ UNCHANGED <<log, stream, got, ended, drops>>

---------------------------------------------------------------------------
(* Last-Event-ID: the id of the last event received, 0 before the first. *)
LastEventId == IF got = << >> THEN 0 ELSE Last(got)

OpenStream ==
  /\ stream.pc = "closed" /\ ~ended
  /\ stream' = [pc |-> "status", seen |-> FALSE, num |-> LastEventId, out |-> << >>]
  /\ UNCHANGED <<log, final, marked, got, ended, drops>>

ReadStatus ==
  /\ stream.pc = "status"
  /\ stream' = [stream EXCEPT !.pc = "file", !.seen = final]
  /\ UNCHANGED <<log, final, marked, got, ended, drops>>

(* lines[line_num:], numbered from line_num.  A half line at the end of    *)
(* the file is numbered like the others, and what follows of it is never   *)
(* sent: `got` has the ids of lines, not their text.                       *)
ReadFile ==
  /\ stream.pc = "file"
  /\ stream' = [stream EXCEPT
       !.pc  = "send",
       !.out = [i \in 1 .. (IF InFile > stream.num THEN InFile - stream.num ELSE 0) |-> stream.num + i - 1],
       !.num = IF log.exists THEN InFile ELSE @]
  /\ UNCHANGED <<log, final, marked, got, ended, drops>>

Send ==
  /\ stream.pc = "send" /\ stream.out # << >>
  /\ got' = Append(got, Head(stream.out))
  /\ stream' = [stream EXCEPT !.out = Tail(@)]
  /\ UNCHANGED <<log, final, marked, ended, drops>>

Complete_StatusNow ==
  /\ stream.pc = "send" /\ stream.out = << >>
  /\ final
  /\ ended' = TRUE
  /\ stream' = [stream EXCEPT !.pc = "closed"]
  /\ UNCHANGED <<log, final, marked, got, drops>>

(* All sent: the end of the stream, or a pause and the next poll. *)
Complete ==
  /\ stream.pc = "send" /\ stream.out = << >>
  /\ stream.seen
  /\ ended' = TRUE
  /\ stream' = [stream EXCEPT !.pc = "closed"]
  /\ UNCHANGED <<log, final, marked, got, drops>>

Pause ==
  /\ stream.pc = "send" /\ stream.out = << >> /\ ~stream.seen
  /\ stream' = [stream EXCEPT !.pc = "status"]
  /\ UNCHANGED <<log, final, marked, got, ended, drops>>

Drop ==
  /\ stream.pc \in {"status", "send"} /\ drops < MaxDrops
  /\ drops' = drops + 1
  /\ stream' = [stream EXCEPT !.pc = "closed", !.out = << >>]
  /\ UNCHANGED <<log, final, marked, got, ended>>

Tailing == OpenStream \/ ReadStatus \/ ReadFile \/ Send \/ Complete \/ Pause

StreamNext == WriteHalf \/ WriteLine \/ Mark \/ Drop \/ Tailing

StreamSpec == StreamInit /\ [][StreamNext]_lvars

---------------------------------------------------------------------------
(* The browser misses no line: every line that was in the file when the    *)
(* job ended has been received when "complete" arrives, over however many  *)
(* connections (the status is read before the file, and a new connection   *)
(* starts at the last line received).  Of a line that was half written     *)
(* when the file was read it has that half.                                *)
CompleteHasAll ==
  /\ \A i \in 1 .. Len(got) : \A n \in 0 .. got[i] : \E j \in 1 .. i : got[j] = n
  /\ ended => \A n \in 0 .. marked - 1 : \E j \in 1 .. Len(got) : got[j] = n

=============================================================================
