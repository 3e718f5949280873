------------------------- MODULE PaperTrading_proof -------------------------
(***************************************************************************)
(* Paper trading, for any number of sessions and traders, any retry limit  *)
(* and any bound on signals and crashes.  Most of the invariant is about   *)
(* one node record at a time: what each operator makes of a record is a    *)
(* lemma, and an action applies it to one session or to all.               *)
(***************************************************************************)
EXTENDS PaperTrading, SequenceTheorems, TLAPS

Starting == {"none", "boot", "init"}
Occupied == {"boot", "init", "live", "closing"}

\* A node that does not trade yet has done nothing.
Untouched(n) ==
  n.proc \in Starting =>
    /\ n.state = "initializing" /\ n.reason = "none" /\ n.prev = "none"
    /\ n.before = "running" /\ ~ n.byHand

\* A trading node remembers a state only while an error halts it, and then the
\* state the first error found.
Remembers(n) ==
  n.proc = "live" =>
    /\ n.state \in LiveStates \cup {"halted"}
    /\ n.state \in LiveStates => n.before = n.state /\ n.reason = "none" /\ n.prev = "none"
    /\ n.state = "halted" /\ ~ n.byHand => n.prev = n.before

NodeInv(n) == n \in NodeRecords /\ Untouched(n) /\ Remembers(n)

\* A halt is waiting, and no resume behind it.
HaltWaits(q) == \E i \in 1 .. Len(q) : q[i] = "USR1" /\ \A j \in (i + 1) .. Len(q) : q[j] # "USR2"
NoResume(q)  == \A i \in 1 .. Len(q) : q[i] # "USR2"

\* The kill switch has this node, or an operator has sent it a resume.
Held(n) ==
  /\ n.proc # "boot"
  /\ n.proc \in {"init", "live"} =>
       \/ n.resumed
       \/ HaltWaits(n.sig)
       \/ n.proc = "live" /\ n.state # "running" /\ NoResume(n.sig)

SwitchInv ==
  /\ api = "start" => ~ engaged
  /\ engaged /\ IsIdle /\ ~ lost => \A s \in Sessions : s \notin orphans => Held(node[s])

\* The rows tell which processes there are, but for the one whose row is still to
\* be written and those whose row never will.
RowsTell ==
  \A s \in Sessions :
    /\ node[s].proc \in Occupied => row[s] = "running" \/ Launching(s) \/ s \in orphans
    /\ node[s].proc = "none" <=> setup[s].config = "none"

\* A row start_job has still to write.
Unwritten(s) == row[s] = "none" /\ setup[s].config # "none" /\ s \notin orphans

\* There is at most one of them, and only while start_job runs.
OneUnwritten ==
  /\ \A s \in Sessions : setup[s].config = "none" => row[s] = "none"
  /\ \A s, u \in Sessions : Unwritten(s) /\ Unwritten(u) => s = u
  /\ api # "start" => \A s \in Sessions : ~ Unwritten(s)

\* Only a config with symbols gets past the CLI, and of the processes that rows
\* name one at a time has one.
Alone ==
  /\ \A s \in Sessions : node[s].proc \in {"init", "live"} => setup[s].config = "ok"
  /\ \A s, u \in Sessions :
       /\ s # u /\ setup[s].config = "ok" /\ setup[u].config = "ok"
       /\ s \notin orphans /\ u \notin orphans
       /\ node[s].proc \in {"boot", "init", "live"}
       => node[u].proc \notin {"boot", "init", "live"}

IInv ==
  /\ TypeOK
  /\ \A s \in Sessions : NodeInv(node[s])
  /\ RowsTell
  /\ OneUnwritten
  /\ Alone
  /\ SwitchInv

-----------------------------------------------------------------------------
(* Records *)

\* One field at a time.
LEMMA FieldTyped ==
  ASSUME NEW n \in NodeRecords
  PROVE  /\ \A x \in Procs : [n EXCEPT !.proc = x] \in NodeRecords
         /\ \A x \in NodeStates : [n EXCEPT !.state = x] \in NodeRecords
         /\ \A x \in Reasons : [n EXCEPT !.reason = x] \in NodeRecords
         /\ \A x \in {"none"} \cup LiveStates : [n EXCEPT !.prev = x] \in NodeRecords
         /\ \A x \in 0 .. MaxRetries : [n EXCEPT !.retries = x] \in NodeRecords
         /\ \A x \in Seq(Signals) : [n EXCEPT !.sig = x] \in NodeRecords
         /\ \A x \in LiveStates : [n EXCEPT !.before = x] \in NodeRecords
         /\ \A x \in BOOLEAN : [n EXCEPT !.byHand = x] \in NodeRecords
         /\ \A x \in BOOLEAN : [n EXCEPT !.resumed = x] \in NodeRecords
  BY DEF NodeRecords

LEMMA FreshTyped ==
  /\ NodeInv(Fresh) /\ Fresh.proc = "none"
  /\ NodeInv(Gone) /\ Gone.proc = "gone"
  /\ \A f \in BOOLEAN : NodeInv(Closing(f)) /\ Closing(f).proc = "closing"
<1>1. /\ "none" \in Procs /\ "gone" \in Procs /\ "closing" \in Procs
      /\ "initializing" \in NodeStates /\ "stopped" \in NodeStates /\ "none" \in Reasons
      /\ "running" \in LiveStates /\ 0 \in 0 .. MaxRetries /\ << >> \in Seq(Signals)
  BY PaperBounds DEF Procs, NodeStates, Reasons, LiveStates
<1>2. Fresh \in NodeRecords
  BY <1>1 DEF Fresh, NodeRecords
<1>3. Gone \in NodeRecords /\ Gone.proc = "gone"
  BY <1>1 DEF Fresh, Gone, NodeRecords
<1>4. ASSUME NEW f \in BOOLEAN PROVE Closing(f) \in NodeRecords /\ Closing(f).proc = "closing"
  BY <1>1 DEF Fresh, Closing, NodeRecords
<1>5. NodeInv(Fresh) /\ Fresh.proc = "none"
  BY <1>2 DEF NodeInv, Untouched, Remembers, Fresh
<1> QED
  BY <1>3, <1>4, <1>5 DEF NodeInv, Untouched, Remembers, Starting

-----------------------------------------------------------------------------
(* Queues of signals *)

LEMMA QueueAppend ==
  ASSUME NEW q \in Seq(Signals), NEW x \in Signals
  PROVE  /\ Append(q, x) \in Seq(Signals)
         /\ x = "USR1" => HaltWaits(Append(q, x))
         /\ x # "USR2" /\ HaltWaits(q) => HaltWaits(Append(q, x))
         /\ x # "USR2" /\ NoResume(q) => NoResume(Append(q, x))
<1> DEFINE a == Append(q, x)
<1>1. a \in Seq(Signals) /\ Len(a) = Len(q) + 1 /\ Len(q) \in Nat
  OBVIOUS
<1>2. a[Len(q) + 1] = x /\ \A i \in 1 .. Len(q) : a[i] = q[i]
  OBVIOUS
<1> HIDE DEF a
<1>3. ASSUME x = "USR1" PROVE HaltWaits(a)
  <2>1. Len(q) + 1 \in 1 .. Len(a) /\ a[Len(q) + 1] = "USR1"
    BY <1>1, <1>2, <1>3
  <2>2. \A j \in (Len(q) + 1 + 1) .. Len(a) : a[j] # "USR2"
    BY <1>1
  <2> QED
    BY <2>1, <2>2 DEF HaltWaits
<1>4. ASSUME x # "USR2", HaltWaits(q) PROVE HaltWaits(a)
  <2>1. PICK i \in 1 .. Len(q) : q[i] = "USR1" /\ \A j \in (i + 1) .. Len(q) : q[j] # "USR2"
    BY <1>4 DEF HaltWaits
  <2>2. i \in 1 .. Len(a) /\ a[i] = "USR1"
    BY <1>1, <1>2, <2>1
  <2>3. ASSUME NEW j \in (i + 1) .. Len(a) PROVE a[j] # "USR2"
    <3>1. CASE j = Len(q) + 1
      BY <1>2, <1>4, <3>1
    <3>2. CASE j # Len(q) + 1
      <4>1. j \in (i + 1) .. Len(q) /\ j \in 1 .. Len(q)
        BY <1>1, <2>1, <3>2
      <4> QED
        BY <1>2, <2>1, <4>1
    <3> QED
      BY <3>1, <3>2
  <2> QED
    BY <2>2, <2>3 DEF HaltWaits
<1>5. ASSUME x # "USR2", NoResume(q) PROVE NoResume(a)
  BY <1>1, <1>2, <1>5 DEF NoResume
<1> QED
  BY <1>1, <1>3, <1>4, <1>5 DEF a

LEMMA QueueTail ==
  ASSUME NEW q \in Seq(Signals), q # << >>
  PROVE  /\ Tail(q) \in Seq(Signals)
         /\ HaltWaits(q) => HaltWaits(Tail(q)) \/ (Head(q) = "USR1" /\ NoResume(Tail(q)))
         /\ NoResume(q) => Head(q) # "USR2" /\ NoResume(Tail(q))
<1> DEFINE t == Tail(q)
<1>1. t \in Seq(Signals) /\ Len(t) = Len(q) - 1 /\ Len(q) \in Nat /\ Len(q) >= 1
  BY EmptySeq
<1>2. Head(q) = q[1] /\ \A i \in 1 .. Len(t) : t[i] = q[i + 1]
  OBVIOUS
<1> HIDE DEF t
<1>3. ASSUME HaltWaits(q) PROVE HaltWaits(t) \/ (Head(q) = "USR1" /\ NoResume(t))
  <2>1. PICK i \in 1 .. Len(q) : q[i] = "USR1" /\ \A j \in (i + 1) .. Len(q) : q[j] # "USR2"
    BY <1>3 DEF HaltWaits
  <2>2. ASSUME NEW j \in i .. Len(t), j >= 1 PROVE t[j] # "USR2"
    <3>1. j \in 1 .. Len(t) /\ j + 1 \in (i + 1) .. Len(q)
      BY <1>1, <2>1, <2>2
    <3> QED
      BY <1>2, <2>1, <3>1
  <2>3. CASE i = 1
    BY <1>1, <1>2, <2>1, <2>2, <2>3 DEF NoResume
  <2>4. CASE i # 1
    <3>1. i - 1 \in 1 .. Len(t) /\ t[i - 1] = q[i - 1 + 1] /\ i - 1 + 1 = i
      BY <1>1, <1>2, <2>1, <2>4
    <3>2. \A j \in (i - 1 + 1) .. Len(t) : t[j] # "USR2"
      BY <1>1, <2>1, <2>2, <3>1
    <3> QED
      BY <2>1, <3>1, <3>2 DEF HaltWaits
  <2> QED
    BY <2>3, <2>4
<1>4. ASSUME NoResume(q) PROVE Head(q) # "USR2" /\ NoResume(t)
  <2>1. q[1] # "USR2"
    BY <1>1, <1>4 DEF NoResume
  <2>2. ASSUME NEW i \in 1 .. Len(t) PROVE t[i] # "USR2"
    <3>1. i + 1 \in 1 .. Len(q)
      BY <1>1
    <3> QED
      BY <1>2, <1>4, <3>1 DEF NoResume
  <2> QED
    BY <1>2, <2>1, <2>2 DEF NoResume
<1> QED
  BY <1>1, <1>3, <1>4 DEF t

-----------------------------------------------------------------------------
(* What the operators make of a record *)

LEMMA Signalling ==
  ASSUME NEW n, NodeInv(n), NEW x \in Signals
  PROVE  /\ NodeInv(Signalled(n, x))
         /\ Signalled(n, x).proc \in {n.proc, "gone"}
         /\ Signalled(n, x).proc = "none" <=> n.proc = "none"
         /\ Held(Signalled(n, "USR1"))
         /\ x # "USR2" /\ Held(n) => Held(Signalled(n, x))
<1>1. n \in NodeRecords /\ n.sig \in Seq(Signals) /\ n.proc \in Procs
  BY DEF NodeInv, NodeRecords
<1> DEFINE g(y) == [n EXCEPT !.sig = Append(n.sig, y)]
<1>2. ASSUME NEW y \in Signals
      PROVE  /\ g(y) \in NodeRecords /\ NodeInv(g(y)) /\ g(y).sig = Append(n.sig, y)
             /\ g(y).proc = n.proc /\ g(y).state = n.state /\ g(y).resumed = n.resumed
  <2>1. Append(n.sig, y) \in Seq(Signals)
    BY <1>1
  <2>2. /\ g(y).sig = Append(n.sig, y) /\ g(y).proc = n.proc /\ g(y).state = n.state
        /\ g(y).resumed = n.resumed /\ g(y).reason = n.reason /\ g(y).prev = n.prev
        /\ g(y).before = n.before /\ g(y).byHand = n.byHand
    BY <1>1 DEF NodeRecords
  <2>3. g(y) \in NodeRecords
    BY <1>1, <2>1, FieldTyped
  <2> HIDE DEF g
  <2> QED
    BY <2>2, <2>3 DEF NodeInv, Untouched, Remembers
<1>3. \A y \in Signals : Signalled(n, y) = Gone \/ Signalled(n, y) = g(y) \/ Signalled(n, y) = n
  BY DEF Signalled
<1>4. \A y \in Signals : /\ n.proc = "boot" => Signalled(n, y) = Gone
                         /\ n.proc = "live" => Signalled(n, y) = g(y)
                         /\ n.proc = "init" => Signalled(n, y) = Gone \/ Signalled(n, y) = g(y)
                         /\ n.proc \notin {"boot", "init", "live"} => Signalled(n, y) = n
                         /\ n.proc = "none" => Signalled(n, y) = n
  BY DEF Signalled
<1>5. Held(Gone)
  BY FreshTyped DEF Held
<1> HIDE DEF g
<1>6. ASSUME NEW y \in Signals, y # "USR2", Held(n) PROVE Held(g(y))
  BY <1>1, <1>2, <1>6, QueueAppend DEF Held
<1>7. "USR1" \in Signals
  BY DEF Signals
<1>8. n.proc # "boot" => Held(g("USR1"))
  BY <1>1, <1>2, <1>7, QueueAppend DEF Held
<1>9. n.proc \notin {"boot", "init", "live"} => Held(n)
  BY DEF Held
<1>a. Held(Signalled(n, "USR1"))
  BY <1>4, <1>5, <1>7, <1>8, <1>9
<1>b. x # "USR2" /\ Held(n) => Held(Signalled(n, x))
  BY <1>3, <1>5, <1>6
<1>c. /\ NodeInv(Signalled(n, x))
      /\ Signalled(n, x).proc \in {n.proc, "gone"}
      /\ Signalled(n, x).proc = "none" <=> n.proc = "none"
  BY <1>2, <1>3, <1>4, FreshTyped
<1> QED
  BY <1>a, <1>b, <1>c

\* What SendTo and KillCommit write besides.
LEMMA Marking ==
  ASSUME NEW n, NodeInv(n), NEW b \in BOOLEAN
  PROVE  LET m == [n EXCEPT !.resumed = b]
         IN  /\ NodeInv(m) /\ m.proc = n.proc
             /\ (n.resumed => b) /\ Held(n) => Held(m)
             /\ b /\ n.proc # "boot" => Held(m)
<1> DEFINE m == [n EXCEPT !.resumed = b]
<1>1. n \in NodeRecords /\ n.resumed \in BOOLEAN
  BY DEF NodeInv, NodeRecords
<1>2. /\ m.proc = n.proc /\ m.sig = n.sig /\ m.state = n.state /\ m.resumed = b
      /\ m.reason = n.reason /\ m.prev = n.prev /\ m.before = n.before /\ m.byHand = n.byHand
  BY <1>1 DEF NodeRecords
<1>3. m \in NodeRecords
  BY <1>1, FieldTyped
<1> HIDE DEF m
<1>4. NodeInv(m)
  BY <1>2, <1>3 DEF NodeInv, Untouched, Remembers
<1>5. (n.resumed => b) /\ Held(n) => Held(m)
  BY <1>2 DEF Held
<1>6. b /\ n.proc # "boot" => Held(m)
  BY <1>2 DEF Held
<1> QED
  BY <1>2, <1>4, <1>5, <1>6 DEF m

\* The record Becomes writes.
LEMMA Noting ==
  ASSUME NEW m \in NodeRecords, m.proc = "live",
         m.state \in LiveStates \cup {"halted"},
         m.state \in LiveStates => m.reason = "none" /\ m.prev = "none",
         m.state = "halted" /\ ~ m.byHand /\ m.reason # "manual" => m.prev = m.before
  PROVE  /\ NodeInv(Noted(m)) /\ Noted(m).proc = "live" /\ Noted(m).sig = m.sig
         /\ Noted(m).state = m.state /\ Noted(m).resumed = m.resumed
<1> DEFINE b == IF m.state \in LiveStates THEN m.state ELSE m.before
           h == m.state = "halted" /\ (m.byHand \/ m.reason = "manual")
<1>1. Noted(m) = [[m EXCEPT !.before = b] EXCEPT !.byHand = h]
  BY DEF Noted, NodeRecords
<1>2. b \in LiveStates /\ h \in BOOLEAN
  BY DEF NodeRecords
<1>3. [m EXCEPT !.before = b] \in NodeRecords
  BY <1>2, FieldTyped
<1> HIDE DEF b, h
<1>4. Noted(m) \in NodeRecords
  <2>1. [[m EXCEPT !.before = b] EXCEPT !.byHand = h] \in NodeRecords
    BY <1>2, <1>3, FieldTyped, Zenon
  <2> QED
    BY <1>1, <2>1
<1>5. /\ Noted(m).proc = m.proc /\ Noted(m).sig = m.sig /\ Noted(m).state = m.state
      /\ Noted(m).resumed = m.resumed /\ Noted(m).reason = m.reason /\ Noted(m).prev = m.prev
      /\ Noted(m).before = b /\ Noted(m).byHand = h
  BY <1>1 DEF NodeRecords
<1>6. "halted" \notin LiveStates
  BY DEF LiveStates
<1> QED
  BY <1>4, <1>5, <1>6 DEF b, h, NodeInv, Untouched, Remembers, Starting

\* A signal leaves the queue.
LEMMA Taking ==
  ASSUME NEW n, NodeInv(n), n.sig # << >>
  PROVE  LET t == [n EXCEPT !.sig = Tail(@)]
         IN  /\ t \in NodeRecords /\ NodeInv(t) /\ t.sig = Tail(n.sig)
             /\ t.proc = n.proc /\ t.state = n.state /\ t.resumed = n.resumed
<1> DEFINE t == [n EXCEPT !.sig = Tail(n.sig)]
<1>1. n \in NodeRecords /\ n.sig \in Seq(Signals)
  BY DEF NodeInv, NodeRecords
<1>2. Tail(n.sig) \in Seq(Signals)
  BY <1>1, QueueTail
<1>3. t \in NodeRecords
  BY <1>1, <1>2, FieldTyped
<1>4. /\ t.proc = n.proc /\ t.sig = Tail(n.sig) /\ t.state = n.state /\ t.resumed = n.resumed
      /\ t.reason = n.reason /\ t.prev = n.prev /\ t.before = n.before /\ t.byHand = n.byHand
  BY <1>1 DEF NodeRecords
<1> HIDE DEF t
<1>5. NodeInv(t)
  BY <1>3, <1>4 DEF NodeInv, Untouched, Remembers
<1> QED
  BY <1>3, <1>4, <1>5 DEF t

\* What the handlers of a trading node give.
LEMMA HaltHandled ==
  ASSUME NEW t, NodeInv(t), t.proc = "live"
  PROVE  LET m == Noted(HaltHandler(t))
         IN  /\ NodeInv(m) /\ m.proc = "live" /\ m.sig = t.sig
             /\ m.resumed = t.resumed /\ m.state # "running"
<1> DEFINE h == HaltHandler(t)
<1>1. t \in NodeRecords /\ t.state \in LiveStates \cup {"halted"}
  BY DEF NodeInv, Remembers
<1>2. /\ "paused" \in NodeStates /\ "halted" \in NodeStates /\ "manual" \in Reasons
      /\ "halted" \notin LiveStates
  BY DEF NodeStates, LiveStates, Reasons
<1>3. [t EXCEPT !.state = "paused"] \in NodeRecords
  BY <1>1, <1>2, FieldTyped, Zenon
<1>4. [[t EXCEPT !.state = "halted"] EXCEPT !.reason = "manual"] \in NodeRecords
  <2>1. [t EXCEPT !.state = "halted"] \in NodeRecords
    BY <1>1, <1>2, FieldTyped, Zenon
  <2> QED
    BY <1>2, <2>1, FieldTyped, Zenon
<1>5. [t EXCEPT !.state = "halted", !.reason = "manual"]
        = [[t EXCEPT !.state = "halted"] EXCEPT !.reason = "manual"]
  BY <1>1 DEF NodeRecords
<1>6. CASE t.state = "running"
  <2>1. h = [t EXCEPT !.state = "paused"]
    BY <1>6 DEF HaltHandler
  <2>2. /\ h \in NodeRecords /\ h.proc = "live" /\ h.state = "paused" /\ h.sig = t.sig
        /\ h.resumed = t.resumed /\ h.reason = t.reason /\ h.prev = t.prev
    BY <1>1, <1>3, <2>1 DEF NodeRecords
  <2>3. h.reason = "none" /\ h.prev = "none"
    BY <1>6, <2>2 DEF NodeInv, Remembers, LiveStates
  <2> HIDE DEF h
  <2> QED
    BY <2>2, <2>3, Noting DEF h, LiveStates
<1>7. CASE t.state = "paused"
  <2>1. h = [[t EXCEPT !.state = "halted"] EXCEPT !.reason = "manual"]
    BY <1>5, <1>7 DEF HaltHandler
  <2>2. /\ h \in NodeRecords /\ h.proc = "live" /\ h.state = "halted" /\ h.sig = t.sig
        /\ h.resumed = t.resumed /\ h.reason = "manual"
    BY <1>1, <1>4, <2>1 DEF NodeRecords
  <2> HIDE DEF h
  <2> QED
    BY <1>2, <2>2, Noting DEF h
<1>8. CASE t.state = "halted"
  <2>1. h = t
    BY <1>8 DEF HaltHandler
  <2>2. ~ t.byHand => t.prev = t.before
    BY <1>8 DEF NodeInv, Remembers
  <2> HIDE DEF h
  <2> QED
    BY <1>1, <1>2, <1>8, <2>1, <2>2, Noting DEF h
<1> QED
  BY <1>1, <1>6, <1>7, <1>8 DEF LiveStates

LEMMA ResumeHandled ==
  ASSUME NEW t, NodeInv(t), t.proc = "live"
  PROVE  LET m == Noted(ResumeHandler(t))
         IN  NodeInv(m) /\ m.proc = "live" /\ m.sig = t.sig /\ m.resumed = t.resumed
<1> DEFINE h == ResumeHandler(t)
<1>1. t \in NodeRecords /\ t.state \in LiveStates \cup {"halted"}
  BY DEF NodeInv, Remembers
<1>2. /\ "running" \in NodeStates /\ LiveStates \subseteq NodeStates /\ "none" \in Reasons
      /\ "running" \in LiveStates /\ "halted" \notin LiveStates /\ "none" \notin LiveStates
  BY DEF NodeStates, LiveStates, Reasons
<1>3. CASE t.state = "paused"
  <2>1. h = [t EXCEPT !.state = "running"]
    BY <1>3 DEF ResumeHandler
  <2>2. h \in NodeRecords
    BY <1>1, <1>2, <2>1, FieldTyped, Zenon
  <2>3. /\ h.proc = "live" /\ h.state = "running" /\ h.sig = t.sig
        /\ h.resumed = t.resumed /\ h.reason = t.reason /\ h.prev = t.prev
    BY <1>1, <2>1 DEF NodeRecords
  <2>4. h.reason = "none" /\ h.prev = "none"
    BY <1>3, <2>3 DEF NodeInv, Remembers, LiveStates
  <2> HIDE DEF h
  <2> QED
    BY <1>2, <2>2, <2>3, <2>4, Noting DEF h
<1>4. CASE t.state = "halted" /\ t.reason = "error"
  <2> DEFINE b == IF t.prev = "none" THEN "running" ELSE t.prev
  <2>1. b \in LiveStates
    BY <1>1, <1>2 DEF NodeRecords
  <2>2. h = [[[t EXCEPT !.state = b] EXCEPT !.reason = "none"] EXCEPT !.prev = "none"]
    <3>1. h = [t EXCEPT !.state = b, !.reason = "none", !.prev = "none"]
      BY <1>4 DEF ResumeHandler, ResumeFromHalt
    <3> HIDE DEF b, h
    <3> QED
      BY <1>1, <3>1 DEF NodeRecords
  <2> HIDE DEF b
  <2>3. h \in NodeRecords
    <3>1. [t EXCEPT !.state = b] \in NodeRecords
      BY <1>1, <1>2, <2>1, FieldTyped, Zenon
    <3>2. [[t EXCEPT !.state = b] EXCEPT !.reason = "none"] \in NodeRecords
      BY <1>2, <3>1, FieldTyped, Zenon
    <3>3. "none" \in {"none"} \cup LiveStates
      OBVIOUS
    <3>4. [[[t EXCEPT !.state = b] EXCEPT !.reason = "none"] EXCEPT !.prev = "none"]
            \in NodeRecords
      BY <3>2, <3>3, FieldTyped, Zenon
    <3> QED
      BY <2>2, <3>4, Zenon
  <2>4. /\ h.proc = "live" /\ h.state = b /\ h.sig = t.sig
        /\ h.resumed = t.resumed /\ h.reason = "none" /\ h.prev = "none"
    BY <1>1, <2>2 DEF NodeRecords
  <2> HIDE DEF h
  <2> QED
    BY <1>2, <2>1, <2>3, <2>4, Noting DEF h
<1>5. CASE ~ (t.state = "paused") /\ ~ (t.state = "halted" /\ t.reason = "error")
  <2>1. h = t
    BY <1>5 DEF ResumeHandler, ResumeFromHalt
  <2>2. /\ t.state \in LiveStates => t.reason = "none" /\ t.prev = "none"
        /\ t.state = "halted" /\ ~ t.byHand => t.prev = t.before
    BY DEF NodeInv, Remembers
  <2> HIDE DEF h
  <2> QED
    BY <1>1, <2>1, <2>2, Noting DEF h
<1> QED
  BY <1>3, <1>4, <1>5

LEMMA ErrorHalts ==
  ASSUME NEW t, NodeInv(t), t.proc = "live"
  PROVE  LET m == Noted(OnErrorHalt(t))
         IN  /\ NodeInv(m) /\ m.proc = "live" /\ m.sig = t.sig
             /\ m.resumed = t.resumed /\ m.state # "running"
<1> DEFINE b == IF t.state \in LiveStates THEN t.state ELSE t.prev
           h == OnErrorHalt(t)
<1>1. t \in NodeRecords /\ t.state \in LiveStates \cup {"halted"}
  BY DEF NodeInv, Remembers
<1>2. /\ "halted" \in NodeStates /\ "error" \in Reasons /\ "halted" \notin LiveStates
      /\ b \in {"none"} \cup LiveStates
  BY <1>1 DEF NodeStates, LiveStates, Reasons, NodeRecords
<1>3. h = [[[t EXCEPT !.state = "halted"] EXCEPT !.reason = "error"] EXCEPT !.prev = b]
  BY <1>1 DEF OnErrorHalt, NodeRecords
<1>4. t.state = "halted" /\ ~ t.byHand => t.prev = t.before
  BY DEF NodeInv, Remembers
<1>5. t.state \in LiveStates => t.before = t.state
  BY DEF NodeInv, Remembers
<1>6. ~ t.byHand => b = t.before
  BY <1>1, <1>4, <1>5
<1> HIDE DEF b, h
<1>7. h \in NodeRecords
  <2>1. [t EXCEPT !.state = "halted"] \in NodeRecords
    BY <1>1, <1>2, FieldTyped, Zenon
  <2>2. [[t EXCEPT !.state = "halted"] EXCEPT !.reason = "error"] \in NodeRecords
    BY <1>2, <2>1, FieldTyped, Zenon
  <2>3. [[[t EXCEPT !.state = "halted"] EXCEPT !.reason = "error"] EXCEPT !.prev = b]
          \in NodeRecords
    BY <1>2, <2>2, FieldTyped, Zenon
  <2> QED
    BY <1>3, <2>3, Zenon
<1>8. /\ h.proc = "live" /\ h.state = "halted" /\ h.sig = t.sig /\ h.resumed = t.resumed
      /\ h.reason = "error" /\ h.prev = b /\ h.before = t.before /\ h.byHand = t.byHand
  BY <1>1, <1>3 DEF NodeRecords
<1> QED
  BY <1>2, <1>6, <1>7, <1>8, Noting DEF h

\* An error that does not halt, and a success: only the counter moves.
LEMMA Counted ==
  ASSUME NEW t, NodeInv(t), t.proc = "live", NEW k \in 0 .. MaxRetries
  PROVE  LET c == [t EXCEPT !.retries = k]
             m == Noted(c)
         IN  /\ NodeInv(c) /\ c.proc = "live" /\ c.sig = t.sig
             /\ c.state = t.state /\ c.resumed = t.resumed
             /\ NodeInv(m) /\ m.proc = "live" /\ m.sig = t.sig
             /\ m.state = t.state /\ m.resumed = t.resumed
<1> DEFINE c == [t EXCEPT !.retries = k]
<1>1. t \in NodeRecords
  BY DEF NodeInv
<1>2. c \in NodeRecords
  BY <1>1, FieldTyped
<1>3. /\ c.proc = t.proc /\ c.sig = t.sig /\ c.state = t.state /\ c.resumed = t.resumed
      /\ c.reason = t.reason /\ c.prev = t.prev /\ c.before = t.before /\ c.byHand = t.byHand
  BY <1>1 DEF NodeRecords
<1> HIDE DEF c
<1>4. NodeInv(c)
  BY <1>2, <1>3 DEF NodeInv, Untouched, Remembers
<1>5. NodeInv(Noted(c)) /\ Noted(c).proc = "live" /\ Noted(c).sig = c.sig
      /\ Noted(c).state = c.state /\ Noted(c).resumed = c.resumed
  BY <1>2, <1>3, <1>4, Noting DEF NodeInv, Remembers
<1> QED
  BY <1>3, <1>4, <1>5 DEF c

\* A signal is taken, or none is and the node does not start to trade.
LEMMA HeldThrough ==
  ASSUME NEW n, NodeInv(n), NEW m, n.proc = "live", m.proc = "live",
         m.resumed = n.resumed, Held(n),
         \/ m.sig = n.sig /\ (m.state # "running" \/ m.state = n.state)
         \/ /\ n.sig # << >> /\ m.sig = Tail(n.sig)
            /\ Head(n.sig) = "USR2" \/ (Head(n.sig) = "USR1" /\ m.state # "running")
  PROVE  Held(m)
<1>1. n.sig \in Seq(Signals)
  BY DEF NodeInv, NodeRecords
<1>2. CASE m.sig = n.sig /\ (m.state # "running" \/ m.state = n.state)
  BY <1>2 DEF Held
<1>3. CASE /\ n.sig # << >> /\ m.sig = Tail(n.sig)
           /\ Head(n.sig) = "USR2" \/ (Head(n.sig) = "USR1" /\ m.state # "running")
  <2>1. /\ HaltWaits(n.sig) => HaltWaits(m.sig) \/ (Head(n.sig) = "USR1" /\ NoResume(m.sig))
        /\ NoResume(n.sig) => Head(n.sig) # "USR2" /\ NoResume(m.sig)
    BY <1>1, <1>3, QueueTail
  <2> QED
    BY <1>3, <2>1 DEF Held
<1> QED
  BY <1>2, <1>3

-----------------------------------------------------------------------------
(* The steps *)

LEMMA InitInv == Init => IInv
<1> SUFFICES ASSUME Init PROVE IInv
  OBVIOUS
<1>1. \A s \in Sessions : node[s] = Fresh /\ setup[s].config = "none"
  BY DEF Init
<1>2. NodeInv(Fresh) /\ Fresh.proc = "none"
  BY FreshTyped
<1>3. node \in [Sessions -> NodeRecords]
  BY <1>2 DEF Init, NodeInv
<1>4. TypeOK
  <2>1. row \in [Sessions -> Rows]
    BY DEF Init, Rows
  <2>2. setup \in [Sessions -> [trader : Traders, config : Configs]]
    BY DEF Init, Configs
  <2>3. latest \in [Traders -> Configs]
    BY DEF Init, Configs
  <2>4. ckpt \in [Traders -> {"none"} \cup NodeStates] /\ crashes \in 0 .. MaxCrash
    BY PaperBounds DEF Init
  <2> QED
    BY <1>3, <2>1, <2>2, <2>3, <2>4 DEF Init, TypeOK
<1>5. RowsTell /\ OneUnwritten /\ Alone
  <2>1. \A s \in Sessions : row[s] = "none"
    BY DEF Init
  <2> QED
    BY <1>1, <1>2, <2>1 DEF RowsTell, OneUnwritten, Unwritten, Alone, Occupied
<1>6. SwitchInv
  BY DEF Init, SwitchInv
<1> QED
  BY <1>1, <1>2, <1>4, <1>5, <1>6 DEF IInv

\* Every step of one process, and every call of the API about one session but
\* the launch, replaces one record and at most the row with it.
LEMMA OneNode ==
  ASSUME IInv, NEW s \in Sessions, NEW m, NodeInv(m),
         node' = [node EXCEPT ![s] = m],
         UNCHANGED <<engaged, setup, latest, api, crashes, lost, orphans, strayed>>,
         ckpt' \in [Traders -> {"none"} \cup NodeStates],
         row' \in [Sessions -> Rows],
         \A u \in Sessions : u # s => row'[u] = row[u],
         row'[s] = "none" <=> row[s] = "none",
         m.proc \in Occupied => node[s].proc \in Occupied /\ row'[s] = row[s],
         m.proc = "none" <=> node[s].proc = "none",
         m.proc \in {"boot", "init", "live"} => node[s].proc \in {"boot", "init", "live"},
         m.proc \in {"init", "live"} => setup[s].config = "ok",
         engaged /\ Held(node[s]) => Held(m)
  PROVE  IInv'
<1>1. TypeOK /\ node \in [Sessions -> NodeRecords]
  BY DEF IInv, TypeOK
<1>2. node'[s] = m /\ \A u \in Sessions : u # s => node'[u] = node[u]
  BY <1>1
<1>3. m \in NodeRecords
  BY DEF NodeInv
<1>4. TypeOK'
  BY <1>1, <1>3 DEF TypeOK
<1>5. \A u \in Sessions : NodeInv(node'[u])
  BY <1>2 DEF IInv
<1>6. RowsTell' /\ OneUnwritten'
  BY <1>2 DEF IInv, RowsTell, OneUnwritten, Unwritten, Launching
<1>7. Alone'
  BY <1>2 DEF IInv, Alone
<1>8. SwitchInv'
  BY <1>2 DEF IInv, SwitchInv, IsIdle
<1> QED
  BY <1>4, <1>5, <1>6, <1>7, <1>8 DEF IInv

\* The same when the row stays.
LEMMA OneNodeSameRow ==
  ASSUME IInv, NEW s \in Sessions, NEW m, NodeInv(m),
         node' = [node EXCEPT ![s] = m],
         UNCHANGED <<engaged, setup, latest, api, crashes, lost, orphans, strayed, row>>,
         ckpt' \in [Traders -> {"none"} \cup NodeStates],
         m.proc \in Occupied => node[s].proc \in Occupied,
         m.proc = "none" <=> node[s].proc = "none",
         m.proc \in {"boot", "init", "live"} => node[s].proc \in {"boot", "init", "live"},
         m.proc \in {"init", "live"} => setup[s].config = "ok",
         engaged /\ Held(node[s]) => Held(m)
  PROVE  IInv'
<1>1. row' = row /\ row \in [Sessions -> Rows] /\ \A u \in Sessions : row'[u] = row[u]
  BY DEF IInv, TypeOK
<1> QED
  BY <1>1, OneNode

\* A process that is gone, or about to go, disturbs nothing.
LEMMA Leaves ==
  ASSUME IInv, NEW s \in Sessions, NEW m, NodeInv(m), m.proc \in {"gone", "closing"},
         node[s].proc \in Occupied,
         node' = [node EXCEPT ![s] = m],
         UNCHANGED <<engaged, setup, latest, api, crashes, lost, orphans, strayed, row>>,
         ckpt' \in [Traders -> {"none"} \cup NodeStates]
  PROVE  IInv'
<1>1. Held(m)
  BY DEF Held
<1> QED
  BY <1>1, OneNodeSameRow DEF Occupied

LEMMA SaveTyped ==
  ASSUME TypeOK, NEW s \in Sessions, NEW x \in NodeStates, Save(s, x)
  PROVE  ckpt' \in [Traders -> {"none"} \cup NodeStates]
  BY DEF TypeOK, Save, Owner

LEMMA LaunchStep ==
  ASSUME IInv, NEW t \in Traders, NEW c \in Configs \ {"none"}, Launch(t, c), IsIdle, ~ engaged,
         c = "ok" => NoneRunning
  PROVE  IInv'
<1>1. PICK s \in Sessions :
        /\ setup[s].config = "none"
        /\ setup' = [setup EXCEPT ![s] = [trader |-> t, config |-> c]]
        /\ latest' = [latest EXCEPT ![t] = c]
        /\ node' = [node EXCEPT ![s] = [node[s] EXCEPT !.proc = "boot"]]
        /\ api' = "start"
        /\ UNCHANGED <<engaged, row, ckpt, crashes, lost, orphans, strayed>>
  BY DEF Launch
<1> DEFINE m == [node[s] EXCEPT !.proc = "boot"]
<1>2. TypeOK /\ node \in [Sessions -> NodeRecords] /\ node[s].proc = "none"
  BY <1>1 DEF IInv, TypeOK, RowsTell
<1>3. NodeInv(node[s]) /\ node[s] \in NodeRecords
  BY <1>2 DEF IInv
<1>4. "boot" \in Procs
  BY DEF Procs
<1>5. m \in NodeRecords
  BY <1>3, <1>4, FieldTyped, Zenon
<1>6. /\ m.proc = "boot" /\ m.state = node[s].state /\ m.reason = node[s].reason
      /\ m.prev = node[s].prev /\ m.before = node[s].before /\ m.byHand = node[s].byHand
  BY <1>3 DEF NodeRecords
<1>7. node'[s] = m /\ \A u \in Sessions : u # s => node'[u] = node[u]
  BY <1>1, <1>2
<1> HIDE DEF m
<1>8. NodeInv(m)
  BY <1>2, <1>3, <1>5, <1>6 DEF NodeInv, Untouched, Remembers, Starting
<1>9. TypeOK'
  <2>1. setup' \in [Sessions -> [trader : Traders, config : Configs]]
    BY <1>1, <1>2 DEF TypeOK
  <2>2. latest' \in [Traders -> Configs]
    BY <1>1, <1>2 DEF TypeOK
  <2>3. node' \in [Sessions -> NodeRecords]
    BY <1>1, <1>2, <1>5 DEF m
  <2> QED
    BY <1>1, <1>2, <2>1, <2>2, <2>3 DEF TypeOK
<1>a. \A u \in Sessions : NodeInv(node'[u])
  BY <1>7, <1>8 DEF IInv
<1>b. /\ setup'[s].config = c
      /\ \A u \in Sessions : u # s => setup'[u] = setup[u]
  BY <1>1, <1>2 DEF TypeOK
<1>i. s \in orphans \/ row[s] # "none" \/ Launching(s)'
  BY <1>1, <1>b DEF Launching
<1>u. OneUnwritten'
  BY <1>1, <1>b DEF IInv, OneUnwritten, Unwritten, IsIdle
<1>r. \A u \in Sessions : ~ Launching(u)
  BY DEF Launching, IsIdle
<1>c. RowsTell'
  <2>1. ASSUME NEW u \in Sessions, node'[u].proc \in Occupied
        PROVE  row'[u] = "running" \/ Launching(u)' \/ u \in orphans'
    <3>1. CASE u = s
      BY <1>1, <1>i, <3>1 DEF IInv, OneUnwritten
    <3>2. CASE u # s
      BY <1>1, <1>7, <1>r, <2>1, <3>2 DEF IInv, RowsTell
    <3> QED
      BY <3>1, <3>2
  <2>2. ASSUME NEW u \in Sessions PROVE node'[u].proc = "none" <=> setup'[u].config = "none"
    BY <1>6, <1>7, <1>b DEF IInv, RowsTell
  <2> QED
    BY <2>1, <2>2 DEF RowsTell
<1>d. Alone'
  <2>1. \A u \in Sessions : node'[u].proc \in {"init", "live"} => setup'[u].config = "ok"
    BY <1>6, <1>7, <1>b DEF IInv, Alone
  <2>2. c = "ok" => \A u \in Sessions :
                      u \notin orphans => node[u].proc \notin {"boot", "init", "live"}
    BY <1>r DEF NoneRunning, Active, IInv, RowsTell, Occupied
  <2>3. ASSUME NEW v \in Sessions, NEW u \in Sessions, v # u, setup'[v].config = "ok",
               setup'[u].config = "ok", node'[v].proc \in {"boot", "init", "live"},
               v \notin orphans, u \notin orphans
        PROVE  node'[u].proc \notin {"boot", "init", "live"}
    <3>1. CASE v = s
      BY <1>7, <1>b, <2>2, <2>3, <3>1
    <3>2. CASE u = s
      BY <1>7, <1>b, <2>2, <2>3, <3>2
    <3>3. CASE v # s /\ u # s
      BY <1>7, <1>b, <2>3, <3>3 DEF IInv, Alone
    <3> QED
      BY <3>1, <3>2, <3>3
  <2> QED
    BY <1>1, <2>1, <2>3 DEF Alone
<1>e. SwitchInv'
  BY <1>1 DEF SwitchInv, IsIdle
<1> QED
  BY <1>9, <1>a, <1>c, <1>u, <1>d, <1>e DEF IInv

\* The launches, the signals and the kill switch.
LEMMA ApiStep == IInv /\ ApiNext => IInv'
<1> SUFFICES ASSUME IInv, ApiNext PROVE IInv'
  OBVIOUS
<1>t. TypeOK /\ node \in [Sessions -> NodeRecords] /\ \A s \in Sessions : NodeInv(node[s])
  BY DEF IInv, TypeOK
<1>1. ASSUME NEW t \in Traders, StartPaper(t) PROVE IInv'
  <2>1. "noSymbols" \in Configs \ {"none"}
    BY DEF Configs
  <2> QED
    BY <1>1, <2>1, LaunchStep DEF StartPaper
<1>2. ASSUME NEW t \in Traders, RestorePaper(t) PROVE IInv'
  <2>1. latest[t] \in Configs \ {"none"}
    BY <1>t, <1>2 DEF TypeOK, RestorePaper
  <2> QED
    BY <1>2, <2>1, LaunchStep DEF RestorePaper
<1>3. ASSUME NEW x \in Signals, SendTo(x) PROVE IInv'
  <2>1. PICK s \in Sessions :
          /\ IsIdle /\ row[s] = "running"
          /\ node' = [node EXCEPT ![s] =
               [Signalled(node[s], x) EXCEPT
                  !.resumed = Signalled(node[s], x).resumed \/ (x = "USR2" /\ engaged)]]
          /\ UNCHANGED <<engaged, row, setup, latest, ckpt, api, crashes, lost, orphans, strayed>>
    BY <1>3, Zenon DEF SendTo, Found, Active
  <2> DEFINE n == Signalled(node[s], x)
             b == n.resumed \/ (x = "USR2" /\ engaged)
             m == [n EXCEPT !.resumed = b]
  <2>2. /\ NodeInv(node[s]) /\ NodeInv(n) /\ n.proc \in {node[s].proc, "gone"}
        /\ n.proc = "none" <=> node[s].proc = "none"
        /\ x # "USR2" /\ Held(node[s]) => Held(n)
    BY <1>t, Signalling
  <2>3. n.resumed \in BOOLEAN
    BY <2>2 DEF NodeInv, NodeRecords
  <2>4. b \in BOOLEAN /\ (n.resumed => b) /\ (x = "USR2" /\ engaged => b)
    BY <2>3
  <2>5. node' = [node EXCEPT ![s] = m]
    BY <2>1
  <2> HIDE DEF n, b
  <2>6. /\ NodeInv(m) /\ m.proc = n.proc /\ (Held(n) => Held(m))
        /\ b /\ n.proc # "boot" => Held(m)
    BY <2>2, <2>4, Marking
  <2> HIDE DEF m
  <2>7. Held(node[s]) => n.proc # "boot"
    BY <2>2 DEF Held
  <2>8. engaged /\ Held(node[s]) => Held(m)
    BY <2>2, <2>4, <2>6, <2>7
  <2>9. /\ m.proc \in Occupied => node[s].proc \in Occupied
        /\ m.proc = "none" <=> node[s].proc = "none"
        /\ m.proc \in {"boot", "init", "live"} => node[s].proc \in {"boot", "init", "live"}
        /\ m.proc \in {"init", "live"} => setup[s].config = "ok"
    BY <2>2, <2>6 DEF Occupied, IInv, Alone
  <2>a. ckpt' \in [Traders -> {"none"} \cup NodeStates]
    BY <1>t, <2>1 DEF TypeOK
  <2> QED
    BY <2>1, <2>5, <2>6, <2>8, <2>9, <2>a, OneNodeSameRow
<1>4. CASE KillCommit
  <2>1. /\ api' = "kill" /\ engaged' = TRUE /\ lost' = FALSE
        /\ UNCHANGED <<row, setup, latest, ckpt, crashes, orphans, strayed>>
    BY <1>4 DEF KillCommit
  <2>2. ASSUME NEW s \in Sessions
        PROVE  /\ node'[s] = [node[s] EXCEPT !.resumed = FALSE]
               /\ NodeInv(node'[s]) /\ node'[s].proc = node[s].proc
    <3>1. node'[s] = [node[s] EXCEPT !.resumed = FALSE]
      BY <1>4 DEF KillCommit
    <3> QED
      BY <1>t, <3>1, Marking
  <2>3. node' \in [Sessions -> NodeRecords]
    <3>1. node' = [s \in Sessions |-> node'[s]]
      BY <1>4 DEF KillCommit
    <3> QED
      BY <2>2, <3>1 DEF NodeInv
  <2>4. TypeOK'
    BY <1>t, <2>1, <2>3 DEF TypeOK
  <2>5. RowsTell' /\ OneUnwritten' /\ Alone'
    BY <1>4, <2>1, <2>2
       DEF IInv, RowsTell, OneUnwritten, Unwritten, Alone, Launching, KillCommit, IsIdle
  <2>6. SwitchInv'
    BY <2>1 DEF SwitchInv, IsIdle
  <2> QED
    BY <2>2, <2>4, <2>5, <2>6 DEF IInv
<1>5. CASE KillCascade
  <2>1. api' = "idle" /\ UNCHANGED <<engaged, row, setup, latest, ckpt, crashes, lost, orphans, strayed>>
    BY <1>5 DEF KillCascade
  <2>2. "USR1" \in Signals
    BY DEF Signals
  <2>3. ASSUME NEW s \in Sessions
        PROVE  /\ NodeInv(node'[s]) /\ node'[s].proc \in {node[s].proc, "gone"}
               /\ node'[s].proc = "none" <=> node[s].proc = "none"
               /\ s \notin orphans => Held(node'[s])
    <3>1. NodeInv(node[s])
      BY <1>t
    <3>2. CASE s \in Active
      <4>1. node'[s] = Signalled(node[s], "USR1")
        BY <1>5, <3>2 DEF KillCascade
      <4> QED
        BY <2>2, <3>1, <4>1, Signalling
    <3>3. CASE s \notin Active
      <4>1. node'[s] = node[s]
        BY <1>5, <3>3 DEF KillCascade
      <4>2. s \in orphans \/ node[s].proc \notin Occupied
        BY <1>5, <3>3 DEF Active, IInv, RowsTell, Launching, KillCascade
      <4> QED
        BY <3>1, <4>1, <4>2 DEF Held, Occupied
    <3> QED
      BY <3>2, <3>3
  <2>4. node' \in [Sessions -> NodeRecords]
    <3>1. node' = [s \in Sessions |-> node'[s]]
      BY <1>5 DEF KillCascade
    <3> QED
      BY <2>3, <3>1 DEF NodeInv
  <2>5. TypeOK'
    BY <1>t, <2>1, <2>4 DEF TypeOK
  <2>6. RowsTell' /\ OneUnwritten'
    BY <1>5, <2>1, <2>3
       DEF IInv, RowsTell, OneUnwritten, Unwritten, Occupied, Launching, KillCascade
  <2>7. Alone'
    BY <2>1, <2>3 DEF IInv, Alone
  <2>8. SwitchInv'
    BY <2>1, <2>3 DEF SwitchInv
  <2> QED
    BY <2>3, <2>5, <2>6, <2>7, <2>8 DEF IInv
<1>6. CASE ApiCrash
  <2> DEFINE left == {s \in Sessions : Launching(s)}
  <2>1. /\ api \in {"start", "kill"} /\ api' = "idle" /\ lost' = (lost \/ api = "kill")
        /\ crashes' = crashes + 1 /\ crashes < MaxCrash
        /\ orphans' = orphans \cup left
        /\ UNCHANGED <<engaged, row, setup, latest, node, ckpt, strayed>>
    BY <1>6, <1>t DEF ApiCrash, IsIdle, TypeOK
  <2>2. TypeOK'
    <3>1. crashes' \in 0 .. MaxCrash
      BY <1>t, <2>1, PaperBounds DEF TypeOK
    <3>2. orphans' \subseteq Sessions /\ lost' \in BOOLEAN
      BY <1>t, <2>1 DEF TypeOK
    <3> QED
      BY <1>t, <2>1, <3>1, <3>2 DEF TypeOK
  <2>3. RowsTell'
    BY <2>1 DEF IInv, RowsTell, Launching
  <2>4. OneUnwritten'
    BY <2>1 DEF IInv, OneUnwritten, Unwritten, Launching
  <2>5. Alone' /\ \A s \in Sessions : NodeInv(node'[s])
    BY <2>1 DEF IInv, Alone
  <2>6. SwitchInv'
    BY <2>1 DEF IInv, SwitchInv, IsIdle
  <2> QED
    BY <2>2, <2>3, <2>4, <2>5, <2>6 DEF IInv
<1>7. CASE Unlock
  <2>1. engaged' = FALSE /\ UNCHANGED <<row, setup, latest, node, ckpt, api, crashes, lost, orphans, strayed>>
    BY <1>7 DEF Unlock
  <2>2. TypeOK'
    BY <1>t, <2>1 DEF TypeOK
  <2> QED
    BY <1>7, <2>1, <2>2
       DEF IInv, RowsTell, OneUnwritten, Unwritten, Alone, SwitchInv, Launching
<1>9. CASE StartCommit
  <2>1. PICK s \in Sessions : Launching(s) /\ row' = [row EXCEPT ![s] = "running"]
    BY <1>9 DEF StartCommit
  <2>2. api' = "idle" /\ UNCHANGED <<engaged, setup, latest, node, ckpt, crashes, lost, orphans, strayed>>
    BY <1>9 DEF StartCommit
  <2>3. /\ row' \in [Sessions -> Rows] /\ row'[s] = "running"
        /\ \A u \in Sessions : u # s => row'[u] = row[u]
    BY <1>t, <2>1 DEF TypeOK, Rows
  <2>4. TypeOK'
    BY <1>t, <2>2, <2>3 DEF TypeOK
  <2>5. \A u \in Sessions : Launching(u) <=> u = s
    BY <2>1 DEF IInv, OneUnwritten, Unwritten, Launching
  <2>6. RowsTell'
    BY <2>2, <2>3, <2>5 DEF IInv, RowsTell
  <2>7. OneUnwritten'
    BY <2>1, <2>2, <2>3 DEF IInv, OneUnwritten, Unwritten, Launching
  <2>8. Alone' /\ \A u \in Sessions : NodeInv(node'[u])
    BY <2>2 DEF IInv, Alone
  <2>9. SwitchInv'
    BY <2>1, <2>2 DEF IInv, SwitchInv, Launching
  <2> QED
    BY <2>4, <2>6, <2>7, <2>8, <2>9 DEF IInv
<1>8. ASSUME NEW s \in Sessions, EndJob(s) PROVE IInv'
  <2>1. PICK status \in {"failed", "killed"} : row' = [row EXCEPT ![s] = status]
    BY <1>8 DEF EndJob
  <2>2. /\ node' = [node EXCEPT ![s] = Gone]
        /\ UNCHANGED <<engaged, setup, latest, ckpt, api, crashes, lost, orphans, strayed>>
    BY <1>8 DEF EndJob, Ended
  <2>3. row' \in [Sessions -> Rows] /\ row'[s] = status
        /\ \A u \in Sessions : u # s => row'[u] = row[u]
    BY <1>t, <2>1 DEF TypeOK, Rows
  <2>r. row'[s] # "none" /\ row[s] # "none"
    BY <1>8, <2>1, <2>3 DEF EndJob
  <2>p. node[s].proc # "none"
    BY <2>r DEF IInv, RowsTell, OneUnwritten
  <2>4. NodeInv(Gone) /\ Gone.proc = "gone" /\ Held(Gone)
    BY FreshTyped DEF Held
  <2>5. ckpt' \in [Traders -> {"none"} \cup NodeStates]
    BY <1>t, <2>2 DEF TypeOK
  <2> QED
    BY <2>2, <2>3, <2>r, <2>p, <2>4, <2>5, OneNode DEF Occupied
<1> QED
  BY <1>1, <1>2, <1>3, <1>4, <1>5, <1>6, <1>7, <1>8, <1>9 DEF ApiNext

\* A trading node goes on with another record.
LEMMA GoesOn ==
  ASSUME IInv, NEW s \in Sessions, NEW m, NodeInv(m), m.proc = "live", Live(s),
         node' = [node EXCEPT ![s] = m], UNCHANGED <<row, ckpt, Kept>>,
         Held(node[s]) => Held(m)
  PROVE  IInv'
<1>1. /\ node[s].proc = "live" /\ setup[s].config = "ok"
      /\ ckpt \in [Traders -> {"none"} \cup NodeStates]
  BY DEF Live, IInv, Alone, TypeOK
<1>2. UNCHANGED <<engaged, setup, latest, api, crashes, lost, orphans, strayed, row>> /\ ckpt' = ckpt
  BY DEF Kept
<1> QED
  BY <1>1, <1>2, OneNodeSameRow DEF Occupied

\* The node takes a signal, or meets an error or a success.
LEMMA HandlerStep ==
  ASSUME IInv, NEW s \in Sessions,
         \/ OnHalt(s) \/ OnResume(s) \/ HaltingError(s) \/ TransientError(s) \/ ResetRetries(s)
  PROVE  IInv'
<1>n. NodeInv(node[s]) /\ node[s] \in NodeRecords
  BY DEF IInv, NodeInv
<1>1. CASE OnHalt(s)
  <2>1. /\ node[s].proc = "live" /\ node[s].sig # << >> /\ Head(node[s].sig) = "USR1"
        /\ node' = [node EXCEPT ![s] = Noted(HaltHandler(Taken(s)))]
        /\ UNCHANGED <<row, ckpt, Kept>>
    BY <1>1 DEF OnHalt, Next1, Becomes
  <2>2. /\ NodeInv(Taken(s)) /\ Taken(s).sig = Tail(node[s].sig) /\ Taken(s).proc = "live"
        /\ Taken(s).resumed = node[s].resumed
    BY <1>n, <2>1, Taking DEF Taken
  <2> DEFINE m == Noted(HaltHandler(Taken(s)))
  <2>3. /\ NodeInv(m) /\ m.proc = "live" /\ m.sig = Tail(node[s].sig)
        /\ m.resumed = node[s].resumed /\ m.state # "running"
    BY <2>2, HaltHandled
  <2>m. node' = [node EXCEPT ![s] = m]
    BY <2>1
  <2> HIDE DEF m
  <2>4. Held(node[s]) => Held(m)
    BY <1>n, <2>1, <2>3, HeldThrough
  <2> QED
    BY <2>1, <2>m, <2>3, <2>4, GoesOn DEF Live
<1>2. CASE OnResume(s)
  <2>1. /\ node[s].proc = "live" /\ node[s].sig # << >> /\ Head(node[s].sig) = "USR2"
        /\ node' = [node EXCEPT ![s] = Noted(ResumeHandler(Taken(s)))]
        /\ UNCHANGED <<row, ckpt, Kept>>
    BY <1>2 DEF OnResume, Next1, Becomes
  <2>2. /\ NodeInv(Taken(s)) /\ Taken(s).sig = Tail(node[s].sig) /\ Taken(s).proc = "live"
        /\ Taken(s).resumed = node[s].resumed
    BY <1>n, <2>1, Taking DEF Taken
  <2> DEFINE m == Noted(ResumeHandler(Taken(s)))
  <2>3. /\ NodeInv(m) /\ m.proc = "live" /\ m.sig = Tail(node[s].sig)
        /\ m.resumed = node[s].resumed
    BY <2>2, ResumeHandled
  <2>m. node' = [node EXCEPT ![s] = m]
    BY <2>1
  <2> HIDE DEF m
  <2>4. Held(node[s]) => Held(m)
    BY <1>n, <2>1, <2>3, HeldThrough
  <2> QED
    BY <2>1, <2>m, <2>3, <2>4, GoesOn DEF Live
<1>3. CASE HaltingError(s)
  <2>1. /\ node[s].proc = "live" /\ node' = [node EXCEPT ![s] = Noted(OnErrorHalt(node[s]))]
        /\ UNCHANGED <<row, ckpt, Kept>>
    BY <1>3 DEF HaltingError, Becomes
  <2> DEFINE m == Noted(OnErrorHalt(node[s]))
  <2>2. /\ NodeInv(m) /\ m.proc = "live" /\ m.sig = node[s].sig
        /\ m.resumed = node[s].resumed /\ m.state # "running"
    BY <1>n, <2>1, ErrorHalts
  <2>m. node' = [node EXCEPT ![s] = m]
    BY <2>1
  <2> HIDE DEF m
  <2>3. Held(node[s]) => Held(m)
    BY <1>n, <2>1, <2>2, HeldThrough
  <2> QED
    BY <2>1, <2>m, <2>2, <2>3, GoesOn DEF Live
<1>4. CASE TransientError(s)
  <2> DEFINE k == IF node[s].retries < MaxRetries THEN node[s].retries + 1 ELSE node[s].retries
             c == [node[s] EXCEPT !.retries = k]
             m == Noted(IF c.retries >= MaxRetries THEN OnErrorHalt(c) ELSE c)
  <2>1. /\ node[s].proc = "live" /\ node' = [node EXCEPT ![s] = m]
        /\ UNCHANGED <<row, ckpt, Kept>>
    BY <1>4 DEF TransientError, Becomes
  <2>2. k \in 0 .. MaxRetries
    <3>1. node[s].retries \in 0 .. MaxRetries /\ MaxRetries \in Nat
      BY <1>n, PaperBounds DEF NodeRecords
    <3> QED
      BY <3>1
  <2> HIDE DEF k
  <2>3. /\ NodeInv(c) /\ c.proc = "live" /\ c.sig = node[s].sig
        /\ c.state = node[s].state /\ c.resumed = node[s].resumed
        /\ NodeInv(Noted(c)) /\ Noted(c).proc = "live" /\ Noted(c).sig = node[s].sig
        /\ Noted(c).state = node[s].state /\ Noted(c).resumed = node[s].resumed
    BY <1>n, <2>1, <2>2, Counted
  <2> HIDE DEF c
  <2>4. /\ NodeInv(Noted(OnErrorHalt(c))) /\ Noted(OnErrorHalt(c)).proc = "live"
        /\ Noted(OnErrorHalt(c)).sig = node[s].sig
        /\ Noted(OnErrorHalt(c)).resumed = node[s].resumed
        /\ Noted(OnErrorHalt(c)).state # "running"
    BY <2>3, ErrorHalts
  <2>5. /\ NodeInv(m) /\ m.proc = "live" /\ m.sig = node[s].sig /\ m.resumed = node[s].resumed
        /\ m.state # "running" \/ m.state = node[s].state
    BY <2>3, <2>4
  <2> HIDE DEF m
  <2>6. Held(node[s]) => Held(m)
    BY <1>n, <2>1, <2>5, HeldThrough
  <2> QED
    BY <2>1, <2>5, <2>6, GoesOn DEF Live
<1>5. CASE ResetRetries(s)
  <2> DEFINE m == Noted([node[s] EXCEPT !.retries = 0])
  <2>1. /\ node[s].proc = "live" /\ node' = [node EXCEPT ![s] = m]
        /\ UNCHANGED <<row, ckpt, Kept>>
    BY <1>5 DEF ResetRetries, Becomes
  <2>2. 0 \in 0 .. MaxRetries
    BY PaperBounds
  <2>3. /\ NodeInv(m) /\ m.proc = "live" /\ m.sig = node[s].sig
        /\ m.state = node[s].state /\ m.resumed = node[s].resumed
    BY <1>n, <2>1, <2>2, Counted
  <2> HIDE DEF m
  <2>4. Held(node[s]) => Held(m)
    BY <1>n, <2>1, <2>3, HeldThrough
  <2> QED
    BY <2>1, <2>3, <2>4, GoesOn DEF Live
<1> QED
  BY <1>1, <1>2, <1>3, <1>4, <1>5

\* A process starts.
LEMMA StartStep ==
  ASSUME IInv, NEW s \in Sessions, Begin(s) \/ Initialize(s)
  PROVE  IInv'
<1>n. /\ NodeInv(node[s]) /\ node[s] \in NodeRecords
      /\ ckpt \in [Traders -> {"none"} \cup NodeStates]
  BY DEF IInv, NodeInv, TypeOK
<1>1. CASE Begin(s)
  <2> DEFINE m == [node[s] EXCEPT !.proc = "init"]
  <2>1. /\ node[s].proc = "boot" /\ setup[s].config = "ok" /\ node' = [node EXCEPT ![s] = m]
        /\ UNCHANGED <<engaged, setup, latest, api, crashes, lost, orphans, strayed, row, ckpt>>
    BY <1>1 DEF Begin, Kept
  <2>2. "init" \in Procs
    BY DEF Procs
  <2>3. m \in NodeRecords
    BY <1>n, <2>2, FieldTyped, Zenon
  <2>4. /\ m.proc = "init" /\ m.state = node[s].state /\ m.reason = node[s].reason
        /\ m.prev = node[s].prev /\ m.before = node[s].before /\ m.byHand = node[s].byHand
    BY <1>n DEF NodeRecords
  <2> HIDE DEF m
  <2>5. NodeInv(m)
    BY <1>n, <2>1, <2>3, <2>4 DEF NodeInv, Untouched, Remembers, Starting
  <2>6. ~ Held(node[s])
    BY <2>1 DEF Held
  <2>7. ckpt' \in [Traders -> {"none"} \cup NodeStates]
    BY <1>n, <2>1
  <2> QED
    BY <2>1, <2>4, <2>5, <2>6, <2>7, OneNodeSameRow DEF Occupied
<1>2. CASE Initialize(s)
  <2> DEFINE m == [[node[s] EXCEPT !.proc = "live"] EXCEPT !.state = "running"]
  <2>1. /\ node[s].proc = "init" /\ Save(s, "initializing")
        /\ node' = [node EXCEPT ![s].proc = "live", ![s].state = "running"]
        /\ UNCHANGED <<engaged, setup, latest, api, crashes, lost, orphans, strayed, row>>
    BY <1>2 DEF Initialize, Kept
  <2>2. "live" \in Procs /\ "running" \in NodeStates /\ "initializing" \in NodeStates
    BY DEF Procs, NodeStates, LiveStates
  <2>3. m \in NodeRecords
    <3>1. [node[s] EXCEPT !.proc = "live"] \in NodeRecords
      BY <1>n, <2>2, FieldTyped, Zenon
    <3> QED
      BY <2>2, <3>1, FieldTyped, Zenon
  <2>4. /\ m.proc = "live" /\ m.state = "running" /\ m.reason = node[s].reason
        /\ m.prev = node[s].prev /\ m.before = node[s].before /\ m.byHand = node[s].byHand
        /\ m.sig = node[s].sig /\ m.resumed = node[s].resumed
    BY <1>n DEF NodeRecords
  <2>5. node' = [node EXCEPT ![s] = m]
    <3>1. node \in [Sessions -> NodeRecords]
      BY DEF IInv, TypeOK
    <3> QED
      BY <2>1, <3>1 DEF NodeRecords
  <2> HIDE DEF m
  <2>6. NodeInv(m)
    BY <1>n, <2>1, <2>3, <2>4 DEF NodeInv, Untouched, Remembers, Starting, LiveStates
  <2>7. Held(node[s]) => Held(m)
    BY <2>1, <2>4 DEF Held
  <2>8. ckpt' \in [Traders -> {"none"} \cup NodeStates]
    BY <2>1, <2>2, SaveTyped DEF IInv
  <2>9. setup[s].config = "ok"
    BY <2>1 DEF IInv, Alone
  <2> QED
    BY <2>1, <2>4, <2>5, <2>6, <2>7, <2>8, <2>9, OneNodeSameRow DEF Occupied
<1> QED
  BY <1>1, <1>2

\* A process ends.
LEMMA EndStep ==
  ASSUME IInv, NEW s \in Sessions,
         \/ RefuseConfig(s) \/ InitializeFails(s) \/ OnTerm(s) \/ RunFails(s)
         \/ Finish(s) \/ Die(s)
  PROVE  IInv'
<1>n. TypeOK /\ ckpt \in [Traders -> {"none"} \cup NodeStates]
  BY DEF IInv, TypeOK
<1>f. NodeInv(Gone) /\ Gone.proc = "gone"
  BY FreshTyped
<1>c. \A f \in BOOLEAN : NodeInv(Closing(f)) /\ Closing(f).proc = "closing"
  BY FreshTyped
<1>1. CASE RefuseConfig(s) \/ Die(s)
  <2>1. /\ node[s].proc \in Occupied /\ node' = [node EXCEPT ![s] = Gone]
        /\ UNCHANGED <<engaged, setup, latest, api, crashes, lost, orphans, strayed, row, ckpt>>
    BY <1>1 DEF RefuseConfig, Die, Kept, Occupied
  <2> QED
    BY <1>n, <1>f, <2>1, Leaves
<1>2. CASE InitializeFails(s)
  <2>1. /\ node[s].proc \in Occupied /\ node' = [node EXCEPT ![s] = Closing(TRUE)]
        /\ UNCHANGED <<engaged, setup, latest, api, crashes, lost, orphans, strayed, row, ckpt>>
    BY <1>2 DEF InitializeFails, Kept, Occupied
  <2> QED
    BY <1>n, <1>c, <2>1, Leaves
<1>3. CASE OnTerm(s) \/ RunFails(s)
  <2>1. PICK f \in BOOLEAN : node[s].proc = "live" /\ Shutdown(s, f)
    BY <1>3 DEF OnTerm, RunFails, Next1
  <2>2. "stopped" \in NodeStates
    BY DEF NodeStates
  <2>3. /\ node' = [node EXCEPT ![s] = Closing(f)] /\ node[s].proc \in Occupied
        /\ UNCHANGED <<engaged, setup, latest, api, crashes, lost, orphans, strayed, row>>
        /\ Save(s, "stopped")
    BY <2>1 DEF Shutdown, Kept, Occupied
  <2>4. ckpt' \in [Traders -> {"none"} \cup NodeStates]
    BY <1>n, <2>2, <2>3, SaveTyped
  <2> QED
    BY <1>c, <2>3, <2>4, Leaves
<1>4. CASE Finish(s)
  <2>1. /\ row' = IF row[s] = "none" THEN row ELSE [row EXCEPT ![s] = Outcome(s)]
        /\ node' = [node EXCEPT ![s] = Gone] /\ node[s].proc = "closing"
        /\ UNCHANGED <<engaged, setup, latest, api, crashes, lost, orphans, strayed, ckpt>>
    BY <1>4 DEF Finish, Kept
  <2>2. Outcome(s) \in Rows /\ Outcome(s) # "none"
    BY DEF Outcome, Rows
  <2>3. row' \in [Sessions -> Rows] /\ (row'[s] = "none" <=> row[s] = "none")
        /\ \A u \in Sessions : u # s => row'[u] = row[u]
    BY <1>n, <2>1, <2>2 DEF TypeOK
  <2>4. Held(Gone)
    BY <1>f DEF Held
  <2>5. ckpt' \in [Traders -> {"none"} \cup NodeStates]
    BY <1>n, <2>1
  <2> QED
    BY <1>f, <2>1, <2>3, <2>4, <2>5, OneNode DEF Occupied
<1> QED
  BY <1>1, <1>2, <1>3, <1>4

LEMMA CheckpointStep ==
  ASSUME IInv, NEW s \in Sessions, Checkpoint(s)
  PROVE  IInv'
<1>1. UNCHANGED <<engaged, setup, latest, api, crashes, lost, orphans, strayed, row, node>>
      /\ Save(s, node[s].state)
  BY DEF Checkpoint, Kept
<1>2. node[s].state \in NodeStates
  BY DEF IInv, NodeInv, NodeRecords
<1>3. ckpt' \in [Traders -> {"none"} \cup NodeStates]
  BY <1>1, <1>2, SaveTyped DEF IInv
<1>4. TypeOK'
  BY <1>1, <1>3 DEF IInv, TypeOK
<1>5. /\ RowsTell' /\ OneUnwritten' /\ Alone' /\ SwitchInv'
      /\ \A u \in Sessions : NodeInv(node'[u])
  BY <1>1 DEF IInv, RowsTell, OneUnwritten, Unwritten, Launching, Alone, SwitchInv, IsIdle
<1> QED
  BY <1>4, <1>5 DEF IInv

\* An order of a strategy is only remembered.
LEMMA EntryStep ==
  ASSUME IInv, NEW s \in Sessions, SubmitEntry(s)
  PROVE  IInv'
<1>1. /\ strayed' = (strayed \/ Reached(s))
      /\ UNCHANGED <<engaged, row, setup, latest, node, ckpt, api, crashes, lost, orphans>>
  BY DEF SubmitEntry
<1>2. strayed' \in BOOLEAN
  BY <1>1 DEF IInv, TypeOK, Reached
<1> QED
  BY <1>1, <1>2
     DEF IInv, TypeOK, RowsTell, OneUnwritten, Unwritten, Launching, Alone, SwitchInv, IsIdle

LEMMA NextInv == IInv /\ [Next]_vars => IInv'
<1> SUFFICES ASSUME IInv, [Next]_vars PROVE IInv'
  OBVIOUS
<1>1. CASE ApiNext
  BY <1>1, ApiStep
<1>2. ASSUME NEW s \in Sessions, NodeNext(s) PROVE IInv'
  BY <1>2, StartStep, HandlerStep, EndStep, CheckpointStep, EntryStep DEF NodeNext, NodeSteps
<1>3. CASE UNCHANGED vars
  BY <1>3 DEF vars, IInv, TypeOK, RowsTell, OneUnwritten, Unwritten, Launching, Alone,
     SwitchInv, IsIdle
<1> QED
  BY <1>1, <1>2, <1>3 DEF Next

-----------------------------------------------------------------------------
(* The theorems *)

\* The invariant holds in every reachable state.
THEOREM Inductive == Spec => []IInv
<1> QED
  BY InitInv, NextInv, PTL DEF Spec

\* Rows, records, signals and checkpoints keep their types.
THEOREM TypeCorrect == Spec => []TypeOK
  BY Inductive, PTL DEF IInv

\* A live node has a row that says running, or will have one, unless start_job
\* died between Popen and its commit: node, kill_job and clean-up never take the
\* row away from under it (_find_active_paper_job goes by it).
THEOREM TrackedWhileLive == Spec => []LiveTracked
<1>1. IInv => LiveTracked
  BY DEF IInv, RowsTell, LiveTracked, Live, Occupied
<1> QED
  BY <1>1, Inductive, PTL

\* Two nodes are live side by side only if the launch of one died after its Popen
\* (restore_paper, start_paper).
THEOREM TradesAlone == Spec => []OneTrader
<1>1. IInv => OneTrader
  BY DEF IInv, Alone, OneTrader, Live
<1> QED
  BY <1>1, Inductive, PTL

\* With the switch engaged and signalled, a node that a row names and that has
\* taken its signals does not report itself running, unless it was resumed
\* afterwards (system.py kill).  It may go on sending orders (KillStopsEntries).
THEOREM SwitchReaches == Spec => []KillReaches
<1>1. ASSUME IInv PROVE KillReaches
  <2>1. ASSUME NEW s \in Sessions, Reached(s) PROVE node[s].state # "running"
    <3>1. Held(node[s])
      BY <1>1, <2>1 DEF IInv, SwitchInv, Reached
    <3>2. ~ HaltWaits(node[s].sig)
      BY <2>1 DEF HaltWaits, Reached
    <3> QED
      BY <2>1, <3>1, <3>2 DEF Held, Live, Reached
  <2> QED
    BY <2>1 DEF KillReaches
<1> QED
  BY <1>1, Inductive, PTL

\* An operator's pause outlives any number of errors (_on_error_halt,
\* resume_from_halt).
THEOREM PauseKept == Spec => []PauseOutlivesErrors
<1>1. ASSUME IInv, NEW s \in Sessions, Live(s), node[s].reason = "error", ~ node[s].byHand
      PROVE  ResumeFromHalt(node[s]).state = node[s].before
  <2>1. NodeInv(node[s]) /\ node[s] \in NodeRecords /\ node[s].proc = "live"
    BY <1>1 DEF IInv, NodeInv, Live
  <2>2. node[s].prev = node[s].before /\ node[s].before \in LiveStates
    BY <1>1, <2>1 DEF NodeInv, Remembers, NodeRecords
  <2>3. node[s].prev # "none"
    BY <2>2 DEF LiveStates
  <2>4. ResumeFromHalt(node[s]).state = node[s].prev
    BY <1>1, <2>1, <2>3 DEF ResumeFromHalt, NodeRecords
  <2> QED
    BY <2>2, <2>4
<1>2. IInv => PauseOutlivesErrors
  BY <1>1 DEF PauseOutlivesErrors
<1> QED
  BY <1>2, Inductive, PTL

\* restore_paper starts no node beside one that is starting or live, but for what
\* launches that died after their Popen left behind.
THEOREM RestoresAlone == Spec => RestoreAlone
<1>1. IInv /\ [Next]_vars =>
        [\A s, u \in Sessions :
           /\ node[s].proc = "none" /\ node'[s].proc = "boot" /\ setup'[s].config = "ok"
           /\ u # s /\ u \notin orphans
           => node[u].proc \notin {"boot", "init", "live"}]_vars
  <2> SUFFICES ASSUME IInv, [Next]_vars, NEW s \in Sessions, NEW u \in Sessions,
                      node[s].proc = "none", setup'[s].config = "ok", u # s, u \notin orphans,
                      node[u].proc \in {"boot", "init", "live"}
               PROVE  FALSE
    OBVIOUS
  <2>1. setup[s].config = "none" /\ setup' # setup
    BY DEF IInv, RowsTell
  <2>2. PICK t \in Traders, c \in Configs :
          IsIdle /\ Launch(t, c) /\ (c = "ok" => NoneRunning)
    <3>1. \E t \in Traders : StartPaper(t) \/ RestorePaper(t)
      BY <2>1 DEF Next, ApiNext, NodeNext, NodeSteps, vars, SendTo, StartCommit, KillCommit,
         KillCascade, ApiCrash, Unlock, EndJob, Finish, RefuseConfig, Begin, Initialize,
         InitializeFails, OnHalt, OnResume, OnTerm, RunFails, Shutdown, HaltingError,
         TransientError, ResetRetries, Checkpoint, SubmitEntry, Die, Becomes, Kept
    <3> QED
      BY <3>1 DEF StartPaper, RestorePaper, Configs, IInv, TypeOK
  <2>3. PICK v \in Sessions :
          setup' = [setup EXCEPT ![v] = [trader |-> t, config |-> c]]
    BY <2>2 DEF Launch
  <2>4. v = s /\ c = "ok"
    BY <2>1, <2>3 DEF IInv, TypeOK
  <2>5. row[u] = "running"
    BY <2>2 DEF IInv, RowsTell, Occupied, Launching, IsIdle
  <2> QED
    BY <2>2, <2>4, <2>5 DEF NoneRunning, Active
<1> QED
  BY <1>1, Inductive, PTL DEF Spec, RestoreAlone
=============================================================================
