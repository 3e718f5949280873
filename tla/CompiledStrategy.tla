-------------------------- MODULE CompiledStrategy --------------------------
(***************************************************************************)
(* A strategy document (dsl/schema.py, dsl/conditions.py) and the program  *)
(* the compiler (dsl/compiler.py, dsl/templates.py) makes of it, run bar   *)
(* by bar against the simulated exchange of a backtest.  The state is that *)
(* of the generated Strategy object: the values of the previous bar that a *)
(* crossing is measured against, the action a validation run delays by one *)
(* bar, what it believes of its position, the best trailing stop; and that *)
(* of the exchange: the position, the working orders and the commands in   *)
(* flight.  The exchange and the indicators are external.                  *)
(***************************************************************************)
EXTENDS Integers, Sequences, FiniteSets

CONSTANTS
    Strategies,     \* the documents offered to the parser
    Bars,           \* the price bars: [lo, hi, close]
    Levels,         \* the values an indicator takes
    Gaps,           \* ATR multiples: the distance of a stop or a target
    DayLen,         \* bars in a day
    Funding,        \* the slots of the day at which funding is settled
    MaxBars,        \* how many bars a run has
    MaxWire         \* commands in flight: how far the latency may pile up

Sides == {-1, 1}
Sign(n) == IF n > 0 THEN 1 ELSE IF n < 0 THEN -1 ELSE 0
Size(n) == IF n < 0 THEN -n ELSE n

(***************************************************************************)
(* Documents.  An operand is a price, an indicator output or a number; a   *)
(* list of conditions is a conjunction.                                    *)
(***************************************************************************)
Operators == {"gt", "lt", "ge", "le", "above", "below", "between"}
StopTypes == {"fixed_pct", "atr_fixed", "atr_trailing"}
TakeTypes == {"fixed_pct", "atr_fixed", "risk_reward"}
NoType == "none"

Conditions(d) == UNION {d.entry[s] \cup d.exit[s] : s \in Sides}
Operands(c) == {c.left, c.right} \cup IF c.op = "between" THEN {c.right2} ELSE {}

(* Prices are numbers, an operand is of one of three kinds, and a stop or a *)
(* target is never at the price itself, as an ATR of zero would put it.     *)
ASSUME ProgramAssumption ==
    /\ \A d \in Strategies : \A c \in Conditions(d) : \A x \in Operands(c) :
           x.kind \in {"num", "price", "ind"}
    /\ \A b \in Bars : b.lo \in Int /\ b.hi \in Int /\ b.close \in Int
    /\ Gaps \subseteq Nat \ {0}
    /\ MaxBars \in Nat

Refs(d) == {x.key : x \in {y \in UNION {Operands(c) : c \in Conditions(d)} : y.kind = "ind"}}

\* An indicator read without naming an output: its primary one.
Plain == ""
OutputKeys(d, n) == {<<n, o>> : o \in {Plain} \cup d.specs[n].outputs}
\* Every name a condition may use: an indicator, or one output of it.
KnownNames(d) ==
    UNION {OutputKeys(d, n) : n \in DOMAIN d.specs}

ParsesCondition(d, c) ==
    /\ c.op \in Operators
    /\ \A x \in {c.left} \cup (IF c.op = "between" THEN {} ELSE {c.right}) :
           x.kind = "ind" => x.key \in KnownNames(d)
    /\ (c.op = "between" /\ c.right.kind = "num" /\ c.right2.kind = "num")
           => c.right.num < c.right2.num

\* What the schema lets through; a document it refuses is never compiled.
Valid(d) ==
    /\ \E s \in Sides : d.entry[s] # {}
    /\ \A c \in Conditions(d) : ParsesCondition(d, c)
    /\ d.stop \in StopTypes /\ d.take \in TakeTypes
    /\ \A s \in Sides : /\ d.stopOver[s] \in StopTypes \cup {NoType}
                        /\ d.takeOver[s] \in TakeTypes \cup {NoType}

(***************************************************************************)
(* Where the value of an indicator output comes from.  An indicator with a *)
(* NautilusTrader class is read from its object unless a condition names   *)
(* an output that object does not have: then all of it is computed from    *)
(* the buffer of primary bars.                                             *)
(***************************************************************************)
Missing(d, n) ==
    {o \in d.specs[n].outputs \ (d.specs[n].attrs \cup d.specs[n].computed) :
        <<n, o>> \in Refs(d)}
OnNT(d, n) == d.specs[n].nt /\ (Missing(d, n) = {} \/ ~d.specs[n].fn)

NTOutputs(d, n) == d.specs[n].outputs \cap (d.specs[n].attrs \cup d.specs[n].computed)

\* What _get_indicator_value answers; another name raises ValueError.
Readable(d) ==
    UNION {IF OnNT(d, n)
             THEN {<<n, o>> : o \in {Plain} \cup NTOutputs(d, n)}
             ELSE OutputKeys(d, n) : n \in DOMAIN d.specs}
\* What _update_prev_values stores.
Remembered(d) ==
    UNION {IF OnNT(d, n)
             THEN {<<n, o>> : o \in {Plain} \cup NTOutputs(d, n)}
             ELSE IF d.specs[n].fn THEN OutputKeys(d, n) ELSE {} : n \in DOMAIN d.specs}
\* What _indicators_ready waits for in _pta_values.
AwaitedKeys(d) ==
    UNION {OutputKeys(d, n) \ {<<n, o>> : o \in d.specs[n].computed} :
              n \in {m \in DOMAIN d.specs : ~OnNT(d, m) /\ d.specs[m].fn}}

(***************************************************************************)
(* The number of a condition becomes a parameter of the configuration, one *)
(* for each left operand and value; a sweep overrides it.  The upper bound *)
(* of a BETWEEN has none of its own.                                       *)
(***************************************************************************)
Name(x) == IF x.kind = "ind" THEN x.key ELSE <<"price", x.kind>>
ThresholdMap(d) ==
    {<<Name(c.left), c.right.num>> : c \in {e \in Conditions(d) : e.right.kind = "num"}}
Threshold(d, l, r) ==
    IF <<Name(l), r.num>> \in ThresholdMap(d) \cap DOMAIN d.sweep
      THEN d.sweep[<<Name(l), r.num>>] ELSE r.num

StopType(d, s) == IF d.stopOver[s] # NoType THEN d.stopOver[s] ELSE d.stop
TakeType(d, s) == IF d.takeOver[s] # NoType THEN d.takeOver[s] ELSE d.take
HasTrailing(d) == "atr_trailing" \in {d.stop} \cup {d.stopOver[s] : s \in Sides}

(***************************************************************************)
(* Time filters.  A day is DayLen bars; a session may run over midnight,   *)
(* and funding is avoided from "before" slots ahead to "after" behind.     *)
(***************************************************************************)
Day(n) == (n \div DayLen) % 7
Slot(n) == n % DayLen
InSession(s, t) == IF s.start <= s.end THEN s.start <= t /\ t <= s.end
                                       ELSE t >= s.start \/ t <= s.end
PassesFilters(d, n) ==
    /\ Day(n) \notin d.blockedDays
    /\ d.sessions # {} => \E s \in d.sessions : InSession(s, Slot(n))
NearFunding(d, n) ==
    /\ d.funding.enabled
    /\ \E f \in Funding :
          Slot(Slot(n) - f + d.funding.before) < d.funding.before + d.funding.after
Quiet(d, n) == PassesFilters(d, n) /\ ~NearFunding(d, n)

VARIABLES
    dsl,        \* the compiled document
    n,          \* bars seen
    bar,        \* the current bar
    val,        \* the value of each output a condition names
    atr,        \* the distance an ATR stop or target has now
    warm,       \* the NautilusTrader indicators are initialized
    computed,   \* the keys of _pta_values
    prev,       \* _prev_values, a partial function
    side,       \* _position_open and _position_side: 1, -1 or 0 for no position
    pending,    \* _pending_validation_action
    best,       \* _trailing_best_sl, <<>> when it was never set
    pos,        \* exchange: the net position
    working,    \* exchange: the working orders
    wire,       \* commands on their way to the exchange
    phase,      \* "match" a bar, then the strategy; "settle" its commands; "stopped"
    was,        \* history: val and close at the last primary bar
    fired,      \* history: what the conditions called for at the last bar
    opened      \* history: price and distance when the position was opened
strategy == <<prev, side, pending, best>>
exchange == <<pos, working>>
market == <<dsl, n, bar, val, atr, warm, computed>>
history == <<was, fired, opened>>
vars == <<market, strategy, exchange, wire, phase, history>>

None == "none"
Entry(s) == IF s = 1 THEN "long_entry" ELSE "short_entry"
EMPTY == [x \in {} |-> 0]

TypeOK ==
    /\ n \in 0 .. MaxBars /\ bar \in Bars
    /\ dsl \in Strategies /\ DOMAIN val = Refs(dsl) /\ DOMAIN prev \subseteq Remembered(dsl)
    /\ atr \in Gaps /\ warm \in BOOLEAN /\ computed \subseteq UNION {OutputKeys(dsl, i) : i \in DOMAIN dsl.specs}
    /\ side \in {-1, 0, 1} /\ pos \in Int /\ Len(best) <= 1
    /\ pending \in {None, "long_entry", "short_entry", "exit"}
    /\ \A o \in working : o.kind \in {"stop", "take"} /\ o.side \in Sides /\ o.qty > 0
    /\ \A i \in DOMAIN wire : wire[i].op = "submit" => wire[i].order.qty > 0
    /\ phase \in {"match", "settle", "stopped"}

(***************************************************************************)
(* Conditions.                                                             *)
(***************************************************************************)
Value(x, close, v) == CASE x.kind = "num" -> x.num
                        [] x.kind = "price" -> close
                        [] x.kind = "ind" -> v[x.key]
Right(c, close, v) == IF c.right.kind = "num" THEN Threshold(dsl, c.left, c.right)
                                              ELSE Value(c.right, close, v)
\* A number has no previous value and neither has a price: the literal of the
\* document and the price of the current bar stand for them.
Before(x, close) == IF x.kind # "ind" THEN Value(x, close, val)
                    ELSE IF x.key \in DOMAIN prev THEN prev[x.key] ELSE 0
\* Mutant: no guard for the first bar.
HasBefore_Always(c) == TRUE
HasBefore(c) == \A x \in {c.left, c.right} : x.kind = "ind" => x.key \in DOMAIN prev

Holds(c) ==
    LET l == Value(c.left, bar.close, val)
        r == Right(c, bar.close, val)
    IN CASE c.op = "gt" -> l > r
         [] c.op = "lt" -> l < r
         [] c.op = "ge" -> l >= r
         [] c.op = "le" -> l <= r
         [] c.op = "above" -> /\ HasBefore(c) /\ l > r
                              /\ Before(c.left, bar.close) <= Before(c.right, bar.close)
         [] c.op = "below" -> /\ HasBefore(c) /\ l < r
                              /\ Before(c.left, bar.close) >= Before(c.right, bar.close)
         [] c.op = "between" ->
               /\ r <= l
               /\ l <= IF c.right2.kind = "num" THEN Threshold(dsl, c.left, c.right2)
                                                ELSE Value(c.right2, bar.close, val)
Signals(conds) == conds # {} /\ \A c \in conds : Holds(c)

Ready == warm /\ AwaitedKeys(dsl) \subseteq computed
UpdatePrev == [k \in Remembered(dsl) \cap Refs(dsl) |-> val[k]]

(***************************************************************************)
(* Orders.                                                                 *)
(***************************************************************************)
Submit(o) == [op |-> "submit", order |-> o]
Market(kind, s, q) == [kind |-> kind, side |-> s, qty |-> q, price |-> 0]
InFlight(w) == {i \in DOMAIN w : w[i].op = "submit"}

\* cancel_all_orders sends nothing when no order is open or in flight.
CancelAll(w) == IF working = {} /\ InFlight(w) = {} THEN w
                                                    ELSE Append(w, [op |-> "cancel_all"])

\* The quantity, in units: None (0) when the size rounds to zero.
Quantities == {0, 1}
SubmitEntry(w, s, q) == IF side # 0 \/ q = 0 THEN w ELSE Append(w, Submit(Market("entry", s, q)))
SubmitExit(w) ==
    IF side = 0 THEN w
    ELSE IF pos = 0 THEN CancelAll(w)
    ELSE Append(CancelAll(w), Submit(Market("exit", -side, Size(pos))))

StopPrice(d, s, px, gap) == IF StopType(d, s) \in StopTypes THEN px - s * gap ELSE 0
TakePrice(d, s, px, gap) == IF TakeType(d, s) \in TakeTypes THEN px + s * gap ELSE 0
Protection(kind, s, q, price) ==
    IF price <= 0 THEN <<>>
    ELSE <<Submit([kind |-> kind, side |-> -s, qty |-> q, price |-> price])>>
\* Mutant: an invalid target ends the submission before the stop.
SubmitSlTp_Aborts(w, px, s, q) ==
    IF TakePrice(dsl, s, px, atr) <= 0 THEN w
    ELSE w \o Protection("stop", s, q, StopPrice(dsl, s, px, atr))
           \o Protection("take", s, q, TakePrice(dsl, s, px, atr))
SubmitSlTp(w, px, s, q) ==
    w \o Protection("stop", s, q, StopPrice(dsl, s, px, atr))
      \o Protection("take", s, q, TakePrice(dsl, s, px, atr))

\* The trailing stop is moved when the new level beats the best one so far.
NewStop == bar.close - side * atr
Improves == best = <<>> \/ (NewStop - best[1]) * side > 0
Trails == HasTrailing(dsl) /\ side # 0 /\ StopType(dsl, side) = "atr_trailing" /\ Improves
StopCancels ==
    LET ids == {o.id : o \in {x \in working : x.kind = "stop"}}
    IN IF ids = {} THEN <<>> ELSE <<[op |-> "cancel", ids |-> ids]>>
UpdateTrailing(w) ==
    IF ~Trails \/ NewStop <= 0 THEN w
    ELSE w \o StopCancels
           \o IF pos = 0 THEN <<>> ELSE Protection("stop", side, Size(pos), NewStop)

(***************************************************************************)
(* on_bar of a primary bar, after the exchange matched the bar.            *)
(***************************************************************************)
Triggered(o) ==
    \/ o.kind = "stop" /\ (IF o.side = -1 THEN bar.lo <= o.price ELSE bar.hi >= o.price)
    \/ o.kind = "take" /\ (IF o.side = -1 THEN bar.hi >= o.price ELSE bar.lo <= o.price)
Matched == \A o \in working : ~(o.kind = "stop" /\ Triggered(o))

Remember == was' = [close |-> bar.close, val |-> val]
Strategize(w, p, b, f) ==
    /\ wire' = w /\ pending' = p /\ best' = b /\ fired' = f /\ UNCHANGED opened

\* Indicators still warming up: nothing is evaluated, nothing remembered.
NotReady ==
    /\ phase = "match" /\ Matched /\ ~Ready
    /\ Strategize(wire, pending, best, None) /\ Remember
    /\ phase' = "settle"
    /\ UNCHANGED <<market, prev, side, exchange>>

\* An action delayed at the previous bar is executed before anything else.
DispatchAnd(q, next) ==
    /\ phase = "match" /\ Matched /\ Ready /\ pending # None
    /\ Strategize(IF pending = "exit" THEN SubmitExit(wire)
                  ELSE SubmitEntry(wire, IF pending = "long_entry" THEN 1 ELSE -1, q),
                  next, best, None)
    /\ prev' = UpdatePrev /\ Remember
    /\ phase' = "settle"
    /\ UNCHANGED <<market, side, exchange>>
\* Mutant: the action stays pending.
Dispatch_Keeps(q) == DispatchAnd(q, pending)
Dispatch(q) == DispatchAnd(q, None)

\* Outside the trading hours: nothing is evaluated, nothing remembered.
Filtered ==
    /\ phase = "match" /\ Matched /\ Ready /\ pending = None /\ ~Quiet(dsl, n)
    /\ Strategize(wire, pending, best, None) /\ Remember
    /\ phase' = "settle"
    /\ UNCHANGED <<market, prev, side, exchange>>

\* The action the conditions call for: a long entry before a short one when no
\* position is believed open, the exit of the side believed open otherwise.
Signal == IF side = 0
            THEN IF Signals(dsl.entry[1]) THEN "long_entry"
                 ELSE IF Signals(dsl.entry[-1]) THEN "short_entry" ELSE None
            ELSE IF Signals(dsl.exit[side]) THEN "exit" ELSE None
Act(w, a, q) == CASE a = "exit" -> SubmitExit(w)
                  [] a = "long_entry" -> SubmitEntry(w, 1, q)
                  [] a = "short_entry" -> SubmitEntry(w, -1, q)
                  [] OTHER -> w

Evaluate(q, delay) ==
    /\ phase = "match" /\ Matched /\ Ready /\ pending = None /\ Quiet(dsl, n)
    /\ delay => dsl.delays /\ Signal # None
    /\ Strategize(UpdateTrailing(IF delay THEN wire ELSE Act(wire, Signal, q)),
                  IF delay THEN Signal ELSE None,
                  IF Trails THEN <<NewStop>> ELSE best,
                  Signal)
    /\ prev' = UpdatePrev /\ Remember
    /\ phase' = "settle"
    /\ UNCHANGED <<market, side, exchange>>

(***************************************************************************)
(* The exchange (external) and the handler of its events, on_event.        *)
(***************************************************************************)
\* A fill moves the position from p to q; the strategy hears of the closed
\* position first, then of the opened one, and reads its position again.
Closes(p, q) == p # 0 /\ Sign(q) # Sign(p)
Opens(p, q) == q # 0 /\ Sign(q) # Sign(p)
OnPositionOpened(p, q, px, w) ==
    /\ opened' = IF Opens(p, q) THEN [px |-> px, gap |-> atr] ELSE opened
    /\ wire' = IF Opens(p, q) THEN SubmitSlTp(w, px, Sign(q), Size(q)) ELSE w
\* Mutants: the other orders survive the position; the state is not read again.
Fill_KeepsOrders(p, q, px, w) ==
    /\ pos' = q /\ side' = Sign(q) /\ OnPositionOpened(p, q, px, w)
Fill(p, q, px, w) ==
    /\ pos' = q /\ side' = Sign(q)
    /\ OnPositionOpened(p, q, px, IF Closes(p, q) THEN CancelAll(w) ELSE w)

Least(a, b) == IF a < b THEN a ELSE b
Reduces(o, p) == Sign(p) = -o.side
Reduced(o, p) == p + o.side * Least(o.qty, Size(p))

\* A working order the bar touches is filled; reduce-only orders never open.
Trigger(o) ==
    /\ phase = "match" /\ o \in working /\ Triggered(o)
    /\ working' = working \ {o}
    /\ IF Reduces(o, pos) THEN Fill(pos, Reduced(o, pos), o.price, wire)
                          ELSE UNCHANGED <<pos, side, wire, opened>>
    /\ UNCHANGED <<market, prev, pending, best, phase, was, fired>>

UsedIds == {o.id : o \in working}
           \cup UNION {wire[i].ids : i \in {j \in DOMAIN wire : wire[j].op = "cancel"}}
FreshId == CHOOSE i \in 1 .. Cardinality(UsedIds) + 1 : i \notin UsedIds
Crossed(o) == IF (o.kind = "stop") = (o.side = -1) THEN bar.close <= o.price
                                                  ELSE bar.close >= o.price

\* The oldest command reaches the exchange.  A stop beyond the market and a
\* reduce-only order without a position are rejected, a limit beyond it fills.
Process ==
    /\ wire # <<>> /\ (phase = "settle" \/ (dsl.latent /\ phase # "stopped"))
    /\ LET m == Head(wire) rest == Tail(wire)
       IN CASE m.op = "cancel_all" ->
                  working' = {} /\ wire' = rest /\ UNCHANGED <<pos, side, opened>>
            [] m.op = "cancel" ->
                  /\ working' = {o \in working : o.id \notin m.ids}
                  /\ wire' = rest /\ UNCHANGED <<pos, side, opened>>
            [] m.op = "submit" /\ m.order.kind \in {"entry", "exit"} ->
                  /\ Fill(pos, pos + m.order.side * m.order.qty, bar.close, rest)
                  /\ UNCHANGED working
            [] OTHER ->
                  LET o == m.order
                  IN IF ~Reduces(o, pos) \/ (o.kind = "stop" /\ Crossed(o))
                       THEN wire' = rest /\ UNCHANGED <<pos, side, opened, working>>
                     ELSE IF o.kind = "take" /\ Crossed(o)
                       THEN Fill(pos, Reduced(o, pos), bar.close, rest) /\ UNCHANGED working
                     ELSE /\ working' = working \cup
                               {[id |-> FreshId, kind |-> o.kind, side |-> o.side,
                                 qty |-> o.qty, price |-> o.price]}
                          /\ wire' = rest /\ UNCHANGED <<pos, side, opened>>
    /\ UNCHANGED <<market, prev, pending, best, phase, was, fired>>

(***************************************************************************)
(* Bars.  Without latency the exchange settles every command before the    *)
(* next bar; with it they may still be in flight.                          *)
(***************************************************************************)
NewBar(b, v, g) ==
    /\ phase = "settle" /\ n < MaxBars
    /\ wire = <<>> \/ (dsl.latent /\ Len(wire) <= MaxWire)
    /\ n' = n + 1 /\ bar' = b /\ val' = v /\ atr' = g
    /\ warm' \in {w \in BOOLEAN : warm => w}
    /\ \E K \in SUBSET (AwaitedKeys(dsl) \cap Refs(dsl)) :
          computed' = computed \cup K \cup IF K = {} THEN {} ELSE AwaitedKeys(dsl) \ Refs(dsl)
    /\ phase' = "match"
    /\ UNCHANGED <<dsl, strategy, exchange, wire, history>>

\* on_stop: cancel everything, close what is open (a reduce-only market order).
Stop ==
    /\ phase = "settle" /\ n = MaxBars /\ wire = <<>>
    /\ working' = {} /\ pos' = 0 /\ side' = 0 /\ phase' = "stopped"
    /\ UNCHANGED <<market, prev, pending, best, wire, history>>

\* on_reset, when the engine is reset after the run.
Reset ==
    /\ phase = "stopped" /\ side' = 0 /\ pending' = None
    /\ UNCHANGED <<market, prev, best, exchange, wire, phase, history>>

Init ==
    /\ dsl \in {d \in Strategies : Valid(d)}
    /\ n = 0 /\ bar \in Bars /\ atr \in Gaps
    /\ val \in [Refs(dsl) -> Levels]
    /\ warm = FALSE /\ computed = {} /\ prev = EMPTY
    /\ side = 0 /\ pending = None /\ best = <<>>
    /\ pos = 0 /\ working = {} /\ wire = <<>> /\ phase = "settle"
    /\ was = [close |-> bar.close, val |-> val] /\ fired = None
    /\ opened = [px |-> 0, gap |-> 0]

Next ==
    \/ \E b \in Bars, v \in [Refs(dsl) -> Levels], g \in Gaps : NewBar(b, v, g)
    \/ \E o \in working : Trigger(o)
    \/ NotReady \/ Filtered
    \/ \E q \in Quantities : Dispatch(q)
    \/ \E q \in Quantities, delay \in BOOLEAN : Evaluate(q, delay)
    \/ Process \/ Stop \/ Reset
Spec == Init /\ [][Next]_vars

(***************************************************************************)
(* Properties.                                                             *)
(***************************************************************************)
Settled == phase = "settle" /\ wire = <<>>
Stops == {o \in working : o.kind = "stop"}

\* Once the commands of a bar are settled an open position has exactly one stop
\* order, of its own size and on the other side, through entries, exits, stops
\* that trail and targets that fill; unless the price was not positive.
Protected ==
    (Settled /\ ~dsl.latent /\ pos # 0 /\ opened.px - Sign(pos) * opened.gap > 0)
        => \E o \in Stops : Stops = {o} /\ o.side = -Sign(pos) /\ o.qty = Size(pos)

\* No order survives the position it protected: with nothing in flight a flat
\* account has no working order, with latency as without it.
NoOrphans == (Settled /\ pos = 0) => working = {}

\* A crossing of a level is seen at the bar where it happens: at the bar before,
\* whatever was done there, the output was on the other side.  (A time filter
\* suspends the memory, and a swept level moves under it.)
Unfiltered(d) == d.sessions = {} /\ d.blockedDays = {} /\ ~d.funding.enabled
CrossingsAreReal ==
    [][(fired' # None /\ fired' # "exit" /\ phase = "match" /\ phase' = "settle"
            /\ Unfiltered(dsl) /\ DOMAIN dsl.sweep = {}) =>
        \A c \in dsl.entry[IF fired' = "long_entry" THEN 1 ELSE -1] :
            (c.left.kind = "ind" /\ c.op = "above" /\ c.right.kind # "price")
                => was.val[c.left.key] <= Value(c.right, was.close, was.val)]_vars

\* Every entry is called for inside the trading hours; the one a validation run
\* delays was called for inside them at the bar before.
Entries(w) == {i \in DOMAIN w : w[i].op = "submit" /\ w[i].order.kind = "entry"}
EntersInHours ==
    [][Cardinality(Entries(wire')) > Cardinality(Entries(wire))
          => Quiet(dsl, n) \/ (dsl.delays /\ Quiet(dsl, n - 1))]_vars

=============================================================================
