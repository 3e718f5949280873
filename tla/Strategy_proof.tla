--------------------------- MODULE Strategy_proof ---------------------------
(***************************************************************************)
(* The compiled strategy on its simulated exchange, and the circuit        *)
(* breaker of a strategy, for every document, bar, level, limit and        *)
(* cooldown.                                                               *)
(*                                                                         *)
(* The orders: without a position everything that protected one is gone    *)
(* or a command that cancels it all is on its way behind it (SweptInv);    *)
(* with one, and without latency, either nothing on its way trades and one *)
(* stop is at work or will be (Holding), or an exit of the position's size *)
(* is the next thing that trades (Leaving).                                *)
(***************************************************************************)
EXTENDS CompiledStrategy, StrategyRisk, FiniteSetTheorems, TLAPS

-----------------------------------------------------------------------------
(* CompiledStrategy.  The types of commands and orders.                     *)

Tickets == [kind : {"entry", "exit", "stop", "take"}, side : Sides, qty : Nat \ {0}, price : Int]
IdSets == {S \in SUBSET Nat : IsFiniteSet(S)}
Commands == [op : {"cancel_all"}] \cup [op : {"cancel"}, ids : IdSets] \cup [op : {"submit"}, order : Tickets]
Orders == [id : Nat, kind : {"stop", "take"}, side : Sides, qty : Nat \ {0}, price : Int]

WireTypes ==
  /\ dsl \in Strategies /\ Valid(dsl) /\ bar \in Bars /\ atr \in Gaps /\ pos \in Int
  /\ pending \in {None, "long_entry", "short_entry", "exit"}
  /\ wire \in Seq(Commands) /\ working \subseteq Orders /\ IsFiniteSet(working)
  /\ opened \in [px : Int, gap : Int] /\ phase \in {"match", "settle", "stopped"}

\* A protective order on its way, and an order that trades at once.
IsBracket(m) == m.op = "submit" /\ m.order.kind \in {"stop", "take"}
IsTrade(m) == m.op = "submit" /\ m.order.kind \in {"entry", "exit"}
IsStop(m) == m.op = "submit" /\ m.order.kind = "stop"
NoTrade(w) == \A i \in DOMAIN w : ~ IsTrade(w[i])
NoBracket(w) == \A i \in DOMAIN w : ~ IsBracket(w[i])

\* The strategy knows its position between two events.
SideInv == side = Sign(pos) /\ (phase = "stopped" => pos = 0 /\ wire = << >> /\ working = {})

\* Without a position, what protected one is gone, or a command that cancels
\* everything follows it.
Swept(w, orders) ==
  \/ orders = {} /\ NoBracket(w)
  \/ \E j \in DOMAIN w : w[j].op = "cancel_all" /\ \A i \in DOMAIN w : IsBracket(w[i]) => i < j
SweptInv == pos = 0 => Swept(wire, working)

\* Without latency: flat, nothing trades but an entry at the end.
FlatInv ==
  pos = 0 => \A i \in DOMAIN wire : IsTrade(wire[i]) =>
                i = Len(wire) /\ wire[i].order.kind = "entry" /\ phase = "settle"

\* Of the position's size, and on the other side.
Fits(o) == o.side = - Sign(pos) /\ o.qty = Size(pos)

\* One stop protects the position when what is on its way has arrived.
Guarded(w) ==
  \/ /\ \E o \in Stops : Stops = {o}
     /\ \A i \in DOMAIN w : ~ IsStop(w[i]) /\ w[i].op # "cancel"
  \/ \E i \in DOMAIN w :
        /\ IsStop(w[i])
        /\ \A j \in DOMAIN w : IsStop(w[j]) \/ w[j].op = "cancel" => j <= i /\ (IsStop(w[j]) => j = i)
        /\ \A o \in Stops : \E j \in DOMAIN w : w[j].op = "cancel" /\ o.id \in w[j].ids

\* A position that is kept.
Holding(w) ==
  /\ phase = "match" => w = << >>
  /\ \A i \in DOMAIN w : w[i].op # "cancel_all"
  /\ \A i \in DOMAIN w : IsBracket(w[i]) => Fits(w[i].order) /\ ~ Crossed(w[i].order)
  /\ \A o \in working : Fits(o)
  /\ opened.px - Sign(pos) * opened.gap > 0 => Guarded(w)

\* A position that an exit on its way closes.
Leaving(w) ==
  /\ phase = "settle"
  /\ \E k \in DOMAIN w :
        /\ IsTrade(w[k]) /\ Fits(w[k].order)
        /\ \A i \in DOMAIN w : (i < k => w[i].op = "cancel_all") /\ (IsTrade(w[i]) => i = k)

HeldInv == pos # 0 => IF NoTrade(wire) THEN Holding(wire) ELSE Leaving(wire)

\* A delayed action was called for at the bar before, inside the hours.
HoursInv ==
  /\ n \in Nat
  /\ pending # None =>
       /\ dsl.delays /\ Ready
       /\ phase = "match"  => Quiet(dsl, n - 1)
       /\ phase = "settle" => Quiet(dsl, n)

\* What is remembered is of the bar before.
MemoryInv ==
  /\ ~ Ready => DOMAIN prev = {}
  /\ Unfiltered(dsl) => \A k \in DOMAIN prev : prev[k] = was.val[k]

OrdersInv == WireTypes /\ SideInv /\ SweptInv /\ (~ dsl.latent => FlatInv /\ HeldInv)

-----------------------------------------------------------------------------
(* Signs, commands and what is appended to the wire.                        *)

LEMMA Negated ==
  ASSUME NEW x \in Int
  PROVE  - x \in Int /\ x + (- x) = 0 /\ (- x) * 1 = - x
  OBVIOUS

LEMMA OneTimes ==
  ASSUME NEW x \in Int, NEW y \in Int
  PROVE  /\ y = 0 => y * x = 0
         /\ y = 1 => y * x = x
         /\ y = -1 => y * x = - x
  OBVIOUS

\* A number is its sign times its size.
LEMMA SignFacts ==
  ASSUME NEW p \in Int
  PROVE  /\ Sign(p) \in {-1, 0, 1} /\ Size(p) \in Nat /\ - Sign(p) \in {-1, 0, 1}
         /\ Sign(p) = 0 <=> p = 0
         /\ p # 0 => Sign(p) \in Sides /\ - Sign(p) \in Sides /\ Size(p) \in Nat \ {0}
         /\ p # 0 => Sign(p) # - Sign(p)
         /\ p + (- Sign(p)) * Size(p) = 0
  <1> DEFINE s == Sign(p)
             q == Size(p)
  <1>1. \/ s = -1 /\ q = -p /\ p < 0
        \/ s = 0 /\ q = 0 /\ p = 0
        \/ s = 1 /\ q = p /\ p > 0
    BY DEF Sign, Size
  <1> HIDE DEF s, q
  <1>2. s \in Int /\ q \in Int
    BY <1>1
  <1> DEFINE t == - s
  <1>t. t \in Int /\ s + t = 0
    BY <1>2, Negated
  <1> HIDE DEF t
  <1>3. p + t * q = 0
    <2>1. CASE s = -1
      <3>1. t = 1
        BY <1>t, <2>1
      <3>2. t * q = q
        BY <1>2, <3>1, OneTimes
      <3> QED BY <1>1, <1>2, <2>1, <3>2
    <2>2. CASE s = 0
      <3>1. t = 0
        BY <1>t, <2>2
      <3>2. t * q = 0
        BY <1>2, <3>1, OneTimes
      <3> QED BY <1>1, <1>2, <2>2, <3>2
    <2>3. CASE s = 1
      <3>1. t = -1
        BY <1>t, <2>3
      <3>2. t * q = - q
        BY <1>2, <3>1, OneTimes
      <3> QED BY <1>1, <1>2, <2>3, <3>2
    <2> QED BY <1>1, <2>1, <2>2, <2>3
  <1>4. s \in {-1, 0, 1} /\ q \in Nat /\ t \in {-1, 0, 1} /\ (s = 0 <=> p = 0)
    BY <1>1, <1>2, <1>t
  <1>5. p # 0 => s \in Sides /\ t \in Sides /\ q \in Nat \ {0} /\ s # t
    BY <1>1, <1>2, <1>t DEF Sides
  <1> QED BY <1>3, <1>4, <1>5 DEF s, q, t

\* The parts of a command.
LEMMA CommandTypes ==
  ASSUME NEW m \in Commands
  PROVE  /\ m.op \in {"cancel_all", "cancel", "submit"}
         /\ m.op = "submit" => m.order \in Tickets /\ m.order.side \in Sides /\ m.order.qty \in Nat \ {0} /\ m.order.price \in Int
                               /\ m.order.kind \in {"entry", "exit", "stop", "take"}
         /\ m.op = "cancel" => m.ids \in IdSets
  BY DEF Commands, Tickets

\* An order that is sent is a command.
LEMMA SubmitTyped ==
  ASSUME NEW o \in Tickets
  PROVE  Submit(o) \in Commands /\ Submit(o).op = "submit" /\ Submit(o).order = o
  BY DEF Submit, Commands

LEMMA CancelTyped == [op |-> "cancel_all"] \in Commands
  BY DEF Commands

\* Where the elements of two joined sequences are.
LEMMA Joined ==
  ASSUME NEW S, NEW s \in Seq(S), NEW t \in Seq(S)
  PROVE  /\ s \o t \in Seq(S) /\ Len(s \o t) = Len(s) + Len(t) /\ Len(s) \in Nat /\ Len(t) \in Nat
         /\ DOMAIN s = 1 .. Len(s) /\ DOMAIN t = 1 .. Len(t) /\ DOMAIN (s \o t) = 1 .. (Len(s) + Len(t))
         /\ \A i \in 1 .. Len(s) : (s \o t)[i] = s[i]
         /\ \A i \in 1 .. Len(t) : (s \o t)[Len(s) + i] = t[i]
         /\ \A i \in 1 .. (Len(s) + Len(t)) : i \in 1 .. Len(s) \/ ((i - Len(s)) \in 1 .. Len(t) /\ (s \o t)[i] = t[i - Len(s)])
  <1>1. s \o t \in Seq(S) /\ Len(s \o t) = Len(s) + Len(t) /\ Len(s) \in Nat /\ Len(t) \in Nat
        /\ DOMAIN s = 1 .. Len(s) /\ DOMAIN t = 1 .. Len(t) /\ DOMAIN (s \o t) = 1 .. (Len(s) + Len(t))
    OBVIOUS
  <1>2. \A i \in 1 .. Len(s) : (s \o t)[i] = s[i]
    OBVIOUS
  <1>3. \A i \in 1 .. Len(t) : (s \o t)[Len(s) + i] = t[i]
    OBVIOUS
  <1>4. ASSUME NEW i \in 1 .. (Len(s) + Len(t))
        PROVE  i \in 1 .. Len(s) \/ ((i - Len(s)) \in 1 .. Len(t) /\ (s \o t)[i] = t[i - Len(s)])
    <2> DEFINE a == Len(s)
               b == Len(t)
    <2>1. a \in Nat /\ b \in Nat /\ i \in 1 .. (a + b) /\ \A k \in 1 .. b : (s \o t)[a + k] = t[k]
      BY <1>1, <1>3
    <2> HIDE DEF a, b
    <2>2. i \in 1 .. a \/ (i - a \in 1 .. b /\ a + (i - a) = i)
      BY <2>1
    <2>3. i \in 1 .. a \/ (i - a \in 1 .. b /\ (s \o t)[i] = t[i - a])
      BY <2>1, <2>2
    <2> QED BY <2>3 DEF a, b
  <1> QED BY <1>1, <1>2, <1>3, <1>4

\* W begins with w.
Extends(w, W) ==
  /\ w \in Seq(Commands) /\ W \in Seq(Commands) /\ Len(w) \in Nat /\ Len(W) \in Nat /\ Len(w) <= Len(W)
  /\ DOMAIN w = 1 .. Len(w) /\ DOMAIN W = 1 .. Len(W)
  /\ \A i \in 1 .. Len(w) : W[i] = w[i]

LEMMA ExtendsItself ==
  ASSUME NEW w \in Seq(Commands)
  PROVE  Extends(w, w)
  BY DEF Extends

LEMMA ExtendsTwice ==
  ASSUME NEW u, NEW v, NEW w, Extends(u, v), Extends(v, w)
  PROVE  Extends(u, w)
  BY DEF Extends

LEMMA ExtendsByJoin ==
  ASSUME NEW w \in Seq(Commands), NEW t \in Seq(Commands)
  PROVE  Extends(w, w \o t)
  BY Joined DEF Extends

LEMMA ExtendsByOne ==
  ASSUME NEW w \in Seq(Commands), NEW m \in Commands
  PROVE  /\ Extends(w, Append(w, m)) /\ Len(Append(w, m)) = Len(w) + 1 /\ Append(w, m)[Len(w) + 1] = m
         /\ DOMAIN Append(w, m) = 1 .. (Len(w) + 1)
  BY DEF Extends

\* A stop or a target is sent when its price is positive.
LEMMA ProtectionFacts ==
  ASSUME NEW kind \in {"stop", "take"}, NEW s \in Sides, NEW q \in Nat \ {0}, NEW price \in Int
  PROVE  LET P == Protection(kind, s, q, price)
             o == [kind |-> kind, side |-> - s, qty |-> q, price |-> price]
         IN  /\ P \in Seq(Commands) /\ o \in Tickets
             /\ price <= 0 => P = << >>
             /\ price > 0 => P = << Submit(o) >> /\ Len(P) = 1 /\ P[1] = Submit(o)
  <1> DEFINE o == [kind |-> kind, side |-> - s, qty |-> q, price |-> price]
  <1>1. - s \in Sides
    BY DEF Sides
  <1>2. o \in Tickets
    BY <1>1 DEF Tickets
  <1>3. Submit(o) \in Commands
    BY <1>2, SubmitTyped
  <1>4. CASE price <= 0
    BY <1>2, <1>4 DEF Protection
  <1>5. CASE ~ (price <= 0)
    <2> HIDE DEF o
    <2>1. Protection(kind, s, q, price) = << Submit(o) >>
      BY <1>5 DEF Protection, o
    <2> QED BY <1>2, <1>3, <1>5, <2>1 DEF o
  <1> QED BY <1>4, <1>5

\* What a stop and a target cost.
LEMMA PriceFacts ==
  ASSUME WireTypes, NEW s \in Sides, NEW px \in Int
  PROVE  /\ StopPrice(dsl, s, px, atr) = px - s * atr /\ px - s * atr \in Int
         /\ TakePrice(dsl, s, px, atr) = px + s * atr /\ px + s * atr \in Int
         /\ atr \in Nat \ {0} /\ bar.close \in Int
  <1>1. StopType(dsl, s) \in StopTypes /\ TakeType(dsl, s) \in TakeTypes
    BY DEF WireTypes, Valid, StopType, TakeType
  <1>2. atr \in Nat \ {0} /\ bar.close \in Int
    BY ProgramAssumption DEF WireTypes
  <1>3. s \in Int
    BY DEF Sides
  <1> QED BY <1>1, <1>2, <1>3 DEF StopPrice, TakePrice

\* The stop and the target of a position that opens.
SentFor(m, px, s, q) ==
  /\ IsBracket(m) /\ m.order.side = - s /\ m.order.qty = q
  /\ m.order.kind = "stop" => m.order.price = px - s * atr
  /\ m.order.kind = "take" => m.order.price = px + s * atr
LEMMA SltpFacts ==
  ASSUME WireTypes, NEW w \in Seq(Commands), NEW s \in Sides, NEW q \in Nat \ {0}, NEW px \in Int
  PROVE  LET W == SubmitSlTp(w, px, s, q)
         IN  /\ Extends(w, W)
             /\ \A i \in DOMAIN W : i \notin DOMAIN w => SentFor(W[i], px, s, q)
             /\ px - s * atr > 0 => \E k \in DOMAIN W : k \notin DOMAIN w /\ IsStop(W[k])
                                        /\ \A i \in DOMAIN W : i \notin DOMAIN w /\ IsStop(W[i]) => i = k
  <1> DEFINE P1 == Protection("stop", s, q, px - s * atr)
             P2 == Protection("take", s, q, px + s * atr)
             o1 == [kind |-> "stop", side |-> - s, qty |-> q, price |-> px - s * atr]
             o2 == [kind |-> "take", side |-> - s, qty |-> q, price |-> px + s * atr]
             W == SubmitSlTp(w, px, s, q)
             N == Len(w)
  <1>1. W = (w \o P1) \o P2
    BY PriceFacts DEF SubmitSlTp
  <1>2. /\ P1 \in Seq(Commands) /\ o1 \in Tickets
        /\ px - s * atr <= 0 => P1 = << >>
        /\ px - s * atr > 0 => Len(P1) = 1 /\ P1[1] = Submit(o1)
    BY PriceFacts, ProtectionFacts
  <1>3. /\ P2 \in Seq(Commands) /\ o2 \in Tickets
        /\ px + s * atr <= 0 => P2 = << >>
        /\ px + s * atr > 0 => Len(P2) = 1 /\ P2[1] = Submit(o2)
    BY PriceFacts, ProtectionFacts
  <1>4. px - s * atr \in Int /\ px + s * atr \in Int
    BY PriceFacts
  <1>5. /\ Submit(o1).op = "submit" /\ Submit(o1).order = o1
        /\ Submit(o2).op = "submit" /\ Submit(o2).order = o2
    BY <1>2, <1>3, SubmitTyped
  <1>6. SentFor(Submit(o1), px, s, q) /\ IsStop(Submit(o1)) /\ SentFor(Submit(o2), px, s, q) /\ ~ IsStop(Submit(o2))
    BY <1>5 DEF SentFor, IsBracket, IsStop
  <1> HIDE DEF P1, P2, o1, o2, W
  <1>7. \A i \in 1 .. Len(P1) : P1[i] = Submit(o1)
    BY <1>2, <1>4
  <1>8. \A i \in 1 .. Len(P2) : P2[i] = Submit(o2)
    BY <1>3, <1>4
  <1>9. Extends(w, W)
    BY <1>1, <1>2, <1>3, Joined, ExtendsByJoin, ExtendsTwice
  <1>10. N \in Nat /\ DOMAIN w = 1 .. N /\ DOMAIN W = 1 .. (N + Len(P1) + Len(P2)) /\ Len(P1) \in Nat /\ Len(P2) \in Nat
    BY <1>1, <1>2, <1>3, Joined
  <1>11. \A i \in 1 .. Len(P1) : W[N + i] = P1[i]
    <2> SUFFICES ASSUME NEW i \in 1 .. Len(P1) PROVE W[N + i] = P1[i]
      OBVIOUS
    <2>1. (w \o P1)[N + i] = P1[i] /\ N + i \in 1 .. Len(w \o P1) /\ w \o P1 \in Seq(Commands)
      BY <1>2, <1>10, Joined
    <2> HIDE DEF N
    <2> QED BY <1>1, <1>3, <2>1, Joined
  <1>12. \A i \in 1 .. Len(P2) : W[N + Len(P1) + i] = P2[i]
    <2> SUFFICES ASSUME NEW i \in 1 .. Len(P2) PROVE W[N + Len(P1) + i] = P2[i]
      OBVIOUS
    <2>1. w \o P1 \in Seq(Commands) /\ Len(w \o P1) = N + Len(P1)
      BY <1>2, <1>10, Joined
    <2> HIDE DEF N
    <2> QED BY <1>1, <1>3, <2>1, Joined
  <1> HIDE DEF N
  <1>13. \A i \in DOMAIN W : i \notin DOMAIN w =>
            \/ i - N \in 1 .. Len(P1) /\ W[i] = Submit(o1)
            \/ i - N - Len(P1) \in 1 .. Len(P2) /\ W[i] = Submit(o2)
    <2> SUFFICES ASSUME NEW i \in DOMAIN W, i \notin DOMAIN w
                 PROVE  \/ i - N \in 1 .. Len(P1) /\ W[i] = Submit(o1)
                        \/ i - N - Len(P1) \in 1 .. Len(P2) /\ W[i] = Submit(o2)
      OBVIOUS
    <2>1. CASE i - N \in 1 .. Len(P1)
      BY <1>7, <1>10, <1>11, <2>1
    <2>2. CASE i - N \notin 1 .. Len(P1)
      <3> DEFINE k == i - N - Len(P1)
      <3>1. k \in 1 .. Len(P2) /\ N + Len(P1) + k = i
        BY <1>10, <2>2
      <3> HIDE DEF k
      <3>2. W[i] = Submit(o2)
        BY <1>8, <1>12, <3>1
      <3> QED BY <3>1, <3>2 DEF k
    <2> QED BY <2>1, <2>2
  <1>14. \A i \in DOMAIN W : i \notin DOMAIN w => SentFor(W[i], px, s, q)
    BY <1>6, <1>13
  <1>15. ASSUME px - s * atr > 0
         PROVE  \E k \in DOMAIN W : k \notin DOMAIN w /\ IsStop(W[k])
                   /\ \A i \in DOMAIN W : i \notin DOMAIN w /\ IsStop(W[i]) => i = k
    <2>1. Len(P1) = 1
      BY <1>2, <1>15
    <2>2. N + 1 \in DOMAIN W /\ N + 1 \notin DOMAIN w
      BY <1>10, <2>1
    <2>3. W[N + 1] = Submit(o1)
      BY <1>7, <1>11, <2>1
    <2>4. \A i \in DOMAIN W : i \notin DOMAIN w /\ IsStop(W[i]) => i = N + 1
      BY <1>6, <1>10, <1>13, <2>1
    <2> QED BY <1>6, <2>2, <2>3, <2>4
  <1> QED BY <1>9, <1>14, <1>15 DEF W

\* Either there is nothing to cancel, or the command is sent.
LEMMA CancelAllFacts ==
  ASSUME NEW w \in Seq(Commands)
  PROVE  /\ Extends(w, CancelAll(w))
         /\ \/ CancelAll(w) = w /\ working = {} /\ \A i \in DOMAIN w : w[i].op # "submit"
            \/ /\ Len(CancelAll(w)) = Len(w) + 1 /\ CancelAll(w)[Len(w) + 1].op = "cancel_all"
               /\ working # {} \/ w # << >>
  <1>1. CASE working = {} /\ InFlight(w) = {}
    BY <1>1, ExtendsItself DEF CancelAll, InFlight
  <1>2. CASE ~ (working = {} /\ InFlight(w) = {})
    <2>1. CancelAll(w) = Append(w, [op |-> "cancel_all"])
      BY <1>2 DEF CancelAll
    <2>2. w = << >> => InFlight(w) = {}
      BY DEF InFlight
    <2> QED BY <1>2, <2>1, <2>2, CancelTyped, ExtendsByOne
  <1> QED BY <1>1, <1>2

-----------------------------------------------------------------------------
(* The wire loses its head; a fill; the sizes of a position.                *)

\* What is left when the oldest command has arrived.
LEMMA TailFacts ==
  ASSUME NEW w \in Seq(Commands), w # << >>
  PROVE  /\ Head(w) = w[1] /\ Head(w) \in Commands /\ 1 \in DOMAIN w /\ Tail(w) \in Seq(Commands)
         /\ Len(w) \in Nat /\ Len(w) >= 1 /\ Len(Tail(w)) = Len(w) - 1
         /\ DOMAIN w = 1 .. Len(w) /\ DOMAIN Tail(w) = 1 .. (Len(w) - 1)
         /\ \A i \in DOMAIN Tail(w) : i + 1 \in DOMAIN w /\ i + 1 # 1 /\ Tail(w)[i] = w[i + 1]
         /\ \A i \in DOMAIN w : i = 1 \/ (i - 1 \in DOMAIN Tail(w) /\ Tail(w)[i - 1] = w[i])
  <1> DEFINE N == Len(w)
  <1>1. Head(w) = w[1] /\ Head(w) \in Commands /\ 1 \in DOMAIN w /\ Tail(w) \in Seq(Commands)
        /\ N \in Nat /\ N >= 1 /\ Len(Tail(w)) = N - 1 /\ DOMAIN w = 1 .. N /\ DOMAIN Tail(w) = 1 .. (N - 1)
    OBVIOUS
  <1>2. \A i \in 1 .. (N - 1) : Tail(w)[i] = w[i + 1]
    OBVIOUS
  <1> HIDE DEF N
  <1>3. \A i \in DOMAIN Tail(w) : i + 1 \in DOMAIN w /\ i + 1 # 1 /\ Tail(w)[i] = w[i + 1]
    BY <1>1, <1>2
  <1>4. ASSUME NEW i \in DOMAIN w, i # 1
        PROVE  i - 1 \in DOMAIN Tail(w) /\ Tail(w)[i - 1] = w[i]
    <2> DEFINE k == i - 1
    <2>1. k \in 1 .. (N - 1) /\ k + 1 = i
      BY <1>1, <1>4
    <2> HIDE DEF k
    <2>2. k \in DOMAIN Tail(w) /\ Tail(w)[k] = w[i]
      BY <1>1, <1>2, <2>1
    <2> QED BY <2>2 DEF k
  <1> QED BY <1>1, <1>3, <1>4 DEF N

\* What a fill does to the position and to the wire.
LEMMA FillFacts ==
  ASSUME WireTypes, NEW p \in Int, NEW q \in Int, NEW px \in Int, NEW w \in Seq(Commands), Fill(p, q, px, w)
  PROVE  /\ pos' = q /\ side' = Sign(q) /\ Extends(w, wire') /\ opened' \in [px : Int, gap : Int]
         /\ Sign(p) = Sign(q) => wire' = w
         /\ q = 0 /\ p # 0 => wire' = CancelAll(w)
         /\ q # 0 /\ p = 0 => wire' = SubmitSlTp(w, px, Sign(q), Size(q)) /\ opened' = [px |-> px, gap |-> atr]
  <1> DEFINE v == IF Closes(p, q) THEN CancelAll(w) ELSE w
  <1>1. v \in Seq(Commands) /\ Extends(w, v)
    BY CancelAllFacts, ExtendsItself DEF Extends
  <1>2. atr \in Int /\ opened \in [px : Int, gap : Int]
    BY PriceFacts, ProgramAssumption DEF WireTypes
  <1>3. /\ Sign(p) = 0 <=> p = 0
        /\ Sign(q) = 0 <=> q = 0
        /\ q # 0 => Sign(q) \in Sides /\ Size(q) \in Nat \ {0}
    BY SignFacts
  <1>4. pos' = q /\ side' = Sign(q)
    BY DEF Fill
  <1>5. CASE Opens(p, q)
    <2>1. wire' = SubmitSlTp(v, px, Sign(q), Size(q)) /\ opened' = [px |-> px, gap |-> atr]
      BY <1>5 DEF Fill, OnPositionOpened
    <2>2. q # 0 /\ Sign(q) # Sign(p)
      BY <1>5 DEF Opens
    <2>3. p = 0 => v = w
      BY DEF Closes
    <2> HIDE DEF v
    <2>4. Extends(v, wire')
      BY <1>1, <1>3, <2>1, <2>2, SltpFacts
    <2>5. Extends(w, wire')
      BY <1>1, <2>4, ExtendsTwice
    <2> QED BY <1>2, <1>4, <2>1, <2>2, <2>3, <2>5
  <1>6. CASE ~ Opens(p, q)
    <2>1. wire' = v /\ opened' = opened
      BY <1>6 DEF Fill, OnPositionOpened
    <2>2. q = 0 \/ Sign(q) = Sign(p)
      BY <1>6 DEF Opens
    <2>3. Sign(p) = Sign(q) => v = w
      BY DEF Closes
    <2>4. q = 0 /\ p # 0 => v = CancelAll(w)
      BY <1>3 DEF Closes
    <2> HIDE DEF v
    <2> QED BY <1>1, <1>2, <1>3, <1>4, <2>1, <2>2, <2>3, <2>4
  <1> QED BY <1>5, <1>6

\* An order of the position's size on the other side closes it.
LEMMA Closing ==
  ASSUME NEW p \in Int, NEW o \in Tickets \cup Orders, o.side = - Sign(p), o.qty = Size(p)
  PROVE  p + o.side * o.qty = 0 /\ Reduced(o, p) = 0
  <1>1. p + (- Sign(p)) * Size(p) = 0 /\ Size(p) \in Nat
    BY SignFacts
  <1>2. Least(Size(p), Size(p)) = Size(p)
    BY DEF Least
  <1> QED BY <1>1, <1>2 DEF Reduced

\* An order opens a position where there is none.
LEMMA Opening ==
  ASSUME NEW o \in Tickets
  PROVE  LET q == 0 + o.side * o.qty
         IN  q \in Int /\ q # 0 /\ Sign(q) = o.side /\ Size(q) = o.qty /\ o.side \in Sides /\ o.qty \in Nat \ {0}
  <1> DEFINE s == o.side
             k == o.qty
             q == 0 + s * k
  <1>1. s \in Sides /\ k \in Nat \ {0}
    BY DEF Tickets
  <1> HIDE DEF s, k
  <1>2. (s = 1 /\ q = k) \/ (s = -1 /\ q = - k)
    <2>1. CASE s = 1
      BY <1>1, <2>1
    <2>2. CASE s = -1
      BY <1>1, <2>2
    <2> QED BY <1>1, <2>1, <2>2 DEF Sides
  <1> HIDE DEF q
  <1>3. q \in Int /\ q # 0 /\ Sign(q) = s /\ Size(q) = k
    BY <1>1, <1>2 DEF Sign, Size
  <1> QED BY <1>1, <1>3 DEF s, k, q

\* What an order leaves of a position, and what it adds to it, is a number.
LEMMA FilledTypes ==
  ASSUME NEW p \in Int, NEW o \in Tickets \cup Orders
  PROVE  Reduced(o, p) \in Int /\ p + o.side * o.qty \in Int
  <1>1. o.side \in Int /\ o.qty \in Int
    BY DEF Tickets, Orders, Sides
  <1>2. Least(o.qty, Size(p)) \in Int
    BY <1>1, SignFacts DEF Least
  <1> DEFINE l == Least(o.qty, Size(p))
             s == o.side
             k == o.qty
  <1>3. l \in Int /\ s \in Int /\ k \in Int
    BY <1>1, <1>2
  <1> HIDE DEF l, s, k
  <1>4. p + s * l \in Int /\ p + s * k \in Int
    BY <1>3
  <1> QED BY <1>4 DEF Reduced, l, s, k

\* A function maps a finite set to a finite one.
LEMMA ImageFinite ==
  ASSUME NEW S, IsFiniteSet(S), NEW f, DOMAIN f = S
  PROVE  IsFiniteSet({f[x] : x \in S})
  <1> DEFINE T == {f[x] : x \in S}
             g == [x \in S |-> f[x]]
  <1>1. g \in [S -> T] /\ \A t \in T : \E x \in S : g[x] = t
    OBVIOUS
  <1>2. g \in Surjection(S, T)
    BY <1>1 DEF Surjection
  <1> HIDE DEF T, g
  <1>3. IsFiniteSet(T)
    BY <1>2, FS_Surjection
  <1> QED BY <1>3 DEF T

\* A working order can be given a number no other one has.
LEMMA FreshTyped ==
  ASSUME WireTypes
  PROVE  FreshId \in Nat
  <1> DEFINE I == {o.id : o \in working}
             J == {j \in DOMAIN wire : wire[j].op = "cancel"}
             K == {wire[i].ids : i \in J}
             c == Cardinality(UsedIds)
  <1>1. IsFiniteSet(I)
    <2> DEFINE f == [o \in working |-> o.id]
    <2>1. I = {f[o] : o \in working}
      OBVIOUS
    <2>2. DOMAIN f = working
      OBVIOUS
    <2>3. IsFiniteSet(working)
      BY DEF WireTypes
    <2> HIDE DEF f, I
    <2> QED BY <2>1, <2>2, <2>3, ImageFinite
  <1>2. IsFiniteSet(J)
    <2>1. DOMAIN wire = 1 .. Len(wire) /\ Len(wire) \in Nat
      BY DEF WireTypes
    <2>2. IsFiniteSet(DOMAIN wire)
      BY <2>1, FS_Interval
    <2> QED BY <2>2, FS_Subset
  <1>3. IsFiniteSet(K)
    <2> DEFINE f == [i \in J |-> wire[i].ids]
    <2>1. K = {f[i] : i \in J}
      OBVIOUS
    <2>2. DOMAIN f = J
      OBVIOUS
    <2> HIDE DEF f, J, K
    <2> QED BY <1>2, <2>1, <2>2, ImageFinite
  <1>4. \A S \in K : IsFiniteSet(S)
    <2> SUFFICES ASSUME NEW i \in J PROVE IsFiniteSet(wire[i].ids)
      OBVIOUS
    <2>1. wire[i] \in Commands
      BY DEF WireTypes
    <2> QED BY <2>1, CommandTypes DEF IdSets
  <1>5. IsFiniteSet(UNION K)
    <2> HIDE DEF K
    <2> QED BY <1>3, <1>4, FS_UNION
  <1>6. IsFiniteSet(UsedIds)
    <2>1. UsedIds = I \cup UNION K
      BY DEF UsedIds
    <2> HIDE DEF I, K
    <2> QED BY <1>1, <1>5, <2>1, FS_Union
  <1>7. c \in Nat
    BY <1>6, FS_CardinalityType
  <1> HIDE DEF c
  <1>8. IsFiniteSet(1 .. c + 1) /\ Cardinality(1 .. c + 1) = c + 1
    <2> DEFINE h == c + 1
    <2>1. h \in Nat /\ h >= 1
      BY <1>7
    <2> HIDE DEF h
    <2>2. IsFiniteSet(1 .. h) /\ Cardinality(1 .. h) = h
      BY <2>1, FS_Interval
    <2> QED BY <2>2 DEF h
  <1>9. \E i \in 1 .. c + 1 : i \notin UsedIds
    <2> SUFFICES ASSUME 1 .. c + 1 \subseteq UsedIds PROVE FALSE
      OBVIOUS
    <2>1. Cardinality(1 .. c + 1) <= c
      BY <1>6, FS_Subset DEF c
    <2> QED BY <1>7, <1>8, <2>1
  <1>10. FreshId \in 1 .. c + 1
    BY <1>9 DEF FreshId, c
  <1> QED BY <1>7, <1>10

-----------------------------------------------------------------------------
(* What the strategy sends.                                                 *)

\* At most an entry without a position, at most an exit with one.
Acted(w, W) ==
  /\ Extends(w, W)
  /\ pos = 0 => \A i \in DOMAIN W : i \notin DOMAIN w =>
                    i = Len(W) /\ IsTrade(W[i]) /\ W[i].order.kind = "entry"
  /\ pos # 0 => \/ W = w
                \/ /\ Len(W) \in DOMAIN W /\ Len(W) \notin DOMAIN w
                   /\ IsTrade(W[Len(W)]) /\ W[Len(W)].order.kind = "exit" /\ Fits(W[Len(W)].order)
                   /\ \A i \in DOMAIN W : i \notin DOMAIN w /\ i # Len(W) => W[i].op = "cancel_all"

\* The stop is moved: every one at work is cancelled and one is sent.
Trailed(w, W) ==
  /\ Extends(w, W)
  /\ pos = 0 => W = w
  /\ \A i \in DOMAIN W : i \notin DOMAIN w =>
        W[i].op = "cancel" \/ (IsStop(W[i]) /\ Fits(W[i].order) /\ ~ Crossed(W[i].order))
  /\ \/ W = w
     \/ /\ Len(W) \in DOMAIN W /\ Len(W) \notin DOMAIN w /\ IsStop(W[Len(W)])
        /\ \A j \in DOMAIN W : j \notin DOMAIN w /\ j # Len(W) => W[j].op = "cancel"
        /\ \A o \in Stops : \E j \in DOMAIN W : W[j].op = "cancel" /\ o.id \in W[j].ids

LEMMA NothingActed ==
  ASSUME NEW w \in Seq(Commands)
  PROVE  Acted(w, w) /\ Trailed(w, w)
  BY ExtendsItself DEF Acted, Trailed

LEMMA EntryActs ==
  ASSUME SideInv, WireTypes, NEW w \in Seq(Commands), NEW s \in Sides, NEW q \in Quantities
  PROVE  Acted(w, SubmitEntry(w, s, q))
  <1>1. CASE side # 0 \/ q = 0
    BY <1>1, NothingActed DEF SubmitEntry
  <1>2. CASE ~ (side # 0 \/ q = 0)
    <2> DEFINE o == Market("entry", s, q)
               m == Submit(o)
               W == Append(w, m)
    <2>1. o \in Tickets /\ o.kind = "entry"
      BY <1>2 DEF Quantities, Market, Tickets
    <2>2. m \in Commands /\ IsTrade(m) /\ m.order.kind = "entry"
      BY <2>1, SubmitTyped DEF IsTrade
    <2>3. SubmitEntry(w, s, q) = W
      BY <1>2 DEF SubmitEntry
    <2> HIDE DEF m
    <2>4. Extends(w, W) /\ Len(W) = Len(w) + 1 /\ W[Len(w) + 1] = m /\ DOMAIN W = 1 .. (Len(w) + 1)
      BY <2>2, ExtendsByOne
    <2>5. pos = 0
      BY <1>2, SignFacts DEF SideInv, WireTypes
    <2> HIDE DEF W
    <2>6. \A i \in DOMAIN W : i \notin DOMAIN w => i = Len(w) + 1
      BY <2>4 DEF Extends
    <2> QED BY <2>2, <2>3, <2>4, <2>5, <2>6 DEF Acted
  <1> QED BY <1>1, <1>2

LEMMA ExitActs ==
  ASSUME SideInv, WireTypes, NEW w \in Seq(Commands)
  PROVE  Acted(w, SubmitExit(w))
  <1>0. (side = 0 <=> pos = 0) /\ pos \in Int
    BY SignFacts DEF SideInv, WireTypes
  <1>1. CASE side = 0
    BY <1>1, NothingActed DEF SubmitExit
  <1>2. CASE side # 0
    <2> DEFINE o == Market("exit", - side, Size(pos))
               m == Submit(o)
               v == CancelAll(w)
               W == Append(v, m)
    <2>1. - side \in Sides /\ side = Sign(pos) /\ Size(pos) \in Nat \ {0}
      BY <1>0, <1>2, SignFacts DEF SideInv
    <2>2. o \in Tickets /\ o.kind = "exit" /\ Fits(o)
      BY <2>1 DEF Market, Tickets, Fits
    <2>3. m \in Commands /\ IsTrade(m) /\ m.order.kind = "exit" /\ Fits(m.order)
      BY <2>2, SubmitTyped DEF IsTrade
    <2>4. SubmitExit(w) = W
      BY <1>0, <1>2 DEF SubmitExit
    <2>5. Extends(w, v) /\ (v = w \/ (Len(v) = Len(w) + 1 /\ v[Len(w) + 1].op = "cancel_all"))
      BY CancelAllFacts
    <2> HIDE DEF m, v
    <2>6. Extends(v, W) /\ Len(W) = Len(v) + 1 /\ W[Len(v) + 1] = m /\ DOMAIN W = 1 .. (Len(v) + 1)
      BY <2>3, <2>5, ExtendsByOne DEF Extends
    <2> HIDE DEF W
    <2>7. Extends(w, W)
      BY <2>5, <2>6, ExtendsTwice
    <2>a. Len(w) \in Nat /\ Len(v) \in Nat /\ Len(w) <= Len(v) /\ DOMAIN w = 1 .. Len(w) /\ DOMAIN v = 1 .. Len(v)
      BY <2>5 DEF Extends
    <2>8. Len(W) \in DOMAIN W /\ Len(W) \notin DOMAIN w
      BY <2>6, <2>a
    <2>9. ASSUME NEW i \in DOMAIN W, i \notin DOMAIN w, i # Len(W)
          PROVE  W[i].op = "cancel_all"
      <3>1. i \in DOMAIN v
        BY <2>6, <2>9, <2>a
      <3>2. v # w
        BY <2>9, <3>1
      <3>3. i = Len(w) + 1
        <4>1. Len(v) = Len(w) + 1
          BY <2>5, <3>2
        <4> QED BY <2>9, <2>a, <3>1, <4>1
      <3>4. W[i] = v[i]
        BY <2>6, <3>1 DEF Extends
      <3> QED BY <2>5, <3>2, <3>3, <3>4
    <2> QED BY <1>0, <1>2, <2>3, <2>4, <2>6, <2>7, <2>8, <2>9 DEF Acted
  <1> QED BY <1>1, <1>2

\* The action called for, executed at once.
LEMMA ActActs ==
  ASSUME SideInv, WireTypes, NEW w \in Seq(Commands), NEW a, NEW q \in Quantities
  PROVE  Acted(w, Act(w, a, q))
  <1>1. CASE a = "exit"
    <2>1. Act(w, a, q) = SubmitExit(w)
      BY <1>1 DEF Act
    <2> QED BY <2>1, ExitActs
  <1>2. CASE a = "long_entry"
    <2>1. Act(w, a, q) = SubmitEntry(w, 1, q)
      BY <1>2 DEF Act
    <2> QED BY <2>1, EntryActs DEF Sides
  <1>3. CASE a = "short_entry"
    <2>1. Act(w, a, q) = SubmitEntry(w, -1, q)
      BY <1>3 DEF Act
    <2> QED BY <2>1, EntryActs DEF Sides
  <1>4. CASE a # "exit" /\ a # "long_entry" /\ a # "short_entry"
    <2>1. Act(w, a, q) = w
      BY <1>4 DEF Act
    <2> QED BY <2>1, NothingActed
  <1> QED BY <1>1, <1>2, <1>3, <1>4

\* The stops at work are named by one command that cancels them.
LEMMA StopCancelsFacts ==
  ASSUME WireTypes
  PROVE  /\ StopCancels \in Seq(Commands)
         /\ \A i \in DOMAIN StopCancels : StopCancels[i].op = "cancel"
         /\ \A o \in Stops : \E j \in DOMAIN StopCancels : o.id \in StopCancels[j].ids
  <1> DEFINE ids == {o.id : o \in {x \in working : x.kind = "stop"}}
             m == [op |-> "cancel", ids |-> ids]
  <1>1. ids \in IdSets
    <2> DEFINE X == {x \in working : x.kind = "stop"}
               f == [o \in X |-> o.id]
    <2>1. IsFiniteSet(X)
      BY FS_Subset DEF WireTypes
    <2>2. ids = {f[o] : o \in X} /\ DOMAIN f = X
      OBVIOUS
    <2>3. ids \subseteq Nat
      BY DEF WireTypes, Orders
    <2> HIDE DEF X, f, ids
    <2>4. IsFiniteSet(ids)
      BY <2>1, <2>2, ImageFinite
    <2> QED BY <2>3, <2>4 DEF IdSets
  <1>2. \A o \in Stops : o.id \in ids
    BY DEF Stops
  <1>3. StopCancels = IF ids = {} THEN << >> ELSE << m >>
    BY DEF StopCancels
  <1> HIDE DEF ids
  <1>4. m \in Commands /\ m.op = "cancel" /\ m.ids = ids
    BY <1>1 DEF Commands
  <1> HIDE DEF m
  <1>5. CASE ids = {}
    BY <1>2, <1>3, <1>5
  <1>6. CASE ids # {}
    <2>1. StopCancels = << m >>
      BY <1>3, <1>6
    <2> QED BY <1>2, <1>4, <2>1
  <1> QED BY <1>5, <1>6

LEMMA TrailTrails ==
  ASSUME SideInv, WireTypes, NEW w \in Seq(Commands)
  PROVE  Trailed(w, UpdateTrailing(w))
  <1>0. (side = 0 <=> pos = 0) /\ pos \in Int
    BY SignFacts DEF SideInv, WireTypes
  <1>1. CASE ~ Trails \/ NewStop <= 0
    BY <1>1, NothingActed DEF UpdateTrailing
  <1>2. CASE ~ (~ Trails \/ NewStop <= 0)
    <2> DEFINE P == Protection("stop", side, Size(pos), NewStop)
               o == [kind |-> "stop", side |-> - side, qty |-> Size(pos), price |-> NewStop]
               C == StopCancels
               v == w \o C
               W == v \o P
    <2>1. side # 0 /\ pos # 0 /\ side = Sign(pos) /\ side \in Sides /\ Size(pos) \in Nat \ {0}
      BY <1>0, <1>2, SignFacts DEF Trails, SideInv
    <2>2. NewStop = bar.close - side * atr /\ NewStop \in Int /\ atr \in Nat \ {0} /\ bar.close \in Int
      <3>1. 0 \in Int /\ atr \in Nat \ {0} /\ bar.close \in Int
        BY <2>1, PriceFacts
      <3>2. bar.close - side * atr \in Int
        BY <2>1, <3>1, PriceFacts
      <3> QED BY <3>1, <3>2 DEF NewStop
    <2>3. P \in Seq(Commands) /\ o \in Tickets /\ Len(P) = 1 /\ P[1] = Submit(o)
      BY <1>2, <2>1, <2>2, ProtectionFacts
    <2>4. ~ Crossed(o)
      <3> DEFINE x == NewStop
                 y == bar.close
      <3>1. x \in Int /\ y \in Int /\ o.kind = "stop" /\ o.side = - side /\ o.price = x
        BY <2>2
      <3>2. (side = 1 /\ x < y) \/ (side = -1 /\ x > y)
        <4>1. CASE side = 1
          BY <2>2, <4>1
        <4>2. CASE side = -1
          BY <2>2, <4>2
        <4> QED BY <2>1, <4>1, <4>2 DEF Sides
      <3> HIDE DEF o
      <3>3. Crossed(o) <=> IF o.side = -1 THEN y <= x ELSE y >= x
        BY <3>1 DEF Crossed
      <3> HIDE DEF x, y
      <3> QED BY <3>1, <3>2, <3>3
    <2>5. Fits(o)
      BY <2>1 DEF Fits
    <2>6. IsStop(Submit(o)) /\ Submit(o).order = o
      BY <2>3, SubmitTyped DEF IsStop
    <2>7. UpdateTrailing(w) = W
      BY <1>2, <2>1 DEF UpdateTrailing
    <2>8. C \in Seq(Commands) /\ (\A i \in DOMAIN C : C[i].op = "cancel")
          /\ \A x \in Stops : \E j \in DOMAIN C : x.id \in C[j].ids
      BY StopCancelsFacts
    <2> HIDE DEF P, o, C
    <2>9. /\ v \in Seq(Commands) /\ Extends(w, v) /\ Extends(v, W) /\ Extends(w, W)
          /\ Len(v) = Len(w) + Len(C) /\ Len(W) = Len(v) + 1
          /\ Len(w) \in Nat /\ Len(C) \in Nat /\ DOMAIN C = 1 .. Len(C)
      <3>1. v \in Seq(Commands) /\ Extends(w, v) /\ Len(v) = Len(w) + Len(C) /\ Len(w) \in Nat /\ Len(C) \in Nat /\ DOMAIN C = 1 .. Len(C)
        BY <2>8, Joined, ExtendsByJoin
      <3> HIDE DEF v
      <3>a. P \in Seq(Commands) /\ Len(P) = 1
        BY <2>3
      <3>2. Extends(v, W)
        BY <3>a, <3>1, ExtendsByJoin
      <3>3. Len(W) = Len(v) + Len(P)
        BY <3>a, <3>1, Joined
      <3> QED BY <3>a, <3>1, <3>2, <3>3, ExtendsTwice
    <2>10. \A i \in 1 .. Len(C) : v[Len(w) + i] = C[i]
      BY <2>8, Joined
    <2> HIDE DEF v, W
    <2>11. W[Len(W)] = Submit(o)
      <3>1. 1 \in 1 .. Len(P)
        BY <2>3
      <3>2. W[Len(v) + 1] = P[1]
        <4>1. P \in Seq(Commands) /\ v \in Seq(Commands)
          BY <2>3, <2>9
        <4>2. \A i \in 1 .. Len(P) : (v \o P)[Len(v) + i] = P[i]
          BY <4>1, Joined
        <4> QED BY <3>1, <4>2 DEF W
      <3> QED BY <2>3, <2>9, <3>2
    <2>12. Len(W) \in DOMAIN W /\ Len(W) \notin DOMAIN w
      BY <2>9 DEF Extends
    <2>13. ASSUME NEW i \in DOMAIN W, i \notin DOMAIN w, i # Len(W)
           PROVE  W[i].op = "cancel"
      <3> DEFINE k == i - Len(w)
      <3>1. i \in DOMAIN v /\ k \in 1 .. Len(C) /\ Len(w) + k = i
        BY <2>9, <2>13 DEF Extends
      <3> HIDE DEF k
      <3>2. W[i] = v[i] /\ v[i] = C[k]
        BY <2>9, <2>10, <3>1 DEF Extends
      <3> QED BY <2>8, <2>9, <3>1, <3>2
    <2>14. ASSUME NEW x \in Stops
           PROVE  \E j \in DOMAIN W : W[j].op = "cancel" /\ x.id \in W[j].ids
      <3>1. PICK k \in DOMAIN C : x.id \in C[k].ids
        BY <2>8
      <3> DEFINE j == Len(w) + k
      <3>2. j \in DOMAIN v /\ j \in DOMAIN W /\ v[j] = C[k]
        BY <2>9, <2>10 DEF Extends
      <3> HIDE DEF j
      <3>3. W[j] = v[j]
        BY <2>9, <3>2 DEF Extends
      <3> QED BY <2>8, <3>1, <3>2, <3>3
    <2>15. \A i \in DOMAIN W : i \notin DOMAIN w =>
              W[i].op = "cancel" \/ (IsStop(W[i]) /\ Fits(W[i].order) /\ ~ Crossed(W[i].order))
      BY <2>4, <2>5, <2>6, <2>11, <2>13
    <2> QED BY <2>1, <2>6, <2>7, <2>9, <2>11, <2>12, <2>13, <2>14, <2>15 DEF Trailed
  <1> QED BY <1>1, <1>2

-----------------------------------------------------------------------------
(* A bar handled by the strategy.                                           *)

\* Nothing that protects is added: what was swept stays so.
LEMMA SweptExtends ==
  ASSUME NEW w, NEW W, NEW orders, Extends(w, W), Swept(w, orders),
         \A i \in DOMAIN W : i \notin DOMAIN w => ~ IsBracket(W[i])
  PROVE  Swept(W, orders)
  <1>1. \A i \in DOMAIN w : i \in DOMAIN W /\ W[i] = w[i]
    BY DEF Extends
  <1>2. CASE orders = {} /\ NoBracket(w)
    BY <1>1, <1>2 DEF Swept, NoBracket
  <1>3. CASE \E j \in DOMAIN w : w[j].op = "cancel_all" /\ \A i \in DOMAIN w : IsBracket(w[i]) => i < j
    <2>1. PICK j \in DOMAIN w : w[j].op = "cancel_all" /\ \A i \in DOMAIN w : IsBracket(w[i]) => i < j
      BY <1>3
    <2>2. \A i \in DOMAIN W : IsBracket(W[i]) => i \in DOMAIN w /\ i < j
      BY <1>1, <2>1
    <2> QED BY <1>1, <2>1, <2>2 DEF Swept
  <1> QED BY <1>2, <1>3 DEF Swept

\* While a bar is matched a position has nothing on its way.
LEMMA MatchHeld ==
  ASSUME HeldInv, phase = "match", pos # 0
  PROVE  Holding(wire) /\ wire = << >>
  BY DEF HeldInv, Holding, Leaving

LEMMA MovesHeld ==
  ASSUME OrdersInv, ~ dsl.latent, phase = "match", pos # 0, NEW w, Acted(wire, w), Trailed(w, wire'), phase' = "settle",
         UNCHANGED << bar, pos, working, opened >>
  PROVE  HeldInv'
  <1>1. Holding(wire) /\ wire = << >>
    BY MatchHeld DEF OrdersInv
  <1>2. Extends(w, wire') /\ Extends(wire, w)
    BY DEF Trailed, Acted
  <1>3. DOMAIN wire = {}
    BY <1>1
  <1>4. CASE w = wire
    <2>1. \A i \in DOMAIN wire' : wire'[i].op = "cancel" \/ (IsStop(wire'[i]) /\ Fits(wire'[i].order) /\ ~ Crossed(wire'[i].order))
      BY <1>3, <1>4 DEF Trailed
    <2>2. NoTrade(wire')
      BY <2>1 DEF NoTrade, IsTrade, IsStop
    <2>3. \A i \in DOMAIN wire' : wire'[i].op # "cancel_all"
      BY <2>1 DEF IsStop
    <2>4. \A i \in DOMAIN wire' : IsBracket(wire'[i]) => Fits(wire'[i].order) /\ ~ Crossed(wire'[i].order)
      BY <2>1 DEF IsBracket
    <2>5. CASE wire' = w
      <3>1. wire' = wire
        BY <1>4, <2>5
      <3>2. Guarded(wire) => Guarded(wire)'
        BY <3>1 DEF Guarded, Stops
      <3> QED BY <1>1, <2>2, <2>3, <2>4, <3>1, <3>2 DEF HeldInv, Holding, Fits, Crossed, NoTrade
    <2>6. CASE wire' # w
      <3> DEFINE k == Len(wire')
      <3>1. /\ k \in DOMAIN wire' /\ IsStop(wire'[k])
            /\ \A j \in DOMAIN wire' : j # k => wire'[j].op = "cancel"
            /\ \A o \in Stops : \E j \in DOMAIN wire' : wire'[j].op = "cancel" /\ o.id \in wire'[j].ids
        BY <1>3, <1>4, <2>6 DEF Trailed
      <3>2. \A j \in DOMAIN wire' : j <= k
        BY <1>2 DEF Extends
      <3> HIDE DEF k
      <3>3. \A j \in DOMAIN wire' : IsStop(wire'[j]) => j = k
        BY <3>1 DEF IsStop
      <3>4. Guarded(wire)'
        BY <3>1, <3>2, <3>3 DEF Guarded, Stops
      <3> QED BY <1>1, <2>2, <2>3, <2>4, <3>4 DEF HeldInv, Holding, Fits, Crossed, NoTrade
    <2> QED BY <2>5, <2>6
  <1>5. CASE w # wire
    <2> DEFINE k == Len(w)
    <2>1. /\ k \in DOMAIN w /\ IsTrade(w[k]) /\ Fits(w[k].order)
          /\ \A i \in DOMAIN w : i # k => w[i].op = "cancel_all"
      BY <1>3, <1>5 DEF Acted
    <2>2. \A i \in DOMAIN w : i \in DOMAIN wire' /\ wire'[i] = w[i] /\ i <= k
      BY <1>2 DEF Extends
    <2>3. \A i \in DOMAIN wire' : i \notin DOMAIN w => wire'[i].op = "cancel" \/ IsStop(wire'[i])
      BY DEF Trailed
    <2>4. \A i \in DOMAIN wire' : i \notin DOMAIN w => i > k
      BY <1>2 DEF Extends
    <2>a. k \in Nat /\ DOMAIN w = 1 .. k
      BY <1>2 DEF Extends
    <2> HIDE DEF k
    <2>5. k \in DOMAIN wire' /\ IsTrade(wire'[k]) /\ Fits(wire'[k].order)
      BY <2>1, <2>2
    <2>6. \A i \in DOMAIN wire' : IsTrade(wire'[i]) => i = k
      BY <2>1, <2>2, <2>3 DEF IsTrade, IsStop
    <2>7. \A i \in DOMAIN wire' : i < k => wire'[i].op = "cancel_all"
      <3> SUFFICES ASSUME NEW i \in DOMAIN wire', i < k PROVE wire'[i].op = "cancel_all"
        OBVIOUS
      <3>1. i \in Int
        BY <1>2 DEF Extends
      <3>2. i \in DOMAIN w /\ i # k
        BY <2>4, <2>a, <3>1
      <3> QED BY <2>1, <2>2, <3>2
    <2>8. ~ NoTrade(wire')
      BY <2>5 DEF NoTrade
    <2>9. Leaving(wire)'
      BY <2>5, <2>6, <2>7 DEF Leaving, Fits
    <2>10. ~ NoTrade(wire)'
      BY <2>8 DEF NoTrade
    <2> QED BY <2>9, <2>10 DEF HeldInv
  <1> QED BY <1>4, <1>5

\* The strategy acts, trails its stop, or does nothing.
LEMMA MovesInv ==
  ASSUME OrdersInv, phase = "match", NEW w, Acted(wire, w), Trailed(w, wire'), phase' = "settle",
         UNCHANGED << dsl, bar, atr, side, pos, working, opened >>,
         pending' \in {None, "long_entry", "short_entry", "exit"}
  PROVE  OrdersInv'
  <1>1. Extends(w, wire') /\ Extends(wire, w)
    BY DEF Trailed, Acted
  <1>2. WireTypes'
    BY <1>1 DEF OrdersInv, WireTypes, Extends
  <1>3. SideInv'
    BY DEF OrdersInv, SideInv
  <1>4. ASSUME pos = 0
        PROVE  /\ wire' = w
               /\ \A i \in DOMAIN w : i \notin DOMAIN wire => i = Len(w) /\ IsTrade(w[i]) /\ w[i].order.kind = "entry"
    BY <1>4 DEF Trailed, Acted
  <1>5. SweptInv'
    <2>1. CASE pos = 0
      <3>1. Swept(wire, working)
        BY <2>1 DEF OrdersInv, SweptInv
      <3>2. \A i \in DOMAIN w : i \notin DOMAIN wire => ~ IsBracket(w[i])
        BY <1>4, <2>1 DEF IsTrade, IsBracket
      <3>3. Swept(w, working)
        BY <1>1, <3>1, <3>2, SweptExtends
      <3>4. Swept(wire', working')
        BY <1>4, <2>1, <3>3
      <3> QED BY <3>4 DEF SweptInv
    <2>2. CASE pos # 0
      BY <2>2 DEF SweptInv
    <2> QED BY <2>1, <2>2
  <1>6. ASSUME ~ dsl.latent PROVE FlatInv'
    <2>1. CASE pos = 0
      <3>1. \A i \in DOMAIN wire : ~ IsTrade(wire[i])
        BY <1>6, <2>1 DEF OrdersInv, FlatInv
      <3>2. \A i \in DOMAIN wire : w[i] = wire[i]
        BY <1>1 DEF Extends
      <3>3. \A i \in DOMAIN w : IsTrade(w[i]) => i = Len(w) /\ w[i].order.kind = "entry"
        BY <1>4, <2>1, <3>1, <3>2
      <3> QED BY <1>4, <2>1, <3>3 DEF FlatInv
    <2>2. CASE pos # 0
      BY <2>2 DEF FlatInv
    <2> QED BY <2>1, <2>2
  <1>7. ASSUME ~ dsl.latent PROVE HeldInv'
    <2>1. CASE pos = 0
      BY <2>1 DEF HeldInv
    <2>2. CASE pos # 0
      BY <1>7, <2>2, MovesHeld
    <2> QED BY <2>1, <2>2
  <1> QED BY <1>2, <1>3, <1>5, <1>6, <1>7 DEF OrdersInv

LEMMA NotReadyInv ==
  ASSUME OrdersInv, NotReady
  PROVE  OrdersInv'
  <1>1. Acted(wire, wire) /\ Trailed(wire, wire)
    BY NothingActed DEF OrdersInv, WireTypes
  <1>2. /\ phase = "match" /\ phase' = "settle" /\ wire' = wire /\ pending' = pending
        /\ UNCHANGED << dsl, bar, atr, side, pos, working, opened >>
    BY DEF NotReady, Strategize, market, exchange
  <1> QED BY <1>1, <1>2, MovesInv DEF OrdersInv, WireTypes

LEMMA FilteredInv ==
  ASSUME OrdersInv, Filtered
  PROVE  OrdersInv'
  <1>1. Acted(wire, wire) /\ Trailed(wire, wire)
    BY NothingActed DEF OrdersInv, WireTypes
  <1>2. /\ phase = "match" /\ phase' = "settle" /\ wire' = wire /\ pending' = pending
        /\ UNCHANGED << dsl, bar, atr, side, pos, working, opened >>
    BY DEF Filtered, Strategize, market, exchange
  <1> QED BY <1>1, <1>2, MovesInv DEF OrdersInv, WireTypes

LEMMA DispatchInv ==
  ASSUME OrdersInv, NEW q \in Quantities, Dispatch(q)
  PROVE  OrdersInv'
  <1> DEFINE s == IF pending = "long_entry" THEN 1 ELSE -1
             w == IF pending = "exit" THEN SubmitExit(wire) ELSE SubmitEntry(wire, s, q)
  <1>1. wire \in Seq(Commands) /\ SideInv /\ WireTypes
    BY DEF OrdersInv, WireTypes
  <1>2. s \in Sides
    BY DEF Sides
  <1> HIDE DEF s
  <1>3. Acted(wire, w)
    BY <1>1, <1>2, EntryActs, ExitActs
  <1>4. /\ phase = "match" /\ phase' = "settle" /\ wire' = w /\ pending' = None
        /\ UNCHANGED << dsl, bar, atr, side, pos, working, opened >>
    BY DEF Dispatch, DispatchAnd, Strategize, market, exchange, s
  <1> HIDE DEF w
  <1>5. Trailed(w, w)
    BY <1>3, NothingActed DEF Acted, Extends
  <1> QED BY <1>3, <1>4, <1>5, MovesInv

LEMMA EvaluateInv ==
  ASSUME OrdersInv, NEW q \in Quantities, NEW delay \in BOOLEAN, Evaluate(q, delay)
  PROVE  OrdersInv'
  <1> DEFINE w == IF delay THEN wire ELSE Act(wire, Signal, q)
  <1>1. wire \in Seq(Commands) /\ SideInv /\ WireTypes
    BY DEF OrdersInv, WireTypes
  <1>2. Acted(wire, w)
    BY <1>1, ActActs, NothingActed
  <1>3. Signal \in {None, "long_entry", "short_entry", "exit"}
    BY DEF Signal
  <1>4. /\ phase = "match" /\ phase' = "settle" /\ wire' = UpdateTrailing(w) /\ pending' \in {None, Signal}
        /\ UNCHANGED << dsl, bar, atr, side, pos, working, opened >>
    BY DEF Evaluate, Strategize, market, exchange
  <1> HIDE DEF w
  <1>5. Trailed(w, wire')
    BY <1>1, <1>2, <1>4, TrailTrails DEF Acted, Extends
  <1>6. pending' \in {None, "long_entry", "short_entry", "exit"}
    BY <1>3, <1>4
  <1> QED BY <1>2, <1>4, <1>5, <1>6, MovesInv

-----------------------------------------------------------------------------
(* A new bar, and an order that the bar fills.                              *)

LEMMA NewBarInv ==
  ASSUME OrdersInv, NEW b \in Bars, NEW v, NEW g \in Gaps, NewBar(b, v, g)
  PROVE  OrdersInv'
  <1>1. /\ phase = "settle" /\ phase' = "match" /\ bar' = b /\ atr' = g
        /\ wire' = wire /\ (wire = << >> \/ dsl.latent)
        /\ UNCHANGED << dsl, side, pending, pos, working, opened >>
    BY DEF NewBar, strategy, exchange, history
  <1>2. WireTypes'
    BY <1>1 DEF OrdersInv, WireTypes
  <1>3. SideInv'
    BY <1>1 DEF OrdersInv, SideInv
  <1>4. SweptInv'
    BY <1>1 DEF OrdersInv, SweptInv
  <1>5. ASSUME ~ dsl.latent PROVE wire = << >> /\ wire' = << >> /\ HeldInv /\ FlatInv
    BY <1>1, <1>5 DEF OrdersInv
  <1>6. ASSUME ~ dsl.latent PROVE FlatInv'
    <2>1. DOMAIN wire' = {}
      BY <1>5, <1>6
    <2> QED BY <2>1 DEF FlatInv
  <1>7. ASSUME ~ dsl.latent PROVE HeldInv'
    <2>1. DOMAIN wire = {} /\ DOMAIN wire' = {}
      BY <1>5, <1>7
    <2>2. NoTrade(wire) /\ NoTrade(wire)'
      BY <2>1 DEF NoTrade
    <2>3. Guarded(wire) => Guarded(wire)'
      BY <1>1 DEF Guarded, Stops
    <2>4. pos # 0 => Holding(wire)'
      BY <1>1, <1>5, <1>7, <2>1, <2>2, <2>3 DEF HeldInv, Holding, Fits
    <2> QED BY <1>1, <2>2, <2>4 DEF HeldInv
  <1> QED BY <1>1, <1>2, <1>3, <1>4, <1>6, <1>7 DEF OrdersInv

\* A position that is closed leaves a command that cancels what protected it.
LEMMA FillSwept ==
  ASSUME NEW w \in Seq(Commands), working' \subseteq working, wire' = CancelAll(w)
  PROVE  Swept(wire', working')
  <1>1. Extends(w, wire')
    BY CancelAllFacts
  <1>2. CASE wire' = w /\ working = {} /\ \A i \in DOMAIN w : w[i].op # "submit"
    BY <1>2 DEF Swept, NoBracket, IsBracket
  <1>3. CASE Len(wire') = Len(w) + 1 /\ wire'[Len(w) + 1].op = "cancel_all"
    <2> DEFINE k == Len(w) + 1
    <2>1. k \in DOMAIN wire' /\ \A i \in DOMAIN wire' : i # k => i < k
      BY <1>1, <1>3 DEF Extends
    <2>2. ~ IsBracket(wire'[k])
      BY <1>3 DEF IsBracket
    <2>3. wire'[k].op = "cancel_all"
      BY <1>3
    <2> HIDE DEF k
    <2> QED BY <2>1, <2>2, <2>3 DEF Swept
  <1> QED BY <1>2, <1>3, CancelAllFacts

LEMMA TriggerInv ==
  ASSUME OrdersInv, NEW o \in working, Trigger(o)
  PROVE  OrdersInv'
  <1>1. /\ phase = "match" /\ working' = working \ {o}
        /\ UNCHANGED << dsl, bar, atr, pending, phase >>
    BY DEF Trigger, market
  <1>2. /\ WireTypes /\ o \in Orders /\ o \in Tickets \cup Orders /\ pos \in Int /\ wire \in Seq(Commands)
        /\ side = Sign(pos) /\ o.price \in Int /\ IsFiniteSet(working')
    BY <1>1, FS_Subset DEF OrdersInv, WireTypes, SideInv, Orders
  <1>3. CASE ~ Reduces(o, pos)
    <2>1. UNCHANGED << pos, side, wire, opened >>
      BY <1>3 DEF Trigger
    <2>2. WireTypes'
      BY <1>1, <1>2, <2>1 DEF WireTypes
    <2>3. SideInv'
      BY <1>1, <2>1 DEF OrdersInv, SideInv
    <2>4. SweptInv'
      <3>1. Swept(wire, working) => Swept(wire, working')
        BY <1>1 DEF Swept
      <3> QED BY <2>1, <3>1 DEF OrdersInv, SweptInv
    <2>5. ASSUME ~ dsl.latent PROVE pos = 0
      <3> SUFFICES ASSUME pos # 0 PROVE FALSE
        OBVIOUS
      <3>1. Fits(o)
        BY <1>1, <2>5, MatchHeld DEF OrdersInv, Holding
      <3>2. Sign(pos) = - o.side
        <4>1. Sign(pos) \in Int
          BY <1>2, SignFacts
        <4> DEFINE s == Sign(pos)
        <4>2. o.side = - s
          BY <3>1 DEF Fits
        <4>3. s \in Int
          BY <4>1
        <4> HIDE DEF s
        <4>4. s = - o.side
          BY <4>2, <4>3
        <4> QED BY <4>4 DEF s
      <3> QED BY <1>3, <3>2 DEF Reduces
    <2>6. ASSUME ~ dsl.latent PROVE FlatInv' /\ HeldInv'
      BY <1>1, <2>1, <2>5, <2>6 DEF OrdersInv, FlatInv, HeldInv
    <2> QED BY <1>1, <2>2, <2>3, <2>4, <2>6 DEF OrdersInv
  <1>4. CASE Reduces(o, pos)
    <2> DEFINE q == Reduced(o, pos)
    <2>1. Fill(pos, q, o.price, wire) /\ q \in Int
      BY <1>2, <1>4, FilledTypes DEF Trigger
    <2>2. pos # 0
      <3>1. pos = 0 => Sign(pos) = 0
        BY <1>2, SignFacts
      <3>2. o.side \in Sides
        BY <1>2 DEF Orders
      <3> QED BY <1>4, <3>1, <3>2 DEF Reduces, Sides
    <2> HIDE DEF q
    <2>3. /\ pos' = q /\ side' = Sign(q) /\ Extends(wire, wire') /\ opened' \in [px : Int, gap : Int]
          /\ q = 0 => wire' = CancelAll(wire)
      BY <1>2, <2>1, <2>2, FillFacts
    <2>4. WireTypes'
      BY <1>1, <1>2, <2>1, <2>3 DEF WireTypes, Extends
    <2>5. SideInv'
      BY <1>1, <2>3 DEF SideInv
    <2>6. SweptInv'
      <3>1. q = 0 => Swept(wire', working')
        BY <1>1, <1>2, <2>3, FillSwept
      <3> QED BY <2>3, <3>1 DEF SweptInv
    <2>7. ASSUME ~ dsl.latent PROVE FlatInv' /\ HeldInv'
      <3>1. Holding(wire) /\ wire = << >>
        BY <1>1, <2>2, <2>7, MatchHeld DEF OrdersInv
      <3>2. o.side = - Sign(pos) /\ o.qty = Size(pos)
        BY <3>1 DEF Holding, Fits
      <3>3. q = 0
        BY <1>2, <3>2, Closing DEF q
      <3>4. wire' = CancelAll(<< >>)
        BY <2>3, <3>1, <3>3
      <3>5. wire' = << >> \/ wire' = Append(<< >>, [op |-> "cancel_all"])
        BY <3>4 DEF CancelAll
      <3>6. \A i \in DOMAIN wire' : ~ IsTrade(wire'[i])
        BY <3>5 DEF IsTrade
      <3> QED BY <2>3, <3>3, <3>6 DEF FlatInv, HeldInv
    <2> QED BY <1>1, <2>4, <2>5, <2>6, <2>7 DEF OrdersInv
  <1> QED BY <1>3, <1>4

LEMMA StopInv ==
  ASSUME OrdersInv, Stop
  PROVE  OrdersInv'
  <1>1. /\ wire = << >> /\ wire' = << >> /\ working' = {} /\ pos' = 0 /\ side' = 0 /\ phase' = "stopped"
        /\ UNCHANGED << dsl, bar, atr, pending, opened >>
    BY DEF Stop, market, history
  <1>2. WireTypes'
    BY <1>1, FS_EmptySet DEF OrdersInv, WireTypes
  <1>3. SideInv'
    BY <1>1 DEF SideInv, Sign
  <1>4. DOMAIN wire' = {}
    BY <1>1
  <1>5. SweptInv'
    BY <1>1, <1>4 DEF SweptInv, Swept, NoBracket
  <1>6. FlatInv' /\ HeldInv'
    BY <1>1, <1>4 DEF FlatInv, HeldInv
  <1> QED BY <1>2, <1>3, <1>5, <1>6 DEF OrdersInv

LEMMA ResetInv ==
  ASSUME OrdersInv, Reset
  PROVE  OrdersInv'
  <1>1. /\ phase = "stopped" /\ phase' = "stopped" /\ side' = 0 /\ pending' = None
        /\ UNCHANGED << dsl, bar, atr, pos, working, wire, opened >>
    BY DEF Reset, market, exchange, history
  <1>2. pos = 0
    BY <1>1 DEF OrdersInv, SideInv
  <1>3. WireTypes'
    BY <1>1 DEF OrdersInv, WireTypes
  <1>4. SideInv'
    BY <1>1, <1>2 DEF OrdersInv, SideInv, Sign
  <1>5. SweptInv'
    BY <1>1 DEF OrdersInv, SweptInv
  <1>6. (~ dsl.latent => FlatInv')
    BY <1>1 DEF OrdersInv, FlatInv
  <1>7. HeldInv'
    BY <1>1, <1>2 DEF HeldInv
  <1> QED BY <1>1, <1>3, <1>4, <1>5, <1>6, <1>7 DEF OrdersInv

LEMMA OrdersInit ==
  ASSUME Init
  PROVE  OrdersInv
  <1>1. WireTypes
    <2>1. opened \in [px : Int, gap : Int]
      BY DEF Init
    <2>2. wire \in Seq(Commands) /\ working \subseteq Orders /\ IsFiniteSet(working)
      BY FS_EmptySet DEF Init
    <2> QED BY <2>1, <2>2 DEF Init, WireTypes
  <1>2. SideInv
    BY DEF Init, SideInv, Sign
  <1>3. DOMAIN wire = {} /\ working = {} /\ pos = 0
    BY DEF Init
  <1>4. SweptInv /\ FlatInv /\ HeldInv
    BY <1>3 DEF SweptInv, Swept, NoBracket, FlatInv, HeldInv
  <1> QED BY <1>1, <1>2, <1>4 DEF OrdersInv

-----------------------------------------------------------------------------
(* The oldest command reaches the exchange.                                 *)

\* What is common to every command.
LEMMA ProcessFacts ==
  ASSUME OrdersInv, Process
  PROVE  /\ wire # << >> /\ wire \in Seq(Commands) /\ pos \in Int /\ bar.close \in Int /\ working \subseteq Orders
         /\ phase \in {"match", "settle"} /\ (~ dsl.latent => phase = "settle")
         /\ UNCHANGED << dsl, bar, atr, pending, phase >>
  <1>1. WireTypes /\ bar.close \in Int
    BY ProgramAssumption DEF OrdersInv, WireTypes
  <1>2. wire # << >> /\ (phase = "settle" \/ (dsl.latent /\ phase # "stopped")) /\ UNCHANGED << market, pending, phase >>
    BY DEF Process
  <1> QED BY <1>1, <1>2 DEF WireTypes, market

\* The sweep is still on its way, or has just arrived.
LEMMA SweptTail ==
  ASSUME NEW w \in Seq(Commands), w # << >>, NEW orders, NEW rest, Swept(w, orders),
         \/ rest = {}
         \/ w[1].op # "cancel_all" /\ rest \subseteq orders
  PROVE  Swept(Tail(w), rest)
  <1>1. /\ 1 \in DOMAIN w /\ DOMAIN w = 1 .. Len(w) /\ Len(w) \in Nat
        /\ \A i \in DOMAIN Tail(w) : i + 1 \in DOMAIN w /\ i + 1 # 1 /\ Tail(w)[i] = w[i + 1]
        /\ \A i \in DOMAIN w : i = 1 \/ (i - 1 \in DOMAIN Tail(w) /\ Tail(w)[i - 1] = w[i])
        /\ DOMAIN Tail(w) = 1 .. (Len(w) - 1)
    BY TailFacts
  <1>2. CASE orders = {} /\ NoBracket(w)
    <2>1. NoBracket(Tail(w))
      BY <1>1, <1>2 DEF NoBracket
    <2> QED BY <1>2, <2>1 DEF Swept
  <1>3. CASE \E j \in DOMAIN w : w[j].op = "cancel_all" /\ \A i \in DOMAIN w : IsBracket(w[i]) => i < j
    <2>1. PICK j \in DOMAIN w : w[j].op = "cancel_all" /\ \A i \in DOMAIN w : IsBracket(w[i]) => i < j
      BY <1>3
    <2>2. CASE j = 1
      <3>1. rest = {}
        BY <2>1, <2>2
      <3>2. NoBracket(Tail(w))
        <4> SUFFICES ASSUME NEW i \in DOMAIN Tail(w), IsBracket(Tail(w)[i]) PROVE FALSE
          BY DEF NoBracket
        <4>1. i + 1 \in DOMAIN w /\ IsBracket(w[i + 1])
          BY <1>1
        <4>2. i + 1 < 1
          BY <2>1, <2>2, <4>1
        <4> QED BY <1>1, <4>1, <4>2
      <3> QED BY <3>1, <3>2 DEF Swept
    <2>3. CASE j # 1
      <3>1. j - 1 \in DOMAIN Tail(w) /\ Tail(w)[j - 1].op = "cancel_all"
        BY <1>1, <2>1, <2>3
      <3>2. ASSUME NEW i \in DOMAIN Tail(w), IsBracket(Tail(w)[i])
            PROVE  i < j - 1
        <4>1. i + 1 \in DOMAIN w /\ IsBracket(w[i + 1])
          BY <1>1, <3>2
        <4>2. i + 1 < j
          BY <2>1, <4>1
        <4> QED BY <1>1, <2>1, <4>2
      <3> QED BY <3>1, <3>2 DEF Swept
    <2> QED BY <2>2, <2>3
  <1> QED BY <1>2, <1>3 DEF Swept

\* Without a position nothing trades but the last command.
LEMMA FlatTail ==
  ASSUME FlatInv, wire \in Seq(Commands), wire # << >>, wire' = Tail(wire), UNCHANGED << pos, phase >>
  PROVE  FlatInv'
  <1>1. /\ \A i \in DOMAIN Tail(wire) : i + 1 \in DOMAIN wire /\ Tail(wire)[i] = wire[i + 1]
        /\ DOMAIN Tail(wire) = 1 .. (Len(wire) - 1) /\ Len(Tail(wire)) = Len(wire) - 1 /\ Len(wire) \in Nat
    BY TailFacts
  <1> SUFFICES ASSUME pos' = 0, NEW i \in DOMAIN wire', IsTrade(wire'[i])
               PROVE  i = Len(wire') /\ wire'[i].order.kind = "entry" /\ phase' = "settle"
    BY DEF FlatInv
  <1>2. i + 1 \in DOMAIN wire /\ IsTrade(wire[i + 1]) /\ wire'[i] = wire[i + 1]
    BY <1>1
  <1>3. i + 1 = Len(wire) /\ wire[i + 1].order.kind = "entry" /\ phase = "settle"
    BY <1>2 DEF FlatInv
  <1> QED BY <1>1, <1>2, <1>3

\* What cannot be ahead of an exit: the position is held.
LEMMA HeldHead ==
  ASSUME HeldInv, pos # 0, wire \in Seq(Commands), wire # << >>, wire[1].op # "cancel_all", ~ IsTrade(wire[1])
  PROVE  Holding(wire) /\ NoTrade(wire)
  <1> SUFFICES ASSUME Leaving(wire) PROVE FALSE
    BY DEF HeldInv
  <1>1. PICK k \in DOMAIN wire : IsTrade(wire[k]) /\ \A i \in DOMAIN wire : i < k => wire[i].op = "cancel_all"
    BY DEF Leaving
  <1>2. 1 \in DOMAIN wire /\ DOMAIN wire = 1 .. Len(wire) /\ Len(wire) \in Nat
    BY TailFacts
  <1>3. k = 1 \/ 1 < k
    BY <1>2
  <1> QED BY <1>1, <1>2, <1>3

LEMMA CancelAllProcessed ==
  ASSUME OrdersInv, Process, wire[1].op = "cancel_all"
  PROVE  OrdersInv'
  <1>0. /\ wire # << >> /\ wire \in Seq(Commands) /\ phase \in {"match", "settle"} /\ (~ dsl.latent => phase = "settle")
        /\ UNCHANGED << dsl, bar, atr, pending, phase >>
    BY ProcessFacts
  <1>1. /\ 1 \in DOMAIN wire /\ DOMAIN wire = 1 .. Len(wire) /\ Len(wire) \in Nat
        /\ \A i \in DOMAIN Tail(wire) : i + 1 \in DOMAIN wire /\ Tail(wire)[i] = wire[i + 1]
        /\ \A i \in DOMAIN wire : i = 1 \/ (i - 1 \in DOMAIN Tail(wire) /\ Tail(wire)[i - 1] = wire[i])
        /\ DOMAIN Tail(wire) = 1 .. (Len(wire) - 1) /\ Head(wire) = wire[1] /\ Tail(wire) \in Seq(Commands)
    BY <1>0, TailFacts
  <1>2. working' = {} /\ wire' = Tail(wire) /\ UNCHANGED << pos, side, opened >>
    BY <1>1 DEF Process
  <1>3. WireTypes'
    BY <1>0, <1>1, <1>2, FS_EmptySet DEF OrdersInv, WireTypes
  <1>4. SideInv'
    BY <1>0, <1>2 DEF OrdersInv, SideInv
  <1>5. SweptInv'
    <2>1. pos = 0 => Swept(Tail(wire), {})
      BY <1>0, SweptTail DEF OrdersInv, SweptInv
    <2> QED BY <1>2, <2>1 DEF SweptInv
  <1>6. ASSUME ~ dsl.latent PROVE FlatInv'
    BY <1>0, <1>2, <1>6, FlatTail DEF OrdersInv
  <1>7. ASSUME ~ dsl.latent PROVE HeldInv'
    <2> SUFFICES ASSUME pos # 0 PROVE HeldInv'
      BY <1>2 DEF HeldInv
    <2>1. ~ Holding(wire)
      BY <1>1 DEF Holding
    <2>2. Leaving(wire)
      BY <1>7, <2>1 DEF OrdersInv, HeldInv
    <2>3. PICK k \in DOMAIN wire :
             /\ IsTrade(wire[k]) /\ Fits(wire[k].order)
             /\ \A i \in DOMAIN wire : (i < k => wire[i].op = "cancel_all") /\ (IsTrade(wire[i]) => i = k)
      BY <2>2 DEF Leaving
    <2>4. k # 1
      BY <2>3 DEF IsTrade
    <2> DEFINE j == k - 1
    <2>5. j \in DOMAIN wire' /\ wire'[j] = wire[k] /\ j + 1 = k
      BY <1>1, <1>2, <2>4
    <2> HIDE DEF j
    <2>6. \A i \in DOMAIN wire' : (i < j => wire'[i].op = "cancel_all") /\ (IsTrade(wire'[i]) => i = j)
      <3> SUFFICES ASSUME NEW i \in DOMAIN wire'
                   PROVE  (i < j => wire'[i].op = "cancel_all") /\ (IsTrade(wire'[i]) => i = j)
        OBVIOUS
      <3>1. i + 1 \in DOMAIN wire /\ wire'[i] = wire[i + 1] /\ i \in Int /\ j \in Int
        BY <1>1, <1>2, <2>5
      <3>2. i < j => wire[i + 1].op = "cancel_all"
        BY <2>3, <2>5, <3>1
      <3>3. IsTrade(wire[i + 1]) => i = j
        BY <2>3, <2>5, <3>1
      <3> QED BY <3>1, <3>2, <3>3
    <2>7. Leaving(wire)'
      BY <1>0, <1>2, <1>7, <2>3, <2>5, <2>6 DEF Leaving, Fits
    <2>8. ~ NoTrade(wire)'
      BY <2>3, <2>5 DEF NoTrade
    <2> QED BY <2>7, <2>8 DEF HeldInv
  <1> QED BY <1>0, <1>3, <1>4, <1>5, <1>6, <1>7 DEF OrdersInv

\* A guarded position whose wire loses a command that is not its stop.
LEMMA GuardedTail ==
  ASSUME wire \in Seq(Commands), wire # << >>, Guarded(wire), wire' = Tail(wire), ~ IsStop(wire[1]),
         \/ wire[1].op # "cancel" /\ Stops' = Stops
         \/ wire[1].op = "cancel" /\ Stops' = {o \in Stops : o.id \notin wire[1].ids}
  PROVE  Guarded(wire)'
  <1>1. /\ 1 \in DOMAIN wire /\ DOMAIN wire = 1 .. Len(wire) /\ Len(wire) \in Nat
        /\ \A i \in DOMAIN Tail(wire) : i + 1 \in DOMAIN wire /\ Tail(wire)[i] = wire[i + 1]
        /\ \A i \in DOMAIN wire : i = 1 \/ (i - 1 \in DOMAIN Tail(wire) /\ Tail(wire)[i - 1] = wire[i])
        /\ DOMAIN Tail(wire) = 1 .. (Len(wire) - 1)
    BY TailFacts
  <1>2. CASE /\ \E o \in Stops : Stops = {o}
             /\ \A i \in DOMAIN wire : ~ IsStop(wire[i]) /\ wire[i].op # "cancel"
    <2>1. Stops' = Stops
      BY <1>1, <1>2
    <2>2. \A i \in DOMAIN wire' : ~ IsStop(wire'[i]) /\ wire'[i].op # "cancel"
      BY <1>1, <1>2
    <2> QED BY <1>2, <2>1, <2>2 DEF Guarded
  <1>3. CASE \E i \in DOMAIN wire :
                /\ IsStop(wire[i])
                /\ \A j \in DOMAIN wire : IsStop(wire[j]) \/ wire[j].op = "cancel" => j <= i /\ (IsStop(wire[j]) => j = i)
                /\ \A o \in Stops : \E j \in DOMAIN wire : wire[j].op = "cancel" /\ o.id \in wire[j].ids
    <2>1. PICK i \in DOMAIN wire :
                /\ IsStop(wire[i])
                /\ \A j \in DOMAIN wire : IsStop(wire[j]) \/ wire[j].op = "cancel" => j <= i /\ (IsStop(wire[j]) => j = i)
                /\ \A o \in Stops : \E j \in DOMAIN wire : wire[j].op = "cancel" /\ o.id \in wire[j].ids
      BY <1>3
    <2> DEFINE k == i - 1
    <2>2. k \in DOMAIN wire' /\ wire'[k] = wire[i] /\ k + 1 = i
      BY <1>1, <2>1
    <2> HIDE DEF k
    <2>3. \A j \in DOMAIN wire' : IsStop(wire'[j]) \/ wire'[j].op = "cancel" => j <= k /\ (IsStop(wire'[j]) => j = k)
      <3> SUFFICES ASSUME NEW j \in DOMAIN wire', IsStop(wire'[j]) \/ wire'[j].op = "cancel"
                   PROVE  j <= k /\ (IsStop(wire'[j]) => j = k)
        OBVIOUS
      <3>1. j + 1 \in DOMAIN wire /\ wire'[j] = wire[j + 1] /\ j \in Int /\ k \in Int
        BY <1>1, <2>2
      <3>2. j + 1 <= i /\ (IsStop(wire[j + 1]) => j + 1 = i)
        BY <2>1, <3>1
      <3> QED BY <2>2, <3>1, <3>2
    <2>4. \A o \in Stops' : \E j \in DOMAIN wire' : wire'[j].op = "cancel" /\ o.id \in wire'[j].ids
      <3> SUFFICES ASSUME NEW o \in Stops'
                   PROVE  \E j \in DOMAIN wire' : wire'[j].op = "cancel" /\ o.id \in wire'[j].ids
        OBVIOUS
      <3>1. o \in Stops
        OBVIOUS
      <3>2. PICK j \in DOMAIN wire : wire[j].op = "cancel" /\ o.id \in wire[j].ids
        BY <2>1, <3>1
      <3>3. j # 1
        BY <3>2
      <3>4. j - 1 \in DOMAIN wire' /\ wire'[j - 1] = wire[j]
        BY <1>1, <3>3
      <3> QED BY <3>2, <3>4
    <2>5. IsStop(wire'[k])
      BY <2>1, <2>2
    <2> QED BY <2>2, <2>3, <2>4, <2>5 DEF Guarded
  <1> QED BY <1>2, <1>3 DEF Guarded

LEMMA CancelProcessed ==
  ASSUME OrdersInv, Process, wire[1].op = "cancel"
  PROVE  OrdersInv'
  <1>0. /\ wire # << >> /\ wire \in Seq(Commands) /\ phase \in {"match", "settle"} /\ (~ dsl.latent => phase = "settle")
        /\ UNCHANGED << dsl, bar, atr, pending, phase >>
    BY ProcessFacts
  <1>1. /\ 1 \in DOMAIN wire /\ Head(wire) = wire[1] /\ Tail(wire) \in Seq(Commands)
        /\ \A i \in DOMAIN Tail(wire) : i + 1 \in DOMAIN wire /\ Tail(wire)[i] = wire[i + 1]
    BY <1>0, TailFacts
  <1>2. /\ working' = {o \in working : o.id \notin wire[1].ids} /\ wire' = Tail(wire) /\ UNCHANGED << pos, side, opened >>
    BY <1>1 DEF Process
  <1>3. WireTypes'
    <2>1. IsFiniteSet(working')
      BY <1>2, FS_Subset DEF OrdersInv, WireTypes
    <2> QED BY <1>0, <1>1, <1>2, <2>1 DEF OrdersInv, WireTypes
  <1>4. SideInv'
    BY <1>0, <1>2 DEF OrdersInv, SideInv
  <1>5. SweptInv'
    <2>1. pos = 0 => Swept(Tail(wire), working')
      BY <1>0, <1>2, SweptTail DEF OrdersInv, SweptInv
    <2> QED BY <1>2, <2>1 DEF SweptInv
  <1>6. ASSUME ~ dsl.latent PROVE FlatInv'
    BY <1>0, <1>2, <1>6, FlatTail DEF OrdersInv
  <1>7. ASSUME ~ dsl.latent PROVE HeldInv'
    <2> SUFFICES ASSUME pos # 0 PROVE HeldInv'
      BY <1>2 DEF HeldInv
    <2>1. Holding(wire) /\ NoTrade(wire)
      BY <1>0, <1>7, HeldHead DEF OrdersInv, IsTrade
    <2>2. NoTrade(wire)'
      BY <1>1, <1>2, <2>1 DEF NoTrade
    <2>3. Stops' = {o \in Stops : o.id \notin wire[1].ids}
      BY <1>2 DEF Stops
    <2>4. ~ IsStop(wire[1])
      BY DEF IsStop
    <2>5. Guarded(wire) => Guarded(wire)'
      BY <1>0, <1>2, <2>3, <2>4, GuardedTail
    <2>6. \A i \in DOMAIN wire' : wire'[i].op # "cancel_all"
      BY <1>1, <1>2, <2>1 DEF Holding
    <2>7. \A i \in DOMAIN wire' : IsBracket(wire'[i]) => Fits(wire'[i].order) /\ ~ Crossed(wire'[i].order)
      BY <1>1, <1>2, <2>1 DEF Holding
    <2>8. \A o \in working' : Fits(o)
      BY <1>2, <2>1 DEF Holding
    <2>9. opened.px - Sign(pos) * opened.gap > 0 => Guarded(wire)'
      BY <2>1, <2>5 DEF Holding
    <2>10. Holding(wire)'
      BY <1>0, <1>2, <1>7, <2>6, <2>7, <2>8, <2>9 DEF Holding, Fits, Crossed
    <2> QED BY <2>2, <2>10 DEF HeldInv
  <1> QED BY <1>0, <1>3, <1>4, <1>5, <1>6, <1>7 DEF OrdersInv

\* An entry or an exit is filled at the close.
LEMMA TradeProcessed ==
  ASSUME OrdersInv, Process, IsTrade(wire[1])
  PROVE  OrdersInv'
  <1> DEFINE o == wire[1].order
             q == pos + o.side * o.qty
             rest == Tail(wire)
             px == bar.close
  <1>0. /\ wire # << >> /\ wire \in Seq(Commands) /\ phase \in {"match", "settle"} /\ (~ dsl.latent => phase = "settle")
        /\ UNCHANGED << dsl, bar, atr, pending, phase >> /\ WireTypes /\ pos \in Int /\ px \in Int
    BY ProcessFacts DEF OrdersInv
  <1>1. /\ 1 \in DOMAIN wire /\ Head(wire) = wire[1] /\ rest \in Seq(Commands) /\ wire[1] \in Commands
        /\ DOMAIN wire = 1 .. Len(wire) /\ Len(wire) \in Nat /\ Len(rest) = Len(wire) - 1
        /\ \A i \in DOMAIN rest : i + 1 \in DOMAIN wire /\ i + 1 # 1 /\ rest[i] = wire[i + 1]
    BY <1>0, TailFacts
  <1>2. o \in Tickets /\ wire[1].op = "submit" /\ o.kind \in {"entry", "exit"}
    BY <1>1, CommandTypes DEF IsTrade
  <1>3. Fill(pos, q, px, rest) /\ UNCHANGED working
    BY <1>1, <1>2 DEF Process
  <1>4. q \in Int
    BY <1>0, <1>2, FilledTypes
  <1> HIDE DEF q, rest, o, px
  <1>5. /\ pos' = q /\ side' = Sign(q) /\ Extends(rest, wire') /\ opened' \in [px : Int, gap : Int]
        /\ q = 0 /\ pos # 0 => wire' = CancelAll(rest)
        /\ q # 0 /\ pos = 0 => wire' = SubmitSlTp(rest, px, Sign(q), Size(q)) /\ opened' = [px |-> px, gap |-> atr]
    BY <1>0, <1>1, <1>3, <1>4, FillFacts
  <1>6. WireTypes'
    BY <1>0, <1>3, <1>4, <1>5 DEF WireTypes, Extends
  <1>7. SideInv'
    BY <1>0, <1>5 DEF SideInv
  <1>8. pos = 0 => q # 0 /\ Sign(q) = o.side /\ Size(q) = o.qty /\ o.side \in Sides /\ o.qty \in Nat \ {0}
    BY <1>2, Opening DEF q
  <1>9. SweptInv'
    <2>1. q = 0 => Swept(wire', working')
      BY <1>1, <1>3, <1>5, <1>8, FillSwept
    <2> QED BY <1>5, <2>1 DEF SweptInv
  <1>10. CASE pos = 0
    <2> DEFINE s == o.side
               k == o.qty
    <2>1. FlatInv'
      BY <1>5, <1>8, <1>10 DEF FlatInv
    <2>2. ASSUME ~ dsl.latent PROVE HeldInv'
      <3>1. Len(wire) = 1 /\ DOMAIN rest = {} /\ rest = << >>
        <4>1. 1 = Len(wire)
          BY <1>1, <1>10, <2>2 DEF OrdersInv, FlatInv
        <4>a. rest \in Seq(Commands) /\ Len(rest) = Len(wire) - 1
          BY <1>1
        <4>b. Len(rest) = 0
          BY <4>1, <4>a
        <4>2. rest = << >>
          BY <4>a, <4>b
        <4> QED BY <4>1, <4>2
      <3>2. working = {}
        <4>1. Swept(wire, working)
          BY <1>10 DEF OrdersInv, SweptInv
        <4>2. \A j \in DOMAIN wire : wire[j].op # "cancel_all"
          BY <1>1, <1>2, <3>1
        <4> QED BY <4>1, <4>2 DEF Swept
      <3>3. s \in Sides /\ k \in Nat \ {0} /\ s = Sign(q) /\ k = Size(q)
        BY <1>8, <1>10
      <3> HIDE DEF s, k
      <3>4. wire' = SubmitSlTp(rest, px, s, k) /\ opened' = [px |-> px, gap |-> atr]
        BY <1>5, <1>8, <1>10, <3>3
      <3>5. /\ \A i \in DOMAIN wire' : SentFor(wire'[i], px, s, k)
            /\ px - s * atr > 0 => \E h \in DOMAIN wire' : IsStop(wire'[h]) /\ \A i \in DOMAIN wire' : IsStop(wire'[i]) => i = h
        <4> DEFINE W == SubmitSlTp(rest, px, s, k)
        <4>1. /\ \A i \in DOMAIN W : i \notin DOMAIN rest => SentFor(W[i], px, s, k)
              /\ px - s * atr > 0 => \E h \in DOMAIN W : h \notin DOMAIN rest /\ IsStop(W[h])
                                        /\ \A i \in DOMAIN W : i \notin DOMAIN rest /\ IsStop(W[i]) => i = h
          BY <1>0, <1>1, <3>3, SltpFacts
        <4> HIDE DEF W
        <4>2. wire' = W
          BY <3>4 DEF W
        <4> QED BY <3>1, <4>1, <4>2
      <3>6. \A i \in DOMAIN wire' : wire'[i].op = "submit" /\ IsBracket(wire'[i]) /\ ~ IsTrade(wire'[i])
        BY <3>5 DEF SentFor, IsBracket, IsTrade
      <3>7. atr \in Nat \ {0} /\ bar.close = px
        BY <1>0, <3>3, PriceFacts DEF px
      <3>8. ASSUME NEW i \in DOMAIN wire'
            PROVE  wire'[i].order.side = - Sign(q) /\ wire'[i].order.qty = Size(q) /\ ~ Crossed(wire'[i].order)
        <4> DEFINE b == wire'[i].order
                   x == b.price
                   a == atr
        <4>1. SentFor(wire'[i], px, s, k) /\ b.kind \in {"stop", "take"}
          BY <3>5, <3>8 DEF SentFor, IsBracket
        <4>2. /\ b.side = - s /\ b.qty = k
              /\ b.kind = "stop" => x = px - s * a
              /\ b.kind = "take" => x = px + s * a
          BY <4>1 DEF SentFor
        <4>3. a \in Int /\ a > 0
          BY <3>7
        <4>4. /\ Crossed(b) <=> IF (b.kind = "stop") = (b.side = -1) THEN px <= x ELSE px >= x
          BY <3>7 DEF Crossed
        <4> HIDE DEF b, x, a
        <4>5. ~ Crossed(b)
          <5>1. CASE s = 1
            <6>1. b.side = -1 /\ (b.kind = "stop" => x = px - a) /\ (b.kind = "take" => x = px + a)
              BY <4>2, <4>3, <5>1
            <6>2. CASE b.kind = "stop"
              BY <1>0, <4>3, <4>4, <6>1, <6>2
            <6>3. CASE b.kind = "take"
              BY <1>0, <4>3, <4>4, <6>1, <6>3
            <6> QED BY <4>1, <6>2, <6>3
          <5>2. CASE s = -1
            <6>1. b.side = 1 /\ (b.kind = "stop" => x = px + a) /\ (b.kind = "take" => x = px - a)
              <7>1. b.side = 1
                <8> DEFINE t == - s
                <8>1. t \in Int /\ s + t = 0
                  BY <3>3, Negated DEF Sides
                <8> HIDE DEF t
                <8>2. t = 1
                  BY <5>2, <8>1
                <8> QED BY <4>2, <8>2 DEF t
              <7>2. s * a = - a
                BY <4>3, <5>2
              <7>3. px - s * a = px + a /\ px + s * a = px - a
                BY <1>0, <4>3, <7>2
              <7> QED BY <4>2, <7>1, <7>3
            <6>2. CASE b.kind = "stop"
              BY <1>0, <4>3, <4>4, <6>1, <6>2
            <6>3. CASE b.kind = "take"
              BY <1>0, <4>3, <4>4, <6>1, <6>3
            <6> QED BY <4>1, <6>2, <6>3
          <5> QED BY <3>3, <5>1, <5>2 DEF Sides
        <4> QED BY <3>3, <4>2, <4>5 DEF b
      <3>9. opened'.px - Sign(q) * opened'.gap > 0 => Guarded(wire)'
        <4> SUFFICES ASSUME opened'.px - Sign(q) * opened'.gap > 0 PROVE Guarded(wire)'
          OBVIOUS
        <4>1. px - s * atr > 0
          BY <3>3, <3>4
        <4>2. PICK h \in DOMAIN wire' : IsStop(wire'[h]) /\ \A i \in DOMAIN wire' : IsStop(wire'[i]) => i = h
          BY <3>5, <4>1
        <4>3. Stops' = {}
          BY <1>3, <3>2 DEF Stops
        <4>4. h <= h
          <5>1. h \in Int
            BY <1>5, <4>2 DEF Extends
          <5> QED BY <5>1
        <4>5. \A j \in DOMAIN wire' : wire'[j].op # "cancel"
          BY <3>6
        <4>6. \A j \in DOMAIN wire' : IsStop(wire'[j]) \/ wire'[j].op = "cancel" => j <= h /\ (IsStop(wire'[j]) => j = h)
          BY <4>2, <4>4, <4>5
        <4> QED BY <4>2, <4>3, <4>6 DEF Guarded
      <3>10. NoTrade(wire)'
        BY <3>6 DEF NoTrade
      <3>11. Holding(wire)'
        <4>1. phase' = "settle" /\ pos' = q /\ working' = {} /\ bar' = bar
          BY <1>0, <1>3, <1>5, <2>2, <3>2
        <4> QED BY <3>6, <3>8, <3>9, <4>1 DEF Holding, Fits, Crossed
      <3> QED BY <3>10, <3>11 DEF HeldInv
    <2> QED BY <1>0, <1>6, <1>7, <1>9, <2>1, <2>2 DEF OrdersInv
  <1>11. CASE pos # 0
    <2>1. ASSUME ~ dsl.latent PROVE FlatInv' /\ HeldInv'
      <3>1. ~ NoTrade(wire)
        BY <1>1 DEF NoTrade
      <3>2. PICK k \in DOMAIN wire :
               /\ IsTrade(wire[k]) /\ Fits(wire[k].order)
               /\ \A i \in DOMAIN wire : (i < k => wire[i].op = "cancel_all") /\ (IsTrade(wire[i]) => i = k)
        BY <1>11, <2>1, <3>1 DEF OrdersInv, HeldInv, Leaving
      <3>3. k = 1
        BY <1>1, <3>2
      <3>4. o.side = - Sign(pos) /\ o.qty = Size(pos)
        BY <3>2, <3>3 DEF Fits, o
      <3>5. q = 0
        BY <1>0, <1>2, <3>4, Closing DEF q
      <3>6. wire' = CancelAll(rest)
        BY <1>5, <1>11, <3>5
      <3>7. \A i \in DOMAIN rest : ~ IsTrade(rest[i])
        BY <1>1, <3>2, <3>3
      <3>8. \A i \in DOMAIN wire' : ~ IsTrade(wire'[i])
        <4>1. CASE wire' = rest
          BY <3>7, <4>1
        <4>2. CASE wire' = Append(rest, [op |-> "cancel_all"])
          <5> DEFINE m == [op |-> "cancel_all"]
          <5>1. m \in Commands /\ ~ IsTrade(m)
            BY CancelTyped DEF IsTrade
          <5> HIDE DEF m
          <5>2. /\ Extends(rest, wire') /\ Len(wire') = Len(rest) + 1 /\ wire'[Len(rest) + 1] = m
                /\ DOMAIN wire' = 1 .. (Len(rest) + 1)
            BY <1>1, <4>2, <5>1, ExtendsByOne DEF m
          <5> QED BY <3>7, <5>1, <5>2 DEF Extends
        <4> QED BY <3>6, <4>1, <4>2 DEF CancelAll
      <3> QED BY <1>5, <3>5, <3>8 DEF FlatInv, HeldInv
    <2> QED BY <1>0, <1>6, <1>7, <1>9, <2>1 DEF OrdersInv
  <1> QED BY <1>10, <1>11

\* A stop or a target is rejected, filled at once or put to work.
LEMMA BracketProcessed ==
  ASSUME OrdersInv, Process, IsBracket(wire[1])
  PROVE  OrdersInv'
  <1> DEFINE o == wire[1].order
             q == Reduced(o, pos)
             rest == Tail(wire)
             px == bar.close
             x == [id |-> FreshId, kind |-> o.kind, side |-> o.side, qty |-> o.qty, price |-> o.price]
  <1>0. /\ wire # << >> /\ wire \in Seq(Commands) /\ phase \in {"match", "settle"} /\ (~ dsl.latent => phase = "settle")
        /\ UNCHANGED << dsl, bar, atr, pending, phase >> /\ WireTypes /\ pos \in Int /\ px \in Int
    BY ProcessFacts DEF OrdersInv
  <1>1. /\ 1 \in DOMAIN wire /\ Head(wire) = wire[1] /\ rest \in Seq(Commands) /\ wire[1] \in Commands
        /\ DOMAIN wire = 1 .. Len(wire) /\ Len(wire) \in Nat
        /\ \A i \in DOMAIN rest : i + 1 \in DOMAIN wire /\ i + 1 # 1 /\ rest[i] = wire[i + 1]
        /\ \A i \in DOMAIN wire : i = 1 \/ (i - 1 \in DOMAIN rest /\ rest[i - 1] = wire[i])
        /\ DOMAIN rest = 1 .. (Len(wire) - 1)
    BY <1>0, TailFacts
  <1>2. o \in Tickets /\ wire[1].op = "submit" /\ o.kind \in {"stop", "take"}
    BY <1>1, CommandTypes DEF IsBracket
  <1>3. \/ ~ Reduces(o, pos) /\ wire' = rest /\ UNCHANGED << pos, side, opened, working >>
        \/ Reduces(o, pos) /\ o.kind = "stop" /\ Crossed(o) /\ wire' = rest /\ UNCHANGED << pos, side, opened, working >>
        \/ Reduces(o, pos) /\ o.kind = "take" /\ Crossed(o) /\ Fill(pos, q, px, rest) /\ UNCHANGED working
        \/ Reduces(o, pos) /\ ~ Crossed(o) /\ working' = working \cup {x} /\ wire' = rest /\ UNCHANGED << pos, side, opened >>
    BY <1>1, <1>2 DEF Process
  <1>4. q \in Int
    BY <1>0, <1>2, FilledTypes
  <1>5. x \in Orders /\ x.kind = o.kind /\ x.side = o.side /\ x.qty = o.qty
    BY <1>0, <1>2, FreshTyped DEF Tickets, Orders
  <1>6. Reduces(o, pos) => pos # 0
    <2>1. pos = 0 => Sign(pos) = 0
      BY <1>0, SignFacts
    <2>2. o.side \in Sides
      BY <1>2, CommandTypes DEF Tickets
    <2> HIDE DEF o
    <2> QED BY <2>1, <2>2 DEF Reduces, Sides
  <1> HIDE DEF q, rest, o, px, x
  <1>7. ASSUME ~ dsl.latent, pos # 0
        PROVE  Holding(wire) /\ NoTrade(wire) /\ Fits(o) /\ ~ Crossed(o) /\ Reduces(o, pos)
    <2>1. Holding(wire) /\ NoTrade(wire)
      BY <1>0, <1>2, <1>7, HeldHead DEF OrdersInv, IsTrade, o
    <2>2. Fits(o) /\ ~ Crossed(o)
      BY <1>1, <2>1 DEF Holding, o
    <2>3. Reduces(o, pos)
      <3> DEFINE s == Sign(pos)
                 t == - s
      <3>1. s \in Int
        BY <1>0, SignFacts
      <3> HIDE DEF s
      <3>2. t \in Int /\ s + t = 0
        BY <3>1, Negated
      <3> HIDE DEF t
      <3>3. s = - t
        BY <3>1, <3>2
      <3>4. o.side = t
        BY <2>2 DEF Fits, s, t
      <3> QED BY <3>3, <3>4 DEF Reduces, s
    <2> QED BY <2>1, <2>2, <2>3
  <1>8. CASE (~ Reduces(o, pos) \/ Crossed(o)) /\ wire' = rest /\ UNCHANGED << pos, side, opened, working >>
    <2>1. WireTypes'
      BY <1>0, <1>1, <1>8 DEF WireTypes
    <2>2. SideInv'
      BY <1>0, <1>8 DEF OrdersInv, SideInv
    <2>3. SweptInv'
      <3>1. pos = 0 => Swept(rest, working)
        BY <1>0, <1>2, SweptTail DEF OrdersInv, SweptInv, rest
      <3> QED BY <1>8, <3>1 DEF SweptInv
    <2>4. ASSUME ~ dsl.latent PROVE FlatInv'
      BY <1>0, <1>8, <2>4, FlatTail DEF OrdersInv, rest
    <2>5. ASSUME ~ dsl.latent PROVE HeldInv'
      <3>1. pos = 0
        BY <1>7, <1>8, <2>5
      <3> QED BY <1>8, <3>1 DEF HeldInv
    <2> QED BY <1>0, <2>1, <2>2, <2>3, <2>4, <2>5 DEF OrdersInv
  <1>9. CASE Reduces(o, pos) /\ o.kind = "take" /\ Crossed(o) /\ Fill(pos, q, px, rest) /\ UNCHANGED working
    <2>1. pos # 0 /\ dsl.latent
      BY <1>6, <1>7, <1>9
    <2>2. /\ pos' = q /\ side' = Sign(q) /\ Extends(rest, wire') /\ opened' \in [px : Int, gap : Int]
          /\ q = 0 => wire' = CancelAll(rest)
      BY <1>0, <1>1, <1>4, <1>9, <2>1, FillFacts
    <2>3. WireTypes'
      BY <1>0, <1>4, <1>9, <2>2 DEF WireTypes, Extends
    <2>4. SideInv'
      BY <1>0, <2>2 DEF SideInv
    <2>5. SweptInv'
      <3>1. q = 0 => Swept(wire', working')
        BY <1>1, <1>9, <2>2, FillSwept
      <3> QED BY <2>2, <3>1 DEF SweptInv
    <2> QED BY <1>0, <2>1, <2>3, <2>4, <2>5 DEF OrdersInv
  <1>10. CASE Reduces(o, pos) /\ ~ Crossed(o) /\ working' = working \cup {x} /\ wire' = rest /\ UNCHANGED << pos, side, opened >>
    <2>1. pos # 0
      BY <1>6, <1>10
    <2>2. WireTypes'
      <3>1. IsFiniteSet(working')
        BY <1>0, <1>10, FS_AddElement DEF WireTypes
      <3> QED BY <1>0, <1>1, <1>5, <1>10, <3>1 DEF WireTypes
    <2>3. SideInv'
      BY <1>0, <1>10 DEF OrdersInv, SideInv
    <2>4. SweptInv' /\ FlatInv'
      BY <1>10, <2>1 DEF SweptInv, FlatInv
    <2>5. ASSUME ~ dsl.latent PROVE HeldInv'
      <3>1. Holding(wire) /\ NoTrade(wire) /\ Fits(o)
        BY <1>7, <2>1, <2>5
      <3>2. NoTrade(wire)'
        BY <1>1, <1>10, <3>1 DEF NoTrade
      <3>3. \A i \in DOMAIN wire' : wire'[i].op # "cancel_all"
        BY <1>1, <1>10, <3>1 DEF Holding
      <3>4. \A i \in DOMAIN wire' : IsBracket(wire'[i]) => Fits(wire'[i].order) /\ ~ Crossed(wire'[i].order)
        BY <1>1, <1>10, <3>1 DEF Holding
      <3>5. \A y \in working' : Fits(y)
        <4>1. Fits(x)
          BY <1>5, <3>1 DEF Fits
        <4> QED BY <1>10, <3>1, <4>1 DEF Holding
      <3>6. ASSUME Guarded(wire) PROVE Guarded(wire)'
        <4>1. CASE IsStop(wire[1])
          <5>1. o.kind = "stop"
            BY <4>1 DEF IsStop, o
          <5>2. PICK i \in DOMAIN wire :
                   /\ IsStop(wire[i])
                   /\ \A j \in DOMAIN wire : IsStop(wire[j]) \/ wire[j].op = "cancel" => j <= i /\ (IsStop(wire[j]) => j = i)
                   /\ \A y \in Stops : \E j \in DOMAIN wire : wire[j].op = "cancel" /\ y.id \in wire[j].ids
            BY <1>1, <3>6, <4>1 DEF Guarded
          <5>3. i = 1
            BY <1>1, <4>1, <5>2
          <5>4. \A j \in DOMAIN wire : wire[j].op # "cancel"
            <6> SUFFICES ASSUME NEW j \in DOMAIN wire, wire[j].op = "cancel" PROVE FALSE
              OBVIOUS
            <6>1. j <= 1
              BY <5>2, <5>3
            <6>2. j = 1
              BY <1>1, <6>1
            <6> QED BY <1>2, <6>2
          <5>5. Stops = {}
            BY <5>2, <5>4
          <5>6. Stops' = {x}
            BY <1>5, <1>10, <5>1, <5>5 DEF Stops
          <5>7. \A j \in DOMAIN wire' : ~ IsStop(wire'[j]) /\ wire'[j].op # "cancel"
            BY <1>1, <1>10, <5>2, <5>3, <5>4
          <5> QED BY <5>6, <5>7 DEF Guarded
        <4>2. CASE ~ IsStop(wire[1])
          <5>1. o.kind # "stop"
            BY <1>2, <4>2 DEF IsStop, o
          <5>2. Stops' = Stops
            BY <1>5, <1>10, <5>1 DEF Stops
          <5>3. wire[1].op # "cancel"
            BY <1>2
          <5> QED BY <1>0, <1>10, <3>6, <4>2, <5>2, <5>3, GuardedTail DEF rest
        <4> QED BY <4>1, <4>2
      <3>7. opened.px - Sign(pos) * opened.gap > 0 => Guarded(wire)'
        BY <3>1, <3>6 DEF Holding
      <3>8. Holding(wire)'
        BY <1>0, <1>10, <2>5, <3>3, <3>4, <3>5, <3>7 DEF Holding, Fits, Crossed
      <3> QED BY <3>2, <3>8 DEF HeldInv
    <2> QED BY <1>0, <2>2, <2>3, <2>4, <2>5 DEF OrdersInv
  <1> QED BY <1>3, <1>8, <1>9, <1>10

LEMMA ProcessInv ==
  ASSUME OrdersInv, Process
  PROVE  OrdersInv'
  <1>1. wire # << >> /\ wire \in Seq(Commands)
    BY ProcessFacts
  <1>2. wire[1] \in Commands
    BY <1>1, TailFacts
  <1>3. \/ wire[1].op = "cancel_all" \/ wire[1].op = "cancel" \/ IsTrade(wire[1]) \/ IsBracket(wire[1])
    BY <1>2, CommandTypes DEF IsTrade, IsBracket
  <1> QED BY <1>3, CancelAllProcessed, CancelProcessed, TradeProcessed, BracketProcessed

LEMMA OrdersStep ==
  ASSUME OrdersInv, [Next]_vars
  PROVE  OrdersInv'
  <1>1. CASE \E b \in Bars, v \in [Refs(dsl) -> Levels], g \in Gaps : NewBar(b, v, g)
    BY <1>1, NewBarInv
  <1>2. CASE \E o \in working : Trigger(o)
    BY <1>2, TriggerInv
  <1>3. CASE NotReady \/ Filtered
    BY <1>3, NotReadyInv, FilteredInv
  <1>4. CASE \E q \in Quantities : Dispatch(q)
    BY <1>4, DispatchInv
  <1>5. CASE \E q \in Quantities, delay \in BOOLEAN : Evaluate(q, delay)
    BY <1>5, EvaluateInv
  <1>6. CASE Process
    BY <1>6, ProcessInv
  <1>7. CASE Stop \/ Reset
    BY <1>7, StopInv, ResetInv
  <1>8. CASE UNCHANGED vars
    <2>1. UNCHANGED << dsl, bar, atr, pending, phase, pos, side, wire, working, opened >>
      BY <1>8 DEF vars, market, strategy, exchange, history
    <2>2. WireTypes' /\ SideInv' /\ SweptInv' /\ (~ dsl.latent => FlatInv')
      BY <2>1 DEF OrdersInv, WireTypes, SideInv, SweptInv, FlatInv
    <2>3. HeldInv => HeldInv'
      BY <2>1 DEF HeldInv, Holding, Leaving, NoTrade, Guarded, Stops, Fits, Crossed
    <2> QED BY <2>1, <2>2, <2>3 DEF OrdersInv
  <1> QED BY <1>1, <1>2, <1>3, <1>4, <1>5, <1>6, <1>7, <1>8 DEF Next

\* The commands and the orders hold together in every reachable state.
THEOREM OrdersHold == Spec => []OrdersInv
  BY OrdersInit, OrdersStep, PTL DEF Spec

\* No order survives the position it protected: when a fill closes the position
\* the handler of the closed position sends the command that cancels the rest,
\* and nothing that protects is sent after it until the next entry is filled.
THEOREM OrphansGone == Spec => []NoOrphans
  <1>1. OrdersInv => NoOrphans
    <2> SUFFICES ASSUME OrdersInv, Settled, pos = 0 PROVE working = {}
      BY DEF NoOrphans
    <2>1. Swept(wire, working) /\ DOMAIN wire = {}
      BY DEF OrdersInv, SweptInv, Settled
    <2> QED BY <2>1 DEF Swept
  <1> QED BY <1>1, OrdersHold, PTL

\* Without latency an open position has one stop of its size once the commands
\* of the bar are settled.
THEOREM PositionProtected == Spec => []Protected
  <1>1. OrdersInv => Protected
    <2> SUFFICES ASSUME OrdersInv, Settled, ~ dsl.latent, pos # 0, opened.px - Sign(pos) * opened.gap > 0
                 PROVE  \E o \in Stops : Stops = {o} /\ o.side = - Sign(pos) /\ o.qty = Size(pos)
      BY DEF Protected
    <2>1. DOMAIN wire = {} /\ HeldInv
      BY DEF Settled, OrdersInv
    <2>2. Holding(wire)
      BY <2>1 DEF HeldInv, NoTrade
    <2>3. \E o \in Stops : Stops = {o}
      BY <2>1, <2>2 DEF Holding, Guarded
    <2>4. \A o \in Stops : Fits(o)
      BY <2>2 DEF Holding, Stops
    <2> QED BY <2>3, <2>4 DEF Fits
  <1> QED BY <1>1, OrdersHold, PTL

-----------------------------------------------------------------------------
(* Entries and the trading hours.                                           *)

\* The indicators stay ready.
LEMMA StaysReady ==
  ASSUME NEW b, NEW v, NEW g, NewBar(b, v, g), Ready
  PROVE  Ready'
  <1>1. warm /\ AwaitedKeys(dsl) \subseteq computed
    BY DEF Ready
  <1>2. dsl' = dsl /\ warm' \in {w \in BOOLEAN : warm => w} /\ computed \subseteq computed'
    BY DEF NewBar
  <1>3. warm'
    BY <1>1, <1>2
  <1> QED BY <1>1, <1>2, <1>3 DEF Ready, AwaitedKeys

LEMMA HoursStep ==
  ASSUME HoursInv, [Next]_vars
  PROVE  HoursInv'
  <1>1. ASSUME NEW b \in Bars, NEW v, NEW g \in Gaps, NewBar(b, v, g)
        PROVE  HoursInv'
    <2>1. n' = n + 1 /\ phase = "settle" /\ phase' = "match" /\ UNCHANGED << dsl, pending >>
      BY <1>1 DEF NewBar, strategy
    <2>2. n' \in Nat /\ n' - 1 = n
      BY <2>1 DEF HoursInv
    <2>3. Ready => Ready'
      BY <1>1, StaysReady
    <2> HIDE DEF HoursInv
    <2>4. pending # None => dsl.delays /\ Ready /\ Quiet(dsl, n)
      BY <2>1 DEF HoursInv
    <2>5. Quiet(dsl, n) => Quiet(dsl', n' - 1)
      BY <2>1, <2>2
    <2> QED BY <2>1, <2>2, <2>3, <2>4, <2>5 DEF HoursInv
  <1>2. ASSUME NEW o \in working, Trigger(o)
        PROVE  HoursInv'
    BY <1>2 DEF Trigger, market, HoursInv, Ready
  <1>3. CASE NotReady
    BY <1>3 DEF NotReady, Strategize, market, HoursInv
  <1>4. CASE Filtered
    BY <1>4 DEF Filtered, Strategize, market, HoursInv
  <1>5. ASSUME NEW q \in Quantities, Dispatch(q)
        PROVE  HoursInv'
    BY <1>5 DEF Dispatch, DispatchAnd, Strategize, market, HoursInv
  <1>6. ASSUME NEW q \in Quantities, NEW delay \in BOOLEAN, Evaluate(q, delay)
        PROVE  HoursInv'
    <2>1. /\ Ready /\ Quiet(dsl, n) /\ phase' = "settle" /\ UNCHANGED << dsl, n, warm, computed >>
          /\ delay => dsl.delays
          /\ pending' = IF delay THEN Signal ELSE None
      BY <1>6 DEF Evaluate, Strategize, market
    <2>2. Ready'
      BY <2>1 DEF Ready, AwaitedKeys
    <2> QED BY <2>1, <2>2 DEF HoursInv
  <1>7. CASE Process
    BY <1>7 DEF Process, market, HoursInv, Ready
  <1>8. CASE Stop
    BY <1>8 DEF Stop, market, HoursInv, Ready
  <1>9. CASE Reset
    BY <1>9 DEF Reset, market, HoursInv
  <1>10. CASE UNCHANGED vars
    BY <1>10 DEF vars, market, strategy, HoursInv, Ready
  <1> QED BY <1>1, <1>2, <1>3, <1>4, <1>5, <1>6, <1>7, <1>8, <1>9, <1>10 DEF Next

\* The entries on the wire can be counted.
LEMMA EntriesCounted ==
  ASSUME NEW w \in Seq(Commands)
  PROVE  IsFiniteSet(Entries(w)) /\ Cardinality(Entries(w)) \in Nat
  <1>1. DOMAIN w = 1 .. Len(w) /\ Len(w) \in Nat
    OBVIOUS
  <1>2. IsFiniteSet(DOMAIN w)
    BY <1>1, FS_Interval
  <1>3. Entries(w) \subseteq DOMAIN w
    BY DEF Entries
  <1>4. IsFiniteSet(Entries(w))
    BY <1>2, <1>3, FS_Subset
  <1> QED BY <1>4, FS_CardinalityType

\* Taking the head of the wire adds no entry.
LEMMA EntriesOfTail ==
  ASSUME NEW w \in Seq(Commands), w # << >>
  PROVE  Cardinality(Entries(Tail(w))) <= Cardinality(Entries(w))
  <1> DEFINE A == Entries(Tail(w))
             B == Entries(w)
             f == [i \in A |-> i + 1]
  <1>1. IsFiniteSet(B)
    BY EntriesCounted
  <1>2. \A i \in DOMAIN Tail(w) : i \in Int /\ i + 1 \in DOMAIN w /\ Tail(w)[i] = w[i + 1]
    BY TailFacts
  <1>3. \A i \in A : i \in Int /\ i + 1 \in B
    BY <1>2 DEF Entries
  <1> HIDE DEF A, B
  <1>4. f \in [A -> B]
    BY <1>3
  <1>5. \A i, j \in A : f[i] = f[j] => i = j
    BY <1>3
  <1>6. f \in Injection(A, B)
    BY <1>4, <1>5 DEF Injection, IsInjective
  <1> HIDE DEF f
  <1>7. Cardinality(A) <= Cardinality(B)
    BY <1>1, <1>6, FS_Injection
  <1> QED BY <1>7 DEF A, B

\* A fill sends nothing but a sweep and what protects.
LEMMA FillSends ==
  ASSUME WireTypes, NEW p \in Int, NEW q \in Int, NEW px \in Int, NEW w \in Seq(Commands), Fill(p, q, px, w)
  PROVE  Entries(wire') = Entries(w)
  <1> DEFINE v == IF Closes(p, q) THEN CancelAll(w) ELSE w
  <1>1. Extends(w, v) /\ Entries(v) = Entries(w)
    <2>1. CASE v = w
      BY <2>1, ExtendsItself
    <2>2. CASE v = CancelAll(w)
      <3> HIDE DEF v
      <3>1. Extends(w, v)
        BY <2>2, CancelAllFacts
      <3>2. v = w \/ (Len(v) = Len(w) + 1 /\ v[Len(w) + 1].op = "cancel_all")
        BY <2>2, CancelAllFacts
      <3>3. \A i \in DOMAIN v : i \notin DOMAIN w => v[i].op = "cancel_all"
        <4> SUFFICES ASSUME NEW i \in DOMAIN v, i \notin DOMAIN w PROVE v[i].op = "cancel_all"
          OBVIOUS
        <4>1. v # w
          OBVIOUS
        <4>2. i = Len(w) + 1
          <5>1. Len(v) = Len(w) + 1
            BY <3>2, <4>1
          <5>2. Len(w) \in Nat /\ i \in 1 .. Len(v) /\ i \notin 1 .. Len(w)
            BY <3>1 DEF Extends
          <5> QED BY <5>1, <5>2
        <4> QED BY <3>2, <4>1, <4>2
      <3>4. \A i \in DOMAIN w : i \in DOMAIN v /\ v[i] = w[i]
        BY <3>1 DEF Extends
      <3> QED BY <3>1, <3>3, <3>4 DEF Entries
    <2> QED BY <2>1, <2>2
  <1>2. Extends(v, wire') /\ \A i \in DOMAIN wire' : i \notin DOMAIN v => IsBracket(wire'[i])
    <2>1. CASE Opens(p, q)
      <3>1. wire' = SubmitSlTp(v, px, Sign(q), Size(q))
        BY <2>1 DEF Fill, OnPositionOpened
      <3>2. Sign(q) \in Sides /\ Size(q) \in Nat \ {0}
        BY <2>1, SignFacts DEF Opens
      <3>3. v \in Seq(Commands)
        BY <1>1 DEF Extends
      <3> HIDE DEF v
      <3>4. \A i \in DOMAIN wire' : i \notin DOMAIN v => SentFor(wire'[i], px, Sign(q), Size(q))
        BY <3>1, <3>2, <3>3, SltpFacts
      <3>5. Extends(v, wire')
        BY <3>1, <3>2, <3>3, SltpFacts
      <3> QED BY <3>4, <3>5 DEF SentFor
    <2>2. CASE ~ Opens(p, q)
      <3>1. wire' = v
        BY <2>2 DEF Fill, OnPositionOpened
      <3>2. v \in Seq(Commands)
        BY <1>1 DEF Extends
      <3> HIDE DEF v
      <3> QED BY <3>1, <3>2, ExtendsItself
    <2> QED BY <2>1, <2>2
  <1> HIDE DEF v
  <1>3. \A i \in DOMAIN v : i \in DOMAIN wire' /\ wire'[i] = v[i]
    BY <1>2 DEF Extends
  <1>4. Entries(wire') = Entries(v)
    BY <1>2, <1>3 DEF Entries, IsBracket
  <1> QED BY <1>1, <1>4

\* What is not a bar handled by the strategy adds no entry.
LEMMA NoneEnter ==
  ASSUME OrdersInv, Process \/ \E o \in working : Trigger(o)
  PROVE  Cardinality(Entries(wire')) <= Cardinality(Entries(wire))
  <1>1. WireTypes /\ wire \in Seq(Commands) /\ pos \in Int /\ bar.close \in Int
    BY ProgramAssumption DEF OrdersInv, WireTypes
  <1>2. CASE Process
    <2>1. wire # << >> /\ wire[1] \in Commands /\ Head(wire) = wire[1] /\ Tail(wire) \in Seq(Commands)
      BY <1>2, <1>1, ProcessFacts, TailFacts
    <2> DEFINE rest == Tail(wire)
               o == wire[1].order
    <2>2. wire[1].op = "submit" => o \in Tickets
      BY <2>1, CommandTypes
    <2>3. \/ wire' = rest
          \/ wire[1].op = "submit" /\ \E q \in Int : Fill(pos, q, bar.close, rest)
      <3>1. wire[1].op = "submit" => pos + o.side * o.qty \in Int /\ Reduced(o, pos) \in Int
        BY <1>1, <2>2, FilledTypes
      <3>2. \/ wire' = rest
            \/ wire[1].op = "submit" /\ Fill(pos, pos + o.side * o.qty, bar.close, rest)
            \/ wire[1].op = "submit" /\ Fill(pos, Reduced(o, pos), bar.close, rest)
        <4>1. wire[1].op \in {"cancel_all", "cancel", "submit"}
          BY <2>1, CommandTypes
        <4> QED BY <1>2, <2>1, <4>1 DEF Process
      <3> QED BY <3>1, <3>2
    <2> HIDE DEF rest, o
    <2>4. Entries(wire') = Entries(rest)
      BY <1>1, <2>1, <2>3, FillSends DEF rest
    <2>5. Cardinality(Entries(rest)) <= Cardinality(Entries(wire))
      BY <1>1, <2>1, EntriesOfTail DEF rest
    <2> QED BY <2>4, <2>5
  <1>3. ASSUME NEW o \in working, Trigger(o)
        PROVE  Cardinality(Entries(wire')) <= Cardinality(Entries(wire))
    <2>1. o \in Orders /\ o.price \in Int
      BY <1>1 DEF WireTypes, Orders
    <2>2. Reduced(o, pos) \in Int
      BY <1>1, <2>1, FilledTypes
    <2>3. wire' = wire \/ Fill(pos, Reduced(o, pos), o.price, wire)
      BY <1>3 DEF Trigger
    <2>4. Entries(wire') = Entries(wire)
      BY <1>1, <2>1, <2>2, <2>3, FillSends
    <2>5. Cardinality(Entries(wire)) \in Nat
      BY <1>1, EntriesCounted
    <2> QED BY <2>4, <2>5
  <1> QED BY <1>2, <1>3

LEMMA HoursInit ==
  ASSUME Init
  PROVE  HoursInv
  BY DEF Init, HoursInv

\* An entry is called for inside the trading hours, at this bar or, when a
\* validation run delayed it, at the bar before: the one place that sends an
\* entry without a look at the filters executes an action that passed them.
THEOREM EntriesInHours == Spec => EntersInHours
  <1>1. ASSUME OrdersInv, HoursInv, [Next]_vars,
               Cardinality(Entries(wire')) > Cardinality(Entries(wire))
        PROVE  Quiet(dsl, n) \/ (dsl.delays /\ Quiet(dsl, n - 1))
    <2>1. Cardinality(Entries(wire)) \in Nat
      BY <1>1, EntriesCounted DEF OrdersInv, WireTypes
    <2>2. wire' # wire
      BY <1>1, <2>1
    <2>3. Cardinality(Entries(wire')) \in Nat
      BY <1>1, OrdersStep, EntriesCounted DEF OrdersInv, WireTypes
    <2>4. ~ Process /\ ~ (\E o \in working : Trigger(o))
      BY <1>1, <2>1, <2>3, NoneEnter
    <2>5. ~ (\E b \in Bars, v \in [Refs(dsl) -> Levels], g \in Gaps : NewBar(b, v, g))
      BY <2>2 DEF NewBar
    <2>6. ~ NotReady /\ ~ Filtered
      BY <2>2 DEF NotReady, Filtered, Strategize
    <2>7. ~ Stop /\ ~ Reset /\ ~ UNCHANGED vars
      BY <2>2 DEF Stop, Reset, vars
    <2>8. CASE \E q \in Quantities : Dispatch(q)
      BY <1>1, <2>8 DEF Dispatch, DispatchAnd, HoursInv
    <2>9. CASE \E q \in Quantities, delay \in BOOLEAN : Evaluate(q, delay)
      BY <2>9 DEF Evaluate
    <2> QED BY <1>1, <2>4, <2>5, <2>6, <2>7, <2>8, <2>9 DEF Next
  <1>2. Spec => [](OrdersInv /\ HoursInv)
    BY HoursInit, HoursStep, OrdersInit, OrdersStep, PTL DEF Spec
  <1>3. OrdersInv /\ HoursInv /\ [Next]_vars =>
          [Cardinality(Entries(wire')) > Cardinality(Entries(wire))
             => Quiet(dsl, n) \/ (dsl.delays /\ Quiet(dsl, n - 1))]_vars
    BY <1>1
  <1> QED BY <1>2, <1>3, PTL DEF Spec, EntersInHours

-----------------------------------------------------------------------------
(* What is remembered of the bar before.                                    *)

LEMMA MemoryInit ==
  ASSUME Init
  PROVE  MemoryInv
  BY DEF Init, MemoryInv, EMPTY

LEMMA MemoryStep ==
  ASSUME MemoryInv, [Next]_vars
  PROVE  MemoryInv'
  <1>1. ASSUME NEW b \in Bars, NEW v, NEW g \in Gaps, NewBar(b, v, g)
        PROVE  MemoryInv'
    <2>1. UNCHANGED << dsl, prev, was >>
      BY <1>1 DEF NewBar, strategy, history
    <2>2. ~ Ready' => ~ Ready
      BY <1>1, StaysReady
    <2> QED BY <2>1, <2>2 DEF MemoryInv, Unfiltered
  <1>2. ASSUME UNCHANGED << dsl, warm, computed, prev, was >>
        PROVE  MemoryInv'
    BY <1>2 DEF MemoryInv, Ready, Unfiltered
  <1>3. CASE NotReady
    <2>1. UNCHANGED << dsl, warm, computed, prev >> /\ ~ Ready
      BY <1>3 DEF NotReady, market
    <2> QED BY <2>1 DEF MemoryInv, Ready
  <1>4. CASE Filtered
    <2>1. UNCHANGED << dsl, warm, computed, prev >> /\ Ready /\ ~ Quiet(dsl, n)
      BY <1>4 DEF Filtered, market
    <2>2. ~ Unfiltered(dsl)
      BY <2>1 DEF Unfiltered, Quiet, PassesFilters, NearFunding
    <2>3. Ready'
      BY <2>1 DEF Ready, AwaitedKeys
    <2>4. ~ Unfiltered(dsl')
      BY <2>1, <2>2
    <2> QED BY <2>3, <2>4 DEF MemoryInv
  <1>5. ASSUME UNCHANGED << dsl, warm, computed >>, Ready, prev' = UpdatePrev, Remember
        PROVE  MemoryInv'
    <2>1. Ready'
      BY <1>5 DEF Ready, AwaitedKeys
    <2>2. was'.val = val
      BY <1>5 DEF Remember
    <2>3. \A k \in DOMAIN prev' : prev'[k] = val[k]
      BY <1>5 DEF UpdatePrev
    <2> QED BY <2>1, <2>2, <2>3 DEF MemoryInv
  <1>6. ASSUME NEW q \in Quantities, Dispatch(q)
        PROVE  MemoryInv'
    BY <1>5, <1>6 DEF Dispatch, DispatchAnd, market
  <1>7. ASSUME NEW q \in Quantities, NEW delay \in BOOLEAN, Evaluate(q, delay)
        PROVE  MemoryInv'
    BY <1>5, <1>7 DEF Evaluate, market
  <1>8. CASE \E o \in working : Trigger(o)
    BY <1>2, <1>8 DEF Trigger, market
  <1>9. CASE Process \/ Stop \/ Reset
    BY <1>2, <1>9 DEF Process, Stop, Reset, market, history
  <1>10. CASE UNCHANGED vars
    BY <1>2, <1>10 DEF vars, market, strategy, history
  <1> QED BY <1>1, <1>3, <1>4, <1>6, <1>7, <1>8, <1>9, <1>10 DEF Next

\* A crossing that calls for an entry happened at this bar: what it is measured
\* against is the value of the bar before, whatever was done at that bar.
THEOREM CrossingsHappen == Spec => CrossingsAreReal
  <1> DEFINE Calls == fired' # None /\ fired' # "exit" /\ phase = "match" /\ phase' = "settle"
                         /\ Unfiltered(dsl) /\ DOMAIN dsl.sweep = {}
             Real == \A c \in dsl.entry[IF fired' = "long_entry" THEN 1 ELSE -1] :
                        (c.left.kind = "ind" /\ c.op = "above" /\ c.right.kind # "price")
                            => was.val[c.left.key] <= Value(c.right, was.close, was.val)
  <1>1. ASSUME OrdersInv, MemoryInv, [Next]_vars, Calls
        PROVE  Real
    <2>1. PICK q \in Quantities, delay \in BOOLEAN : Evaluate(q, delay)
      <3>1. ~ NotReady /\ ~ Filtered
        BY <1>1 DEF NotReady, Filtered, Strategize
      <3>2. ~ (\E q \in Quantities : Dispatch(q))
        BY <1>1 DEF Dispatch, DispatchAnd, Strategize
      <3>3. ~ Process /\ ~ (\E o \in working : Trigger(o)) /\ ~ Stop /\ ~ Reset
        BY <1>1 DEF Process, Trigger, Stop, Reset
      <3>4. ~ (\E b \in Bars, v \in [Refs(dsl) -> Levels], g \in Gaps : NewBar(b, v, g)) /\ ~ UNCHANGED vars
        BY <1>1 DEF NewBar, vars
      <3> QED BY <1>1, <3>1, <3>2, <3>3, <3>4 DEF Next
    <2>2. fired' = Signal
      BY <2>1 DEF Evaluate, Strategize
    <2> DEFINE s == IF fired' = "long_entry" THEN 1 ELSE -1
    <2>3. s \in Sides /\ Signals(dsl.entry[s])
      BY <1>1, <2>2 DEF Signal, Sides
    <2> HIDE DEF s
    <2> SUFFICES ASSUME NEW c \in dsl.entry[s], c.left.kind = "ind", c.op = "above", c.right.kind # "price"
                 PROVE  was.val[c.left.key] <= Value(c.right, was.close, was.val)
      BY DEF s
    <2>4. HasBefore(c) /\ Before(c.left, bar.close) <= Before(c.right, bar.close)
      <3>1. Holds(c)
        BY <2>3 DEF Signals
      <3> QED BY <3>1 DEF Holds
    <2>5. \A k \in DOMAIN prev : prev[k] = was.val[k]
      BY <1>1 DEF MemoryInv
    <2>6. Before(c.left, bar.close) = was.val[c.left.key]
      BY <2>4, <2>5 DEF HasBefore, Before
    <2>7. c.right.kind \in {"num", "ind"}
      <3>1. c \in Conditions(dsl) /\ c.right \in Operands(c) /\ dsl \in Strategies
        BY <1>1, <2>3 DEF Conditions, Operands, OrdersInv, WireTypes
      <3>2. c.right.kind \in {"num", "price", "ind"}
        BY <3>1, ProgramAssumption
      <3> QED BY <3>2
    <2>8. Before(c.right, bar.close) = Value(c.right, was.close, was.val)
      <3>1. CASE c.right.kind = "num"
        BY <3>1 DEF Before, Value
      <3>2. CASE c.right.kind = "ind"
        BY <2>4, <2>5, <3>2 DEF HasBefore, Before, Value
      <3> QED BY <2>7, <3>1, <3>2
    <2> QED BY <2>4, <2>6, <2>8
  <1>2. Spec => [](OrdersInv /\ MemoryInv)
    BY MemoryInit, MemoryStep, OrdersInit, OrdersStep, PTL DEF Spec
  <1>3. OrdersInv /\ MemoryInv /\ [Next]_vars => [Calls => Real]_vars
    BY <1>1
  <1> QED BY <1>2, <1>3, PTL DEF Spec, CrossingsAreReal

-----------------------------------------------------------------------------
(* Types.                                                                   *)

KeysOf(d) == UNION {OutputKeys(d, i) : i \in DOMAIN d.specs}

\* The part of the state that only the strategy and the indicators write.
ValueTypes ==
  /\ n \in 0 .. MaxBars /\ DOMAIN val = Refs(dsl) /\ DOMAIN prev \subseteq Remembered(dsl)
  /\ warm \in BOOLEAN /\ computed \subseteq KeysOf(dsl) /\ Len(best) <= 1

LEMMA AwaitedAreKeys ==
  ASSUME NEW d
  PROVE  AwaitedKeys(d) \subseteq KeysOf(d)
  BY DEF AwaitedKeys, KeysOf

LEMMA ValuesInit ==
  ASSUME Init
  PROVE  ValueTypes
  <1>1. Len(best) <= 1 /\ DOMAIN prev = {} /\ n \in 0 .. MaxBars
    BY ProgramAssumption DEF Init, EMPTY
  <1> QED BY <1>1 DEF Init, ValueTypes

LEMMA ValuesStep ==
  ASSUME ValueTypes, [Next]_vars
  PROVE  ValueTypes'
  <1>1. ASSUME NEW b \in Bars, NEW v \in [Refs(dsl) -> Levels], NEW g \in Gaps, NewBar(b, v, g)
        PROVE  ValueTypes'
    <2>1. dsl' = dsl /\ n < MaxBars /\ n' = n + 1 /\ val' = v /\ warm' \in BOOLEAN /\ UNCHANGED << prev, best >>
      BY <1>1 DEF NewBar, strategy
    <2>2. n' \in 0 .. MaxBars
      BY <2>1, ProgramAssumption DEF ValueTypes
    <2>3. computed' \subseteq computed \cup AwaitedKeys(dsl)
      BY <1>1 DEF NewBar
    <2>4. computed' \subseteq KeysOf(dsl')
      BY <2>1, <2>3, AwaitedAreKeys DEF ValueTypes
    <2>5. DOMAIN val' = Refs(dsl') /\ DOMAIN prev' \subseteq Remembered(dsl')
      BY <2>1 DEF ValueTypes
    <2> QED BY <2>1, <2>2, <2>4, <2>5 DEF ValueTypes
  <1>2. ASSUME UNCHANGED << dsl, n, val, prev, warm, computed, best >>
        PROVE  ValueTypes'
    BY <1>2 DEF ValueTypes, KeysOf
  <1>3. ASSUME UNCHANGED << dsl, n, val, warm, computed >>, prev' = UpdatePrev,
               best' = best \/ best' = << NewStop >>
        PROVE  ValueTypes'
    <2> DEFINE s == NewStop
    <2>a. Len(<< s >>) = 1
      <3> HIDE DEF s
      <3> QED OBVIOUS
    <2>1. Len(best') <= 1
      <3>1. CASE best' = best
        <4>1. Len(best) <= 1
          BY DEF ValueTypes
        <4> QED BY <3>1, <4>1
      <3>2. CASE best' = << s >>
        <4>1. Len(best') = 1
          BY <2>a, <3>2
        <4> QED BY <4>1
      <3> QED BY <1>3, <3>1, <3>2
    <2> HIDE DEF s
    <2>2. DOMAIN prev' \subseteq Remembered(dsl')
      BY <1>3 DEF UpdatePrev
    <2> QED BY <1>3, <2>1, <2>2 DEF ValueTypes, KeysOf
  <1>4. CASE NotReady \/ Filtered
    BY <1>2, <1>4 DEF NotReady, Filtered, Strategize, market
  <1>5. CASE \E q \in Quantities : Dispatch(q)
    BY <1>3, <1>5 DEF Dispatch, DispatchAnd, Strategize, market
  <1>6. CASE \E q \in Quantities, delay \in BOOLEAN : Evaluate(q, delay)
    BY <1>3, <1>6 DEF Evaluate, Strategize, market
  <1>7. CASE Process \/ \E o \in working : Trigger(o)
    BY <1>2, <1>7 DEF Process, Trigger, market
  <1>8. CASE Stop \/ Reset \/ UNCHANGED vars
    BY <1>2, <1>8 DEF Stop, Reset, market, strategy, vars
  <1> QED BY <1>1, <1>4, <1>5, <1>6, <1>7, <1>8 DEF Next

\* The state stays within its types.
THEOREM StrategyTypes == Spec => []TypeOK
  <1>1. ValueTypes /\ OrdersInv => TypeOK
    <2> SUFFICES ASSUME ValueTypes, OrdersInv PROVE TypeOK
      OBVIOUS
    <2>1. side \in {-1, 0, 1}
      BY SignFacts DEF OrdersInv, WireTypes, SideInv
    <2>2. \A o \in working : o.kind \in {"stop", "take"} /\ o.side \in Sides /\ o.qty > 0
      BY DEF OrdersInv, WireTypes, Orders
    <2>3. \A i \in DOMAIN wire : wire[i].op = "submit" => wire[i].order.qty > 0
      <3> SUFFICES ASSUME NEW i \in DOMAIN wire, wire[i].op = "submit" PROVE wire[i].order.qty > 0
        OBVIOUS
      <3>1. wire[i] \in Commands
        BY DEF OrdersInv, WireTypes
      <3>2. wire[i].order.qty \in Nat \ {0}
        BY <3>1, CommandTypes
      <3> QED BY <3>2
    <2>4. /\ dsl \in Strategies /\ bar \in Bars /\ atr \in Gaps /\ pos \in Int /\ phase \in {"match", "settle", "stopped"}
          /\ pending \in {None, "long_entry", "short_entry", "exit"}
      BY DEF OrdersInv, WireTypes
    <2> QED BY <2>1, <2>2, <2>3, <2>4 DEF ValueTypes, KeysOf, TypeOK
  <1>2. Spec => []ValueTypes
    BY ValuesInit, ValuesStep, PTL DEF Spec
  <1> QED BY <1>1, <1>2, OrdersHold, PTL

-----------------------------------------------------------------------------


\* Halted means halted for as long as the timer says, and no longer.
TimerHonest == risk.mode = "halted" => risk.age <= quiet

RiskInv == /\ RiskTypeOK
           /\ ActiveIsSafe
           /\ HaltedTradesNothing
           /\ CooldownObserved
           /\ TimerHonest

\* What a check leaves behind.
Checked(c) == /\ c \in RiskStates
              /\ c.mode = "active" /\ c.start > 0 => WithinLimits(c)
              /\ c.mode = "halted" => c.scale = "zero"

-----------------------------------------------------------------------------

LEMMA ScaleTyped == ASSUME NEW r PROVE ScaleOf(r) \in Scales
  BY DEF ScaleOf, Scales

\* Records of the type stay of the type when fields take values of theirs.
LEMMA ModeTyped ==
  ASSUME NEW r \in RiskStates, NEW m \in {"active", "halted"}, NEW a \in 0 .. Cooldown
  PROVE  /\ [r EXCEPT !.mode = m, !.age = a] \in RiskStates
         /\ [r EXCEPT !.mode = m, !.age = a].mode = m
         /\ [r EXCEPT !.mode = m, !.age = a].scale = r.scale
  BY DEF RiskStates

LEMMA HaltTyped ==
  ASSUME NEW r \in RiskStates, NEW m \in {"active", "halted"}, NEW a \in 0 .. Cooldown,
         NEW z \in Scales
  PROVE  [r EXCEPT !.mode = m, !.age = a, !.scale = z] \in RiskStates
  BY DEF RiskStates

LEMMA ResultTyped ==
  ASSUME NEW r \in RiskStates, NEW k \in 0 .. MaxLosses, NEW p \in Int
  PROVE  LET s == [r EXCEPT !.losses = k, !.pnl = p]
         IN  s \in RiskStates /\ s.mode = r.mode /\ s.scale = r.scale /\ s.age = r.age
  BY DEF RiskStates

LEMMA HaltChecked ==
  ASSUME NEW r \in RiskStates
  PROVE  Checked(Halt(r)) /\ Halt(r).mode = "halted" /\ Halt(r).age = 0
<1>1. Halt(r) \in RiskStates
  <2>1. "halted" \in {"active", "halted"} /\ 0 \in 0 .. Cooldown /\ "zero" \in Scales
    BY RiskConfig DEF Scales
  <2> QED
    BY <2>1, HaltTyped, Zenon DEF Halt
<1>2. Halt(r).mode = "halted" /\ Halt(r).age = 0 /\ Halt(r).scale = "zero"
  BY DEF RiskStates, Halt
<1> QED
  BY <1>1, <1>2 DEF Checked

\* The limits are checked before the size is set, and the size does not depend
\* on anything the check changes.
LEMMA LimitsSettle ==
  ASSUME NEW r \in RiskStates, r.mode = "active", equity \in Nat
  PROVE  /\ Checked(CheckLimits(r))
         /\ CheckLimits(r).mode = "halted" => CheckLimits(r).age = 0
<1> DEFINE f == IF r.start = 0 THEN [r EXCEPT !.start = equity] ELSE r
           g == [f EXCEPT !.scale = ScaleOf(f)]
<1>f. f \in RiskStates /\ f.mode = "active"
  BY DEF RiskStates
<1>same. /\ f.hwm = r.hwm /\ f.mark = r.mark
  BY DEF RiskStates
<1>g. g \in RiskStates /\ g.mode = "active"
  <2>1. ScaleOf(f) \in Scales
    BY ScaleTyped
  <2> QED
    BY <2>1, <1>f DEF RiskStates
<1>gf. /\ g.hwm = f.hwm /\ g.mark = f.mark /\ g.pnl = f.pnl /\ g.start = f.start
       /\ g.losses = f.losses /\ g.scale = ScaleOf(f)
  BY <1>f DEF RiskStates
<1> HIDE DEF g
<1>def. CheckLimits(r) =
          IF DrawdownAtLeast(r, MaxDrawdown) THEN Halt(r)
          ELSE IF f.start = 0 THEN f
          ELSE IF DailyLossBreached(f) \/ LossesBreached(f) THEN Halt(f)
          ELSE IF PositionsBreached(g) THEN Halt(g) ELSE g
  BY DEF CheckLimits, g
<1> HIDE DEF f
<1>1. CASE DrawdownAtLeast(r, MaxDrawdown)
  BY <1>1, <1>def, HaltChecked
<1>2. CASE ~ DrawdownAtLeast(r, MaxDrawdown) /\ f.start = 0
  <2>1. CheckLimits(r) = f
    BY <1>2, <1>def
  <2> QED
    BY <2>1, <1>2, <1>f DEF Checked
<1>3. CASE /\ ~ DrawdownAtLeast(r, MaxDrawdown) /\ f.start # 0
           /\ DailyLossBreached(f) \/ LossesBreached(f)
  BY <1>3, <1>def, <1>f, HaltChecked
<1>4. CASE /\ ~ DrawdownAtLeast(r, MaxDrawdown) /\ f.start # 0
           /\ ~ (DailyLossBreached(f) \/ LossesBreached(f)) /\ PositionsBreached(g)
  BY <1>4, <1>def, <1>g, HaltChecked
<1>5. CASE /\ ~ DrawdownAtLeast(r, MaxDrawdown) /\ f.start # 0
           /\ ~ (DailyLossBreached(f) \/ LossesBreached(f)) /\ ~ PositionsBreached(g)
  <2>1. CheckLimits(r) = g
    BY <1>5, <1>def
  <2>2. ~ DrawdownAtLeast(g, MaxDrawdown)
    BY <1>5, <1>same, <1>gf DEF DrawdownAtLeast
  <2>3. ~ DailyLossBreached(g)
    BY <1>5, <1>gf DEF DailyLossBreached
  <2>4. g.losses < MaxLosses
    BY <1>5, <1>gf, <1>g, RiskConfig DEF LossesBreached, RiskStates
  <2>5. g.count < MaxPositions
    BY <1>5, <1>g, RiskConfig DEF PositionsBreached, RiskStates
  <2>6. g.scale = ScaleOf(g)
    BY <1>gf DEF ScaleOf, DrawdownAtLeast
  <2> QED
    BY <2>1, <2>2, <2>3, <2>4, <2>5, <2>6, <1>g DEF Checked, WithinLimits
<1> QED
  BY <1>1, <1>2, <1>3, <1>4, <1>5

\* Whatever the handler hands to it, a check settles it; it leaves a halt alone
\* until the cooldown has expired, and a halt it makes starts its timer.
LEMMA CheckSettles ==
  ASSUME NEW r \in RiskStates, equity \in Nat, r.mode = "halted" => r.scale = "zero"
  PROVE  /\ Checked(CheckRisk(r))
         /\ r.mode = "halted" /\ ~ CooldownExpired(r) => CheckRisk(r) = r
         /\ ~ (r.mode = "halted" /\ ~ CooldownExpired(r)) /\ CheckRisk(r).mode = "halted"
              => CheckRisk(r).age = 0
<1>1. CASE r.mode = "halted" /\ ~ CooldownExpired(r)
  BY <1>1 DEF CheckRisk, Checked
<1>2. CASE ~ (r.mode = "halted" /\ ~ CooldownExpired(r))
  <2> DEFINE a == [r EXCEPT !.mode = "active", !.age = 0]
  <2>1. a \in RiskStates /\ a.mode = "active"
    <3>1. "active" \in {"active", "halted"} /\ 0 \in 0 .. Cooldown
      BY RiskConfig
    <3> QED
      BY <3>1, ModeTyped, Zenon DEF a
  <2>2. CheckRisk(r) = CheckLimits(a)
    BY <1>2 DEF CheckRisk
  <2> HIDE DEF a
  <2> QED
    BY <1>2, <2>1, <2>2, LimitsSettle
<1> QED
  BY <1>1, <1>2

\* A handler ends in a check of a state that differs from the actor's in its
\* figures only: mode, size and timer are the check's to change.
LEMMA CheckKeeps ==
  ASSUME RiskInv, NEW r \in RiskStates, Check(r),
         r.mode = risk.mode, r.scale = risk.scale, r.age = risk.age
  PROVE  RiskInv'
<1>1. equity \in Nat
  BY RiskConfig DEF RiskInv, RiskTypeOK
<1>2. /\ risk' = CheckRisk(r)
      /\ quiet' = IF CheckRisk(r).mode = "halted"
                     /\ (risk.mode = "active" \/ CheckRisk(r).age < risk.age) THEN 0 ELSE quiet
      /\ UNCHANGED <<equity, open, clock>>
  BY DEF Check
<1>3. /\ Checked(CheckRisk(r))
      /\ r.mode = "halted" /\ ~ CooldownExpired(r) => CheckRisk(r) = r
      /\ ~ (r.mode = "halted" /\ ~ CooldownExpired(r)) /\ CheckRisk(r).mode = "halted"
           => CheckRisk(r).age = 0
  BY <1>1, CheckSettles DEF RiskInv, HaltedTradesNothing
<1>4. RiskTypeOK'
  BY <1>2, <1>3, RiskConfig DEF RiskInv, RiskTypeOK, Checked
<1>5. ActiveIsSafe'
  BY <1>2, <1>3 DEF Checked, ActiveIsSafe, WithinLimits, DrawdownAtLeast,
                    DailyLossBreached, ScaleOf
<1>6. HaltedTradesNothing'
  BY <1>2, <1>3 DEF Checked, HaltedTradesNothing
<1>7. risk.mode \in {"active", "halted"} /\ risk.age \in 0 .. Cooldown
      /\ quiet \in 0 .. Cooldown /\ Cooldown \in Nat
  BY RiskConfig DEF RiskInv, RiskTypeOK, RiskStates
<1>8. CASE r.mode = "halted" /\ ~ CooldownExpired(r)
  <2>1. quiet' = quiet /\ risk' = r
    BY <1>2, <1>3, <1>7, <1>8
  <2> QED
    BY <1>4, <1>5, <1>6, <1>8, <2>1
    DEF RiskInv, CooldownObserved, TimerHonest
<1>9. CASE ~ (r.mode = "halted" /\ ~ CooldownExpired(r))
  <2>1. quiet >= Cooldown
    BY <1>7, <1>9 DEF RiskInv, CooldownObserved, TimerHonest, CooldownExpired
  <2>2. CASE CheckRisk(r).mode = "halted"
    <3>1. risk'.age = 0 /\ risk'.mode = "halted"
      BY <1>2, <1>3, <1>9, <2>2
    <3>2. quiet' \in Nat
      BY <1>2, <1>7
    <3> QED
      BY <1>4, <1>5, <1>6, <3>1, <3>2 DEF RiskInv, CooldownObserved, TimerHonest
  <2>3. CASE CheckRisk(r).mode # "halted"
    <3>1. risk'.mode # "halted" /\ quiet' = quiet
      BY <1>2, <2>3
    <3> QED
      BY <1>4, <1>5, <1>6, <2>1, <3>1 DEF RiskInv, CooldownObserved, TimerHonest
  <2> QED
    BY <2>2, <2>3
<1> QED
  BY <1>8, <1>9

-----------------------------------------------------------------------------

LEMMA InitInv == RiskInit => RiskInv
<1> SUFFICES ASSUME RiskInit PROVE RiskInv
  OBVIOUS
<1>1. RiskTypeOK
  BY RiskConfig DEF RiskInit, RiskTypeOK, RiskStates, Scales
<1>2. risk.mode = "active" /\ WithinLimits(risk)
  BY RiskConfig DEF RiskInit, WithinLimits, DrawdownAtLeast, DailyLossBreached, ScaleOf
<1>3. quiet >= Cooldown
  BY RiskConfig DEF RiskInit
<1> QED
  BY <1>1, <1>2, <1>3 DEF RiskInv, ActiveIsSafe, HaltedTradesNothing, CooldownObserved, TimerHonest

\* The figures a handler takes are of the actor's types.
LEMMA FiguresTyped ==
  ASSUME NEW r \in RiskStates, equity \in Nat
  PROVE  /\ DailyReset(r) \in RiskStates /\ Marked(r) \in RiskStates
         /\ DailyReset(r).mode = r.mode /\ DailyReset(r).scale = r.scale /\ DailyReset(r).age = r.age
         /\ Marked(r).mode = r.mode /\ Marked(r).scale = r.scale /\ Marked(r).age = r.age
<1>1. ASSUME NEW b \in BOOLEAN, NEW p \in Int, NEW q \in Nat
      PROVE  LET d == [r EXCEPT !.old = b, !.pnl = p, !.start = q]
             IN  d \in RiskStates /\ d.mode = r.mode /\ d.scale = r.scale /\ d.age = r.age
  BY DEF RiskStates
<1>2. ASSUME NEW h \in Nat, NEW k \in Nat
      PROVE  LET d == [r EXCEPT !.hwm = h, !.mark = k]
             IN  d \in RiskStates /\ d.mode = r.mode /\ d.scale = r.scale /\ d.age = r.age
  BY DEF RiskStates
<1>3. DailyReset(r) \in RiskStates /\ DailyReset(r).mode = r.mode
      /\ DailyReset(r).scale = r.scale /\ DailyReset(r).age = r.age
  <2>1. FALSE \in BOOLEAN /\ 0 \in Int
    OBVIOUS
  <2>2. CASE r.old
    BY <2>1, <2>2, <1>1, Zenon DEF DailyReset
  <2>3. CASE ~ r.old
    BY <2>3, Zenon DEF DailyReset
  <2> QED
    BY <2>2, <2>3
<1>4. (IF equity > r.hwm THEN equity ELSE r.hwm) \in Nat
  BY DEF RiskStates
<1>5. Marked(r) \in RiskStates /\ Marked(r).mode = r.mode
      /\ Marked(r).scale = r.scale /\ Marked(r).age = r.age
  BY <1>2, <1>4 DEF Marked
<1> QED
  BY <1>3, <1>5

LEMMA NextInv == RiskInv /\ [RiskNext]_riskVars => RiskInv'
<1> SUFFICES ASSUME RiskInv, [RiskNext]_riskVars PROVE RiskInv'
  OBVIOUS
<1>t. risk \in RiskStates /\ equity \in Nat /\ open \in 0 .. MaxOpen /\ MaxOpen \in Nat
  BY RiskConfig DEF RiskInv, RiskTypeOK
<1>1. CASE OnOrderFilled
  BY <1>1, <1>t, FiguresTyped, CheckKeeps DEF OnOrderFilled
<1>2. CASE OnPositionChanged
  <2>1. PICK c \in Counts : Check([risk EXCEPT !.count = c])
    BY <1>2 DEF OnPositionChanged
  <2>2. c \in 0 .. MaxOpen
    BY <1>t DEF Counts
  <2> DEFINE r == [risk EXCEPT !.count = c]
  <2>3. r \in RiskStates /\ r.mode = risk.mode /\ r.scale = risk.scale /\ r.age = risk.age
    BY <1>t, <2>2 DEF RiskStates
  <2> HIDE DEF r
  <2>4. Check(r)
    BY <2>1 DEF r
  <2> QED
    BY <2>3, <2>4, CheckKeeps
<1>3. CASE OnPositionClosed
  <2>1. PICK pnl \in Pnls, c \in Counts :
          Check([Marked([risk EXCEPT !.losses = Streak(risk, pnl), !.pnl = @ + pnl])
                   EXCEPT !.count = c])
    BY <1>3 DEF OnPositionClosed
  <2> DEFINE s == [risk EXCEPT !.losses = Streak(risk, pnl), !.pnl = @ + pnl]
             r == [Marked(s) EXCEPT !.count = c]
  <2>2. c \in 0 .. MaxOpen /\ pnl \in Int
    BY <1>t, RiskConfig DEF Counts
  <2>3. Streak(risk, pnl) \in 0 .. MaxLosses
    BY <1>t, <2>2, RiskConfig DEF Streak, RiskStates
  <2>4. s \in RiskStates /\ s.mode = risk.mode /\ s.scale = risk.scale /\ s.age = risk.age
    <3>1. risk.pnl + pnl \in Int
      BY <1>t, <2>2 DEF RiskStates
    <3> QED
      BY <1>t, <2>3, <3>1, ResultTyped
  <2> HIDE DEF s
  <2>5. Marked(s) \in RiskStates /\ Marked(s).mode = risk.mode
        /\ Marked(s).scale = risk.scale /\ Marked(s).age = risk.age
    BY <1>t, <2>4, FiguresTyped
  <2>6. r \in RiskStates /\ r.mode = risk.mode /\ r.scale = risk.scale /\ r.age = risk.age
    BY <2>2, <2>5 DEF RiskStates
  <2>7. Check(r)
    BY <2>1 DEF r, s
  <2> HIDE DEF r
  <2> QED
    BY <2>6, <2>7, CheckKeeps
<1>4. CASE CheckNow
  BY <1>4, <1>t, CheckKeeps DEF CheckNow
<1>5. CASE Tick
  <2> DEFINE o == risk.old \/ clock' = 0
             a == IF risk.mode = "halted" /\ risk.age < Cooldown THEN risk.age + 1 ELSE risk.age
  <2>o. o \in BOOLEAN
    OBVIOUS
  <2>a. a \in 0 .. Cooldown
    BY <1>t, RiskConfig DEF RiskStates
  <2>r. risk' = [risk EXCEPT !.old = o, !.age = a]
    BY <1>5 DEF Tick
  <2> HIDE DEF o
  <2>1. /\ risk'.hwm = risk.hwm /\ risk'.mark = risk.mark /\ risk'.pnl = risk.pnl
        /\ risk'.start = risk.start /\ risk'.losses = risk.losses /\ risk'.count = risk.count
        /\ risk'.mode = risk.mode /\ risk'.scale = risk.scale
        /\ risk'.age = a
        /\ risk' \in RiskStates
    BY <1>t, <2>o, <2>a, <2>r DEF RiskStates
  <2>2. /\ quiet' = IF quiet < Cooldown THEN quiet + 1 ELSE quiet
        /\ clock' \in 0 .. (DayLength - 1)
        /\ UNCHANGED <<equity, open>>
    BY <1>5, RiskConfig DEF Tick, RiskInv, RiskTypeOK
  <2>3. quiet \in 0 .. Cooldown /\ risk.age \in 0 .. Cooldown /\ Cooldown \in Nat
    BY <1>t, RiskConfig DEF RiskInv, RiskTypeOK, RiskStates
  <2>4. RiskTypeOK'
    BY <2>1, <2>2, <2>3 DEF RiskInv, RiskTypeOK
  <2>5. ActiveIsSafe'
    BY <2>1 DEF RiskInv, ActiveIsSafe, WithinLimits, DrawdownAtLeast, DailyLossBreached, ScaleOf
  <2>6. HaltedTradesNothing' /\ CooldownObserved' /\ TimerHonest'
    BY <2>1, <2>2, <2>3 DEF RiskInv, HaltedTradesNothing, CooldownObserved, TimerHonest
  <2> QED
    BY <2>4, <2>5, <2>6 DEF RiskInv
<1>6. CASE Move
  <2>1. /\ UNCHANGED <<clock, risk, quiet>>
        /\ equity' \in Equities /\ open' \in 0 .. MaxOpen
    BY <1>6 DEF Move, RiskInv, RiskTypeOK
  <2> QED
    BY <2>1 DEF RiskInv, RiskTypeOK, ActiveIsSafe, WithinLimits, DrawdownAtLeast, DailyLossBreached,
                ScaleOf, HaltedTradesNothing, CooldownObserved, TimerHonest
<1>7. CASE UNCHANGED riskVars
  BY <1>7 DEF riskVars, RiskInv, RiskTypeOK, ActiveIsSafe, WithinLimits, DrawdownAtLeast, DailyLossBreached,
              ScaleOf, HaltedTradesNothing, CooldownObserved, TimerHonest
<1> QED
  BY <1>1, <1>2, <1>3, <1>4, <1>5, <1>6, <1>7 DEF RiskNext

\* The invariant holds in every reachable state.
THEOREM Inductive == RiskSpec => []RiskInv
<1>1. RiskInit => RiskInv
  BY InitInv
<1>2. RiskInv /\ [RiskNext]_riskVars => RiskInv'
  BY NextInv
<1> QED
  BY <1>1, <1>2, PTL DEF RiskSpec

\* The actor's figures keep their types (StrategyRiskState).
THEOREM TypeCorrect == RiskSpec => []RiskTypeOK
  BY Inductive, PTL DEF RiskInv

\* An active strategy with a known balance of the day is within every limit and
\* trades the size of its drawdown (_check_risk).
THEOREM SafeWhileActive == RiskSpec => []ActiveIsSafe
  BY Inductive, PTL DEF RiskInv

\* A halted strategy has size zero (_halt_strategy).
THEOREM HaltIsZero == RiskSpec => []HaltedTradesNothing
  BY Inductive, PTL DEF RiskInv

\* A halt lasts for the cooldown, counted from the last breach
\* (_check_cooldown_expired).
THEOREM HaltLasts == RiskSpec => []CooldownObserved
  BY Inductive, PTL DEF RiskInv
=============================================================================
