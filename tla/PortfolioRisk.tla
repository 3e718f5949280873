--------------------------- MODULE PortfolioRisk ---------------------------
(***************************************************************************)
(* The portfolio circuit breaker, risk/portfolio_actor.py: it goes from    *)
(* active to halted, back to half size for a cooldown, and to full size.   *)
(* Every handler updates the figures and checks them, in one step.         *)
(***************************************************************************)
EXTENDS Integers, Functions

CONSTANTS
  Instruments,
  Equities,     \* balances of the account; 0 stands for a balance that cannot be read
  Notionals,    \* notional values of the positions of an instrument
  MaxDrawdown, MaxExposure, MaxSingle, MaxHeat,  \* the limits, in percent
  StopDistance, \* the assumed stop distance, in percent
  Cooldown      \* cooldown_after_halt_hours in ticks; 0 is manual resume only

ASSUME PortfolioConfig ==
  /\ Equities \subseteq Nat /\ Notionals \subseteq Nat
  /\ MaxDrawdown \in 1 .. 100 /\ MaxSingle \in 1 .. 100 /\ MaxHeat \in 1 .. 100
  /\ MaxExposure \in Nat \ {0} /\ StopDistance \in Nat
  /\ Cooldown \in Nat

VARIABLES
  equity,  \* what _get_portfolio_equity would return
  book,    \* the notional value open in each instrument
  risk,    \* PortfolioRiskState
  quiet    \* history: ticks since the last halt, up to two cooldowns

vars == <<equity, book, risk, quiet>>

Modes == {"active", "halted", "cooldown"}

\* PortfolioRiskState.  mark and base are the equity the drawdown and the exposures were last taken
\* at, noted the notional values then; timer counts from halted_at while halted,
\* from cooldown_started_at in the cooldown.
RiskStates ==
  [hwm : Nat, mark : Nat, base : Nat, noted : [Instruments -> Nat],
   mode : Modes, timer : 0 .. Cooldown]

TypeOK ==
  /\ equity \in Equities
  /\ book \in [Instruments -> Notionals \cup {0}]
  /\ risk \in RiskStates
  /\ quiet \in 0 .. (2 * Cooldown)

\* on_start has taken the balance as the first high-water mark.
Init ==
  /\ equity \in Equities
  /\ book = [i \in Instruments |-> 0]
  /\ risk = [hwm |-> equity, mark |-> equity, base |-> 0,
             noted |-> [i \in Instruments |-> 0], mode |-> "active", timer |-> 0]
  /\ quiet = 2 * Cooldown

-----------------------------------------------------------------------------
(* The figures *)

Sum(f) == FoldFunction(LAMBDA a, b : a + b, 0, f)

DrawdownBreached(r) == r.hwm > 0 /\ (r.hwm - r.mark) * 100 >= MaxDrawdown * r.hwm

\* A share of the equity; none before the first update.
AtLeast(r, notional, pct) == r.base > 0 /\ notional * 100 >= pct * r.base

ExposureBreached(r)      == AtLeast(r, Sum(r.noted), MaxExposure)

ConcentrationBreached(r) == \E i \in Instruments : AtLeast(r, r.noted[i], MaxSingle)
HeatBreached(r)          == AtLeast(r, StopDistance * Sum(r.noted), 100 * MaxHeat)

Breached(r) == DrawdownBreached(r) \/ ExposureBreached(r)
               \/ ConcentrationBreached(r) \/ HeatBreached(r)

\* _update_state: nothing without a balance; the exposures stay as they were
\* when the cache raises.
Updates(r) ==
  LET m == [r EXCEPT !.hwm = IF equity > @ THEN equity ELSE @, !.mark = equity]
  IN  IF equity = 0 THEN {r} ELSE {m, [m EXCEPT !.base = equity, !.noted = book]}

-----------------------------------------------------------------------------
(* The state machine of _check_risk *)

\* _halt_portfolio
Halt(r) == [r EXCEPT !.mode = "halted", !.timer = 0]

Expired(r) == Cooldown > 0 /\ r.timer >= Cooldown

\* The halt's cooldown is over: a second one starts now.
AfterHalt(r) == IF Expired(r) THEN [r EXCEPT !.mode = "cooldown", !.timer = 0] ELSE r

\* Mutant: full size as soon as a cooldown check passes.
AfterCooldown_AtOnce(r) == [r EXCEPT !.mode = "active", !.timer = 0]

AfterCooldown(r) == IF Expired(r) THEN [r EXCEPT !.mode = "active", !.timer = 0] ELSE r

\* Mutant: the limits are not looked at in the cooldown.
CheckRisk_ActiveOnly(r) ==
  LET h == IF r.mode = "halted" THEN AfterHalt(r) ELSE r
      c == IF h.mode = "cooldown" THEN AfterCooldown(h) ELSE h
  IN  IF c.mode = "active" /\ Breached(c) THEN Halt(c) ELSE c

\* The limits bind in the cooldown too.
CheckRisk(r) ==
  LET h == IF r.mode = "halted" THEN AfterHalt(r) ELSE r
      c == IF h.mode = "cooldown" THEN AfterCooldown(h) ELSE h
  IN  IF h.mode = "halted" THEN h ELSE IF Breached(c) THEN Halt(c) ELSE c

\* position_size_scale
Scale(r) == CASE r.mode = "halted"   -> "none"
              [] r.mode = "cooldown" -> "reduced"
              [] r.mode = "active"   -> "full"

\* on_order_filled, on_position_changed, on_position_closed and
\* check_portfolio_risk do the same.
Handle ==
  \E r \in Updates(risk) :
    /\ risk' = CheckRisk(r)
    /\ quiet' = IF risk'.mode = "halted" /\ (risk.mode # "halted" \/ risk'.timer < risk.timer)
                THEN 0 ELSE quiet
    /\ UNCHANGED <<equity, book>>

-----------------------------------------------------------------------------
(* The world: time and the account *)

Tick ==
  /\ risk' = [risk EXCEPT !.timer =
                IF risk.mode # "active" /\ @ < Cooldown THEN @ + 1 ELSE @]
  /\ quiet' = IF quiet < 2 * Cooldown THEN quiet + 1 ELSE quiet
  /\ UNCHANGED <<equity, book>>

Move ==
  /\ \/ equity' \in Equities /\ book' = book
     \/ equity' = equity /\ \E i \in Instruments, n \in Notionals :
                              book' = [book EXCEPT ![i] = n]
  /\ UNCHANGED <<risk, quiet>>

Next == Handle \/ Tick \/ Move

Spec == Init /\ [][Next]_vars

-----------------------------------------------------------------------------
(* Properties *)

\* A portfolio that may trade, at full or at reduced size, is within all four
\* limits by the figures last taken, however updates, failed reads and cooldowns
\* interleave (_check_risk).
TradingIsSafe == risk.mode # "halted" => ~ Breached(risk)

\* After a halt, reduced size comes no sooner than one cooldown after the last
\* breach and full size no sooner than two (position_size_scale).
SizeIsEarned ==
  /\ Scale(risk) # "none" => quiet >= Cooldown
  /\ Scale(risk) = "full" => quiet >= 2 * Cooldown

\* A halted portfolio returns to full size through the cooldown only, however
\* long no event makes the actor check.
ThroughCooldown == [][risk.mode = "halted" => risk'.mode # "active"]_vars
=============================================================================
