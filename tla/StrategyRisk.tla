---------------------------- MODULE StrategyRisk ----------------------------
(***************************************************************************)
(* The strategy circuit breaker, risk/strategy_actor.py.  The actor runs   *)
(* on Nautilus' message bus, so a handler is one step; what it reads, the  *)
(* account's balance and the open positions, moves between its steps, and  *)
(* each read may fail.  Percentages are compared by cross-multiplication,  *)
(* which is what Decimal computes.                                         *)
(***************************************************************************)
EXTENDS Integers

CONSTANTS
  Equities,    \* balances of the account; 0 stands for a balance that cannot be read
  Pnls,        \* realized results of a position
  MaxOpen,     \* bound: open positions
  MaxPnl,      \* bound: result of a day, in absolute value
  MaxDrawdown, MaxDailyLoss,  \* max_drawdown_pct, max_daily_loss_pct, in percent
  DrawdownScale,              \* drawdown_scale_pct, in percent
  MaxLosses,                  \* max_consecutive_losses
  MaxPositions,               \* max_position_count
  Cooldown,                   \* cooldown_after_halt_hours in ticks; 0 is manual resume only
  DayLength                   \* ticks of a day

ASSUME RiskConfig ==
  /\ Equities \subseteq Nat /\ Pnls \subseteq Int
  /\ MaxOpen \in Nat /\ MaxPnl \in Nat
  /\ MaxDrawdown \in 1 .. 100 /\ MaxDailyLoss \in 1 .. 100
  /\ DrawdownScale \in 1 .. (MaxDrawdown - 1)
  /\ MaxLosses \in Nat \ {0} /\ MaxPositions \in Nat \ {0}
  /\ Cooldown \in Nat /\ DayLength \in Nat \ {0}

VARIABLES
  equity,   \* what _get_current_equity would return
  open,     \* what positions_open would return
  clock,    \* tick of the day
  risk,     \* StrategyRiskState
  quiet     \* history: ticks since the last halt, up to Cooldown

riskVars == <<equity, open, clock, risk, quiet>>

\* How much of its size the strategy may trade, by zone of
\* _update_position_scale_factor: 1, from 1 to 0.5, from 0.5 to 0, and 0.
Scales == {"full", "upper", "lower", "zero"}

\* StrategyRiskState.  mark is the equity of the last update, so the drawdown is
\* (hwm - mark) / hwm; old says that current_date is not today; age counts from
\* halted_at; losses saturates at the limit.
RiskStates ==
  [hwm : Nat, mark : Nat, pnl : Int, start : Nat, losses : 0 .. MaxLosses,
   old : BOOLEAN, mode : {"active", "halted"}, count : 0 .. MaxOpen,
   scale : Scales, age : 0 .. Cooldown]

RiskTypeOK ==
  /\ equity \in Equities
  /\ open \in 0 .. MaxOpen
  /\ clock \in 0 .. (DayLength - 1)
  /\ risk \in RiskStates
  /\ quiet \in 0 .. Cooldown

\* on_start has taken the day's first balance, not the high-water mark.
RiskInit ==
  /\ equity \in Equities
  /\ open = 0
  /\ clock = 0
  /\ risk = [hwm |-> 0, mark |-> 0, pnl |-> 0, start |-> equity, losses |-> 0,
             old |-> FALSE, mode |-> "active", count |-> 0, scale |-> "full", age |-> 0]
  /\ quiet = Cooldown

-----------------------------------------------------------------------------
(* The checks *)

DrawdownAtLeast(r, pct) == r.hwm > 0 /\ (r.hwm - r.mark) * 100 >= pct * r.hwm
DailyLossBreached(r)    == r.pnl < 0 /\ (- r.pnl) * 100 >= MaxDailyLoss * r.start

\* Mutant: the streak is compared with > .
LossesBreached_OffByOne(r) == r.losses > MaxLosses

LossesBreached(r)    == r.losses >= MaxLosses
PositionsBreached(r) == r.count >= MaxPositions

ScaleOf(r) ==
  IF r.mark >= r.hwm THEN "full"
  ELSE IF ~ DrawdownAtLeast(r, DrawdownScale) THEN "upper"
  ELSE IF ~ DrawdownAtLeast(r, MaxDrawdown) THEN "lower" ELSE "zero"

\* _halt_strategy
Halt(r) == [r EXCEPT !.mode = "halted", !.age = 0, !.scale = "zero"]

\* Without a balance for the day the check ends early.
CheckLimits(r) ==
  LET f == IF r.start = 0 THEN [r EXCEPT !.start = equity] ELSE r
      g == [f EXCEPT !.scale = ScaleOf(f)]
  IN  IF DrawdownAtLeast(r, MaxDrawdown) THEN Halt(r)
      ELSE IF f.start = 0 THEN f
      ELSE IF DailyLossBreached(f) \/ LossesBreached(f) THEN Halt(f)
      ELSE IF PositionsBreached(g) THEN Halt(g) ELSE g

CooldownExpired(r) == Cooldown > 0 /\ r.age >= Cooldown

\* _check_risk: a halt lasts until the cooldown is over and a check is made.
CheckRisk(r) ==
  IF r.mode = "halted" /\ ~ CooldownExpired(r) THEN r
  ELSE CheckLimits([r EXCEPT !.mode = "active", !.age = 0])

\* Every handler ends in a check.  A halt shows as a timer started anew.
Check(r) ==
  LET c == CheckRisk(r)
  IN  /\ risk' = c
      /\ quiet' = IF c.mode = "halted" /\ (risk.mode = "active" \/ c.age < risk.age)
                  THEN 0 ELSE quiet
      /\ UNCHANGED <<equity, open, clock>>

-----------------------------------------------------------------------------
(* The handlers *)

\* Mutant: a new day lifts the halt.
DailyReset_LiftsHalt(r) ==
  IF r.old THEN [r EXCEPT !.old = FALSE, !.pnl = 0, !.start = equity, !.mode = "active"] ELSE r

\* _check_daily_reset
DailyReset(r) ==
  IF r.old THEN [r EXCEPT !.old = FALSE, !.pnl = 0, !.start = equity] ELSE r

\* _update_hwm_and_drawdown: skipped without a balance.
Marked(r) ==
  IF equity = 0 THEN r
  ELSE [r EXCEPT !.hwm = IF equity > @ THEN equity ELSE @, !.mark = equity]

\* _update_position_count: 0 when the cache raises.
Counts == {open, 0}

OnOrderFilled == Check(Marked(DailyReset(risk)))

OnPositionChanged == \E c \in Counts : Check([risk EXCEPT !.count = c])

\* A close adds to the streak or ends it.
Streak(r, pnl) == IF pnl >= 0 THEN 0
                  ELSE IF r.losses < MaxLosses THEN r.losses + 1 ELSE MaxLosses

OnPositionClosed ==
  \E pnl \in Pnls, c \in Counts :
    /\ risk.pnl + pnl \in (- MaxPnl) .. MaxPnl
    /\ Check([Marked([risk EXCEPT !.losses = Streak(risk, pnl), !.pnl = @ + pnl])
                EXCEPT !.count = c])

\* The public check_risk.
CheckNow == Check(risk)

-----------------------------------------------------------------------------
(* The world: time and the account *)

\* Time passes: the halt ages, and with a new day current_date is old.
Tick ==
  /\ clock' = (clock + 1) % DayLength
  /\ risk' = [risk EXCEPT
       !.old = @ \/ clock' = 0,
       !.age = IF risk.mode = "halted" /\ @ < Cooldown THEN @ + 1 ELSE @]
  /\ quiet' = IF quiet < Cooldown THEN quiet + 1 ELSE quiet
  /\ UNCHANGED <<equity, open>>

\* The balance or the positions move, or the balance cannot be read.
Move ==
  /\ \/ equity' \in Equities /\ open' = open
     \/ open' \in 0 .. MaxOpen /\ equity' = equity
  /\ UNCHANGED <<clock, risk, quiet>>

RiskNext ==
  \/ OnOrderFilled \/ OnPositionChanged \/ OnPositionClosed \/ CheckNow
  \/ Tick \/ Move

RiskSpec == RiskInit /\ [][RiskNext]_riskVars

-----------------------------------------------------------------------------
(* Properties *)

WithinLimits(r) ==
  /\ ~ DrawdownAtLeast(r, MaxDrawdown)
  /\ ~ DailyLossBreached(r)
  /\ r.losses < MaxLosses
  /\ r.count < MaxPositions
  /\ r.scale = ScaleOf(r)

\* An active strategy whose day has a known balance is within every limit, as of
\* the figures the actor last took, and trades the size its drawdown allows: no
\* order of fills, closes, failed reads, resets and cooldowns leaves it active
\* on a breach (_check_risk).
ActiveIsSafe == risk.mode = "active" /\ risk.start > 0 => WithinLimits(risk)

\* A halted strategy has size zero, whichever limit halted it and in whatever
\* order its figures and its size were updated.
HaltedTradesNothing == risk.mode = "halted" => risk.scale = "zero"

\* A strategy that is active has not been halted for the length of the cooldown:
\* neither a new day, nor a recovery, nor a second breach shortens a halt.
CooldownObserved == risk.mode = "active" => quiet >= Cooldown
=============================================================================
