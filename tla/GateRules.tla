----------------------------- MODULE GateRules -----------------------------
(***************************************************************************)
(* The veto rules of app/gate/decision_gate.py as pure operators: what     *)
(* evaluate_signal decides about one candidate, given what it has read     *)
(* from the database and from the price stream.  Rates are integers:       *)
(* confidence in points, reward-to-risk and spread in tenths.              *)
(***************************************************************************)
EXTENDS Integers, Sequences

CONSTANTS MaxDailyLosses,    \* config/settings.py MAX_DAILY_LOSSES
          MaxMonthlyTrades,  \* config/settings.py MAX_MONTHLY_TRADES
          Cooling            \* config/settings.py POST_STOPLOSS_COOLING_MINUTES

ASSUME GateAssumption == /\ MaxDailyLosses \in Nat
                         /\ MaxMonthlyTrades \in Nat
                         /\ Cooling \in Nat

ValidThreshold == 75
WaitThreshold == 65
RRFloor == 20
MaxSpread == 15

\* No per-strategy strategy_conf_threshold setting; no last_stoploss_t setting.
NoOverride == -1
Never == -1

Verdicts == {"VALID", "WAIT", "NO_TRADE"}

(***************************************************************************)
(* What one evaluation meets besides the signal: the strategy's settings,  *)
(* the day of the week, the calendar and the live spread.                  *)
(***************************************************************************)
ConditionType == [disabled: BOOLEAN, monday: BOOLEAN, news: BOOLEAN,
                  override: Nat \cup {NoOverride}, spread: Nat]

\* The override replaces both global thresholds; a NO_TRADE verdict is held
\* to the WAIT threshold.
Threshold(verdict, override) ==
    IF override # NoOverride THEN override
    ELSE IF verdict = "VALID" THEN ValidThreshold ELSE WaitThreshold

\* The rules screened before the cooling timer is read, in the order in which
\* evaluate_signal returns.
ScreenOrder == << "strategy_disabled", "monday", "news_blackout", "daily_losses",
                  "monthly_cap", "confidence", "rr", "spread" >>

Vetoes == {"strategy_disabled", "monday", "news_blackout", "daily_losses",
           "monthly_cap", "confidence", "rr", "spread", "cooling"}

\* Veto 4.  (CapReachedLate lets one trade too many through.)
CapReachedLate(monthly) == monthly > MaxMonthlyTrades
CapReached(monthly) == monthly >= MaxMonthlyTrades

\* Which rules object to candidate c under the conditions cond.
Objects(c, cond, losses, monthly) ==
    << cond.disabled,
       cond.monday,
       cond.news,
       losses >= MaxDailyLosses,
       CapReached(monthly),
       c.confidence < Threshold(c.verdict, cond.override),
       c.verdict = "VALID" /\ c.rr < RRFloor,
       cond.spread > MaxSpread >>

Passes(c, cond, losses, monthly) ==
    \A r \in 1..8 : ~ Objects(c, cond, losses, monthly)[r]

\* The first rule that objects, for a candidate that does not pass.
FirstVeto(c, cond, losses, monthly) ==
    ScreenOrder[CHOOSE r \in 1..8 :
                    /\ Objects(c, cond, losses, monthly)[r]
                    /\ \A q \in 1..(r - 1) : ~ Objects(c, cond, losses, monthly)[q]]

\* A stop-loss recorded less than Cooling minutes before the evaluation's clock
\* reading, or after it.  (InCoolingShort ends the pause a minute early.)
InCoolingShort(at, lastStop) == lastStop # Never /\ at - lastStop + 1 < Cooling
InCooling(at, lastStop) == lastStop # Never /\ at - lastStop < Cooling
============================================================================
