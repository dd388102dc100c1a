------------------------------- MODULE Debate -------------------------------
(***************************************************************************)
(* app/strategies/debate.py and the trade parameters of base.py: how four  *)
(* agents' scores, the strict rules and a plan become a verdict.  Scores   *)
(* and confidence are tenths of a point.  The probability figure, which no *)
(* rule reads, and the second and third targets are left out.              *)
(***************************************************************************)
EXTENDS SetupContext

ValidThreshold == 750
WaitThreshold  == 650

NoTrade == [direction |-> "none", entry |-> 0, sl |-> 0, tp1 |-> 0]
NoSignature == << >>

Plan(direction, entry, sl, tp1) ==
    [direction |-> IF direction = "bullish" THEN "buy" ELSE "sell",
     entry |-> entry, sl |-> sl, tp1 |-> tp1]

\* The stop beyond a level: below it for a buy, above it for a sell.
Beyond(direction, level, buffer) ==
    IF direction = "bullish" THEN level - buffer ELSE level + buffer

RiskOf(direction, entry, sl) == IF direction = "bullish" THEN entry - sl ELSE sl - entry

\* A target of n times the risk, and no plan when the stop is on the wrong side.
\* (RMultipleAnyRisk does not ask on which side the stop is.)
RMultipleAnyRisk(direction, entry, sl, n) ==
    Plan(direction, entry, sl,
         IF direction = "bullish" THEN entry + n * RiskOf(direction, entry, sl)
         ELSE entry - n * RiskOf(direction, entry, sl))
RMultiple(direction, entry, sl, n) ==
    LET risk == RiskOf(direction, entry, sl)
    IN  IF risk <= 0 THEN NoTrade
        ELSE Plan(direction, entry, sl,
                  IF direction = "bullish" THEN entry + n * risk ELSE entry - n * risk)

\* A plan whose target is a price level: the code only asks for some risk.
LevelTarget(direction, entry, sl, tp1) ==
    IF entry = sl THEN NoTrade ELSE Plan(direction, entry, sl, tp1)

\* Reward over risk of at least 2, to two decimals.
RrOk(trade) ==
    /\ trade # NoTrade
    /\ trade.entry # trade.sl
    /\ 200 * Distance(trade.tp1, trade.entry) >= 399 * Distance(trade.entry, trade.sl)

\* (ConfidenceUnweighted forgets the weights of the agents.)
ConfidenceUnweighted(o) ==
    Bounded((250 * (o.opp1 + o.opp2) - 250 * (o.risk1 + o.risk2) + 500000 + 500) \div 1000)
Confidence(o) ==
    Bounded((3 * o.opp1 + 2 * o.opp2 - 3 * o.risk1 - 2 * o.risk2 + 5000 + 5) \div 10)

RiskVerdict(score) ==
    IF score >= 500 THEN "oppose" ELSE IF score >= 300 THEN "neutral" ELSE "support"

HardVeto(o) == \E s \in {o.risk1, o.risk2} : RiskVerdict(s) = "oppose" /\ s > 700

\* The live price is within half the risk of the entry.
AtEntry(trade, price) ==
    /\ trade # NoTrade
    /\ price # Unknown
    /\ 2 * Distance(price, trade.entry) <= Distance(trade.entry, trade.sl)

Verdict(o, trade, strict, price) ==
    IF /\ Confidence(o) >= ValidThreshold
       /\ strict /\ RrOk(trade) /\ ~ HardVeto(o) /\ AtEntry(trade, price)
    THEN "VALID"
    ELSE IF Confidence(o) >= WaitThreshold /\ strict /\ ~ HardVeto(o)
    THEN "WAIT"
    ELSE "NO_TRADE"

\* (PlanKept leaves the plan with a refused result.)
PlanKept(verdict, trade) == trade
PlanOf(verdict, trade) == IF verdict = "NO_TRADE" THEN NoTrade ELSE trade

ComputeVerdict(o, trade, strict, price, signature) ==
    LET verdict == Verdict(o, trade, strict, price)
    IN  [verdict |-> verdict, confidence |-> Confidence(o),
         trade |-> PlanOf(verdict, trade),
         signature |-> signature, opinions |-> o]

Opinions(opp1, opp2, risk1, risk2) ==
    [opp1 |-> opp1, opp2 |-> opp2, risk1 |-> risk1, risk2 |-> risk2]
=============================================================================
