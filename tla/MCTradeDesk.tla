---------------------------- MODULE MCTradeDesk ----------------------------
(* Instances of TradeDesk for TLC.  Prices 1 to 9: the plans below have their *)
(* stop at 3, entry at 5 and target at 8, or the mirror image.                *)
EXTENDS DeskLedger

Plan(strategy, verdict, confidence, signature) ==
    [strategy |-> strategy, verdict |-> verdict, confidence |-> confidence, rr |-> 20,
     direction |-> "buy", entry |-> 5, sl |-> 3, tp1 |-> 8, tp2 |-> 9,
     signature |-> signature]

\* Two signatures of one five-pip bucket, spelt with different prices.
SweepA == << "bullish", 100, 210, 300 >>
SweepB == << "bullish", 110, 190, 310 >>

ValidBuy == Plan("01_unicorn", "VALID", 80, SweepA)
WaitBuy  == Plan("03_confirmation", "WAIT", 70, SweepB)
ValidSell == [Plan("02_judas", "VALID", 80, << "bearish", 900, 800, 700 >>) EXCEPT
                 !.direction = "sell", !.entry = 5, !.sl = 8, !.tp1 = 3, !.tp2 = 0]

\* WAIT needs no trade parameters; NO_TRADE drops them.
NoPlan == [direction |-> "null", entry |-> 0, sl |-> 0, tp1 |-> 0, tp2 |-> 0, rr |-> 0]
Planless(strategy, verdict, confidence, signature) ==
    [strategy |-> strategy, verdict |-> verdict, confidence |-> confidence,
     signature |-> signature, rr |-> NoPlan.rr, direction |-> NoPlan.direction,
     entry |-> NoPlan.entry, sl |-> NoPlan.sl, tp1 |-> NoPlan.tp1, tp2 |-> NoPlan.tp2]
WaitNoPlan == Planless("14_cisd", "WAIT", 70, SweepB)
NoTrade    == Planless("03_confirmation", "NO_TRADE", 66, SweepA)

Calm == [disabled |-> FALSE, monday |-> FALSE, news |-> FALSE,
         override |-> NoOverride, spread |-> 0]

OneDay  == [t \in Times |-> 0]
\* The month turns at minute 1.
Turn1   == [t \in Times |-> IF t < 1 THEN 0 ELSE 1]

StopButton  == << "sl_hit", "taken" >>
TookButton  == << "open", "taken" >>
SkipButton  == << "open", "skipped" >>

MixedCandidates == {ValidBuy, ValidSell, WaitNoPlan, NoTrade}
PlannedWait     == {WaitBuy}
CalmOnly        == {Calm}
StopOnly        == {StopButton}
StopOrSkip      == {StopButton, SkipButton}
TookOnly        == {TookButton}
StopAndTarget   == {2, 8}
NoPrices        == {}
OnlyStop        == {2}
NoMarks         == {}
=============================================================================
