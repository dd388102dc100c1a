-------------------------- MODULE MarketMakerModel --------------------------
(* Strategy 09, Market Maker Model: the reversal after a broken              *)
(* consolidation.                                                            *)
EXTENDS Debate

Reversal(c) == c.mmm.phase = 3

EntryFvgs(c) == IF Reversal(c) /\ RecentMss(c, 30) # {}
                THEN UsableOf(c, c.mmm.direction) ELSE {}

Opp1(c) == IF ~ Reversal(c) THEN 0
           ELSE Share(<< TRUE, RecentMss(c, 30) # {}, EntryFvgs(c) # {},
                         c.bias \in {c.mmm.direction, "neutral"} >>, 100)

Opp2(c) == 450 + Pts(Reversal(c), 25)
               + Pts(Reversal(c) /\ c.mmm.high - c.mmm.low < Pips(100), 10)
               + Pts(c.zone \in MainSessions, 10)

Risk1(c) == 100 + Pts(~ Reversal(c), 70)

Risk2(c) == 100 + Pts(c.spreadHigh, 20) + Pts(c.thinDay, 15)

\* The target of a buy is the low of the consolidation, of a sell its high.
Trade(c) ==
    IF EntryFvgs(c) = {} THEN NoTrade
    ELSE LET d  == c.mmm.direction
             entry == CeOf(Newest(c.fvgs, EntryFvgs(c)))
             sl == Beyond(d, Newest(c.mss, RecentMss(c, 30)).level, Pips(20))
         IN  IF RiskOf(d, entry, sl) <= 0 THEN NoTrade
             ELSE Plan(d, entry, sl, IF d = "bullish" THEN c.mmm.low ELSE c.mmm.high)

Signature(c) ==
    IF ~ Reversal(c) THEN NoSignature
    ELSE << c.mmm.direction, Rnd(c.mmm.low), Rnd(c.mmm.high),
            IF EntryFvgs(c) = {} THEN 0 ELSE Rnd(CeOf(Newest(c.fvgs, EntryFvgs(c)))) >>

Evaluate(c) ==
    ComputeVerdict(Opinions(Opp1(c), Opp2(c), Risk1(c), Risk2(c)),
                   Trade(c), Opp1(c) >= 750 /\ Reversal(c), c.price, Signature(c))
=============================================================================
