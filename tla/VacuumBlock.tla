---------------------------- MODULE VacuumBlock ----------------------------
(* Strategy 12, Vacuum Block: the open price gap nearest to the price.       *)
EXTENDS Debate

Open(c) == {i \in DOMAIN c.gaps : ~ c.gaps[i].filled}
Priced(c) == c.price # Unknown \/ c.m1 # << >>
Here(c) == IF c.price # Unknown THEN c.price ELSE c.m1[Len(c.m1)].c

Found(c) == Open(c) # {} /\ Priced(c)

\* The first of the nearest gaps.
Gap(c) ==
    c.gaps[CHOOSE i \in Open(c) : \A j \in Open(c) :
              LET far(k) == Distance(CeOf(c.gaps[k]), Here(c))
              IN  far(i) < far(j) \/ (far(i) = far(j) /\ i <= j)]

\* Towards the middle of the gap.
Direction(c) == IF Here(c) < CeOf(Gap(c)) THEN "bullish" ELSE "bearish"

MssNear(c) == \E i \in RecentMss(c, 20) : Distance(c.mss[i].level, CeOf(Gap(c))) <= Pips(10)

Opp1(c) == IF ~ Found(c) THEN 0 ELSE Share(<< ~ Gap(c).filled, MssNear(c) >>, 100)

\* The gap's kind gives the score: weekend 80, news 65, session 50.
Opp2(c) == (IF Found(c) THEN Gap(c).score ELSE 400) + Pts(c.zone \in MainSessions, 10)

Risk1(c) == 100 + (IF Found(c) THEN Pts(RecentMss(c, 20) = {}, 25) ELSE 400)

Risk2(c) == 100 + Pts(c.zone \notin MainSessions, 20) + Pts(c.spreadHigh, 20)

Trade(c) ==
    IF ~ Found(c) THEN NoTrade
    ELSE LET d == Direction(c)
             edge == IF d = "bullish" THEN Gap(c).bottom ELSE Gap(c).top
         IN  RMultiple(d, CeOf(Gap(c)), Beyond(d, edge, Pips(5)), 2)

Signature(c) ==
    IF ~ Found(c) THEN NoSignature
    ELSE << Direction(c), Rnd(Gap(c).bottom), Rnd(Gap(c).top), Rnd(CeOf(Gap(c))) >>

Evaluate(c) ==
    ComputeVerdict(Opinions(Opp1(c), Opp2(c), Risk1(c), Risk2(c)),
                   Trade(c), Opp1(c) >= 750, c.price, Signature(c))
=============================================================================
