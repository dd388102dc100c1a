---------------------------- MODULE ReclaimedFvg ----------------------------
(* Strategy 13, Reclaimed FVG: a gap whose middle held twice.                *)
EXTENDS Debate

Reclaimed(c) == {i \in DOMAIN c.fvgs :
                    /\ c.fvgs[i].state \in {"formed", "retested", "partially_filled"}
                    /\ ~ c.fvgs[i].failed /\ c.fvgs[i].tests >= 2}
Setup(c) == Newest(c.fvgs, Reclaimed(c))

\* Any gap of the context that has failed a test.
Breached(c) == \E i \in DOMAIN c.fvgs : c.fvgs[i].failed

Opp1(c) == IF Reclaimed(c) = {} THEN 0 ELSE 700 + Pts(Setup(c).tests >= 3, 10)

Opp2(c) ==
    LET size == Setup(c).top - Setup(c).bottom
    IN  450 + (IF Reclaimed(c) = {} THEN 0
               ELSE 100 + (IF size <= Pips(1) THEN 200 ELSE Pts(size <= Pips(3), 10)))
            + Pts(c.zone \in MainSessions, 10)

Risk1(c) == 100 + (IF Breached(c) THEN 800 ELSE Pts(Reclaimed(c) = {}, 40))

Risk2(c) == 100 + Pts(c.zone = "none", 15) + Pts(c.spreadHigh, 20)

Trade(c) ==
    IF Reclaimed(c) = {} THEN NoTrade
    ELSE LET f == Setup(c)
             edge == IF f.direction = "bullish" THEN f.bottom ELSE f.top
         IN  RMultiple(f.direction, CeOf(f), Beyond(f.direction, edge, Pips(5)), 2)

Signature(c) ==
    IF Reclaimed(c) = {} THEN NoSignature
    ELSE << Setup(c).direction, Rnd(Setup(c).bottom), Rnd(Setup(c).top), Rnd(CeOf(Setup(c))) >>

Evaluate(c) ==
    ComputeVerdict(Opinions(Opp1(c), Opp2(c), Risk1(c), Risk2(c)),
                   Trade(c), Opp1(c) >= 650 /\ ~ Breached(c), c.price, Signature(c))
=============================================================================
