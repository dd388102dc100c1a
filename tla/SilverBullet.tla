---------------------------- MODULE SilverBullet ----------------------------
(* Strategy 04, Silver Bullet: sweep, shift and FVG within an hour's window. *)
EXTENDS Debate

InSbWindow(c) == c.zone \in {"silver_bullet_london", "silver_bullet_ny_am",
                             "silver_bullet_ny_pm"}

SwingsOf(c, kind) == {i \in DOMAIN c.swings : c.swings[i].kind = kind}

\* The nearest high or the nearest low is at least 15 pips from the live price.
TargetFar(c) ==
    /\ c.price # Unknown /\ SwingsOf(c, "high") # {} /\ SwingsOf(c, "low") # {}
    /\ \E kind \in {"high", "low"} : \A i \in SwingsOf(c, kind) :
          Distance(c.swings[i].price, c.price) >= Pips(15)

Opp1(c) == Share(<< InSbWindow(c), RecentMss(c, 15) # {}, UsableFvgs(c) # {},
                    TargetFar(c) >>, 100)

Opp2(c) == Bounded(500 + Displacement(c, 25) + StructureClarity(c, 15)
                       + Pts(c.bias # "neutral", 10))

Risk1(c) == 150 + Pts(OpposingLiquidity(c), 30) + Pts(c.bias = "neutral", 15)

Risk2(c) == 100 + Pts(~ InSbWindow(c), 40) + Pts(c.spreadHigh, 20)

Trade(c) ==
    IF \/ ~ InSbWindow(c) \/ RecentSweeps(c, 10) = {} \/ UsableFvgs(c) = {}
       \/ RecentMss(c, 15) = {} \/ c.atr = Unknown
    THEN NoTrade
    ELSE LET d == Newest(c.mss, RecentMss(c, 15)).direction
             w == Newest(c.sweeps, RecentSweeps(c, 10)).wick
         IN  RMultiple(d, CeOf(Newest(c.fvgs, UsableFvgs(c))),
                       Beyond(d, w, c.atr \div 2), 2)

Signature(c) ==
    IF RecentSweeps(c, 10) = {} \/ UsableFvgs(c) = {} \/ RecentMss(c, 15) = {}
    THEN NoSignature
    ELSE LET m == Newest(c.mss, RecentMss(c, 15))
         IN  << m.direction, Rnd(Newest(c.sweeps, RecentSweeps(c, 10)).level),
                Rnd(m.level), Rnd(CeOf(Newest(c.fvgs, UsableFvgs(c)))) >>

Evaluate(c) ==
    ComputeVerdict(Opinions(Opp1(c), Opp2(c), Risk1(c), Risk2(c)),
                   Trade(c), Opp1(c) >= 750, c.price, Signature(c))
=============================================================================
