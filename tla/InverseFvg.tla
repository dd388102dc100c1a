----------------------------- MODULE InverseFvg -----------------------------
(* Strategy 06, Inverse FVG: a gap that a candle's body has closed through.  *)
EXTENDS Debate

NyWindows == {"ny_kz", "silver_bullet_ny_am", "silver_bullet_ny_pm"}

InvertedFvgs(c) == {i \in DOMAIN c.fvgs : c.fvgs[i].state = "inverted"}
Ifvg(c) == Newest(c.fvgs, InvertedFvgs(c))

Opp1(c) == Share(<< InvertedFvgs(c) # {}, c.sweeps # << >>, RecentMss(c, 20) # {} >>, 100)

Opp2(c) == Bounded(500 + (IF c.smt # "none" THEN 200 ELSE -100) + Displacement(c, 15)
                       + Pts(c.zone \in NyWindows, 10) + StructureClarity(c, 10))

SmtOpposes(c) ==
    c.smt # "none" /\ c.mss # << >> /\ c.smt # c.mss[Len(c.mss)].direction

Risk1(c) == 150 + Pts(SmtOpposes(c), 20) + Pts(OpposingLiquidity(c), 20)

Risk2(c) == 100 + Pts(c.zone \notin NyWindows \cup {"none"}, 5) + Pts(c.spreadHigh, 20)
                + Pts(c.bias = "neutral", 15)

\* The direction is that of the last shift, whichever way the gap pointed.
Trade(c) ==
    IF \/ InvertedFvgs(c) = {} \/ c.sweeps = << >> \/ c.atr = Unknown
       \/ RecentMss(c, 20) = {}
    THEN NoTrade
    ELSE LET d == Newest(c.mss, RecentMss(c, 20)).direction
             w == c.sweeps[Len(c.sweeps)].wick
             f == Ifvg(c)
             sl == IF d = "bullish" THEN Lower(f.bottom - Pips(10), w)
                   ELSE Higher(f.top + Pips(10), w)
         IN  RMultiple(d, CeOf(f), sl, 2)

\* (SignatureOfGap names the direction of the gap.)
SignatureOfGap(c) ==
    IF InvertedFvgs(c) = {} \/ c.sweeps = << >> \/ RecentMss(c, 20) = {} THEN NoSignature
    ELSE << Ifvg(c).direction, Rnd(c.sweeps[Len(c.sweeps)].level), 0, Rnd(CeOf(Ifvg(c))) >>
Signature(c) ==
    IF InvertedFvgs(c) = {} \/ c.sweeps = << >> \/ RecentMss(c, 20) = {} THEN NoSignature
    ELSE LET m == Newest(c.mss, RecentMss(c, 20))
         IN  << m.direction, Rnd(c.sweeps[Len(c.sweeps)].level), Rnd(m.level),
                Rnd(CeOf(Ifvg(c))) >>

\* Two of the three conditions give 66.7 points, so all three are needed.
Evaluate(c) ==
    ComputeVerdict(Opinions(Opp1(c), Opp2(c), Risk1(c), Risk2(c)),
                   Trade(c), Opp1(c) >= 670, c.price, Signature(c))
=============================================================================
