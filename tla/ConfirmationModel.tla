------------------------- MODULE ConfirmationModel -------------------------
(* Strategy 03, Confirmation Model: sweep, structure shift, FVG, bias, zone. *)
EXTENDS Debate

\* Cheap for a buy and dear for a sell, which needs the live price.
PdAligned(c) == /\ c.price # Unknown
                /\ \/ c.bias = "bullish" /\ c.pd = "discount"
                   \/ c.bias = "bearish" /\ c.pd = "premium"

Checks(c) == << RecentSweeps(c, 10) # {}, RecentMss(c, 20) # {}, UsableFvgs(c) # {},
                c.bias # "neutral", PdAligned(c) >>

\* 90 points for the five checks and ten more when none is missing.
Opp1(c) == Share(Checks(c), 90) + Pts(Passed(Checks(c)) = 5, 10)

CleanFvgs(c) == {i \in DOMAIN c.fvgs : /\ c.fvgs[i].state = "formed"
                                       /\ c.fvgs[i].top - c.fvgs[i].bottom >= Pips(8)}

Opp2(c) == Bounded(500 + Displacement(c, 20) + (IF CleanFvgs(c) # {} THEN 150 ELSE -100)
                       + StructureClarity(c, 15) + Pts(c.smt # "none", 5))

WeakDisplacement(c) ==
    c.m1 # << >> /\ c.atr # Unknown /\ DisplacementStrength(c) < 40

Risk1(c) == 200 + Pts(OpposingLiquidity(c), 30) + Pts(c.bias = "neutral", 20)
                + Pts(WeakDisplacement(c), 15)

Risk2(c) == 100 + Pts(c.zone = "none", 25) + Pts(c.spreadHigh, 20)

Trade(c) ==
    IF \/ RecentSweeps(c, 10) = {} \/ UsableFvgs(c) = {} \/ RecentMss(c, 20) = {}
       \/ c.atr = Unknown
    THEN NoTrade
    ELSE LET d == Newest(c.mss, RecentMss(c, 20)).direction
             w == Newest(c.sweeps, RecentSweeps(c, 10)).wick
         IN  RMultiple(d, CeOf(Newest(c.fvgs, UsableFvgs(c))),
                       Beyond(d, w, (3 * c.atr) \div 4), 2)

Signature(c) ==
    IF RecentSweeps(c, 10) = {} \/ UsableFvgs(c) = {} \/ RecentMss(c, 20) = {}
    THEN NoSignature
    ELSE LET m == Newest(c.mss, RecentMss(c, 20))
         IN  << m.direction, Rnd(Newest(c.sweeps, RecentSweeps(c, 10)).level),
                Rnd(m.level), Rnd(CeOf(Newest(c.fvgs, UsableFvgs(c)))) >>

Evaluate(c) ==
    ComputeVerdict(Opinions(Opp1(c), Opp2(c), Risk1(c), Risk2(c)),
                   Trade(c), Opp1(c) >= 720, c.price, Signature(c))
=============================================================================
