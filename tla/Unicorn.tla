------------------------------ MODULE Unicorn ------------------------------
(* Strategy 01, Unicorn Model: an FVG that overlaps a breaker block.        *)
EXTENDS Debate

Overlap(c, i, j) == FvgOverlapPct(c.fvgs[i].top, c.fvgs[i].bottom,
                                  c.obs[j].high, c.obs[j].low)

\* The newest FVG with an overlap of at least 10 %, and its newest such breaker.
Pairs(c) == {p \in UsableFvgs(c) \X DOMAIN c.obs :
                c.obs[p[2]].kind = "breaker_block" /\ Overlap(c, p[1], p[2]) >= 10}
Setup(c) == CHOOSE p \in Pairs(c) :
                \A q \in Pairs(c) : q[1] < p[1] \/ (q[1] = p[1] /\ q[2] <= p[2])

Opp1(c) == Share(<< Pairs(c) # {}, c.sweeps # << >>, RecentMss(c, 20) # {},
                    c.bias # "neutral" >>, 100)

Opp2(c) ==
    Bounded(500 + (IF Pairs(c) = {} THEN 0
                   ELSE Lower(3 * Overlap(c, Setup(c)[1], Setup(c)[2]), 250))
                + Displacement(c, 15) + Pts(c.zone = "silver_bullet_ny_am", 10)
                + StructureClarity(c, 10))

Risk1(c) == 150 + Pts(OpposingLiquidity(c), 25) + Pts(c.bias = "neutral", 15)
                + Pts(Pairs(c) = {}, 20)

Risk2(c) == 100 + Pts(c.zone = "none", 10) + Pts(c.spreadHigh, 20)

\* Entry in the middle of the overlap, and a first target at the risk itself.
Trade(c) ==
    IF Pairs(c) = {} \/ c.atr = Unknown \/ RecentMss(c, 20) = {} THEN NoTrade
    ELSE LET f == c.fvgs[Setup(c)[1]]
             b == c.obs[Setup(c)[2]]
             d == Newest(c.mss, RecentMss(c, 20)).direction
             entry == Midpoint(Lower(f.top, b.high), Higher(f.bottom, b.low))
             edge  == IF d = "bullish" THEN b.low ELSE b.high
         IN  RMultiple(d, entry, Beyond(d, edge, Higher(Pips(10), c.atr \div 2)), 1)

Signature(c) ==
    IF Pairs(c) = {} \/ RecentMss(c, 20) = {} \/ c.sweeps = << >> THEN NoSignature
    ELSE LET m == Newest(c.mss, RecentMss(c, 20))
         IN  << m.direction, Rnd(c.sweeps[Len(c.sweeps)].level), Rnd(m.level),
                Rnd(CeOf(c.fvgs[Setup(c)[1]])) >>

Evaluate(c) ==
    ComputeVerdict(Opinions(Opp1(c), Opp2(c), Risk1(c), Risk2(c)),
                   Trade(c), Opp1(c) >= 750, c.price, Signature(c))
=============================================================================
