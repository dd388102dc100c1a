----------------------------- MODULE BprInBlock -----------------------------
(* Strategy 15, BPR in OB: two M15 FVGs of opposite directions that overlap  *)
(* inside an order block of a higher timeframe.                              *)
EXTENDS Debate

M15In(c, b, d) == {i \in UsableOf(c, d) : /\ c.fvgs[i].tf = "M15"
                                          /\ c.fvgs[i].bottom >= b.low
                                          /\ c.fvgs[i].top <= b.high}

BprTop(c, i, j)    == Lower(c.fvgs[i].top, c.fvgs[j].top)
BprBottom(c, i, j) == Higher(c.fvgs[i].bottom, c.fvgs[j].bottom)

\* << block, bullish FVG, bearish FVG >> with an overlap of at least three pips.
Setups(c) ==
    {p \in ValidBlocks(c) \X (DOMAIN c.fvgs) \X (DOMAIN c.fvgs) :
        /\ c.obs[p[1]].tf \in {"H4", "H1"}
        /\ p[2] \in M15In(c, c.obs[p[1]], "bullish")
        /\ p[3] \in M15In(c, c.obs[p[1]], "bearish")
        /\ BprTop(c, p[2], p[3]) - BprBottom(c, p[2], p[3]) >= Pips(3)}

\* The newest block, then the oldest bullish and bearish gap.
Setup(c) == CHOOSE p \in Setups(c) :
                \A q \in Setups(c) :
                    \/ q[1] < p[1]
                    \/ q[1] = p[1] /\ p[2] < q[2]
                    \/ q[1] = p[1] /\ p[2] = q[2] /\ p[3] <= q[3]
Block(c)  == c.obs[Setup(c)[1]]
BprMid(c) == Midpoint(BprTop(c, Setup(c)[2], Setup(c)[3]),
                      BprBottom(c, Setup(c)[2], Setup(c)[3]))

Opp1(c) == IF Setups(c) = {} THEN 0
           ELSE Share(<< TRUE, TRUE, RecentMss(c, 20) # {}, c.bias = Block(c).direction >>, 75)

Opp2(c) == 500 + (IF Setups(c) = {} THEN 0
                  ELSE IF Block(c).tf = "H4" THEN 200 ELSE 50)
               + Pts(c.zone \in MainSessions, 10)

Risk1(c) == 100 + Pts(Setups(c) = {}, 40)

Risk2(c) == 100 + Pts(c.zone = "none", 15) + Pts(c.spreadHigh, 20)

Trade(c) ==
    IF Setups(c) = {} THEN NoTrade
    ELSE LET b == Block(c)
             edge == IF b.direction = "bullish" THEN b.low ELSE b.high
         IN  RMultiple(b.direction, BprMid(c), Beyond(b.direction, edge, Pips(10)), 2)

Signature(c) ==
    IF Setups(c) = {} THEN NoSignature
    ELSE << Block(c).direction, Rnd(Block(c).low), Rnd(Block(c).high), Rnd(BprMid(c)) >>

Evaluate(c) ==
    ComputeVerdict(Opinions(Opp1(c), Opp2(c), Risk1(c), Risk2(c)),
                   Trade(c), Opp1(c) >= 560, c.price, Signature(c))
=============================================================================
