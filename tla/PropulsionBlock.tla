-------------------------- MODULE PropulsionBlock --------------------------
(* Strategy 11, Propulsion Block: a strong candle inside an order block,     *)
(* followed by an FVG.                                                       *)
EXTENDS Debate

\* Candle i of M5 has 60 % body, its middle in the block and the block's colour.
Propels(c, b, i) ==
    LET bar == c.m5[i]
    IN  /\ bar.h > bar.l
        /\ 10 * Distance(bar.c, bar.o) >= 6 * (bar.h - bar.l)
        /\ 2 * b.low <= bar.h + bar.l /\ bar.h + bar.l <= 2 * b.high
        /\ (b.direction = "bullish") <=> (bar.c > bar.o)

\* An FVG of the direction within the three candles that follow.
Followed(c, b, i) ==
    \E j \in UsableOf(c, b.direction) :
        /\ c.fvgs[j].tf \in {"M5", "M15"}
        /\ c.fvgs[j].c1 >= c.m5[i + 1].t /\ c.fvgs[j].c3 <= c.m5[i + 3].t

Retouched(c, b, i) ==
    \E k \in (i + 1)..Len(c.m5) :
        IF b.direction = "bullish" THEN c.m5[k].l <= b.low ELSE c.m5[k].h >= b.high

Setups(c) ==
    {p \in ValidBlocks(c) \X DOMAIN c.m5 :
        /\ Len(c.m5) >= 5 /\ p[2] + 3 <= Len(c.m5)
        /\ Propels(c, c.obs[p[1]], p[2]) /\ Followed(c, c.obs[p[1]], p[2])
        /\ ~ Retouched(c, c.obs[p[1]], p[2])}

\* The newest block, and its first candle.
Setup(c) == CHOOSE p \in Setups(c) :
                \A q \in Setups(c) : q[1] < p[1] \/ (q[1] = p[1] /\ p[2] <= q[2])
Block(c) == c.obs[Setup(c)[1]]
Propulsion(c) == c.m5[Setup(c)[2]]

\* At least two of the last fifty H1 candles touch the extreme.
H1Liquidity(c, d) ==
    LET h1 == LastOf(c.h1, 50)
        at(i) == IF d = "bullish" THEN h1[i].l ELSE h1[i].h
        beyond(i, j) == IF d = "bullish" THEN at(i) <= at(j) ELSE at(i) >= at(j)
    IN  \E i \in DOMAIN h1 :
            /\ \A j \in DOMAIN h1 : beyond(i, j)
            /\ Cardinality({j \in DOMAIN h1 : Distance(at(i), at(j)) <= Pips(5)}) >= 2

Opp1(c) == IF Setups(c) = {} THEN 0
           ELSE Share(<< TRUE, TRUE, TRUE, H1Liquidity(c, Block(c).direction),
                         c.bias = Block(c).direction >>, 100)

Ratio(bar) == (150 * Distance(bar.c, bar.o)) \div (bar.h - bar.l)

Opp2(c) == 450 + (IF Setups(c) = {} THEN 0
                  ELSE Ratio(Propulsion(c)) + Pts(c.bias = Block(c).direction, 15))
               + Pts(c.zone \in MainSessions, 10)

Risk1(c) == 100 + (IF Setups(c) = {} THEN 300
                   ELSE Pts(c.bias \notin {"neutral", Block(c).direction}, 50))

Risk2(c) == 100 + Pts(c.zone = "none", 15) + Pts(c.spreadHigh, 20)

Trade(c) ==
    IF Setups(c) = {} THEN NoTrade
    ELSE LET b == Block(c)
             edge == IF b.direction = "bullish" THEN b.low ELSE b.high
         IN  RMultiple(b.direction, Midpoint(b.high, b.low),
                       Beyond(b.direction, edge, Pips(10)), 2)

Signature(c) ==
    IF Setups(c) = {} THEN NoSignature
    ELSE << Block(c).direction, Rnd(Block(c).low), Rnd(Block(c).high),
            Rnd(Midpoint(Block(c).high, Block(c).low)) >>

Evaluate(c) ==
    ComputeVerdict(Opinions(Opp1(c), Opp2(c), Risk1(c), Risk2(c)),
                   Trade(c), Opp1(c) >= 750, c.price, Signature(c))
=============================================================================
