---------------------------- MODULE JudasSwing ----------------------------
(* Strategy 02, Judas Swing: a false breakout of the Asian range.           *)
EXTENDS Debate

AsianRangeValid(c) == c.asian # NoRange

InLondonKz(c) == c.zone = "london_kz"

\* The last M1 candle pierces the range on the side the bias does not want and
\* closes back inside.
FalseBreakout(c, d) ==
    /\ AsianRangeValid(c) /\ c.m1 # << >> /\ c.bias = d
    /\ LET bar == Newest(c.m1, DOMAIN c.m1)
       IN  IF d = "bearish" THEN bar.h > c.asian.high /\ bar.c < c.asian.high
           ELSE bar.l < c.asian.low /\ bar.c > c.asian.low

Breakout(c) == \E d \in Directions : FalseBreakout(c, d)

Opp1(c) == Share(<< AsianRangeValid(c), InLondonKz(c), Breakout(c),
                    RecentMss(c, 10) # {} >>, 100)

Opp2(c) ==
    LET size == c.asian.high - c.asian.low
    IN  Bounded(500 + Displacement(c, 20) + Pts(AsianRangeValid(c) /\ size >= Pips(15), 15)
                    - Pts(AsianRangeValid(c) /\ size < Pips(8), 15) + StructureClarity(c, 15))

Risk1(c) == 150 + Pts(OpposingLiquidity(c), 25) + Pts(c.bias = "neutral", 20)

Risk2(c) == 100 + Pts(~ InLondonKz(c), 35) + Pts(c.spreadHigh, 15)

\* The bias names the direction of a breakout.  Entry is the newest usable FVG of
\* either direction, the stop is beyond the newest sweep of either direction and
\* the target is the far side of the range.
Trade(c) ==
    IF ~ Breakout(c) \/ c.atr = Unknown \/ c.sweeps = << >> THEN NoTrade
    ELSE LET near  == IF c.bias = "bullish" THEN c.asian.low ELSE c.asian.high
             far   == IF c.bias = "bullish" THEN c.asian.high ELSE c.asian.low
             entry == IF UsableFvgs(c) = {} THEN near
                      ELSE CeOf(Newest(c.fvgs, UsableFvgs(c)))
         IN  LevelTarget(c.bias, entry,
                         Beyond(c.bias, c.sweeps[Len(c.sweeps)].wick, Pips(15)), far)

Signature(c) ==
    IF ~ Breakout(c) \/ c.mss = << >> \/ UsableFvgs(c) = {} THEN NoSignature
    ELSE << c.bias, Rnd(c.asian.high), Rnd(c.mss[Len(c.mss)].level),
            Rnd(CeOf(Newest(c.fvgs, UsableFvgs(c)))) >>

Evaluate(c) ==
    ComputeVerdict(Opinions(Opp1(c), Opp2(c), Risk1(c), Risk2(c)),
                   Trade(c), Opp1(c) >= 750, c.price, Signature(c))
=============================================================================
