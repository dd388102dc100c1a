---------------------------- MODULE PowerOfThree ----------------------------
(* Strategy 10, Power of 3: accumulation, manipulation, distribution.        *)
EXTENDS Debate

\* A candle that pierces the Asian range on the side of the bias and closes back.
Sweeps(c, bar) ==
    \/ c.bias = "bullish" /\ bar.h > c.asian.high /\ bar.c < c.asian.high
    \/ c.bias = "bearish" /\ bar.l < c.asian.low /\ bar.c > c.asian.low

Manipulations(c) ==
    {i \in DOMAIN LastOf(c.m5, 20) : c.asian # NoRange /\ Sweeps(c, LastOf(c.m5, 20)[i])}

\* detect_manipulation_event: the newest such candle, traded against the bias.
HasManip(c) == c.amd # "Accumulation" /\ Manipulations(c) # {}
Extreme(c)  == LET bar == Newest(LastOf(c.m5, 20), Manipulations(c))
               IN  IF c.bias = "bullish" THEN bar.h ELSE bar.l
Direction(c) == IF c.bias = "bearish" THEN "bullish" ELSE "bearish"

EntryFvgs(c) == IF HasManip(c) /\ RecentMss(c, 20) # {}
                THEN UsableOf(c, Direction(c)) ELSE {}

\* Outside Distribution the score is held to 64 points.
Opp1(c) ==
    IF c.amd = "Accumulation" THEN 0
    ELSE IF ~ HasManip(c) THEN 300
    ELSE LET score == Share(<< TRUE, TRUE, RecentMss(c, 20) # {} >>, 100)
         IN  IF c.amd = "Distribution" THEN score ELSE Lower(score, 640)

Opp2(c) == 450 + Pts(HasManip(c), 15) + Pts(EntryFvgs(c) # {}, 10)
               + Pts(HasManip(c) /\ c.bias = Direction(c), 15)
               + Pts(c.zone \in MainSessions, 10)

Risk1(c) == Bounded(100 + (IF c.amd = "Accumulation" THEN 700 ELSE Pts(~ HasManip(c), 35))
                        + Pts(c.mss = << >>, 25))

Risk2(c) == 100 + Pts(c.spreadHigh, 20) + Pts(c.amd = "Manipulation", 10)

\* Entry in the newest FVG, or in the newest order block; the target is the far
\* side of the Asian range, wherever the entry is.
Trade(c) ==
    IF ~ HasManip(c) \/ (EntryFvgs(c) = {} /\ ValidBlocksOf(c, Direction(c)) = {})
    THEN NoTrade
    ELSE LET d == Direction(c)
             entry == IF EntryFvgs(c) # {} THEN CeOf(Newest(c.fvgs, EntryFvgs(c)))
                      ELSE LET b == Newest(c.obs, ValidBlocksOf(c, d))
                           IN  Midpoint(b.high, b.low)
             sl == Beyond(d, Extreme(c), Pips(10))
         IN  IF RiskOf(d, entry, sl) <= 0 THEN NoTrade
             ELSE Plan(d, entry, sl, IF d = "bullish" THEN c.asian.high ELSE c.asian.low)

Signature(c) ==
    IF ~ HasManip(c) THEN NoSignature
    ELSE << Direction(c), Rnd(c.asian.high), Rnd(c.asian.low),
            Rnd(IF EntryFvgs(c) # {} THEN CeOf(Newest(c.fvgs, EntryFvgs(c)))
                ELSE Extreme(c)) >>

\* (StrictHalf accepts a manipulation phase.)
StrictHalf(c) == Opp1(c) >= 640 /\ c.amd # "Accumulation"
Strict(c) == Opp1(c) >= 650 /\ c.amd # "Accumulation"

Evaluate(c) ==
    ComputeVerdict(Opinions(Opp1(c), Opp2(c), Risk1(c), Risk2(c)),
                   Trade(c), Strict(c), c.price, Signature(c))
=============================================================================
