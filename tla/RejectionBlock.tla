--------------------------- MODULE RejectionBlock ---------------------------
(* Strategy 08, Rejection Block: a long wick deep in the impulse, at a key   *)
(* level.                                                                    *)
EXTENDS Debate

BodyHigh(bar) == Higher(bar.o, bar.c)
BodyLow(bar)  == Lower(bar.o, bar.c)
Body(bar)     == BodyHigh(bar) - BodyLow(bar)
UpperWick(bar) == bar.h - BodyHigh(bar)
LowerWick(bar) == BodyLow(bar) - bar.l

\* classify_wick: the wick is twice the body and twice the other wick.
LongWick(bar, d) ==
    LET wick  == IF d = "bullish" THEN LowerWick(bar) ELSE UpperWick(bar)
        other == IF d = "bullish" THEN UpperWick(bar) ELSE LowerWick(bar)
    IN  Body(bar) > 0 /\ wick >= 2 * Body(bar) /\ wick >= 2 * other
Rejects(bar) == \E d \in Directions : LongWick(bar, d)
WickDirection(bar) == IF LongWick(bar, "bullish") THEN "bullish" ELSE "bearish"
Wick(bar) == IF WickDirection(bar) = "bullish" THEN LowerWick(bar) ELSE UpperWick(bar)

\* The close has retraced 80 to 90 % of the way between the levels 1 and 0.
Retraced(c, bar) ==
    LET width == c.fib.one - c.fib.zero
        depth == IF WickDirection(bar) = "bullish" THEN c.fib.one - bar.c
                 ELSE bar.c - c.fib.zero
    IN  /\ width # 0
        /\ IF width > 0 THEN 10 * depth >= 8 * width /\ 10 * depth <= 9 * width
           ELSE 10 * depth <= 8 * width /\ 10 * depth >= 9 * width

Candidates(c) == LastOf(c.m15, 5) \o LastOf(c.h1, 3)

Setups(c) == {i \in DOMAIN Candidates(c) :
                 /\ c.fib # NoFib
                 /\ Rejects(Candidates(c)[i])
                 /\ Retraced(c, Candidates(c)[i])
                 /\ HasKeyLevel(c, Candidates(c)[i].c, Pips(20))}
Setup(c) == Newest(Candidates(c), Setups(c))
Key(c)   == Nearest(KeyLevels(c), Setup(c).c)

\* A later candle closed on either side of the body's middle.
Penetrated(c, bar) ==
    \E list \in {c.m1, c.m5, c.m15} : \E i \in DOMAIN list :
        list[i].t > bar.t /\ 2 * list[i].c # BodyHigh(bar) + BodyLow(bar)

Opp1(c) == IF Setups(c) = {} \/ Penetrated(c, Setup(c)) THEN 0
           ELSE Share(<< TRUE, TRUE, Distance(Setup(c).c, Key(c)) <= Pips(10),
                         RecentMss(c, 20) # {} >>, 100)

SameWicks(c) == {i \in DOMAIN LastOf(c.m15, 10) :
                    /\ Rejects(LastOf(c.m15, 10)[i])
                    /\ WickDirection(LastOf(c.m15, 10)[i]) = WickDirection(Setup(c))}

Opp2(c) ==
    450 + (IF Setups(c) = {} THEN 0
           ELSE Lower((50 * Wick(Setup(c))) \div Body(Setup(c)), 200)
                + Pts(Cardinality(SameWicks(c)) >= 2, 10))
        + Pts(c.zone \in MainSessions, 10)

Risk1(c) == Bounded(100 + (IF Setups(c) = {} THEN 400
                           ELSE Pts(Penetrated(c, Setup(c)), 70) + Pts(c.mss = << >>, 25)))

Risk2(c) == 100 + Pts(c.zone = "none", 15) + Pts(c.spreadHigh, 20)

Extreme(bar) == IF WickDirection(bar) = "bullish" THEN bar.l ELSE bar.h

Trade(c) ==
    IF Setups(c) = {} \/ Penetrated(c, Setup(c)) THEN NoTrade
    ELSE LET bar == Setup(c)
             d   == WickDirection(bar)
         IN  RMultiple(d, IF d = "bullish" THEN BodyLow(bar) ELSE BodyHigh(bar),
                       Beyond(d, Extreme(bar), Pips(10)), 3)

Signature(c) ==
    IF Setups(c) = {} THEN NoSignature
    ELSE << WickDirection(Setup(c)), Rnd(Key(c)), Rnd(Extreme(Setup(c))),
            Rnd(Midpoint(Setup(c).o, Setup(c).c)) >>

Evaluate(c) ==
    ComputeVerdict(Opinions(Opp1(c), Opp2(c), Risk1(c), Risk2(c)), Trade(c),
                   Opp1(c) >= 750 /\ (Setups(c) # {} => ~ Penetrated(c, Setup(c))),
                   c.price, Signature(c))
=============================================================================
