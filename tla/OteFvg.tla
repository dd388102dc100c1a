------------------------------- MODULE OteFvg -------------------------------
(* Strategy 07, OTE + FVG: an M15 FVG in the 61.8-78.6 % band of the impulse. *)
EXTENDS Debate

\* Level 0 is the low of a bullish impulse and the high of a bearish one.
FibLevel(c, permille) == c.fib.zero + (permille * (c.fib.one - c.fib.zero)) \div 1000

OteLow(c)  == Lower(FibLevel(c, 618), FibLevel(c, 786))
OteHigh(c) == Higher(FibLevel(c, 618), FibLevel(c, 786))
Impulse(c) == IF c.fib.zero < c.fib.one THEN "bullish" ELSE "bearish"

M15Fvgs(c) == {i \in UsableFvgs(c) : c.fvgs[i].tf = "M15"}
OverlapOf(c, f) == Lower(f.top, OteHigh(c)) - Higher(f.bottom, OteLow(c))

Setups(c) == {i \in M15Fvgs(c) : /\ c.fib # NoFib
                                 /\ c.fvgs[i].direction = Impulse(c)
                                 /\ OverlapOf(c, c.fvgs[i]) > 0}
Setup(c) == Newest(c.fvgs, Setups(c))

Opp1(c) == IF Setups(c) = {} THEN 0
           ELSE Share(<< TRUE, TRUE, c.sweeps # << >>,
                         c.bias \in {Impulse(c), "neutral"} >>, 100)

BlockInOte(c) == \E i \in ValidBlocksOf(c, Impulse(c)) :
                    c.obs[i].high >= OteLow(c) /\ c.obs[i].low <= OteHigh(c)

Opp2(c) ==
    450 + (IF Setups(c) = {} THEN 0
           ELSE Lower(2 * OverlapOf(c, Setup(c)), 200) + Pts(BlockInOte(c), 10))
        + Pts(c.zone \in {"silver_bullet_ny_am", "ny_kz"}, 15)

\* Less than five pips beside the band and not in it.
NearMiss(c) ==
    /\ Setups(c) = {} /\ c.fib # NoFib
    /\ \E i \in M15Fvgs(c) : \/ Distance(c.fvgs[i].bottom, OteHigh(c)) < Pips(5)
                             \/ Distance(c.fvgs[i].top, OteLow(c)) < Pips(5)

Risk1(c) == 100 + Pts(NearMiss(c), 70) + Pts(c.sweeps = << >>, 20)

Risk2(c) == 100 + Pts(c.zone \notin {"silver_bullet_ny_am", "ny_kz"}, 15)
                + Pts(c.spreadHigh, 20)

\* The first target is the low end of the impulse, for a sell as for a buy.
Target(c) == IF Impulse(c) = "bullish" THEN c.fib.zero ELSE c.fib.one

\* The stop is 15 pips beyond the same end.
StopEnd(c) == IF Impulse(c) = "bullish" THEN c.fib.zero ELSE c.fib.one

Trade(c) ==
    IF Setups(c) = {} THEN NoTrade
    ELSE LevelTarget(Impulse(c), FibLevel(c, 705),
                     Beyond(Impulse(c), StopEnd(c), Pips(15)), Target(c))

Signature(c) ==
    IF Setups(c) = {} THEN NoSignature
    ELSE << Impulse(c), Rnd(Lower(c.fib.zero, c.fib.one)), Rnd(Higher(c.fib.zero, c.fib.one)),
            Rnd(CeOf(Setup(c))) >>

Evaluate(c) ==
    ComputeVerdict(Opinions(Opp1(c), Opp2(c), Risk1(c), Risk2(c)),
                   Trade(c), Opp1(c) >= 750, c.price, Signature(c))
=============================================================================
