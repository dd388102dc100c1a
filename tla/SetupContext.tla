---------------------------- MODULE SetupContext ----------------------------
(***************************************************************************)
(* What a strategy sees and how it looks at it: the CanonicalContext of    *)
(* one tick as a record, and the look-ups the strategies of app/strategies *)
(* share.  Prices are integers in points (0.00001), ages count the M1      *)
(* candles since an event, strengths are percentages and scores are tenths *)
(* of a point (the rounding of a score's last tenth is left out).          *)
(***************************************************************************)
EXTENDS Integers, Sequences, FiniteSets

Directions == {"bullish", "bearish"}

Pips(n) == 10 * n

Lower(a, b)  == IF a <= b THEN a ELSE b
Higher(a, b) == IF a >= b THEN a ELSE b
Distance(a, b) == IF a >= b THEN a - b ELSE b - a

\* The values for None: a missing price or ATR, range, fib levels.
Unknown == 0
NoRange == [high |-> Unknown, low |-> Unknown]
NoFib   == [zero |-> Unknown, one |-> Unknown]

(***************************************************************************)
(* The lists of a context: FVGs (with the times of their first and third   *)
(* candle and the CE tests taken), order blocks, sweeps, structure shifts, *)
(* swings, gaps and candles.                                               *)
(***************************************************************************)
FvgType   == [top: Int, bottom: Int, direction: Directions, tf: {"M1", "M5", "M15", "H4"},
              state: {"formed", "retested", "partially_filled", "fully_filled", "inverted"},
              tests: Nat, failed: BOOLEAN, c1: Nat, c3: Nat]
BlockType == [high: Int, low: Int, direction: Directions, tf: {"M5", "H1", "H4"},
              kind: {"order_block", "breaker_block"}]
SweepType == [level: Int, wick: Int, age: Nat]
MssType   == [direction: Directions, level: Int, age: Nat]
SwingType == [kind: {"high", "low"}, price: Int]
GapType   == [top: Int, bottom: Int, filled: BOOLEAN, score: Int]
BarType   == [t: Nat, o: Int, h: Int, l: Int, c: Int]

Zones == {"none", "asian_session", "london_kz", "ny_kz", "silver_bullet_london",
          "silver_bullet_ny_am", "silver_bullet_ny_pm"}

ContextType ==
    [m1: Seq(BarType), m5: Seq(BarType), m15: Seq(BarType), h1: Seq(BarType),
     fvgs: Seq(FvgType), obs: Seq(BlockType), sweeps: Seq(SweepType), mss: Seq(MssType),
     swings: Seq(SwingType), gaps: Seq(GapType), bias: Directions \cup {"neutral"},
     zone: Zones, smt: Directions \cup {"none"}, pd: {"premium", "discount", "equilibrium"},
     asian: [high: Int, low: Int], fib: [zero: Int, one: Int],
     amd: {"Accumulation", "Manipulation", "Distribution", "Unknown"},
     mmm: [phase: 0..4, low: Int, high: Int, direction: Directions \cup {"none"}],
     thinDay: BOOLEAN, spreadHigh: BOOLEAN, atr: Nat, price: Int]

\* The FVGs a strategy may use; all of them are in order of detection.
UsableFvgs(c) == {i \in DOMAIN c.fvgs : c.fvgs[i].state \in {"formed", "retested"}}
UsableOf(c, direction) == {i \in UsableFvgs(c) : c.fvgs[i].direction = direction}

\* Events of the last n M1 candles.
RecentMss(c, n)    == {i \in DOMAIN c.mss : c.mss[i].age < n}
RecentSweeps(c, n) == {i \in DOMAIN c.sweeps : c.sweeps[i].age < n}

\* The last element of a list whose index is in the non-empty set I: list[-1]
\* after a filter.
Newest(list, I) == list[CHOOSE i \in I : \A j \in I : j <= i]

\* list[-n:]
LastOf(list, n) == SubSeq(list, Higher(Len(list) - n + 1, 1), Len(list))

\* min(list, key=distance to price): the first of the nearest.
Nearest(list, price) ==
    list[CHOOSE i \in DOMAIN list : \A j \in DOMAIN list :
            \/ Distance(list[i], price) < Distance(list[j], price)
            \/ Distance(list[i], price) = Distance(list[j], price) /\ i <= j]

Midpoint(top, bottom) == (top + bottom) \div 2
CeOf(f) == Midpoint(f.top, f.bottom)

\* The five-pip bucket of a signature's price.
Rnd(p) == (p + 25) \div 50

(***************************************************************************)
(* scoring.py                                                              *)
(***************************************************************************)
DisplacementStrength(c) ==
    LET bar == Newest(c.m1, DOMAIN c.m1)
    IN  Lower((100 * Distance(bar.c, bar.o)) \div (2 * c.atr), 100)

\* displacement: bonus points for a last candle of full strength.
Displacement(c, bonus) ==
    IF c.m1 = << >> \/ c.atr = Unknown THEN 0
    ELSE (DisplacementStrength(c) * bonus) \div 10

StructureClarity(c, bonus) ==
    (Lower(25 * Len(c.mss) + 15 * Len(c.fvgs), 100) * bonus) \div 10

\* The overlap of [top1, bot1] and [top2, bot2] in percent of the smaller one.
FvgOverlapPct(top1, bot1, top2, bot2) ==
    LET size    == Lower(top1 - bot1, top2 - bot2)
        overlap == Lower(top1, top2) - Higher(bot1, bot2)
    IN  IF size <= 0 \/ overlap <= 0 THEN 0 ELSE Lower((100 * overlap) \div size, 100)

\* A swing point within one ATR of the price, or of the last close.
OpposingLiquidity(c) ==
    /\ c.m1 # << >> /\ c.atr # Unknown
    /\ LET here == IF c.price # Unknown THEN c.price ELSE Newest(c.m1, DOMAIN c.m1).c
       IN  \E i \in DOMAIN c.swings : Distance(c.swings[i].price, here) < c.atr

\* The sessions that most strategies prefer.
MainSessions == {"london_kz", "ny_kz", "silver_bullet_ny_am"}

\* Order blocks that no candle has traded through.
ValidBlocks(c) == {i \in DOMAIN c.obs : c.obs[i].kind = "order_block"}
ValidBlocksOf(c, direction) == {i \in ValidBlocks(c) : c.obs[i].direction = direction}

\* Swing prices and order block edges, and the nearest one if it is close enough.
KeyLevels(c) ==
    [i \in 1..Len(LastOf(c.swings, 10)) |-> LastOf(c.swings, 10)[i].price]
    \o [i \in 1..(2 * Len(c.obs)) |-> IF i % 2 = 1 THEN c.obs[(i + 1) \div 2].high
                                      ELSE c.obs[i \div 2].low]
HasKeyLevel(c, price, reach) ==
    KeyLevels(c) # << >> /\ Distance(Nearest(KeyLevels(c), price), price) <= reach

\* Points (in tenths) that a condition adds.
Pts(condition, n) == IF condition THEN 10 * n ELSE 0

Bounded(score) == Lower(Higher(score, 0), 1000)

\* The share of a list of checks that passed.
Passed(checks) == Cardinality({i \in DOMAIN checks : checks[i]})
Share(checks, points) == (Passed(checks) * 10 * points) \div Len(checks)
=============================================================================
