--------------------------- MODULE MCStrategyPass ---------------------------
(***************************************************************************)
(* Contexts for StrategyPass around a price of 1.08000: the structure ones *)
(* combine sweeps, shifts, FVGs, bias and session freely, the others give  *)
(* one strategy each the setup it looks for and what may be wrong with it. *)
(***************************************************************************)
EXTENDS StrategyPass

Bar(t, o, h, l, c) == [t |-> t, o |-> o, h |-> h, l |-> l, c |-> c]
Gap(top, bottom, d, tf) ==
    [top |-> top, bottom |-> bottom, direction |-> d, tf |-> tf, state |-> "formed",
     tests |-> 0, failed |-> FALSE, c1 |-> 0, c3 |-> 0]
Block(high, low, d, kind) ==
    [high |-> high, low |-> low, direction |-> d, tf |-> "M5", kind |-> kind]
Sweep(level, wick, age) == [level |-> level, wick |-> wick, age |-> age]
Shift(d, age) == [direction |-> d, level |-> 108000, age |-> age]
Swing(kind, price) == [kind |-> kind, price |-> price]

UpBar   == Bar(100, 107960, 108005, 107940, 108000)
DownBar == Bar(100, 108040, 108060, 107995, 108000)

Quiet ==
    [m1 |-> << UpBar >>, m5 |-> << >>, m15 |-> << >>, h1 |-> << >>, fvgs |-> << >>,
     obs |-> << >>, sweeps |-> << >>, mss |-> << >>, swings |-> << >>, gaps |-> << >>,
     bias |-> "neutral", zone |-> "none", smt |-> "none", pd |-> "equilibrium",
     asian |-> NoRange, fib |-> NoFib, amd |-> "Unknown",
     mmm |-> [phase |-> 0, low |-> 0, high |-> 0, direction |-> "none"],
     thinDay |-> FALSE, spreadHigh |-> FALSE, atr |-> 20, price |-> Unknown]

Range == [high |-> 108050, low |-> 107950]
BullGap == Gap(108000, 107980, "bullish", "M1")
BearGap == Gap(108110, 108020, "bearish", "M5")

\* Sweep, shift, FVG, breaker block, Asian range, bias and session.
StructureContexts ==
    {[Quiet EXCEPT !.fvgs = f, !.obs = b, !.sweeps = s, !.mss = m, !.bias = d,
                   !.zone = z, !.m1 = r[1], !.asian = r[2], !.smt = w[1], !.swings = w[2]] :
        f \in {<< >>, << BullGap >>, << BullGap, BearGap >>,
               << [BearGap EXCEPT !.state = "inverted"] >>},
        b \in {<< >>, << Block(108020, 107970, "bearish", "breaker_block") >>},
        s \in {<< >>, << Sweep(107950, 107930, 3) >>, << Sweep(108090, 108100, 3) >>,
               << Sweep(107950, 107930, 12) >>},
        m \in {<< >>, << Shift("bullish", 5) >>, << Shift("bullish", 9), Shift("bearish", 4) >>},
        d \in {"bullish", "bearish", "neutral"},
        z \in {"none", "london_kz", "silver_bullet_ny_am"},
        r \in {<< << UpBar >>, NoRange >>, << << UpBar >>, Range >>, << << DownBar >>, Range >>},
        w \in {<< "none", << >> >>,
               << "bullish", << Swing("high", 108200), Swing("low", 107800) >> >>,
               << "bearish", << Swing("low", 107985), Swing("high", 108010) >> >>}}

\* M15 FVGs in, beside and far from the retracement band of an impulse either way.
RetracementContexts ==
    {[Quiet EXCEPT !.fib = x, !.fvgs = << Gap(f, f - 60, d, "M15") >>, !.sweeps = s,
                   !.bias = b, !.zone = z] :
        x \in {[zero |-> 107000, one |-> 109000], [zero |-> 109000, one |-> 107000],
               [zero |-> 107900, one |-> 108200], [zero |-> 108400, one |-> 107600]},
        f \in {107700, 107900, 108330, 108570, 108100},
        d \in Directions, b \in Directions \cup {"neutral"},
        s \in {<< >>, << Sweep(107950, 107930, 3) >>}, z \in {"none", "ny_kz"}}

\* A long lower or upper wick at the end of M15, at a key level or not.
Hammer(t) == Bar(t, 108010, 108022, 107900, 108020)
Star(t)   == Bar(t, 107990, 108100, 107978, 107980)
WickContexts ==
    {[Quiet EXCEPT !.m15 = << Bar(80, 108000, 108040, 107990, 108030), w >>, !.fib = x,
                   !.m1 = << p >>, !.swings = s, !.mss = m, !.zone = z] :
        w \in {Hammer(90), Star(90), Hammer(100), Star(100)},
        x \in {NoFib, [zero |-> 107868, one |-> 108880], [zero |-> 107130, one |-> 108130]},
        p \in {UpBar, Bar(95, 108010, 108020, 108000, 108015)},
        s \in {<< >>, << Swing("low", 108030) >>, << Swing("low", 107870) >>},
        m \in {<< >>, << Shift("bullish", 5) >>}, z \in {"none", "london_kz"}}

\* Eight M15 candles, of which four or five rise, and three gaps among them.
NestedContexts ==
    {[Quiet EXCEPT
        !.m15 = [i \in 1..8 |-> IF i \in 2..k THEN Bar(10 * i, 107000 + 100 * i, 107120 + 100 * i,
                                                        106990 + 100 * i, 107100 + 100 * i)
                                ELSE Bar(10 * i, 107800, 107810, 107690, 107700)],
        !.fvgs = [j \in 1..n |-> [Gap(107300 + 100 * j, 107270 + 100 * j, "bullish", "M15")
                                    EXCEPT !.c1 = 10 * j + 10, !.c3 = 10 * j + 30,
                                           !.state = IF j = 1 THEN q ELSE "formed"]],
        !.bias = b, !.zone = z] :
        k \in {5, 6, 7}, n \in {2, 3}, q \in {"formed", "partially_filled"},
        b \in Directions \cup {"neutral"}, z \in {"none", "london_kz"}}

\* Manipulation beyond the Asian range on M5, by phase.
ManipulationContexts ==
    {[Quiet EXCEPT !.asian = Range, !.m5 = << p >>, !.bias = b, !.amd = a,
                   !.fvgs = f, !.obs = o, !.mss = m, !.zone = z] :
        p \in {Bar(90, 108030, 108080, 108010, 108020), Bar(90, 107960, 107990, 107930, 107980)},
        b \in Directions, a \in {"Accumulation", "Manipulation", "Distribution", "Unknown"},
        f \in {<< >>, << BullGap, BearGap >>},
        o \in {<< >>, << Block(108020, 107970, "bullish", "order_block") >>},
        m \in {<< >>, << Shift("bullish", 5) >>}, z \in {"none", "ny_kz"}}

\* A strong M5 candle in an order block, an FVG after it and H1 lows below.
PropulsionContexts ==
    {[Quiet EXCEPT
        !.m5 = << Bar(10, 107990, 108060, 107985, 108050), Bar(20, 108050, 108060, l, 108055),
                  Bar(30, 108055, 108070, 108040, 108060), Bar(40, 108060, 108080, 108050, 108070),
                  Bar(50, 108070, 108090, 108060, 108080) >>,
        !.obs = << Block(108060, 107960, d, "order_block") >>,
        !.fvgs = << [Gap(108040, 108020, d, "M5") EXCEPT !.c1 = 20, !.c3 = c3] >>,
        !.h1 = << Bar(0, 108000, 108100, 107800, 108000), Bar(60, 108000, 108100, h, 108000) >>,
        !.bias = b, !.zone = z] :
        l \in {108030, 107955}, d \in Directions, c3 \in {40, 50}, h \in {107830, 107900},
        b \in Directions \cup {"neutral"}, z \in {"none", "london_kz"}}

\* Price gaps of each score, above and below the price.
VacuumContexts ==
    {[Quiet EXCEPT !.gaps = [i \in 1..Len(g) |-> [top |-> g[i] + 50, bottom |-> g[i],
                                                  filled |-> FALSE, score |-> s]],
                   !.mss = m, !.zone = z] :
        g \in {<< 107990 >>, << 107920 >>, << 108300 >>, << 107800, 108000 >>},
        s \in {500, 650, 800}, m \in {<< >>, << Shift("bullish", 5) >>},
        z \in {"none", "london_kz"}}

\* Gaps with one to three CE tests, held or not.
TestedContexts ==
    {[Quiet EXCEPT !.fvgs = << [Gap(108000 + w, 108000, d, "M1") EXCEPT !.tests = n],
                               [BearGap EXCEPT !.failed = x, !.tests = IF x THEN 1 ELSE 0] >>,
                   !.zone = z] :
        w \in {6, 30, 60}, d \in Directions, n \in 1..3, x \in BOOLEAN,
        z \in {"none", "london_kz"}}

\* A run of falling M5 candles and a close above its first open, or below it.
DeliveryContexts ==
    {[Quiet EXCEPT
        !.m5 = << Bar(10, 108000, 108010, 107990, 108005), Bar(20, 108050, 108060, 108010, 108020),
                  Bar(30, 108020, 108030, 107980, 107990), Bar(40, 107990, 108000, 107960, 107970),
                  Bar(50, 107970, 107980, 107930, 107940), Bar(60, 107940, k + 10, 107935, k) >>,
        !.swings = s, !.sweeps = w, !.fvgs = f, !.obs = o, !.zone = z] :
        k \in {108030, 108060}, s \in {<< >>, << Swing("high", 108100) >>},
        w \in {<< >>, << Sweep(107950, 107930, 3) >>},
        f \in {<< >>, << BullGap >>, << BullGap, BearGap >>},
        o \in {<< >>, << Block(108020, 107970, "bullish", "order_block") >>},
        z \in {"none", "london_kz"}}

MCContexts ==
    StructureContexts \cup RetracementContexts \cup WickContexts \cup NestedContexts
    \cup ManipulationContexts \cup PropulsionContexts \cup VacuumContexts
    \cup TestedContexts \cup DeliveryContexts

\* Faults and replays: a context in which every strategy refuses, one with accepted
\* plans of which the Unicorn's has no signature, and the same with a sweep, which
\* gives it one.
Agreed == [Quiet EXCEPT !.fvgs = << BullGap >>, !.mss = << Shift("bullish", 5) >>,
                        !.obs = << Block(108020, 107970, "bearish", "breaker_block") >>,
                        !.bias = "bullish", !.zone = "silver_bullet_ny_am"]
MCWatched == {Quiet, Agreed, [Agreed EXCEPT !.sweeps = << Sweep(107950, 107930, 3) >>]}
=============================================================================
