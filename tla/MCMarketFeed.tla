---------------------------- MODULE MCMarketFeed ----------------------------
(***************************************************************************)
(* Courses of the market for MarketFeed, in points around a price of 1000. *)
(* Either M1 or H1 moves, so that each can take every course.              *)
(***************************************************************************)
EXTENDS MarketFeed

Bar(t, o, h, l, c) == [t |-> t, o |-> o, h |-> h, l |-> l, c |-> c]

\* A quiet candle, one with a wick above, one that closes above and one below.
M1Shapes == {<< 1000, 1010, 990, 1000 >>, << 1000, 1030, 995, 1005 >>,
             << 1005, 1025, 1000, 1020 >>, << 1000, 1005, 960, 980 >>}
\* A candle, one with a gap above it, and one that falls back through both.
H1Shapes == {<< 1000, 1010, 990, 1000 >>, << 1100, 1110, 1090, 1100 >>,
             << 1100, 1110, 980, 990 >>}

Courses(shapes, n) ==
    {[t \in 1..n |-> Bar(t, f[t][1], f[t][2], f[t][3], f[t][4])] : f \in [1..n -> shapes]}

\* Ten days between 900 and 1020, and the H4 candles within, below and back above.
Days == [t \in 1..10 |-> IF t % 2 = 1 THEN Bar(t, 1000, 1020, 950, 960)
                         ELSE Bar(t, 960, 990, 900, 980)]
Within == [t \in 1..5 |-> Bar(t, 960, 980, 940, 970)]
Below  == [t \in 1..5 |-> Bar(t, 960, 980, 600, 620)]
Back   == [t \in 1..5 |-> IF t < 5 THEN Below[t] ELSE Bar(5, 620, 980, 610, 970)]
Above  == [t \in 1..5 |-> Bar(t, 1010, 1400, 1000, 1390)]

Market(m1, h1, h4) == [M1 |-> m1, H1 |-> h1, H4 |-> h4, D |-> Days]

M1Markets == {Market(m1, << >>, Within) : m1 \in Courses(M1Shapes, 4)}
H1Markets == {Market(<< >>, h1, Within) : h1 \in Courses(H1Shapes, 4)}
H4Markets == {Market(<< >>, << >>, h4) : h4 \in {Within, Below, Back, Above}}
AllMarkets == M1Markets \cup H1Markets \cup H4Markets
=============================================================================
