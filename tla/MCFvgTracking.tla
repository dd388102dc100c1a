--------------------------- MODULE MCFvgTracking ---------------------------
(* Instances of FvgTracking for TLC.  Prices 1 to 12: the M1 history has a   *)
(* bullish gap from 2 to 6, the M5 history a bearish one from 5 to 9.        *)
EXTENDS FvgTracking

Candle(o, h, l, c) == [o |-> o, h |-> h, l |-> l, c |-> c]

M1Rows == << Candle(1, 2, 1, 2), Candle(2, 7, 2, 7), Candle(7, 8, 6, 8) >>
M5Rows == << Candle(12, 12, 9, 9), Candle(9, 9, 5, 5), Candle(5, 5, 4, 4) >>

\* What an M1 candle does to the bullish gap.
Holds   == Candle(7, 8, 5, 7)
Fails   == Candle(7, 7, 3, 3)
Fills   == Candle(5, 6, 1, 5)
Inverts == Candle(7, 7, 1, 1)
Away    == Candle(8, 9, 7, 9)
\* Leaves a second bullish gap, from 7 to 11, and fills the bearish one.
Leaps   == Candle(12, 12, 11, 12)

OnlyM1      == << "M1" >>
M1AndM5     == << "M1", "M5" >>
Of1(a)      == [tf \in {"M1"} |-> a]
Of2(a, b)   == [tf \in {"M1", "M5"} |-> IF tf = "M1" THEN a ELSE b]
History1    == Of1(M1Rows)
History2    == Of2(M1Rows, M5Rows)
Shapes2     == Of2({Holds, Fails, Fills, Inverts, Leaps}, {Away})
HoldFailFill == Of1({Holds, Fails, Fills})
OnlyHolds   == Of1({Holds})
Load1       == Of1(9)
Load2       == Of2(4, 3)
Rows1       == Of1(6)
Rows2       == Of2(5, 4)
=============================================================================
