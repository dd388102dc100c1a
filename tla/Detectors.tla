----------------------------- MODULE Detectors -----------------------------
(***************************************************************************)
(* The detectors of app/detector whose findings the pipeline records, as   *)
(* operators on a list of candles, oldest first.  Prices are integers in   *)
(* points.  The fair value gaps have a module of their own (FvgTracking).  *)
(***************************************************************************)
EXTENDS Lists, FiniteSets

CONSTANTS SwingReach,   \* SWING_LOOKBACK: candles on each side of a swing
          Tolerance     \* EQH_EQL_TOLERANCE_PIPS, in points

ASSUME DetectorAssumption == SwingReach \in Nat \ {0} /\ Tolerance \in Nat

BodyTop(bar)    == IF bar.o >= bar.c THEN bar.o ELSE bar.c
BodyBottom(bar) == IF bar.o <= bar.c THEN bar.o ELSE bar.c
Apart(a, b) == IF a >= b THEN a - b ELSE b - a

(***************************************************************************)
(* swings.py: strictly higher (lower) than every candle within reach.      *)
(***************************************************************************)
IsSwing(bars, i, kind) ==
    /\ i \in (SwingReach + 1)..(Len(bars) - SwingReach)
    /\ \A j \in (i - SwingReach)..(i + SwingReach) : j # i =>
          IF kind = "high" THEN bars[j].h < bars[i].h ELSE bars[j].l > bars[i].l

SwingPrice(bars, i, kind) == IF kind = "high" THEN bars[i].h ELSE bars[i].l

\* The newest swing of the kind before candle i.
SwingsBefore(bars, i, kind) == {s \in 1..(i - 1) : IsSwing(bars, s, kind)}
LastSwing(bars, i, kind) ==
    SwingPrice(bars, CHOOSE s \in SwingsBefore(bars, i, kind) :
                         \A r \in SwingsBefore(bars, i, kind) : r <= s, kind)

(***************************************************************************)
(* mss.py: a body beyond the newest swing, every candle that has one.      *)
(* A swing counts from the candle after it, before it is confirmed.        *)
(***************************************************************************)
Breaks(bars, i, kind) ==
    /\ SwingsBefore(bars, i, kind) # {}
    /\ IF kind = "high" THEN BodyTop(bars[i]) > LastSwing(bars, i, kind)
       ELSE BodyBottom(bars[i]) < LastSwing(bars, i, kind)

MssAt(bars, i) ==
    Only(Breaks(bars, i, "high"), << "bullish", LastSwing(bars, i, "high") >>)
    \o Only(Breaks(bars, i, "low"), << "bearish", LastSwing(bars, i, "low") >>)

DetectMss(bars) == Concat([i \in DOMAIN bars |-> MssAt(bars, i)], Len(bars))

(***************************************************************************)
(* sweep.py: levels of the previous day, equal highs and lows, and swings; *)
(* the session range is left out.  A wick beyond a level and a close back, *)
(* of any candle, older than the level or not.                             *)
(***************************************************************************)
DayLevels(days) ==
    IF Len(days) < 2 THEN << >>
    ELSE << << days[Len(days) - 1].h, "pdh" >>, << days[Len(days) - 1].l, "pdl" >> >>

EqualBefore(bars, i, kind) ==
    {j \in 1..(i - 1) : /\ j >= i - 20
                        /\ Apart(SwingPrice(bars, j, kind), SwingPrice(bars, i, kind)) <= Tolerance}
EqualsAt(bars, i) ==
    Only(Cardinality(EqualBefore(bars, i, "high")) >= 2, << bars[i].h, "eqh" >>)
    \o Only(Cardinality(EqualBefore(bars, i, "low")) >= 2, << bars[i].l, "eql" >>)
SwingsAt(bars, i) ==
    Only(IsSwing(bars, i, "high"), << bars[i].h, "swing_h" >>)
    \o Only(IsSwing(bars, i, "low"), << bars[i].l, "swing_l" >>)

Levels(bars, days) ==
    DayLevels(days)
    \o Concat([i \in DOMAIN bars |-> EqualsAt(bars, i)], Len(bars))
    \o Concat([i \in DOMAIN bars |-> SwingsAt(bars, i)], Len(bars))

SweptAt(bar, level) ==
    Only(/\ level[2] \in {"pdh", "eqh", "swing_h"}
         /\ bar.h > level[1] /\ bar.c < level[1], << "bearish", level[1], level[2] >>)
    \o Only(/\ level[2] \in {"pdl", "eql", "swing_l"}
            /\ bar.l < level[1] /\ bar.c > level[1], << "bullish", level[1], level[2] >>)

\* By candle from the second, and for each candle in the order of the levels.
DetectSweeps(bars, days) ==
    LET levels == Levels(bars, days)
    IN  Concat([i \in DOMAIN bars |->
                   IF i = 1 THEN << >>
                   ELSE Concat([k \in DOMAIN levels |-> SweptAt(bars[i], levels[k])],
                               Len(levels))], Len(bars))

(***************************************************************************)
(* gap_detector.py: a price gap between two neighbours in the list, with   *)
(* an id made of its direction and its place in the list.  born is the     *)
(* time of its candle (formed_t).                                          *)
(***************************************************************************)
PriceGap(bars, i) ==
    IF bars[i].l > bars[i - 1].h
    THEN [id |-> << "up", i >>, born |-> bars[i].t, bottom |-> bars[i - 1].h,
          top |-> bars[i].l, filled |-> FALSE]
    ELSE [id |-> << "down", i >>, born |-> bars[i].t, bottom |-> bars[i].h,
          top |-> bars[i - 1].l, filled |-> FALSE]

Gapped(bars, i) == bars[i].l > bars[i - 1].h \/ bars[i].h < bars[i - 1].l

DetectGaps(bars) ==
    Concat([i \in DOMAIN bars |-> Only(i > 1 /\ Gapped(bars, i), PriceGap(bars, i))], Len(bars))

\* Filled when a body reaches the far side.
FillGap(gap, bar) ==
    IF \/ gap.id[1] = "up" /\ BodyBottom(bar) <= gap.bottom
       \/ gap.id[1] = "down" /\ BodyTop(bar) >= gap.top
    THEN [gap EXCEPT !.filled = TRUE] ELSE gap

(***************************************************************************)
(* mmm_phase.py.  The 20 pips of an expansion go through price_to_pips     *)
(* where pips_to_price is meant: the range would have to be left by 200000 *)
(* in price, for which the largest integer at hand stands here.            *)
(***************************************************************************)
Expansion == 2000000000

LastBars(bars, n) == SubSeq(bars, IF Len(bars) > n THEN Len(bars) - n + 1 ELSE 1, Len(bars))

TopOf(bars)    == CHOOSE x \in {bars[i].h : i \in DOMAIN bars} :
                      \A i \in DOMAIN bars : bars[i].h <= x
BottomOf(bars) == CHOOSE x \in {bars[i].l : i \in DOMAIN bars} :
                      \A i \in DOMAIN bars : bars[i].l >= x

\* Three candles touch each side, within a tenth of the range.
Consolidates(days) ==
    /\ Len(days) >= 10
    /\ LET span == TopOf(days) - BottomOf(days)
       IN  /\ span > 0
           /\ Cardinality({i \in DOMAIN days : 10 * days[i].h >= 10 * TopOf(days) - span}) >= 3
           /\ Cardinality({i \in DOMAIN days : 10 * days[i].l <= 10 * BottomOf(days) + span}) >= 3

Reverses(h4, side, level) ==
    LET recent == LastBars(h4, 8)
        last3  == LastBars(h4, 3)
    IN  /\ Len(h4) >= 5
        /\ \E i \in DOMAIN recent : IF side = "below" THEN recent[i].l < level
                                    ELSE recent[i].h > level
        /\ \E i \in DOMAIN last3 : IF side = "below" THEN last3[i].c > level
                                   ELSE last3[i].c < level

DetectMmmPhase(h4, days) ==
    LET range == LastBars(days, 50)
        low == BottomOf(range)
        high == TopOf(range)
        recent == LastBars(h4, 10)
        below == \E i \in DOMAIN recent : recent[i].l < low - Expansion
        above == \E i \in DOMAIN recent : recent[i].h > high + Expansion
    IN  IF ~ Consolidates(range) THEN 0
        ELSE IF Len(h4) < 3 \/ ~ (below \/ above) THEN 1
        ELSE IF below THEN IF Reverses(h4, "below", low) THEN 3 ELSE 2
        ELSE IF Reverses(h4, "above", high) THEN 3 ELSE 4
=============================================================================
