------------------------ MODULE FvgTrackingProofs -------------------------
(***************************************************************************)
(* Theorems about FvgTracking: what tracking and the events table say of a *)
(* gap is true of the candles, whatever restarts, failed database calls    *)
(* and ticks without a new candle come between.                            *)
(***************************************************************************)
EXTENDS FvgTracking, Foundations

\* The candles leave a gap from row k on.
GapAt(tf, k) ==
    /\ k \in Nat \ {0}
    /\ k + 2 \in DOMAIN candles[tf]
    /\ Upward(tf, k) \/ Downward(tf, k)

\* x is a true test of that gap, and the candle of the test did not close through it:
\* a gap that is closed through ends before it is tested.
Recorded(tf, k, x) ==
    /\ GapAt(tf, k)
    /\ TrueTest(tf, k, x)
    /\ ~ BodyThrough([tf |-> tf, c1 |-> k], candles[Base][x.t])

\* A candle after its last test closed through the gap.
ClosedThrough(f) ==
    \E t \in DOMAIN candles[Base] : /\ BodyThrough(f, candles[Base][t])
                                    /\ \A n \in DOMAIN f.tests : f.tests[n].t < t

ObjectTrue(f) ==
    /\ GapAt(f.tf, f.c1)
    /\ \A n \in DOMAIN f.tests : Recorded(f.tf, f.c1, f.tests[n])
    /\ f.state = "inverted" => ClosedThrough(f)

RowsTrue(rows) == \A n \in DOMAIN rows : Recorded(rows[n].tf, rows[n].c1, rows[n])

\* The inductive invariant.  A row waits in the tick before it is stored, and tests are
\* only restored into objects that a new process has just detected.
TrackInv ==
    /\ TypeOK
    /\ \A i \in DOMAIN objects : ObjectTrue(objects[i])
    /\ RowsTrue(stored)
    /\ RowsTrue(tick.rows)
    /\ ~ rebuilt => objects = << >> /\ active = << >>
-----------------------------------------------------------------------------
(* One gap and one candle.                                                  *)

LEMMA FramesOfInstance ==
    /\ Base \in Frames
    /\ Timeframes \in Seq(Frames) /\ Len(Timeframes) \in Nat \ {0}
    /\ KeepCap \in Nat \ {0} /\ MinGap \in Nat \ {0}
BY FvgAssumption DEF Base

LEMMA CandlePrices ==
    ASSUME NEW c \in CandleType
    PROVE  /\ c.o \in Int /\ c.h \in Int /\ c.l \in Int /\ c.c \in Int
           /\ c.l <= c.o /\ c.o <= c.h /\ c.l <= c.c /\ c.c <= c.h
BY DEF CandleType

LEMMA CandleAt ==
    ASSUME TypeOK, NEW tf \in Frames, NEW k \in DOMAIN candles[tf]
    PROVE  candles[tf][k] \in CandleType
BY DEF TypeOK

\* A gap opens upwards or downwards, never both.
LEMMA GapEdges ==
    ASSUME TypeOK, NEW f, f.tf \in Frames, GapAt(f.tf, f.c1)
    PROVE  LET one == candles[f.tf][f.c1]
               two == candles[f.tf][f.c1 + 2]
           IN  /\ Top(f) \in Int /\ Bottom(f) \in Int /\ CE(f) \in Int /\ Bottom(f) < Top(f)
               /\ \/ /\ one.h < two.l /\ Direction(f) = "bullish"
                     /\ Top(f) = two.l /\ Bottom(f) = one.h
                     /\ CE(f) = (one.h + two.l) \div 2
                  \/ /\ two.h < one.l /\ ~ one.h < two.l /\ Direction(f) = "bearish"
                     /\ Top(f) = one.l /\ Bottom(f) = two.h
                     /\ CE(f) = (one.l + two.h) \div 2
<1> DEFINE one == candles[f.tf][f.c1]
           two == candles[f.tf][f.c1 + 2]
<1>1. f.c1 \in DOMAIN candles[f.tf] /\ f.c1 + 2 \in DOMAIN candles[f.tf]
  BY DEF GapAt, TypeOK
<1>2. one \in CandleType /\ two \in CandleType
  BY <1>1, CandleAt
<1>3. MinGap \in Nat \ {0}
  BY FramesOfInstance
<1>4. /\ Upward(f.tf, f.c1) <=> two.l - one.h >= MinGap
      /\ Downward(f.tf, f.c1) <=> one.l - two.h >= MinGap
      /\ Upward(f.tf, f.c1) \/ Downward(f.tf, f.c1)
  BY DEF Upward, Downward, GapAt
<1>5. /\ Top(f) = IF Upward(f.tf, f.c1) THEN two.l ELSE one.l
      /\ Bottom(f) = IF Upward(f.tf, f.c1) THEN one.h ELSE two.h
      /\ Direction(f) = IF Upward(f.tf, f.c1) THEN "bullish" ELSE "bearish"
      /\ CE(f) = (Top(f) + Bottom(f)) \div 2
  BY DEF Top, Bottom, Direction, CE
<1>6. /\ one.h \in Int /\ one.l \in Int /\ one.l <= one.h
      /\ two.h \in Int /\ two.l \in Int /\ two.l <= two.h
  BY <1>2, CandlePrices
<1> HIDE DEF one, two
<1>7. CASE Upward(f.tf, f.c1)
  <2>1. one.h < two.l
    BY <1>3, <1>4, <1>6, <1>7
  <2>2. Top(f) = two.l /\ Bottom(f) = one.h /\ Direction(f) = "bullish"
    BY <1>5, <1>7
  <2>3. CE(f) = (one.h + two.l) \div 2 /\ CE(f) \in Int
    BY <1>5, <1>6, <2>2
  <2> QED
    BY <1>6, <2>1, <2>2, <2>3 DEF one, two
<1>8. CASE ~ Upward(f.tf, f.c1)
  <2>1. two.h < one.l /\ ~ one.h < two.l
    BY <1>3, <1>4, <1>6, <1>8
  <2>2. Top(f) = one.l /\ Bottom(f) = two.h /\ Direction(f) = "bearish"
    BY <1>5, <1>8
  <2>3. CE(f) = (one.l + two.h) \div 2 /\ CE(f) \in Int
    BY <1>5, <1>6, <2>2
  <2> QED
    BY <1>6, <2>1, <2>2, <2>3 DEF one, two
<1> QED
  BY <1>7, <1>8

\* A candle that closes through a gap has reached its near edge: the gap ends.
LEMMA ThroughEnds ==
    ASSUME TypeOK, NEW f, f.tf \in Frames, GapAt(f.tf, f.c1),
           NEW c \in CandleType, BodyThrough(f, c)
    PROVE  StateAfter(f, c) = "inverted"
<1>1. /\ Top(f) \in Int /\ Bottom(f) \in Int /\ Bottom(f) < Top(f)
      /\ Direction(f) \in {"bullish", "bearish"}
  BY GapEdges
<1>2. NearEdge(f, c)
  BY <1>1, CandlePrices DEF BodyThrough, NearEdge
<1> QED
  BY <1>2 DEF StateAfter

\* What update_fvg_ce_tests records is true.
LEMMA TestedIsTrue ==
    ASSUME TypeOK, NEW f, f.tf \in Frames, GapAt(f.tf, f.c1),
           NEW t \in DOMAIN candles[Base],
           candles[Base][t].l <= Top(f), candles[Base][t].h >= Bottom(f),
           ~ BodyThrough(f, candles[Base][t])
    PROVE  Recorded(f.tf, f.c1, [t |-> t, respected |-> Respects(f, candles[Base][t])])
<1> DEFINE one == candles[f.tf][f.c1]
           two == candles[f.tf][f.c1 + 2]
           c == candles[Base][t]
           g == [tf |-> f.tf, c1 |-> f.c1]
           x == [t |-> t, respected |-> Respects(f, c)]
           mid == IF one.h < two.l THEN (one.h + two.l) \div 2 ELSE (one.l + two.h) \div 2
<1>1. x.t = t /\ x.respected = Respects(f, c) /\ g.tf = f.tf /\ g.c1 = f.c1
  OBVIOUS
<1>2. Top(g) = Top(f) /\ Bottom(g) = Bottom(f) /\ Direction(g) = Direction(f)
  BY <1>1 DEF Top, Bottom, Direction
<1>3. ~ BodyThrough(g, c)
  BY <1>2 DEF BodyThrough
<1>4. TrueTest(f.tf, f.c1, x)
  <2>1. \/ /\ one.h < two.l /\ Direction(f) = "bullish"
           /\ Top(f) = two.l /\ Bottom(f) = one.h /\ CE(f) = mid
        \/ /\ two.h < one.l /\ Direction(f) = "bearish"
           /\ Top(f) = one.l /\ Bottom(f) = two.h /\ CE(f) = mid
    BY GapEdges
  <2>2. f.c1 + 2 \in DOMAIN candles[f.tf]
    BY DEF GapAt
  <2>3. CASE one.h < two.l /\ Direction(f) = "bullish" /\ Top(f) = two.l
             /\ Bottom(f) = one.h /\ CE(f) = mid
    <3>1. x.respected = (c.c >= mid)
      BY <1>1, <2>3 DEF Respects
    <3> HIDE DEF x, mid, one, two, c
    <3>2. /\ candles[Base][x.t].l <= two.l /\ candles[Base][x.t].h >= one.h
          /\ x.respected = (candles[Base][x.t].c >= mid) /\ x.t \in DOMAIN candles[Base]
      BY <1>1, <2>3, <3>1, Zenon DEF c
    <3> QED
      BY <2>2, <2>3, <3>2, Zenon DEF TrueTest, one, two, mid
  <2>4. CASE two.h < one.l /\ Direction(f) = "bearish" /\ Top(f) = one.l
             /\ Bottom(f) = two.h /\ CE(f) = mid
    <3>0. Direction(f) # "bullish"
      BY <2>4
    <3>1. x.respected = (c.c <= mid)
      BY <1>1, <2>4, <3>0 DEF Respects
    <3> HIDE DEF x, mid, one, two, c
    <3>2. /\ candles[Base][x.t].l <= one.l /\ candles[Base][x.t].h >= two.h
          /\ x.respected = (candles[Base][x.t].c <= mid) /\ x.t \in DOMAIN candles[Base]
      BY <1>1, <2>4, <3>1, Zenon DEF c
    <3> QED
      BY <2>2, <2>4, <3>2, Zenon DEF TrueTest, one, two, mid
  <2> QED
    BY <2>1, <2>3, <2>4
<1> QED
  BY <1>1, <1>3, <1>4 DEF Recorded

LEMMA ObjectFields ==
    ASSUME NEW f \in ObjectType
    PROVE  /\ f.tf \in Frames /\ f.c1 \in Nat /\ f.id \in Nat /\ f.state \in States
           /\ f.tests \in Seq(TestType)
BY DEF ObjectType

\* The gap is all that edges, direction and verdicts depend on.
LEMMA SameEdges ==
    ASSUME NEW f, NEW g, g.tf = f.tf, g.c1 = f.c1, NEW c
    PROVE  /\ Top(g) = Top(f) /\ Bottom(g) = Bottom(f)
           /\ Respects(g, c) = Respects(f, c)
           /\ BodyThrough(g, c) = BodyThrough(f, c)
<1>1. Top(g) = Top(f) /\ Bottom(g) = Bottom(f) /\ Direction(g) = Direction(f)
  BY DEF Top, Bottom, Direction
<1>2. CE(g) = CE(f)
  BY <1>1 DEF CE
<1>3. Respects(g, c) = Respects(f, c)
  BY <1>1, <1>2, Zenon DEF Respects
<1>4. BodyThrough(g, c) = BodyThrough(f, c)
  BY <1>1, Zenon DEF BodyThrough
<1> QED
  BY <1>1, <1>3, <1>4

\* update_fvg_state of a gap that has not ended.
LEMMA StateMoves ==
    ASSUME NEW f \in ObjectType, f.state \notin Ended, NEW c
    PROVE  /\ StateAfter(f, c) \in States
           /\ Rank[f.state] <= Rank[StateAfter(f, c)]
           /\ StateAfter(f, c) = "inverted" => BodyThrough(f, c)
<1>1. f.state \in {"formed", "retested", "partially_filled"}
  BY ObjectFields DEF States, Ended
<1>2. /\ Deeper["formed"] = "retested" /\ Deeper["retested"] = "partially_filled"
      /\ Deeper["partially_filled"] = "partially_filled"
  BY DEF Deeper, States
<1>3. /\ Rank["formed"] = 0 /\ Rank["retested"] = 1 /\ Rank["partially_filled"] = 2
      /\ Rank["fully_filled"] = 3 /\ Rank["inverted"] = 3
  BY DEF Rank, States
<1>4. \/ StateAfter(f, c) = f.state
      \/ StateAfter(f, c) = "inverted" /\ BodyThrough(f, c)
      \/ StateAfter(f, c) = "fully_filled"
      \/ StateAfter(f, c) = Deeper[f.state]
  BY DEF StateAfter
<1> QED
  BY <1>1, <1>2, <1>3, <1>4 DEF States

LEMMA ForwardSame ==
    ASSUME NEW f \in ObjectType
    PROVE  Forward(f, f)
<1>1. IsPrefix(f.tests, f.tests)
  BY ObjectFields DEF IsPrefix
<1>2. Rank[f.state] \in Int
  BY ObjectFields DEF Rank
<1> QED
  BY <1>1, <1>2 DEF Forward

LEMMA PrefixAppend ==
    ASSUME NEW S, NEW s \in Seq(S), NEW x \in S
    PROVE  IsPrefix(s, Append(s, x))
BY DEF IsPrefix

\* What a tick does to one object, and that it stays true.
LEMMA AgedObject ==
    ASSUME TypeOK, NEW f \in ObjectType, ObjectTrue(f)
    PROVE  /\ Aged(f) \in ObjectType /\ ObjectTrue(Aged(f)) /\ Forward(f, Aged(f))
           /\ Aged(f).tf = f.tf /\ Aged(f).c1 = f.c1 /\ Aged(f).id = f.id
<1> DEFINE t == Len(candles[Base])
           c == candles[Base][t]
           g == Advance(f, c)
<1>0. candles[Base] \in Seq(CandleType)
  BY FramesOfInstance DEF TypeOK
<1>1. CASE t = 0
  BY <1>1, ForwardSame DEF Aged
<1>2. CASE t # 0 /\ f.state \in Ended
  <2>1. Aged(f) = f
    BY <1>2 DEF Aged, Advance, Test
  <2> QED
    BY <2>1, ForwardSame
<1>3. CASE t # 0 /\ f.state \notin Ended
  <2>1. t \in DOMAIN candles[Base] /\ c \in CandleType
    <3>1. t \in DOMAIN candles[Base]
      BY <1>0, <1>3
    <3> QED
      BY <3>1, CandleAt, FramesOfInstance
  <2>2. Aged(f) = Test(g, t)
    BY <1>3 DEF Aged
  <2>3. g = [f EXCEPT !.state = StateAfter(f, c)]
    BY <1>3 DEF Advance
  <2> HIDE DEF g, t
  <2>4. /\ g \in ObjectType /\ g.state = StateAfter(f, c) /\ g.tests = f.tests
        /\ g.tf = f.tf /\ g.c1 = f.c1 /\ g.id = f.id
    BY <1>3, <2>3, StateMoves DEF ObjectType
  <2>5. IsPrefix(f.tests, f.tests) /\ f.tests \in Seq(TestType)
    BY ObjectFields DEF IsPrefix
  <2>6. Rank[f.state] <= Rank[g.state]
    BY <1>3, <2>4, StateMoves
  <2>7. f.tf \in Frames /\ GapAt(f.tf, f.c1) /\ GapAt(g.tf, g.c1)
    BY <2>4, ObjectFields DEF ObjectTrue
  <2>8. \A n \in DOMAIN f.tests : Recorded(f.tf, f.c1, f.tests[n])
    BY DEF ObjectTrue
  <2>9. CASE g.state \in Ended
    <3>1. Aged(f) = g
      BY <2>2, <2>9 DEF Test
    <3>2. g.state = "inverted" => ClosedThrough(g)
      <4> SUFFICES ASSUME g.state = "inverted"
                   PROVE  ClosedThrough(g)
        OBVIOUS
      <4>1. BodyThrough(f, c)
        BY <1>3, <2>4, StateMoves
      <4>2. BodyThrough(g, c)
        BY <2>4, <4>1, SameEdges
      <4>3. ASSUME NEW n \in DOMAIN g.tests
            PROVE  g.tests[n].t < t
        <5> DEFINE x == g.tests[n]
                   h == [tf |-> f.tf, c1 |-> f.c1]
        <5>1. Recorded(f.tf, f.c1, x)
          BY <2>4, <2>8
        <5>2. x.t \in DOMAIN candles[Base] /\ ~ BodyThrough(h, candles[Base][x.t])
          BY <5>1 DEF Recorded, TrueTest
        <5>3. h.tf = f.tf /\ h.c1 = f.c1
          OBVIOUS
        <5>4. BodyThrough(h, c)
          BY <4>1, <5>3, SameEdges
        <5>5. x.t # t
          BY <5>2, <5>4
        <5>6. x.t \in 1..t
          BY <1>0, <5>2 DEF t
        <5> QED
          BY <1>0, <5>5, <5>6 DEF t
      <4> QED
        BY <2>1, <4>2, <4>3 DEF ClosedThrough
    <3>3. ObjectTrue(g)
      BY <2>4, <2>7, <2>8, <3>2 DEF ObjectTrue
    <3>4. Forward(f, g)
      BY <1>3, <2>4, <2>5, <2>6 DEF Forward
    <3> QED
      BY <2>4, <3>1, <3>3, <3>4
  <2>10. CASE g.state \notin Ended
    <3>1. Aged(f) = TestAny(g, t)
      BY <2>2, <2>10 DEF Test
    <3>2. ~ BodyThrough(f, c)
      BY <2>1, <2>4, <2>7, <2>10, ThroughEnds DEF Ended
    <3>3. CASE ~ (c.l <= Top(g) /\ c.h >= Bottom(g))
      <4>1. Aged(f) = g
        BY <3>1, <3>3 DEF TestAny
      <4>2. ObjectTrue(g)
        BY <2>4, <2>7, <2>8, <2>10 DEF ObjectTrue, Ended
      <4>3. Forward(f, g)
        BY <1>3, <2>4, <2>5, <2>6 DEF Forward
      <4> QED
        BY <2>4, <4>1, <4>2, <4>3
    <3>4. CASE c.l <= Top(g) /\ c.h >= Bottom(g)
      <4> DEFINE x == [t |-> t, respected |-> Respects(g, c)]
                 a == Aged(f)
      <4>1. a = [g EXCEPT !.tests = Append(@, x)]
        BY <3>1, <3>4 DEF TestAny
      <4>2. x \in TestType
        <5>1. t \in Nat
          BY <1>0 DEF t
        <5>2. CE(g) \in Int /\ c.c \in Int
          BY <2>1, <2>4, <2>7, GapEdges, CandlePrices, ObjectFields
        <5>3. Respects(g, c) \in BOOLEAN
          <6>1. \A u, v \in Int : (u >= v) \in BOOLEAN /\ (u <= v) \in BOOLEAN
            OBVIOUS
          <6>2. (c.c >= CE(g)) \in BOOLEAN /\ (c.c <= CE(g)) \in BOOLEAN
            BY <5>2, <6>1
          <6> HIDE DEF c
          <6> QED
            BY <6>2, Zenon DEF Respects
        <5> QED
          BY <5>1, <5>3 DEF TestType
      <4>3. ~ BodyThrough(g, c)
        BY <2>4, <3>2, SameEdges
      <4>4. Recorded(g.tf, g.c1, x)
        BY <2>1, <2>4, <2>7, <3>4, <4>3, TestedIsTrue
      <4> HIDE DEF x
      <4>5. /\ a \in ObjectType /\ a.tests = Append(f.tests, x) /\ a.state = g.state
            /\ a.tf = f.tf /\ a.c1 = f.c1 /\ a.id = f.id
        <5>1. Append(f.tests, x) \in Seq(TestType)
          BY <2>5, <4>2
        <5>2. a = [g EXCEPT !.tests = Append(f.tests, x)]
          BY <2>4, <4>1
        <5> HIDE DEF a
        <5> QED
          BY <2>4, <5>1, <5>2 DEF ObjectType
      <4> HIDE DEF a
      <4>6. \A n \in DOMAIN a.tests : Recorded(a.tf, a.c1, a.tests[n])
        <5> SUFFICES ASSUME NEW n \in DOMAIN a.tests
                     PROVE  Recorded(f.tf, f.c1, a.tests[n])
          BY <4>5
        <5>1. CASE n \in DOMAIN f.tests
          <6>1. a.tests[n] = f.tests[n]
            BY <2>5, <4>2, <4>5, <5>1
          <6> QED
            BY <2>8, <5>1, <6>1
        <5>2. CASE n \notin DOMAIN f.tests
          <6>1. a.tests[n] = x
            BY <2>5, <4>2, <4>5, <5>2
          <6> QED
            BY <2>4, <4>4, <6>1
        <5> QED
          BY <5>1, <5>2
      <4>7. ObjectTrue(a)
        BY <2>7, <2>10, <4>5, <4>6 DEF ObjectTrue, Ended
      <4>8. IsPrefix(f.tests, a.tests)
        BY <2>5, <4>2, <4>5, PrefixAppend
      <4>9. Forward(f, a)
        BY <1>3, <2>6, <4>5, <4>8 DEF Forward
      <4> QED
        BY <4>5, <4>7, <4>9 DEF a
    <3> QED
      BY <3>3, <3>4
  <2> QED
    BY <2>9, <2>10
<1> QED
  BY <1>1, <1>2, <1>3
-----------------------------------------------------------------------------
(* The lists of a tick.                                                     *)

\* What detection may return, and what may go into the events table.
Fresh   == {f \in ObjectType : ObjectTrue(f) /\ f.state = "formed" /\ f.tests = << >>}
TrueRow == {r \in RowType : Recorded(r.tf, r.c1, r)}

LEMMA DetectedFresh ==
    ASSUME TypeOK, NEW tf \in Frames
    PROVE  Detected(tf) \in Seq(Fresh)
<1> DEFINE rows == [k \in 1..Len(candles[tf]) |-> k]
           K == {k \in DOMAIN rows : /\ k > Skipped(tf) /\ k + 2 <= Len(candles[tf])
                                     /\ Upward(tf, k) \/ Downward(tf, k)}
           E == {rows[i] : i \in K \cap DOMAIN rows}
           firsts == Kept(rows, K)
           Object(k) == [tf |-> tf, c1 |-> k, id |-> k - Skipped(tf),
                         state |-> "formed", tests |-> << >>]
<1>1. candles[tf] \in Seq(CandleType)
  BY DEF TypeOK
<1>2. Skipped(tf) \in Nat
  <2>1. Load[tf] \in Nat
    BY FvgAssumption
  <2> QED
    BY <1>1, <2>1 DEF Skipped
<1>3. rows \in Seq(Nat)
  BY <1>1
<1>4. firsts \in Seq(E)
  <2> HIDE DEF rows, K
  <2> QED
    BY <1>3, KeptType
<1>5. \A k \in E : /\ k \in Nat \ {0} /\ k > Skipped(tf) /\ k + 2 <= Len(candles[tf])
                   /\ Upward(tf, k) \/ Downward(tf, k)
  <2> SUFFICES ASSUME NEW i \in K
               PROVE  LET k == rows[i]
                      IN  /\ k \in Nat \ {0} /\ k > Skipped(tf) /\ k + 2 <= Len(candles[tf])
                          /\ Upward(tf, k) \/ Downward(tf, k)
    OBVIOUS
  <2>1. rows[i] = i /\ i \in 1..Len(candles[tf])
    OBVIOUS
  <2>2. i \in Nat \ {0}
    BY <1>1, <2>1
  <2>3. /\ i > Skipped(tf) /\ i + 2 <= Len(candles[tf])
        /\ Upward(tf, i) \/ Downward(tf, i)
    OBVIOUS
  <2> HIDE DEF rows, K
  <2> QED
    BY <2>1, <2>2, <2>3
<1> HIDE DEF E, K, rows
<1>6. ASSUME NEW k \in E
      PROVE  Object(k) \in Fresh
  <2> DEFINE f == Object(k)
  <2>1. f \in ObjectType
    <3>1. k \in Nat /\ k - Skipped(tf) \in Nat
      BY <1>2, <1>5
    <3>2. << >> \in Seq(TestType)
      OBVIOUS
    <3> QED
      BY <3>1, <3>2 DEF ObjectType, States
  <2>2. f.tf = tf /\ f.c1 = k /\ f.state = "formed" /\ f.tests = << >>
    OBVIOUS
  <2>3. GapAt(tf, k)
    <3>1. k + 2 \in DOMAIN candles[tf]
      BY <1>1, <1>5
    <3> QED
      BY <1>5, <3>1 DEF GapAt
  <2> HIDE DEF f
  <2>4. ObjectTrue(f)
    BY <2>2, <2>3 DEF ObjectTrue
  <2>5. f \in Fresh
    BY <2>1, <2>2, <2>4 DEF Fresh
  <2> QED
    BY <2>5 DEF f
<1>7. Detected(tf) = [n \in DOMAIN firsts |-> Object(firsts[n])]
  BY DEF Detected, rows, K
<1> HIDE DEF firsts, Object
<1>8. \A n \in DOMAIN firsts : Object(firsts[n]) \in Fresh
  BY <1>4, <1>6
<1>9. DOMAIN firsts = 1..Len(firsts) /\ Len(firsts) \in Nat
  BY <1>4
<1> QED
  BY <1>7, <1>8, <1>9

LEMMA DetectedAllFresh ==
    ASSUME TypeOK
    PROVE  DetectedAll \in Seq(Fresh)
<1> DEFINE parts == [n \in DOMAIN Timeframes |-> Detected(Timeframes[n])]
<1>1. Timeframes \in Seq(Frames)
  BY FramesOfInstance
<1>2. \A n \in DOMAIN Timeframes : Detected(Timeframes[n]) \in Seq(Fresh)
  BY <1>1, DetectedFresh
<1>3. parts \in Seq(Seq(Fresh))
  BY <1>1, <1>2
<1> HIDE DEF parts
<1>4. FlattenSeq(parts) \in Seq(Fresh)
  BY <1>3, FlattenType
<1> QED
  BY <1>4 DEF DetectedAll, parts

\* A row carries time and verdict of its test.
LEMMA RecordedFields ==
    ASSUME NEW tf, NEW k, NEW x, NEW y, Recorded(tf, k, x),
           y.t = x.t, y.respected = x.respected
    PROVE  Recorded(tf, k, y)
BY Zenon DEF Recorded, TrueTest

\* _rebuild_fvg_tests_from_db gives a gap its own tests back.
LEMMA RestoredTrue ==
    ASSUME TypeOK, RowsTrue(stored), NEW f \in Fresh
    PROVE  Restored(f) \in ObjectType /\ ObjectTrue(Restored(f)) /\ Restored(f).state = "formed"
<1> DEFINE K == {n \in DOMAIN stored : SameGap(stored[n], f)}
           rows == Kept(stored, K)
           E == {stored[i] : i \in K \cap DOMAIN stored}
           tests == [n \in DOMAIN rows |-> [t |-> rows[n].t, respected |-> rows[n].respected]]
           g == Restored(f)
<1>1. f \in ObjectType /\ ObjectTrue(f) /\ f.state = "formed" /\ f.tests = << >>
  BY DEF Fresh
<1>2. g = [f EXCEPT !.tests = tests]
  BY <1>1 DEF Restored
<1>3. stored \in Seq(RowType)
  BY DEF TypeOK
<1>4. rows \in Seq(E)
  <2> HIDE DEF K
  <2> QED
    BY <1>3, KeptType
<1>5. ASSUME NEW r \in E
      PROVE  /\ r \in RowType /\ Recorded(f.tf, f.c1, r)
             /\ [t |-> r.t, respected |-> r.respected] \in TestType
  <2>1. PICK i \in DOMAIN stored : r = stored[i] /\ SameGap(stored[i], f)
    OBVIOUS
  <2>2. r \in RowType /\ Recorded(r.tf, r.c1, r) /\ r.tf = f.tf /\ r.c1 = f.c1
    BY <1>3, <2>1 DEF RowsTrue, SameGap
  <2> QED
    BY <2>2 DEF RowType, TestType
<1> HIDE DEF rows, E
<1>6. DOMAIN rows = 1..Len(rows) /\ Len(rows) \in Nat /\ \A n \in DOMAIN rows : rows[n] \in E
  BY <1>4
<1>7. ASSUME NEW n \in DOMAIN tests
      PROVE  tests[n] \in TestType /\ Recorded(f.tf, f.c1, tests[n])
  <2>1. n \in DOMAIN rows /\ rows[n] \in E
    BY <1>6
  <2>2. tests[n] = [t |-> rows[n].t, respected |-> rows[n].respected]
    BY <2>1
  <2>3. tests[n].t = rows[n].t /\ tests[n].respected = rows[n].respected
    BY <2>2
  <2> HIDE DEF tests
  <2>4. Recorded(f.tf, f.c1, rows[n]) /\ tests[n] \in TestType
    BY <1>5, <2>1, <2>2
  <2> QED
    BY <2>3, <2>4, RecordedFields
<1>8. tests \in Seq(TestType)
  <2>1. DOMAIN tests = 1..Len(rows) /\ tests = [n \in 1..Len(rows) |-> tests[n]]
    BY <1>6
  <2> HIDE DEF tests
  <2>2. tests \in [1..Len(rows) -> TestType]
    BY <1>7, <2>1
  <2> QED
    BY <1>6, <2>2
<1> HIDE DEF tests
<1>9. /\ g \in ObjectType /\ g.tests = tests
      /\ g.tf = f.tf /\ g.c1 = f.c1 /\ g.state = f.state
  <2> HIDE DEF g
  <2> QED
    BY <1>1, <1>2, <1>8 DEF ObjectType
<1> HIDE DEF g
<1>10. ObjectTrue(g)
  BY <1>1, <1>7, <1>9 DEF ObjectTrue
<1> QED
  BY <1>1, <1>9, <1>10 DEF g

\* Tracked objects have a count of tests.
LEMMA PrevCountType ==
    ASSUME TypeOK, NEW f, NEW i \in DOMAIN active,
           objects[active[i]].tf = f.tf, objects[active[i]].id = f.id
    PROVE  PrevCount(f) \in Nat
<1> DEFINE Found(o) == objects[o].tf = f.tf /\ objects[o].id = f.id
           I == {j \in 1..Len(active) : Found(active[j])}
           n == Max(I)
<1>1. active \in Seq(DOMAIN objects) /\ objects \in Seq(ObjectType)
  BY DEF TypeOK, Refs
<1>2. i \in 1..Len(active) /\ Len(active) \in Nat /\ i \in I
  BY <1>1
<1>3. I \in SUBSET (0..Len(active)) /\ I # {}
  BY <1>2
<1>4. \E x \in I : \A y \in I : y <= x
  <2> HIDE DEF I
  <2> QED
    BY <1>2, <1>3, GreatestElement
<1>5. n \in I
  <2>1. \E x \in I : \A y \in I : x >= y
    <3>1. \A x, y \in 0..Len(active) : y <= x => x >= y
      BY <1>2
    <3> HIDE DEF I
    <3> QED
      BY <1>3, <1>4, <3>1
  <2> HIDE DEF I
  <2> QED
    BY <2>1 DEF Max
<1>6. PrevCount(f) = Len(objects[active[n]].tests)
  BY <1>3 DEF PrevCount, SelectLastInSeq
<1>7. active[n] \in DOMAIN objects
  BY <1>1, <1>5
<1>8. objects[active[n]].tests \in Seq(TestType)
  BY <1>1, <1>7, ObjectFields
<1> QED
  BY <1>6, <1>8

LEMMA NewRowsTrue ==
    ASSUME TypeOK, NEW f \in ObjectType, ObjectTrue(f), PrevCount(f) \in Nat
    PROVE  NewRows(f) \in Seq(TrueRow)
<1> DEFINE news == SubSeq(f.tests, PrevCount(f) + 1, Len(f.tests))
           Made(x) == [tf |-> f.tf, c1 |-> f.c1, id |-> f.id,
                       t |-> x.t, respected |-> x.respected]
<1>1. f.tests \in Seq(TestType)
  BY ObjectFields
<1>2. /\ news \in Seq(TestType)
      /\ \A n \in DOMAIN news : \E m \in DOMAIN f.tests : news[n] = f.tests[m]
  <2>1. \A s \in Seq(TestType) : \A a \in Nat :
           /\ SubSeq(s, a + 1, Len(s)) \in Seq(TestType)
           /\ \A n \in DOMAIN SubSeq(s, a + 1, Len(s)) :
                 /\ a + n \in DOMAIN s
                 /\ SubSeq(s, a + 1, Len(s))[n] = s[a + n]
    OBVIOUS
  <2> QED
    BY <1>1, <2>1
<1>3. NewRows(f) = [n \in DOMAIN news |-> Made(news[n])]
  BY DEF NewRows
<1> HIDE DEF news
<1>4. ASSUME NEW n \in DOMAIN news
      PROVE  Made(news[n]) \in TrueRow
  <2> DEFINE x == news[n]
             r == Made(x)
  <2>1. x \in TestType /\ Recorded(f.tf, f.c1, x)
    BY <1>2 DEF ObjectTrue
  <2>2. r \in RowType
    BY <2>1, ObjectFields DEF RowType, TestType
  <2>3. r.tf = f.tf /\ r.c1 = f.c1 /\ r.t = x.t /\ r.respected = x.respected
    OBVIOUS
  <2> HIDE DEF r, x
  <2>4. Recorded(f.tf, f.c1, r)
    BY <2>1, <2>3, RecordedFields
  <2>5. r \in TrueRow
    BY <2>2, <2>3, <2>4 DEF TrueRow
  <2> QED
    BY <2>5 DEF r, x
<1> HIDE DEF Made
<1>5. DOMAIN news = 1..Len(news) /\ Len(news) \in Nat
  BY <1>2
<1> QED
  BY <1>3, <1>4, <1>5

LEMMA NewestType ==
    ASSUME NEW S, NEW s \in Seq(S)
    PROVE  Newest(s) \in Seq(S) /\ Len(Newest(s)) <= KeepCap
BY FramesOfInstance DEF Newest
-----------------------------------------------------------------------------
(* Steps.                                                                   *)

\* What aging and detection make of the objects, before anything is restored.
LEMMA GrownObjects ==
    ASSUME TrackInv
    PROVE  LET aged  == [i \in DOMAIN objects |->
                            IF Contains(active, i) THEN Aged(objects[i]) ELSE objects[i]]
               grown == aged \o DetectedAll
           IN  /\ aged \in Seq(ObjectType) /\ DOMAIN aged = DOMAIN objects
               /\ grown \in Seq(ObjectType)
               /\ Len(grown) = Len(objects) + Len(DetectedAll)
               /\ \A i \in DOMAIN grown : ObjectTrue(grown[i])
               /\ \A i \in DOMAIN objects : /\ i \in DOMAIN grown
                                            /\ Forward(objects[i], grown[i])
               /\ \A n \in DOMAIN active :
                     /\ aged[active[n]] \in ObjectType /\ ObjectTrue(aged[active[n]])
                     /\ aged[active[n]].tf = objects[active[n]].tf
                     /\ aged[active[n]].id = objects[active[n]].id
               /\ objects = << >> => grown = DetectedAll
<1> DEFINE aged  == [i \in DOMAIN objects |->
                        IF Contains(active, i) THEN Aged(objects[i]) ELSE objects[i]]
           grown == aged \o DetectedAll
<1>1. TypeOK /\ objects \in Seq(ObjectType) /\ active \in Seq(DOMAIN objects)
  BY DEF TrackInv, TypeOK, Refs
<1>2. \A i \in DOMAIN objects : objects[i] \in ObjectType /\ ObjectTrue(objects[i])
  BY <1>1 DEF TrackInv
<1>3. ASSUME NEW i \in DOMAIN objects
      PROVE  /\ aged[i] \in ObjectType /\ ObjectTrue(aged[i]) /\ Forward(objects[i], aged[i])
             /\ aged[i].tf = objects[i].tf /\ aged[i].id = objects[i].id
  <2>1. aged[i] = Aged(objects[i]) \/ aged[i] = objects[i]
    OBVIOUS
  <2> HIDE DEF aged
  <2> QED
    BY <1>1, <1>2, <2>1, AgedObject, ForwardSame
<1>4. DetectedAll \in Seq(Fresh)
  BY <1>1, DetectedAllFresh
<1>5. DetectedAll \in Seq(ObjectType) /\ \A n \in DOMAIN DetectedAll : ObjectTrue(DetectedAll[n])
  <2>1. Fresh \subseteq ObjectType /\ \A f \in Fresh : ObjectTrue(f)
    BY DEF Fresh
  <2> QED
    BY <1>4, <2>1, ListMono
<1>6. DOMAIN aged = DOMAIN objects /\ aged \in Seq(ObjectType) /\ Len(aged) = Len(objects)
  <2>1. DOMAIN objects = 1..Len(objects) /\ Len(objects) \in Nat
    BY <1>1
  <2>2. DOMAIN aged = 1..Len(objects) /\ aged = [i \in 1..Len(objects) |-> aged[i]]
    BY <2>1
  <2> HIDE DEF aged
  <2>3. aged \in [1..Len(objects) -> ObjectType]
    BY <1>3, <2>1, <2>2
  <2> QED
    BY <2>1, <2>2, <2>3
<1> HIDE DEF aged
<1>7. /\ grown \in Seq(ObjectType)
      /\ Len(grown) = Len(objects) + Len(DetectedAll)
      /\ \A i \in 1..Len(objects) : i \in DOMAIN grown /\ grown[i] = aged[i]
      /\ \A i \in DOMAIN grown : i \notin 1..Len(objects) =>
            /\ i - Len(objects) \in DOMAIN DetectedAll
            /\ grown[i] = DetectedAll[i - Len(objects)]
  BY <1>5, <1>6
<1>8. DOMAIN objects = 1..Len(objects)
  BY <1>1
<1> HIDE DEF grown
<1>9. ASSUME NEW i \in DOMAIN grown
      PROVE  ObjectTrue(grown[i])
  <2>1. CASE i \in 1..Len(objects)
    BY <1>3, <1>7, <1>8, <2>1
  <2>2. CASE i \notin 1..Len(objects)
    BY <1>5, <1>7, <2>2
  <2> QED
    BY <2>1, <2>2
<1>10. ASSUME NEW i \in DOMAIN objects
       PROVE  i \in DOMAIN grown /\ Forward(objects[i], grown[i])
  BY <1>3, <1>7, <1>8
<1>11. ASSUME NEW n \in DOMAIN active
       PROVE  /\ aged[active[n]] \in ObjectType /\ ObjectTrue(aged[active[n]])
              /\ aged[active[n]].tf = objects[active[n]].tf
              /\ aged[active[n]].id = objects[active[n]].id
  <2>1. active[n] \in DOMAIN objects
    BY <1>1
  <2> QED
    BY <1>3, <2>1
<1>12. objects = << >> => grown = DetectedAll
  <2>1. \A q \in Seq(ObjectType) : << >> \o q = q
    OBVIOUS
  <2>2. objects = << >> => aged = << >>
    BY <1>6
  <2> QED
    BY <1>5, <2>1, <2>2, Zenon DEF grown
<1> QED
  BY <1>6, <1>7, <1>9, <1>10, <1>11, <1>12, Zenon DEF aged, grown

\* The tests that a tick hands to the events table are true.
LEMMA NewTestRows ==
    ASSUME TrackInv
    PROVE  LET aged == [i \in DOMAIN objects |->
                           IF Contains(active, i) THEN Aged(objects[i]) ELSE objects[i]]
           IN  FlattenSeq([n \in DOMAIN active |-> NewRows(aged[active[n]])]) \in Seq(TrueRow)
<1> DEFINE aged == [i \in DOMAIN objects |->
                       IF Contains(active, i) THEN Aged(objects[i]) ELSE objects[i]]
           parts == [n \in DOMAIN active |-> NewRows(aged[active[n]])]
<1>1. TypeOK /\ active \in Seq(DOMAIN objects)
  BY DEF TrackInv, TypeOK, Refs
<1>2. \A n \in DOMAIN active :
         /\ aged[active[n]] \in ObjectType /\ ObjectTrue(aged[active[n]])
         /\ aged[active[n]].tf = objects[active[n]].tf
         /\ aged[active[n]].id = objects[active[n]].id
  BY GrownObjects
<1> HIDE DEF aged
<1>3. ASSUME NEW n \in DOMAIN active
      PROVE  NewRows(aged[active[n]]) \in Seq(TrueRow)
  <2>1. PrevCount(aged[active[n]]) \in Nat
    BY <1>1, <1>2, PrevCountType
  <2> QED
    BY <1>1, <1>2, <2>1, NewRowsTrue
<1>4. parts \in Seq(Seq(TrueRow))
  <2>1. DOMAIN active = 1..Len(active) /\ Len(active) \in Nat
    BY <1>1
  <2> QED
    BY <1>3, <2>1
<1> HIDE DEF parts
<1>5. FlattenSeq(parts) \in Seq(TrueRow)
  BY <1>4, FlattenType
<1> QED
  BY <1>5 DEF parts, aged

\* Restoring replaces objects only in a new process.
LEMMA NextObjects ==
    ASSUME TrackInv, Evaluate
    PROVE  LET grown == [i \in DOMAIN objects |->
                            IF Contains(active, i) THEN Aged(objects[i]) ELSE objects[i]]
                        \o DetectedAll
           IN  /\ objects' \in Seq(ObjectType) /\ DOMAIN objects' = DOMAIN grown
               /\ \A i \in DOMAIN objects' : ObjectTrue(objects'[i])
               /\ \A i \in DOMAIN objects : /\ i \in DOMAIN objects'
                                            /\ Forward(objects[i], objects'[i])
<1> DEFINE grown == [i \in DOMAIN objects |->
                        IF Contains(active, i) THEN Aged(objects[i]) ELSE objects[i]]
                    \o DetectedAll
           open == Kept(active \o [n \in DOMAIN DetectedAll |-> Len(objects) + n],
                        {n \in DOMAIN (active \o [m \in DOMAIN DetectedAll |-> Len(objects) + m]) :
                            grown[(active \o [m \in DOMAIN DetectedAll |-> Len(objects) + m])[n]].state
                                # "fully_filled"})
           tail == Newest(open)
           restored == [i \in DOMAIN grown |->
                           IF Contains(tail, i) THEN Restored(grown[i]) ELSE grown[i]]
<1>1. /\ grown \in Seq(ObjectType)
      /\ \A i \in DOMAIN grown : ObjectTrue(grown[i])
      /\ \A i \in DOMAIN objects : i \in DOMAIN grown /\ Forward(objects[i], grown[i])
      /\ objects = << >> => grown = DetectedAll
  BY GrownObjects
<1>2. objects' = grown \/ (~ rebuilt /\ objects' = restored)
  BY DEF Evaluate
<1>3. CASE objects' = grown
  BY <1>1, <1>3
<1>4. CASE ~ rebuilt /\ objects' = restored
  <2>1. objects = << >> /\ grown = DetectedAll
    BY <1>1, <1>4 DEF TrackInv
  <2>2. TypeOK /\ RowsTrue(stored)
    BY DEF TrackInv
  <2>3. DetectedAll \in Seq(Fresh)
    BY <2>2, DetectedAllFresh
  <2> HIDE DEF grown, tail
  <2>4. ASSUME NEW i \in DOMAIN grown
        PROVE  restored[i] \in ObjectType /\ ObjectTrue(restored[i])
    <3>1. grown[i] \in Fresh
      BY <2>1, <2>3
    <3>2. Restored(grown[i]) \in ObjectType /\ ObjectTrue(Restored(grown[i]))
      BY <2>2, <3>1, RestoredTrue
    <3>3. grown[i] \in ObjectType /\ ObjectTrue(grown[i])
      BY <1>1
    <3>4. restored[i] = Restored(grown[i]) \/ restored[i] = grown[i]
      OBVIOUS
    <3> HIDE DEF restored
    <3> QED
      BY <3>2, <3>3, <3>4
  <2>5. DOMAIN restored = DOMAIN grown
    OBVIOUS
  <2>6. restored \in Seq(ObjectType)
    <3>1. DOMAIN grown = 1..Len(grown) /\ Len(grown) \in Nat
      BY <1>1
    <3>2. restored = [i \in 1..Len(grown) |-> restored[i]]
      BY <3>1
    <3> HIDE DEF restored
    <3>3. restored \in [1..Len(grown) -> ObjectType]
      BY <2>4, <3>1, <3>2
    <3> QED
      BY <3>1, <3>3
  <2>7. DOMAIN objects = {}
    BY <2>1
  <2> HIDE DEF restored
  <2> QED
    BY <1>4, <2>4, <2>5, <2>6, <2>7 DEF grown
<1> QED
  BY <1>2, <1>3, <1>4

\* What is tracked next are places of objects, at most KeepCap.
LEMMA NextRefs ==
    ASSUME TrackInv, Evaluate
    PROVE  /\ active' \in Seq(DOMAIN objects') /\ Len(active') <= KeepCap
           /\ tick' \in [pc : {"persist"}, rows : Seq(TrueRow), fvgs : Seq(DOMAIN objects')]
           /\ DOMAIN objects \subseteq DOMAIN objects'
<1> DEFINE aged  == [i \in DOMAIN objects |->
                        IF Contains(active, i) THEN Aged(objects[i]) ELSE objects[i]]
           grown == aged \o DetectedAll
           every == active \o [n \in DOMAIN DetectedAll |-> Len(objects) + n]
           K     == {n \in DOMAIN every : grown[every[n]].state # "fully_filled"}
           open  == Kept(every, K)
           rows  == FlattenSeq([n \in DOMAIN active |-> NewRows(aged[active[n]])])
           D     == DOMAIN objects'
<1>1. /\ objects' \in Seq(ObjectType) /\ D = DOMAIN grown
      /\ \A i \in DOMAIN objects : i \in D
  BY NextObjects
<1>2. grown \in Seq(ObjectType) /\ Len(grown) = Len(objects) + Len(DetectedAll)
  BY GrownObjects
<1>3. active \in Seq(DOMAIN objects) /\ objects \in Seq(ObjectType)
  BY DEF TrackInv, TypeOK, Refs
<1>4. DetectedAll \in Seq(Fresh)
  BY DetectedAllFresh DEF TrackInv
<1>5. rows \in Seq(TrueRow)
  BY NewTestRows
<1>6. active' = Newest(open) /\ tick' = [pc |-> "persist", fvgs |-> Newest(open), rows |-> rows]
  BY DEF Evaluate
<1> HIDE DEF grown, aged, rows
<1>7. D = 1..(Len(objects) + Len(DetectedAll))
  BY <1>1, <1>2
<1> HIDE DEF D
<1>8. active \in Seq(D)
  <2>1. DOMAIN objects \subseteq D
    BY <1>1
  <2> QED
    BY <1>3, <2>1, ListMono
<1>9. every \in Seq(D)
  <2> DEFINE new == [n \in DOMAIN DetectedAll |-> Len(objects) + n]
  <2>1. new \in Seq(D)
    <3>1. DOMAIN DetectedAll = 1..Len(DetectedAll) /\ Len(DetectedAll) \in Nat /\ Len(objects) \in Nat
      BY <1>3, <1>4
    <3>2. new \in [1..Len(DetectedAll) -> D]
      BY <1>7, <3>1
    <3> HIDE DEF new
    <3> QED
      BY <3>1, <3>2
  <2> HIDE DEF new
  <2>2. active \o new \in Seq(D)
    BY <1>8, <2>1
  <2> QED
    BY <2>2 DEF new
<1>10. open \in Seq(D)
  <2> HIDE DEF every, K
  <2>1. open \in Seq({every[i] : i \in K \cap DOMAIN every})
    BY <1>9, KeptType
  <2>2. {every[i] : i \in K \cap DOMAIN every} \subseteq D
    BY <1>9
  <2> QED
    BY <2>1, <2>2, ListMono
<1> HIDE DEF open
<1>11. Newest(open) \in Seq(D) /\ Len(Newest(open)) <= KeepCap
  BY <1>10, NewestType
<1> QED
  BY <1>1, <1>5, <1>6, <1>11 DEF D

\* While the candles are the same, what is said of objects and rows stays true.
LEMMA SameCandles ==
    ASSUME candles' = candles
    PROVE  /\ (\A i \in DOMAIN objects' : ObjectTrue(objects'[i]))
                 => (\A i \in DOMAIN objects : ObjectTrue(objects[i]))'
           /\ RowsTrue(stored') => RowsTrue(stored)'
           /\ RowsTrue(tick'.rows) => RowsTrue(tick.rows)'
<1>1. ASSUME NEW tf, NEW k, NEW x, Recorded(tf, k, x)
      PROVE  Recorded(tf, k, x)'
  BY <1>1 DEF Recorded, GapAt, TrueTest, BodyThrough, Upward, Downward, Direction, Top, Bottom
<1>2. ASSUME NEW f, ObjectTrue(f)
      PROVE  ObjectTrue(f)'
  <2>1. GapAt(f.tf, f.c1)'
    BY <1>2 DEF ObjectTrue, GapAt, Upward, Downward
  <2>2. ClosedThrough(f) => ClosedThrough(f)'
    BY DEF ClosedThrough, BodyThrough, Upward, Downward, Direction, Top, Bottom
  <2> QED
    BY <1>1, <1>2, <2>1, <2>2 DEF ObjectTrue
<1>3. (\A i \in DOMAIN objects' : ObjectTrue(objects'[i]))
         => (\A i \in DOMAIN objects : ObjectTrue(objects[i]))'
  BY <1>2
<1>4. RowsTrue(stored') => RowsTrue(stored)'
  BY <1>1 DEF RowsTrue
<1>5. RowsTrue(tick'.rows) => RowsTrue(tick.rows)'
  BY <1>1 DEF RowsTrue
<1> QED
  BY <1>3, <1>4, <1>5

\* The poll appends a candle: what is said of the older ones stays true.
LEMMA PolledCandles ==
    ASSUME TypeOK, NEW f \in Frames, NEW c \in Shapes[f], Poll(f, c)
    PROVE  /\ candles' \in [Frames -> Seq(CandleType)]
           /\ \A tf \in Frames : /\ DOMAIN candles[tf] \subseteq DOMAIN candles'[tf]
                                 /\ \A k \in DOMAIN candles[tf] : candles'[tf][k] = candles[tf][k]
<1>1. candles \in [Frames -> Seq(CandleType)] /\ c \in CandleType
  BY FvgAssumption DEF TypeOK
<1>2. candles' = [candles EXCEPT ![f] = Append(@, c)]
  BY DEF Poll
<1>3. \A s \in Seq(CandleType) : /\ Append(s, c) \in Seq(CandleType)
                                 /\ DOMAIN s \subseteq DOMAIN Append(s, c)
                                 /\ \A k \in DOMAIN s : Append(s, c)[k] = s[k]
  <2> HIDE DEF CandleType
  <2> QED
    BY <1>1
<1>4. \A tf \in Frames : candles'[tf] = candles[tf] \/ candles'[tf] = Append(candles[tf], c)
  BY <1>1, <1>2
<1>5. DOMAIN candles' = Frames /\ candles' = [tf \in Frames |-> candles'[tf]]
  BY <1>1, <1>2
<1>6. \A tf \in Frames : candles[tf] \in Seq(CandleType)
  BY <1>1
<1>7. \A tf \in Frames : candles'[tf] \in Seq(CandleType)
  BY <1>3, <1>4, <1>6
<1> QED
  BY <1>3, <1>4, <1>5, <1>6, <1>7

LEMMA PolledTruths ==
    ASSUME TypeOK,
           \A tf \in Frames : /\ DOMAIN candles[tf] \subseteq DOMAIN candles'[tf]
                              /\ \A k \in DOMAIN candles[tf] : candles'[tf][k] = candles[tf][k],
           NEW tf \in Frames, NEW k \in Nat
    PROVE  /\ GapAt(tf, k) => GapAt(tf, k)'
           /\ \A x : Recorded(tf, k, x) => Recorded(tf, k, x)'
           /\ \A f : f.tf = tf /\ f.c1 = k /\ GapAt(tf, k) /\ ClosedThrough(f)
                        => ClosedThrough(f)'
<1>1. Base \in Frames
  BY FramesOfInstance
<1>2. ASSUME GapAt(tf, k)
      PROVE  /\ k \in DOMAIN candles[tf] /\ k + 2 \in DOMAIN candles[tf]
             /\ candles'[tf][k] = candles[tf][k] /\ candles'[tf][k + 2] = candles[tf][k + 2]
             /\ k + 2 \in DOMAIN candles'[tf]
  <2>1. k \in DOMAIN candles[tf] /\ k + 2 \in DOMAIN candles[tf]
    BY <1>2 DEF GapAt, TypeOK
  <2> QED
    BY <2>1
<1>3. GapAt(tf, k) => GapAt(tf, k)'
  BY <1>2 DEF GapAt, Upward, Downward
<1>4. ASSUME NEW x, Recorded(tf, k, x)
      PROVE  Recorded(tf, k, x)'
  <2>1. GapAt(tf, k) /\ TrueTest(tf, k, x) /\ x.t \in DOMAIN candles[Base]
    BY <1>4 DEF Recorded, TrueTest
  <2>2. x.t \in DOMAIN candles'[Base] /\ candles'[Base][x.t] = candles[Base][x.t]
    BY <1>1, <2>1
  <2>3. TrueTest(tf, k, x)'
    BY <1>2, <2>1, <2>2 DEF TrueTest
  <2> DEFINE g == [tf |-> tf, c1 |-> k]
  <2>4. ~ BodyThrough(g, candles[Base][x.t])
    BY <1>4 DEF Recorded
  <2>5. g.tf = tf /\ g.c1 = k
    OBVIOUS
  <2> HIDE DEF g
  <2>6. ~ BodyThrough(g, candles[Base][x.t])'
    BY <1>2, <2>1, <2>2, <2>4, <2>5 DEF BodyThrough, Direction, Top, Bottom, Upward
  <2> QED
    BY <1>3, <2>1, <2>3, <2>6 DEF Recorded, g
<1>5. ASSUME NEW f, f.tf = tf, f.c1 = k, GapAt(tf, k), ClosedThrough(f)
      PROVE  ClosedThrough(f)'
  <2>1. PICK t \in DOMAIN candles[Base] : /\ BodyThrough(f, candles[Base][t])
                                          /\ \A n \in DOMAIN f.tests : f.tests[n].t < t
    BY <1>5 DEF ClosedThrough
  <2>2. t \in DOMAIN candles'[Base] /\ candles'[Base][t] = candles[Base][t]
    BY <1>1
  <2>3. BodyThrough(f, candles[Base][t])'
    BY <1>2, <1>5, <2>1, <2>2 DEF BodyThrough, Direction, Top, Bottom, Upward
  <2> QED
    BY <2>1, <2>2, <2>3 DEF ClosedThrough
<1> QED
  BY <1>3, <1>4, <1>5

LEMMA RowFields == \A r \in RowType : r.tf \in Frames /\ r.c1 \in Nat
BY DEF RowType

LEMMA PollKeeps ==
    ASSUME TrackInv, NEW f \in Frames, NEW c \in Shapes[f], Poll(f, c)
    PROVE  TrackInv'
<1>1. TypeOK
  BY DEF TrackInv
<1>2. UNCHANGED << stored, ticks, triggers, objects, active, rebuilt, tick, contexts, judge,
                   faults >>
  BY DEF Poll
<1>3. /\ candles' \in [Frames -> Seq(CandleType)]
      /\ \A tf \in Frames : /\ DOMAIN candles[tf] \subseteq DOMAIN candles'[tf]
                            /\ \A k \in DOMAIN candles[tf] : candles'[tf][k] = candles[tf][k]
  BY <1>1, PolledCandles
<1>4. polled' \in [Frames -> 0..2]
  <2>1. polled \in [Frames -> 0..2] /\ polled[f] < 2
    BY <1>1 DEF TypeOK, Poll
  <2>2. polled[f] + 1 \in 0..2
    BY <2>1
  <2> QED
    BY <2>1, <2>2 DEF Poll
<1>5. TypeOK'
  BY <1>1, <1>2, <1>3, <1>4 DEF TypeOK, Refs
<1>6. ASSUME NEW i \in DOMAIN objects
      PROVE  ObjectTrue(objects[i])'
  <2>1. objects[i] \in ObjectType /\ ObjectTrue(objects[i])
    BY <1>1 DEF TrackInv, TypeOK
  <2> DEFINE g == objects[i]
  <2>2. objects'[i] = g
    BY <1>2
  <2>3. g.tf \in Frames /\ g.c1 \in Nat
    BY <2>1, ObjectFields
  <2> HIDE DEF g
  <2>4. GapAt(g.tf, g.c1) /\ (\A n \in DOMAIN g.tests : Recorded(g.tf, g.c1, g.tests[n]))
        /\ (g.state = "inverted" => ClosedThrough(g))
    BY <2>1 DEF ObjectTrue, g
  <2>5. \A tf \in Frames : \A k \in Nat :
           /\ GapAt(tf, k) => GapAt(tf, k)'
           /\ \A x : Recorded(tf, k, x) => Recorded(tf, k, x)'
           /\ \A h : h.tf = tf /\ h.c1 = k /\ GapAt(tf, k) /\ ClosedThrough(h)
                        => ClosedThrough(h)'
    BY <1>1, <1>3, PolledTruths
  <2>6. \A h : /\ h.tf \in Frames /\ h.c1 \in Nat
               /\ GapAt(h.tf, h.c1) /\ (\A n \in DOMAIN h.tests : Recorded(h.tf, h.c1, h.tests[n]))
               /\ (h.state = "inverted" => ClosedThrough(h))
               => ObjectTrue(h)'
    BY <2>5 DEF ObjectTrue
  <2>7. (g.tf \in Frames /\ g.c1 \in Nat) => ObjectTrue(objects[i])'
    BY <2>2, <2>3, <2>4, <2>6
  <2> QED
    BY <2>3, <2>7
<1>7. \A x : \A tf \in Frames, k \in Nat : Recorded(tf, k, x) => Recorded(tf, k, x)'
  BY <1>1, <1>3, PolledTruths
<1>8. RowsTrue(stored)'
  <2>1. \A n \in DOMAIN stored : stored[n].tf \in Frames /\ stored[n].c1 \in Nat
    BY <1>1, RowFields DEF TypeOK
  <2> QED
    BY <1>2, <1>7, <2>1 DEF TrackInv, RowsTrue
<1>9. RowsTrue(tick.rows)'
  <2>1. tick.rows \in Seq(RowType)
    BY <1>1 DEF TypeOK
  <2>2. \A n \in DOMAIN tick.rows : tick.rows[n].tf \in Frames /\ tick.rows[n].c1 \in Nat
    BY <2>1, RowFields
  <2> QED
    BY <1>2, <1>7, <2>2 DEF TrackInv, RowsTrue
<1> QED
  BY <1>2, <1>5, <1>6, <1>8, <1>9 DEF TrackInv

LEMMA EvaluateKeeps ==
    ASSUME TrackInv, Evaluate
    PROVE  TrackInv'
<1>1. TypeOK /\ RowsTrue(stored)
  BY DEF TrackInv
<1>2. /\ objects' \in Seq(ObjectType)
      /\ \A i \in DOMAIN objects' : ObjectTrue(objects'[i])
  BY NextObjects
<1>3. /\ active' \in Seq(DOMAIN objects') /\ Len(active') <= KeepCap
      /\ tick' \in [pc : {"persist"}, rows : Seq(TrueRow), fvgs : Seq(DOMAIN objects')]
      /\ DOMAIN objects \subseteq DOMAIN objects'
  BY NextRefs
<1>4. /\ UNCHANGED << candles, stored, polled, ticks, contexts, judge >>
      /\ rebuilt' = TRUE /\ triggers' = triggers - 1 /\ triggers > 0
  BY DEF Evaluate
<1>5. faults' \in 0..MaxFaults
  <2>1. faults \in 0..MaxFaults /\ MaxFaults \in Nat
    BY <1>1, FvgAssumption DEF TypeOK
  <2>2. faults' = faults \/ (faults < MaxFaults /\ faults' = faults + 1)
    BY DEF Evaluate
  <2> QED
    BY <2>1, <2>2
<1>6. triggers' \in 0..ticks'
  BY <1>1, <1>4, FvgAssumption DEF TypeOK
<1>7. TrueRow \subseteq RowType
  BY DEF TrueRow
<1>8. tick'.rows \in Seq(TrueRow) /\ tick'.fvgs \in Seq(DOMAIN objects')
  BY <1>3
<1>9. tick' \in [pc : {"idle", "persist", "deliver"}, rows : Seq(RowType),
                 fvgs : Seq(DOMAIN objects')]
  <2>1. tick'.rows \in Seq(RowType)
    BY <1>7, <1>8, ListMono
  <2> QED
    BY <1>3, <2>1
<1>10. Seq(DOMAIN objects) \subseteq Seq(DOMAIN objects')
  BY <1>3, ListMono
<1>11. contexts' \in Seq(Seq(DOMAIN objects')) /\ Len(contexts') <= ContextCap
  <2>1. contexts \in Seq(Seq(DOMAIN objects)) /\ Len(contexts) <= ContextCap
    BY <1>1 DEF TypeOK, Refs
  <2> QED
    BY <1>4, <1>10, <2>1, ListMono
<1>12. judge' \in [pc : {"idle", "agents", "trade", "result"}, fvgs : Seq(DOMAIN objects'),
                   strict : BOOLEAN, gap : 0..Len(objects')]
  <2>1. judge \in [pc : {"idle", "agents", "trade", "result"}, fvgs : Seq(DOMAIN objects),
                   strict : BOOLEAN, gap : 0..Len(objects)]
    BY <1>1 DEF TypeOK, Refs
  <2>2. 0..Len(objects) \subseteq 0..Len(objects')
    <3>1. /\ DOMAIN objects = 1..Len(objects) /\ DOMAIN objects' = 1..Len(objects')
          /\ Len(objects) \in Nat /\ Len(objects') \in Nat
      BY <1>1, <1>2 DEF TypeOK
    <3> QED
      BY <1>3, <3>1
  <2> QED
    BY <1>4, <1>10, <2>1, <2>2
<1>13. TypeOK'
  BY <1>1, <1>2, <1>3, <1>4, <1>5, <1>6, <1>9, <1>11, <1>12 DEF TypeOK, Refs
<1>14. RowsTrue(tick'.rows)
  BY <1>8 DEF TrueRow, RowsTrue
<1> QED
  BY <1>1, <1>2, <1>4, <1>13, <1>14, SameCandles DEF TrackInv

\* A record of the strategy at work, with whatever it found.
JudgeType == [pc : {"idle", "agents", "trade", "result"}, fvgs : Refs, strict : BOOLEAN,
              gap : 0..Len(objects)]

LEMMA JudgeKeeps ==
    ASSUME TypeOK, Judge
    PROVE  judge' \in JudgeType /\ contexts' \in Seq(Refs) /\ Len(contexts') <= ContextCap
<1>1. judge \in JudgeType /\ contexts \in Seq(Refs) /\ Len(contexts) <= ContextCap
      /\ Len(objects) \in Nat /\ ContextCap \in Nat
  BY FvgAssumption DEF TypeOK, JudgeType
<1>2. CASE JudgeTake
  <2>1. Head(contexts) \in Refs /\ Tail(contexts) \in Seq(Refs)
        /\ Len(Tail(contexts)) <= ContextCap
    <3> HIDE DEF Refs
    <3> QED
      BY <1>1, <1>2 DEF JudgeTake
  <2>2. judge' = [IdleJudge EXCEPT !.pc = "agents", !.fvgs = Head(contexts)]
        /\ contexts' = Tail(contexts)
    BY <1>2 DEF JudgeTake
  <2>3. judge' = [pc |-> "agents", fvgs |-> Head(contexts), strict |-> FALSE, gap |-> 0]
    BY <2>2 DEF IdleJudge
  <2>4. 0 \in 0..Len(objects)
    BY <1>1
  <2>5. judge' \in JudgeType
    <3> HIDE DEF Refs
    <3> QED
      BY <2>1, <2>3, <2>4 DEF JudgeType
  <2> QED
    BY <2>1, <2>2, <2>5
<1>3. CASE JudgeAgents
  <2>1. contexts' = contexts
    BY <1>3 DEF JudgeAgents
  <2>2. \E b \in BOOLEAN : judge' = [judge EXCEPT !.pc = "trade", !.strict = b]
    <3> DEFINE b == /\ Reclaimed(judge.fvgs) # 0
                    /\ \A n \in DOMAIN judge.fvgs : ~ Breached(objects[judge.fvgs[n]])
    <3>1. b \in BOOLEAN /\ judge' = [judge EXCEPT !.pc = "trade", !.strict = b]
      BY <1>3, Zenon DEF JudgeAgents
    <3> HIDE DEF b
    <3> QED
      BY <3>1
  <2> QED
    BY <1>1, <2>1, <2>2 DEF JudgeType
<1>4. CASE JudgeTrade
  <2> DEFINE q == judge.fvgs
             I == {j \in 1..Len(q) : Reclaimable(objects[q[j]])}
             n == Reclaimed(q)
  <2>1. q \in Refs
    BY <1>1 DEF JudgeType
  <2>2. n = 0 \/ n \in DOMAIN q
    <3>1. DOMAIN q = 1..Len(q) /\ Len(q) \in Nat
      BY <2>1 DEF Refs
    <3>2. I \in SUBSET (0..Len(q))
      BY <3>1
    <3>3. CASE I = {}
      BY <3>3 DEF Reclaimed, SelectLastInSeq
    <3>4. CASE I # {}
      <4>1. \E x \in I : \A y \in I : y <= x
        <5> HIDE DEF I
        <5> QED
          BY <3>1, <3>2, <3>4, GreatestElement
      <4>2. \A x, y \in 0..Len(q) : y <= x => x >= y
        BY <3>1
      <4>3. n = Max(I)
        BY <3>4 DEF Reclaimed, SelectLastInSeq
      <4>4. Max(I) \in I
        <5> HIDE DEF I
        <5>1. \E x \in I : \A y \in I : x >= y
          BY <3>2, <4>1, <4>2
        <5> QED
          BY <5>1 DEF Max
      <4> QED
        BY <3>1, <4>3, <4>4
    <3> QED
      BY <3>3, <3>4
  <2> HIDE DEF n
  <2>3. (IF n = 0 THEN 0 ELSE q[n]) \in 0..Len(objects)
    <3>1. DOMAIN objects \subseteq 0..Len(objects)
      BY DEF TypeOK
    <3>2. n # 0 => q[n] \in DOMAIN objects
      BY <2>1, <2>2 DEF Refs
    <3> QED
      BY <1>1, <3>1, <3>2
  <2>4. /\ contexts' = contexts
        /\ judge' = [judge EXCEPT !.pc = "result", !.gap = IF n = 0 THEN 0 ELSE q[n]]
    BY <1>4 DEF JudgeTrade, n
  <2> HIDE DEF q
  <2> QED
    BY <1>1, <2>3, <2>4 DEF JudgeType
<1>5. CASE JudgeDone
  <2>1. << >> \in Refs
    BY DEF Refs
  <2>2. judge' = IdleJudge /\ contexts' = contexts
    BY <1>5 DEF JudgeDone
  <2>3. 0 \in 0..Len(objects)
    BY <1>1
  <2>4. IdleJudge \in JudgeType
    BY <2>1, <2>3 DEF IdleJudge, JudgeType
  <2> QED
    BY <1>1, <2>2, <2>4
<1> QED
  BY <1>2, <1>3, <1>4, <1>5 DEF Judge

\* Neither objects nor candles move in the other steps.
LEMMA OthersKeep ==
    ASSUME TrackInv, Trigger \/ Persist \/ PersistFail \/ Deliver \/ Judge
    PROVE  TrackInv' /\ UNCHANGED << objects, candles >>
<1>1. /\ TypeOK /\ RowsTrue(stored) /\ RowsTrue(tick.rows)
      /\ \A i \in DOMAIN objects : ObjectTrue(objects[i])
      /\ ~ rebuilt => objects = << >> /\ active = << >>
  BY DEF TrackInv
<1>2. UNCHANGED << candles, objects, active, rebuilt >>
  BY DEF Trigger, Persist, PersistFail, Deliver, Judge, JudgeTake, JudgeAgents, JudgeTrade,
         JudgeDone
<1>3. /\ tick.rows \in Seq(RowType) /\ tick.fvgs \in Refs
      /\ tick.pc \in {"idle", "persist", "deliver"}
      /\ stored \in Seq(RowType) /\ contexts \in Seq(Refs) /\ Len(contexts) <= ContextCap
      /\ ticks \in 0..MaxTicks /\ triggers \in 0..ticks /\ faults \in 0..MaxFaults
  BY <1>1 DEF TypeOK
<1>4. << >> \in Refs /\ << >> \in Seq(RowType)
  BY DEF Refs
<1>5. MaxTicks \in Nat /\ MaxFaults \in Nat /\ ContextCap \in Nat
  BY FvgAssumption
<1>6. RowsTrue(<< >>)
  BY DEF RowsTrue
<1> DEFINE TickType == [pc : {"idle", "persist", "deliver"}, rows : Seq(RowType), fvgs : Refs]
           Fine == /\ TypeOK' /\ RowsTrue(stored') /\ RowsTrue(tick'.rows)
<1>7. IdleTick \in TickType /\ IdleTick.rows = << >>
  <2> HIDE DEF Refs
  <2> QED
    BY <1>4 DEF IdleTick
<1>8. CASE Trigger
  <2>1. ticks' \in 0..MaxTicks /\ triggers' \in 0..ticks'
    BY <1>3, <1>5, <1>8 DEF Trigger
  <2>2. polled' \in [Frames -> 0..2]
    BY <1>8 DEF Trigger, NonePolled
  <2>3. UNCHANGED << stored, tick, contexts, judge, faults >>
    BY <1>8 DEF Trigger
  <2>4. Fine
    BY <1>1, <1>2, <2>1, <2>2, <2>3 DEF TypeOK, Refs
  <2> QED
    BY <1>1, <1>2, <2>4, SameCandles DEF TrackInv
<1>9. CASE Persist
  <2>1. tick' = [tick EXCEPT !.pc = "deliver", !.rows = << >>] /\ stored' = stored \o tick.rows
        /\ UNCHANGED << polled, ticks, triggers, contexts, judge, faults >>
    BY <1>9 DEF Persist
  <2>2. stored' \in Seq(RowType)
    BY <1>3, <2>1
  <2>3. tick \in TickType
    BY <1>1 DEF TypeOK
  <2>4. tick' \in TickType /\ tick'.rows = << >>
    <3> HIDE DEF Refs
    <3> QED
      BY <1>4, <2>1, <2>3
  <2>5. RowsTrue(stored')
    <3>1. ASSUME NEW n \in DOMAIN stored'
          PROVE  \/ n \in DOMAIN stored /\ stored'[n] = stored[n]
                 \/ \E m \in DOMAIN tick.rows : stored'[n] = tick.rows[m]
      <4>1. \A s, q \in Seq(RowType) : \A j \in DOMAIN (s \o q) :
               \/ j \in DOMAIN s /\ (s \o q)[j] = s[j]
               \/ j - Len(s) \in DOMAIN q /\ (s \o q)[j] = q[j - Len(s)]
        OBVIOUS
      <4> QED
        BY <1>3, <2>1, <4>1
    <3> QED
      BY <1>1, <3>1 DEF RowsTrue
  <2>6. Fine
    BY <1>1, <1>2, <1>6, <2>1, <2>2, <2>4, <2>5 DEF TypeOK, Refs
  <2> QED
    BY <1>1, <1>2, <2>6, SameCandles DEF TrackInv
<1>10. CASE PersistFail
  <2>1. tick' = IdleTick /\ UNCHANGED << stored, polled, ticks, triggers, contexts, judge >>
    BY <1>10 DEF PersistFail
  <2>2. faults' \in 0..MaxFaults
    BY <1>3, <1>5, <1>10 DEF PersistFail
  <2>3. Fine
    BY <1>1, <1>2, <1>6, <1>7, <2>1, <2>2 DEF TypeOK, Refs
  <2> QED
    BY <1>1, <1>2, <2>3, SameCandles DEF TrackInv
<1>11. CASE Deliver
  <2>1. tick' = IdleTick /\ UNCHANGED << stored, polled, ticks, triggers, judge, faults >>
    BY <1>11 DEF Deliver
  <2>2. contexts' \in Seq(Refs) /\ Len(contexts') <= ContextCap
    <3>1. contexts' = Append(contexts, tick.fvgs) /\ Len(contexts) < ContextCap
      BY <1>11 DEF Deliver
    <3> HIDE DEF Refs
    <3> QED
      BY <1>3, <1>5, <3>1
  <2>3. Fine
    BY <1>1, <1>2, <1>6, <1>7, <2>1, <2>2 DEF TypeOK, Refs
  <2> QED
    BY <1>1, <1>2, <2>3, SameCandles DEF TrackInv
<1>12. CASE Judge
  <2>1. judge' \in JudgeType /\ contexts' \in Seq(Refs) /\ Len(contexts') <= ContextCap
    BY <1>1, <1>12, JudgeKeeps
  <2>2. UNCHANGED << stored, polled, ticks, triggers, tick, faults >>
    BY <1>12 DEF Judge, JudgeTake, JudgeAgents, JudgeTrade, JudgeDone
  <2>3. Fine
    BY <1>1, <1>2, <2>1, <2>2 DEF TypeOK, Refs, JudgeType
  <2> QED
    BY <1>1, <1>2, <2>3, SameCandles DEF TrackInv
<1> QED
  BY <1>2, <1>8, <1>9, <1>10, <1>11, <1>12

\* A process that starts knows nothing.
LEMMA NothingKnown ==
    /\ IdleTick \in [pc : {"idle", "persist", "deliver"}, rows : Seq(RowType), fvgs : Seq({})]
    /\ IdleJudge \in [pc : {"idle", "agents", "trade", "result"}, fvgs : Seq({}),
                      strict : BOOLEAN, gap : {0}]
    /\ IdleTick.rows = << >>
    /\ NonePolled \in [Frames -> 0..2]
BY DEF IdleTick, IdleJudge, NonePolled

LEMMA RestartKeeps ==
    ASSUME TrackInv, Restart
    PROVE  TrackInv' /\ objects' = << >>
<1>1. TypeOK /\ RowsTrue(stored)
  BY DEF TrackInv
<1>2. /\ objects' = << >> /\ active' = << >> /\ rebuilt' = FALSE
      /\ polled' = NonePolled /\ triggers' = 0
      /\ tick' = IdleTick /\ contexts' = << >> /\ judge' = IdleJudge
      /\ UNCHANGED << candles, stored, ticks >>
  BY DEF Restart
<1>3. faults' \in 0..MaxFaults
  BY <1>1, FvgAssumption DEF TypeOK, Restart
<1>4. triggers' \in 0..ticks'
  BY <1>1, <1>2, FvgAssumption DEF TypeOK
<1>5. /\ DOMAIN objects' = {} /\ Len(objects') = 0 /\ objects' \in Seq(ObjectType)
      /\ active' \in Seq({}) /\ Len(active') <= KeepCap
      /\ contexts' \in Seq(Seq({})) /\ Len(contexts') <= ContextCap
  BY <1>2, FvgAssumption
<1>6. judge' \in [pc : {"idle", "agents", "trade", "result"}, fvgs : Seq({}),
                  strict : BOOLEAN, gap : 0..Len(objects')]
  <2>1. 0..Len(objects') = {0}
    BY <1>5
  <2> QED
    BY <1>2, <2>1, NothingKnown
<1>7. /\ tick' \in [pc : {"idle", "persist", "deliver"}, rows : Seq(RowType), fvgs : Seq({})]
      /\ tick'.rows = << >> /\ polled' \in [Frames -> 0..2]
  BY <1>2, NothingKnown
<1>8. TypeOK'
  BY <1>1, <1>2, <1>3, <1>4, <1>5, <1>6, <1>7 DEF TypeOK, Refs
<1>9. RowsTrue(stored') /\ RowsTrue(tick'.rows)
  BY <1>1, <1>2, <1>7 DEF RowsTrue
<1>10. \A i \in DOMAIN objects' : ObjectTrue(objects'[i])
  BY <1>5
<1> QED
  BY <1>2, <1>8, <1>9, <1>10, SameCandles DEF TrackInv

LEMMA InitTrack == Init => TrackInv
<1> SUFFICES ASSUME Init
             PROVE  TrackInv
  OBVIOUS
<1>1. /\ candles = History /\ stored = << >> /\ objects = << >> /\ active = << >>
      /\ rebuilt = FALSE /\ polled = NonePolled /\ ticks = 0 /\ triggers = 0
      /\ tick = IdleTick /\ contexts = << >> /\ judge = IdleJudge /\ faults = 0
  BY DEF Init
<1>2. /\ DOMAIN objects = {} /\ Len(objects) = 0 /\ objects \in Seq(ObjectType)
      /\ active \in Seq({}) /\ Len(active) <= KeepCap
      /\ contexts \in Seq(Seq({})) /\ Len(contexts) <= ContextCap
      /\ stored \in Seq(RowType)
      /\ ticks \in 0..MaxTicks /\ triggers \in 0..ticks /\ faults \in 0..MaxFaults
  BY <1>1, FvgAssumption
<1>3. judge \in [pc : {"idle", "agents", "trade", "result"}, fvgs : Seq({}),
                 strict : BOOLEAN, gap : 0..Len(objects)]
  <2>1. 0..Len(objects) = {0}
    BY <1>2
  <2> QED
    BY <1>1, <2>1, NothingKnown
<1>4. candles \in [Frames -> Seq(CandleType)] /\ rebuilt \in BOOLEAN
  BY <1>1, FvgAssumption
<1>5. /\ tick \in [pc : {"idle", "persist", "deliver"}, rows : Seq(RowType), fvgs : Seq({})]
      /\ tick.rows = << >> /\ polled \in [Frames -> 0..2]
  BY <1>1, NothingKnown
<1>6. TypeOK
  BY <1>2, <1>3, <1>4, <1>5 DEF TypeOK, Refs
<1>7. RowsTrue(stored) /\ RowsTrue(tick.rows)
  BY <1>1, <1>5 DEF RowsTrue
<1> QED
  BY <1>1, <1>2, <1>6, <1>7 DEF TrackInv

\* Every step keeps the invariant, and moves each object forward.
LEMMA NextTrack ==
    ASSUME TrackInv, [Next]_vars
    PROVE  /\ TrackInv'
           /\ \A i \in DOMAIN objects \cap DOMAIN objects' : Forward(objects[i], objects'[i])
<1>1. \A i \in DOMAIN objects : Forward(objects[i], objects[i])
  <2>1. \A i \in DOMAIN objects : objects[i] \in ObjectType
    BY DEF TrackInv, TypeOK
  <2> QED
    BY <2>1, ForwardSame
<1>2. CASE \E tf \in Frames : \E c \in Shapes[tf] : Poll(tf, c)
  <2>1. TrackInv'
    BY <1>2, PollKeeps
  <2>2. UNCHANGED objects
    BY <1>2 DEF Poll
  <2> QED
    BY <1>1, <2>1, <2>2
<1>3. CASE Evaluate
  <2>1. TrackInv'
    BY <1>3, EvaluateKeeps
  <2>2. \A i \in DOMAIN objects : Forward(objects[i], objects'[i])
    BY <1>3, NextObjects
  <2> QED
    BY <2>1, <2>2
<1>4. CASE Trigger \/ Persist \/ PersistFail \/ Deliver \/ Judge
  BY <1>1, <1>4, OthersKeep
<1>5. CASE Restart
  <2>1. TrackInv' /\ objects' = << >>
    BY <1>5, RestartKeeps
  <2>2. DOMAIN objects' = {}
    BY <2>1
  <2> QED
    BY <2>1, <2>2
<1>6. CASE UNCHANGED vars
  <2>1. UNCHANGED << candles, stored, polled, ticks, triggers, objects, active, rebuilt,
                     tick, contexts, judge, faults >>
    BY <1>6 DEF vars
  <2>2. TypeOK'
    BY <2>1 DEF TrackInv, TypeOK, Refs
  <2>3. /\ RowsTrue(stored') /\ RowsTrue(tick'.rows)
        /\ \A i \in DOMAIN objects' : ObjectTrue(objects'[i])
        /\ ~ rebuilt' => objects' = << >> /\ active' = << >>
    BY <2>1 DEF TrackInv
  <2> QED
    BY <1>1, <2>1, <2>2, <2>3, SameCandles DEF TrackInv
<1> QED
  BY <1>2, <1>3, <1>4, <1>5, <1>6 DEF Next, Pipeline

LEMMA TrackHolds == Spec => []TrackInv
<1>1. TrackInv /\ [Next]_vars => TrackInv'
  BY NextTrack
<1> QED
  BY <1>1, InitTrack, PTL DEF Spec
-----------------------------------------------------------------------------
(* Theorems.                                                                *)

\* Whatever fails or restarts, every reference that the pipeline, the queue or strategy
\* 13 holds leads to an object, and the lists stay within their caps.
THEOREM TrackingIsTyped == Spec => []TypeOK
<1>1. TrackInv => TypeOK
  BY DEF TrackInv
<1> QED
  BY <1>1, TrackHolds, PTL

\* No test is ever told of the wrong gap, in memory or in the events table, for any
\* candles, windows and caps.
THEOREM TestsAreTrueHolds == Spec => []TestsAreTrue
<1>1. TrackInv => TestsAreTrue
  BY DEF TrackInv, ObjectTrue, RowsTrue, Recorded, TestsAreTrue
<1> QED
  BY <1>1, TrackHolds, PTL

\* An inverted gap was closed through after its last test.
THEOREM InvertedIsFinalHolds == Spec => []InvertedIsFinal
<1>1. TrackInv => InvertedIsFinal
  BY DEF TrackInv, ObjectTrue, ClosedThrough, InvertedIsFinal
<1> QED
  BY <1>1, TrackHolds, PTL

\* Within a process an object only moves forward: aging extends its tests and deepens
\* its state, and nothing is restored into an object that was already there.
THEOREM NeverBackwardsHolds == Spec => NeverBackwards
<1> DEFINE Moves == \A i \in DOMAIN objects \cap DOMAIN objects' :
                        Forward(objects[i], objects'[i])
<1>1. TrackInv /\ [Next]_vars => [Moves]_vars
  BY NextTrack
<1> QED
  BY <1>1, TrackHolds, PTL DEF Spec, NeverBackwards
=============================================================================
