----------------------------- MODULE NestedFvg -----------------------------
(* Strategy 05, Nested FVG Stack: three M15 FVGs of one displacement leg.   *)
EXTENDS Debate

Coloured(bar, d) == IF d = "bullish" THEN bar.c > bar.o ELSE bar.c < bar.o

\* Five candles of the colour within the leg, consecutive or not; up wins.
LegOf(c, start, end, d) ==
    Cardinality({i \in start..end : Coloured(c.m15[i], d)}) >= 5
LegDirection(c, start, end) == IF LegOf(c, start, end, "bullish") THEN "bullish" ELSE "bearish"

StackIn(c, start, end) ==
    {i \in DOMAIN c.fvgs :
        /\ c.fvgs[i].tf = "M15"
        /\ c.fvgs[i].state \in {"formed", "retested", "partially_filled"}
        /\ c.fvgs[i].direction = LegDirection(c, start, end)
        /\ c.fvgs[i].c1 >= c.m15[start].t /\ c.fvgs[i].c3 <= c.m15[end].t}

\* Legs of five to fifteen candles that hold a stack, by their last and first.
Legs(c) ==
    {p \in (6..Len(c.m15)) \X (2..Len(c.m15)) :
        /\ Len(c.m15) >= 8
        /\ p[2] \in (p[1] - 14)..(p[1] - 4)
        /\ \E d \in Directions : LegOf(c, p[2], p[1], d)
        /\ Cardinality(StackIn(c, p[2], p[1])) >= 3}

\* The latest end, and then the latest start.
Leg(c) == CHOOSE p \in Legs(c) :
              \A q \in Legs(c) : q[1] < p[1] \/ (q[1] = p[1] /\ q[2] <= p[2])
Direction(c) == LegDirection(c, Leg(c)[2], Leg(c)[1])
Stack(c) == StackIn(c, Leg(c)[2], Leg(c)[1])

\* The stack sorted by time, the order of detection breaking ties.
Before(c, i, j) == c.fvgs[i].c1 < c.fvgs[j].c1 \/ (c.fvgs[i].c1 = c.fvgs[j].c1 /\ i <= j)
Breakaway(c) == c.fvgs[CHOOSE i \in Stack(c) : \A j \in Stack(c) : Before(c, i, j)]
LastFvg(c)   == c.fvgs[CHOOSE i \in Stack(c) : \A j \in Stack(c) : Before(c, j, i)]

InH4Fvg(c, f) ==
    \E i \in UsableFvgs(c) : /\ c.fvgs[i].tf = "H4"
                             /\ f.bottom >= c.fvgs[i].bottom /\ f.top <= c.fvgs[i].top

\* The leg, the count and the unfilled breakaway gap are given with the stack.
Opp1(c) == IF Legs(c) = {} THEN 0
           ELSE Share(<< TRUE, Cardinality(Stack(c)) >= 3,
                         Breakaway(c).state # "fully_filled", c.bias = Direction(c) >>, 100)

Opp2(c) == IF Legs(c) = {} THEN 350
           ELSE 450 + Pts(InH4Fvg(c, LastFvg(c)), 20)
                    + (IF c.zone \in MainSessions THEN 150 ELSE -100)

Risk1(c) == 150 + Pts(Legs(c) # {} /\ c.bias \notin {"neutral", Direction(c)}, 25)

Risk2(c) == 100 + Pts(c.zone = "none", 20) + Pts(c.spreadHigh, 20)

Trade(c) ==
    IF Legs(c) = {} THEN NoTrade
    ELSE LET f == LastFvg(c)
             edge == IF Direction(c) = "bullish" THEN f.bottom ELSE f.top
         IN  RMultiple(Direction(c), CeOf(f), Beyond(Direction(c), edge, Pips(5)), 2)

Signature(c) ==
    IF Legs(c) = {} THEN NoSignature
    ELSE << Direction(c), Rnd(CeOf(Breakaway(c))), Rnd(CeOf(LastFvg(c))),
            Rnd(CeOf(LastFvg(c))) >>

Evaluate(c) ==
    ComputeVerdict(Opinions(Opp1(c), Opp2(c), Risk1(c), Risk2(c)),
                   Trade(c), Opp1(c) >= 750, c.price, Signature(c))
=============================================================================
