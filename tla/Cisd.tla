-------------------------------- MODULE Cisd --------------------------------
(* Strategy 14, Change in State of Delivery: a run of candles of one colour, *)
(* and soon after it a close beyond the open it began with.                  *)
EXTENDS Debate

\* The run of candles against d that ends at candle e begins at candle s.
RunBegins(c, d, e, s) ==
    LET against(i) == IF d = "bullish" THEN c.m5[i].c < c.m5[i].o ELSE c.m5[i].c > c.m5[i].o
        first == Higher(e - 14, 2)
    IN  /\ s \in first..(e - 2)
        /\ \A i \in s..e : against(i)
        /\ s = first \/ ~ against(s - 1)

\* Candle k, at most four later, closes beyond the open, near a key level.
Delivers(c, d, e, s, k) ==
    /\ k \in (e + 1)..(e + 4)
    /\ IF d = "bullish" THEN c.m5[k].c > c.m5[s].o ELSE c.m5[k].c < c.m5[s].o
    /\ HasKeyLevel(c, c.m5[k].c, Pips(15))

Setups(c, d) ==
    {p \in (5..Len(c.m5)) \X (DOMAIN c.m5) \X (DOMAIN c.m5) :
        Len(c.m5) >= 5 /\ RunBegins(c, d, p[1], p[2]) /\ Delivers(c, d, p[1], p[2], p[3])}

Found(c) == \E d \in Directions : Setups(c, d) # {}

\* A bullish change before a bearish one; the latest run, its first delivery.
Direction(c) == IF Setups(c, "bullish") # {} THEN "bullish" ELSE "bearish"
Setup(c) == CHOOSE p \in Setups(c, Direction(c)) :
                \A q \in Setups(c, Direction(c)) :
                    q[1] < p[1] \/ (q[1] = p[1] /\ p[3] <= q[3])
First(c)    == c.m5[Setup(c)[2]]
Delivery(c) == c.m5[Setup(c)[3]]
Key(c)      == Nearest(KeyLevels(c), Delivery(c).c)

\* Three of the four checks are given with the setup and the share of four is held
\* to 65 points, with or without a sweep.
Opp1(c) == IF ~ Found(c) THEN 0
           ELSE Lower(Share(<< TRUE, TRUE, TRUE, c.sweeps # << >> >>, 100), 650)

Opp2(c) ==
    450 + Pts(/\ Found(c)
              /\ UsableOf(c, Direction(c)) # {} \/ ValidBlocksOf(c, Direction(c)) # {}, 20)
        + Pts(c.zone \in MainSessions, 10)

Risk1(c) == 100 + (IF Found(c) THEN Pts(c.sweeps = << >>, 30) ELSE 400)

Risk2(c) == 150 + Pts(c.zone = "none", 15) + Pts(c.spreadHigh, 20)

Trade(c) ==
    IF \/ ~ Found(c)
       \/ UsableOf(c, Direction(c)) = {} /\ ValidBlocksOf(c, Direction(c)) = {}
    THEN NoTrade
    ELSE LET d == Direction(c)
             b == Newest(c.obs, ValidBlocksOf(c, d))
             entry == IF UsableOf(c, d) # {} THEN CeOf(Newest(c.fvgs, UsableOf(c, d)))
                      ELSE Midpoint(b.high, b.low)
             wick == IF c.sweeps # << >> THEN c.sweeps[Len(c.sweeps)].wick ELSE Key(c)
             end  == IF d = "bullish" THEN Lower(wick, Key(c)) ELSE Higher(wick, Key(c))
         IN  RMultiple(d, entry, Beyond(d, end, Pips(5)), 2)

Signature(c) ==
    IF ~ Found(c) THEN NoSignature
    ELSE << Direction(c), Rnd(Key(c)), Rnd(First(c).o), Rnd(Delivery(c).c) >>

Evaluate(c) ==
    ComputeVerdict(Opinions(Opp1(c), Opp2(c), Risk1(c), Risk2(c)),
                   Trade(c), Opp1(c) >= 500, c.price, Signature(c))
=============================================================================
