-------------------------- MODULE MarketFeedProofs --------------------------
(***************************************************************************)
(* Theorems about MarketFeed: a hole in the stored candles stays, the      *)
(* market phase never leaves consolidation, a process records a sweep once *)
(* or never, and tracks every price gap for as long as lists only grow.    *)
(***************************************************************************)
EXTENDS MarketFeed, Foundations

\* Tables hold closed candles, and the phase is the one of the detector.
FeedInv ==
    /\ market \in Markets
    /\ closed \in [Frames -> Nat]
    /\ stored \in [Frames -> SUBSET Nat]
    /\ \A tf \in Frames : /\ closed[tf] <= Len(market[tf])
                          /\ stored[tf] \subseteq 1..closed[tf]
    /\ triggers \in 0..MaxTriggers
    /\ run \in 1..MaxRuns
    /\ faults \in 0..MaxFaults
    /\ PhaseStaysLow

Kinds == {"sweep", "mss", "gap_formed", "gap_filled", "mmm_phase_change"}
Price == 0..HighestPrice
GapType == [id : {"up", "down"} \X Nat, born : Nat, bottom : Price, top : Price,
            filled : BOOLEAN]

\* A table of rows up to run n: the sweeps of run n are among seen, and no sweep of a run
\* is there twice.
Recorded(list, seen, n) ==
    /\ list \in Seq(ToSet(list))
    /\ \A i \in DOMAIN list : list[i].kind \in Kinds /\ list[i].run \in 1..n
    /\ \A i \in DOMAIN list :
          list[i].kind = "sweep" /\ list[i].run = n => list[i].key \in seen
    /\ \A i, j \in DOMAIN list : list[i].kind = "sweep" /\ list[i] = list[j] => i = j

\* The pipeline remembers the sweeps that this process has recorded or lost.
SweepInv ==
    /\ Recorded(events, memory.sweeps, run)
    /\ lost \subseteq memory.sweeps

\* The gaps tracked are the gaps of the last list, each under the id of its place.
GapsOf(gaps, h1) ==
    /\ \A i, j \in DOMAIN h1 : h1[i].t = h1[j].t => i = j
    /\ \A j \in DOMAIN gaps :
          \E i \in 2..Len(h1) : /\ Gapped(h1, i) /\ gaps[j].id = PriceGap(h1, i).id
                                /\ gaps[j].born = h1[i].t
    /\ \A i \in 2..Len(h1) :
          Gapped(h1, i) => \E j \in DOMAIN gaps : gaps[j].id = PriceGap(h1, i).id
    /\ \A i, j \in DOMAIN gaps : gaps[i].id = gaps[j].id => i = j

GapInv ==
    /\ memory.gaps \in Seq(GapType)
    /\ loaded.h1 \in Seq(CandleType)
    /\ loaded.grew => GapsOf(memory.gaps, loaded.h1)

-----------------------------------------------------------------------------
LEMMA ExpansionIsFar ==
    HighestPrice \in Nat /\ Expansion \in Nat /\ HighestPrice < Expansion
BY SMT DEF HighestPrice, Expansion

\* The extremes of candles are prices.
LEMMA ExtremesArePrices ==
    ASSUME NEW bars \in Seq(CandleType), Len(bars) >= 1
    PROVE  TopOf(bars) \in 0..HighestPrice /\ BottomOf(bars) \in 0..HighestPrice
<1> DEFINE H == {bars[i].h : i \in DOMAIN bars}
           L == {bars[i].l : i \in DOMAIN bars}
<1>1. \A i \in DOMAIN bars : bars[i].h \in 0..HighestPrice /\ bars[i].l \in 0..HighestPrice
  <2>1. \A b \in CandleType : b.h \in 0..HighestPrice /\ b.l \in 0..HighestPrice
    BY DEF CandleType
  <2>2. \A i \in DOMAIN bars : bars[i] \in CandleType
    OBVIOUS
  <2> QED
    BY <2>1, <2>2
<1>2. 1 \in DOMAIN bars
  OBVIOUS
<1>3. H \in SUBSET (0..HighestPrice) /\ H # {} /\ L \in SUBSET Nat /\ L # {}
  BY <1>1, <1>2
<1>4. HighestPrice \in Nat
  BY ExpansionIsFar
<1>5. \E x \in H : \A y \in H : y <= x
  <2> HIDE DEF H
  <2> QED
    BY <1>3, <1>4, GreatestElement
<1>6. \E x \in L : \A y \in L : x <= y
  <2> HIDE DEF L
  <2> QED
    BY <1>3, LeastElement
<1>7. \E x \in H : \A i \in DOMAIN bars : bars[i].h <= x
  BY <1>5
<1>8. \E x \in L : \A i \in DOMAIN bars : bars[i].l >= x
  BY <1>1, <1>6
<1>9. TopOf(bars) \in H /\ BottomOf(bars) \in L
  BY <1>7, <1>8 DEF TopOf, BottomOf
<1> QED
  BY <1>1, <1>9

LEMMA LastBarsAreCandles ==
    ASSUME NEW bars \in Seq(CandleType), NEW n \in Nat
    PROVE  LastBars(bars, n) \in Seq(CandleType)
BY DEF LastBars

\* An expansion by 200000 in price is out of reach.
LEMMA PhaseOfCandles ==
    ASSUME NEW h4 \in Seq(CandleType), NEW days \in Seq(CandleType)
    PROVE  DetectMmmPhase(h4, days) \in {0, 1}
<1> DEFINE range  == LastBars(days, 50)
           recent == LastBars(h4, 10)
           below  == \E i \in DOMAIN recent : recent[i].l < BottomOf(range) - Expansion
           above  == \E i \in DOMAIN recent : recent[i].h > TopOf(range) + Expansion
<1>1. CASE ~ Consolidates(range)
  BY <1>1 DEF DetectMmmPhase
<1>2. CASE Consolidates(range)
  <2>1. range \in Seq(CandleType) /\ recent \in Seq(CandleType)
    BY LastBarsAreCandles
  <2>2. Len(range) >= 10
    BY <1>2 DEF Consolidates
  <2>3. TopOf(range) \in 0..HighestPrice /\ BottomOf(range) \in 0..HighestPrice
    <3> HIDE DEF range
    <3> QED
      BY <2>1, <2>2, ExtremesArePrices
  <2>4. \A i \in DOMAIN recent : /\ recent[i].l \in 0..HighestPrice
                                 /\ recent[i].h \in 0..HighestPrice
    <3>1. \A b \in CandleType : b.h \in 0..HighestPrice /\ b.l \in 0..HighestPrice
      BY DEF CandleType
    <3> HIDE DEF recent
    <3>2. \A i \in DOMAIN recent : recent[i] \in CandleType
      BY <2>1
    <3> QED
      BY <3>1, <3>2
  <2>5. ~ below /\ ~ above
    <3> HIDE DEF range, recent
    <3> QED
      BY <2>3, <2>4, ExpansionIsFar
  <2> QED
    BY <1>2, <2>5 DEF DetectMmmPhase
<1> QED
  BY <1>1, <1>2

LEMMA PhaseOfMarket ==
    ASSUME market \in Markets
    PROVE  DetectMmmPhase(market.H4, market.D) \in {0, 1}
<1>1. market.H4 \in Seq(CandleType) /\ market.D \in Seq(CandleType)
  BY PriceAssumption
<1> QED
  BY <1>1, PhaseOfCandles
-----------------------------------------------------------------------------
(* Lists of candles, gaps and keys.                                         *)

LEMMA FeedConstants ==
    /\ M1Window \in Nat \ {0} /\ H1Window \in Nat \ {0}
    /\ MaxTriggers \in Nat /\ MaxFaults \in Nat /\ MaxRuns \in Nat \ {0}
BY FeedAssumption

LEMMA CandleFields ==
    \A b \in CandleType : /\ b.t \in Nat /\ b.o \in Price /\ b.h \in Price
                          /\ b.l \in Price /\ b.c \in Price
BY DEF CandleType, Price

\* The newest n of a list: the same elements, further on.
LEMMA LastBarsPlaces ==
    ASSUME NEW S, NEW s \in Seq(S), NEW n \in Nat
    PROVE  /\ LastBars(s, n) \in Seq(S)
           /\ \E off \in Nat : \A i \in DOMAIN LastBars(s, n) :
                 off + i \in DOMAIN s /\ LastBars(s, n)[i] = s[off + i]
<1> DEFINE off == IF Len(s) > n THEN Len(s) - n ELSE 0
<1>1. Len(s) \in Nat /\ off \in Nat /\ off <= Len(s)
  OBVIOUS
<1>2. LastBars(s, n) = SubSeq(s, off + 1, Len(s))
  BY DEF LastBars
<1> HIDE DEF off
<1>3. \A a \in Nat : a <= Len(s) =>
         /\ SubSeq(s, a + 1, Len(s)) \in Seq(S)
         /\ \A i \in DOMAIN SubSeq(s, a + 1, Len(s)) :
               a + i \in DOMAIN s /\ SubSeq(s, a + 1, Len(s))[i] = s[a + i]
  OBVIOUS
<1> QED
  BY <1>1, <1>2, <1>3

\* A tick loads candles of the market, each once.
LEMMA LoadedCandles ==
    ASSUME FeedInv, NEW tf \in Frames, NEW window \in Nat
    PROVE  /\ Load(tf, window) \in Seq(CandleType)
           /\ \A i, j \in DOMAIN Load(tf, window) :
                 Load(tf, window)[i].t = Load(tf, window)[j].t => i = j
<1> DEFINE rows == Kept(market[tf], stored[tf])
           list == Load(tf, window)
           K == stored[tf] \cap DOMAIN market[tf]
           E == {market[tf][k] : k \in K}
<1>1. /\ market[tf] \in Seq(CandleType)
      /\ \A k \in DOMAIN market[tf] : market[tf][k].t = k
  BY PriceAssumption, FeedAssumption DEF FeedInv
<1>2. rows \in Seq(E) /\ E \subseteq CandleType
  <2>1. rows \in Seq(E)
    BY <1>1, KeptType
  <2>2. E \subseteq CandleType
    BY <1>1
  <2> QED
    BY <2>1, <2>2
<1>3. PICK pos : Enumerates(pos, rows, market[tf], K)
  BY <1>1, KeptPlaces
<1>4. list = LastBars(rows, window)
  BY DEF Load
<1> HIDE DEF rows, E, list
<1>5. rows \in Seq(CandleType)
  BY <1>2
<1>6. /\ list \in Seq(CandleType)
      /\ \E off \in Nat : \A i \in DOMAIN list :
            off + i \in DOMAIN rows /\ list[i] = rows[off + i]
  BY <1>4, <1>5, LastBarsPlaces
<1>7. PICK off \in Nat : \A i \in DOMAIN list :
                            off + i \in DOMAIN rows /\ list[i] = rows[off + i]
  BY <1>6
<1>8. \A a \in DOMAIN rows : rows[a].t = pos[a]
  BY <1>1, <1>3 DEF Enumerates
<1>9. ASSUME NEW a \in DOMAIN rows, NEW b \in DOMAIN rows, pos[a] = pos[b]
      PROVE  a = b
  <2>1. a \in Nat /\ b \in Nat /\ pos[a] \in Nat
    <3>1. K \subseteq Nat
      BY <1>1
    <3> QED
      BY <1>3, <1>5, <3>1 DEF Enumerates
  <2>2. ~ a < b /\ ~ b < a
    BY <1>3, <1>9, <2>1 DEF Enumerates
  <2> QED
    BY <2>1, <2>2
<1>10. ASSUME NEW i \in DOMAIN list, NEW j \in DOMAIN list, list[i].t = list[j].t
       PROVE  i = j
  <2>1. off + i \in DOMAIN rows /\ off + j \in DOMAIN rows
        /\ list[i] = rows[off + i] /\ list[j] = rows[off + j]
    BY <1>7
  <2>2. off + i = off + j
    BY <1>8, <1>9, <1>10, <2>1
  <2>3. i \in Nat /\ j \in Nat
    BY <1>6
  <2> QED
    BY <2>2, <2>3
<1> QED
  BY <1>6, <1>10 DEF list

LEMMA PriceGapType ==
    ASSUME NEW bars \in Seq(CandleType), NEW i \in 2..Len(bars)
    PROVE  /\ PriceGap(bars, i) \in GapType
           /\ PriceGap(bars, i).id[2] = i
           /\ PriceGap(bars, i).born = bars[i].t
<1>1. /\ i \in DOMAIN bars /\ i - 1 \in DOMAIN bars /\ i \in Nat
      /\ bars[i] \in CandleType /\ bars[i - 1] \in CandleType
  OBVIOUS
<1>2. /\ bars[i].t \in Nat /\ bars[i].h \in Price /\ bars[i].l \in Price
      /\ bars[i - 1].h \in Price /\ bars[i - 1].l \in Price
  BY <1>1, CandleFields
<1>3. << "up", i >> \in {"up", "down"} \X Nat /\ << "down", i >> \in {"up", "down"} \X Nat
      /\ << "up", i >>[2] = i /\ << "down", i >>[2] = i
  BY <1>1
<1>4. CASE bars[i].l > bars[i - 1].h
  BY <1>2, <1>3, <1>4 DEF PriceGap, GapType
<1>5. CASE ~ (bars[i].l > bars[i - 1].h)
  BY <1>2, <1>3, <1>5 DEF PriceGap, GapType
<1> QED
  BY <1>4, <1>5

\* detect_gaps: the gaps of the list, each once.
LEMMA GapsDetected ==
    ASSUME NEW bars \in Seq(CandleType)
    PROVE  /\ DetectGaps(bars) \in Seq(GapType)
           /\ \A m \in DOMAIN DetectGaps(bars) :
                 \E i \in 2..Len(bars) : /\ Gapped(bars, i)
                                         /\ DetectGaps(bars)[m] = PriceGap(bars, i)
           /\ \A i \in 2..Len(bars) : Gapped(bars, i) =>
                 \E m \in DOMAIN DetectGaps(bars) : DetectGaps(bars)[m] = PriceGap(bars, i)
           /\ \A m, n \in DOMAIN DetectGaps(bars) :
                 DetectGaps(bars)[m].id = DetectGaps(bars)[n].id => m = n
<1> DEFINE all == [i \in DOMAIN bars |-> PriceGap(bars, i)]
           K == {i \in DOMAIN bars : i > 1 /\ Gapped(bars, i)}
           E == {all[i] : i \in K \cap DOMAIN all}
           found == DetectGaps(bars)
           S == {PriceGap(bars, i) : i \in DOMAIN bars}
<1>1. DOMAIN bars = 1..Len(bars) /\ Len(bars) \in Nat
  OBVIOUS
<1>2. found = Kept(all, K)
  <2> DEFINE f == [i \in DOMAIN bars |-> Only(i > 1 /\ Gapped(bars, i), PriceGap(bars, i))]
             a == [i \in 1..Len(bars) |-> f[i]]
             b == [i \in DOMAIN all |-> Only(i \in K, all[i])]
  <2>1. DOMAIN a = 1..Len(bars) /\ DOMAIN b = 1..Len(bars)
    BY <1>1
  <2>2. ASSUME NEW i \in 1..Len(bars)
        PROVE  a[i] = b[i]
    <3>1. a[i] = Only(i > 1 /\ Gapped(bars, i), PriceGap(bars, i))
      BY <1>1
    <3>2. b[i] = Only(i \in K, PriceGap(bars, i))
      BY <1>1
    <3>3. i \in K <=> (i > 1 /\ Gapped(bars, i))
      BY <1>1
    <3> HIDE DEF a, b, K
    <3> QED
      BY <3>1, <3>2, <3>3 DEF Only
  <2>3. a = [i \in 1..Len(bars) |-> a[i]] /\ b = [i \in 1..Len(bars) |-> b[i]]
    BY <2>1
  <2>4. a = b
    <3> HIDE DEF a, b
    <3> QED
      BY <2>2, <2>3
  <2>5. found = FlattenSeq(a) /\ Kept(all, K) = FlattenSeq(b)
    BY DEF DetectGaps, Concat, Kept
  <2> HIDE DEF a, b, found, K, all
  <2> QED
    BY <2>4, <2>5
<1>3. all \in Seq(S) /\ DOMAIN all = 1..Len(bars) /\ \A i \in DOMAIN all : all[i] = PriceGap(bars, i)
  <2>1. \A i \in DOMAIN bars : PriceGap(bars, i) \in S
    OBVIOUS
  <2> HIDE DEF S
  <2> QED
    BY <1>1, <2>1
<1>4. \A i : i \in K <=> i \in 2..Len(bars) /\ Gapped(bars, i)
  BY <1>1
<1> HIDE DEF all, K, S, found
<1>5. found \in Seq(E)
  BY <1>2, <1>3, KeptType
<1>6. PICK pos : Enumerates(pos, found, all, K \cap DOMAIN all)
  BY <1>2, <1>3, KeptPlaces
<1>7. K \cap DOMAIN all = K
  BY <1>1, <1>3, <1>4
<1>8. E \subseteq GapType
  BY <1>3, <1>4, PriceGapType
<1>9. found \in Seq(GapType)
  BY <1>5, <1>8, ListMono
<1>10. \A m \in DOMAIN found : pos[m] \in K /\ found[m] = PriceGap(bars, pos[m])
  BY <1>3, <1>6, <1>7 DEF Enumerates
<1>11. \A i \in 2..Len(bars) : Gapped(bars, i) =>
          \E m \in DOMAIN found : found[m] = PriceGap(bars, i)
  BY <1>4, <1>6, <1>7, <1>10 DEF Enumerates
<1>12. ASSUME NEW m \in DOMAIN found, NEW n \in DOMAIN found, found[m].id = found[n].id
       PROVE  m = n
  <2>1. pos[m] \in 2..Len(bars) /\ pos[n] \in 2..Len(bars)
    BY <1>4, <1>10
  <2>2. found[m].id[2] = pos[m] /\ found[n].id[2] = pos[n]
    BY <1>10, <2>1, PriceGapType
  <2>3. pos[m] = pos[n] /\ pos[m] \in Int
    BY <1>12, <2>1, <2>2
  <2>4. m \in Nat /\ n \in Nat
    BY <1>9
  <2>5. ~ m < n /\ ~ n < m
    BY <1>6, <2>3 DEF Enumerates
  <2> QED
    BY <2>4, <2>5
<1> QED
  BY <1>4, <1>9, <1>10, <1>11, <1>12 DEF found

LEMMA UpdatedGaps ==
    ASSUME NEW gaps \in Seq(GapType), NEW bars
    PROVE  /\ Updated(gaps, bars) \in Seq(GapType)
           /\ DOMAIN Updated(gaps, bars) = DOMAIN gaps
           /\ \A j \in DOMAIN gaps : /\ Updated(gaps, bars)[j].id = gaps[j].id
                                     /\ Updated(gaps, bars)[j].born = gaps[j].born
<1> DEFINE u == Updated(gaps, bars)
           v == [i \in DOMAIN gaps |-> IF gaps[i].filled THEN gaps[i]
                                       ELSE FillGap(gaps[i], bars[Len(bars)])]
<1>1. ASSUME NEW g \in GapType
      PROVE  /\ FillGap(g, bars[Len(bars)]) \in GapType
             /\ FillGap(g, bars[Len(bars)]).id = g.id
             /\ FillGap(g, bars[Len(bars)]).born = g.born
  <2>1. \/ FillGap(g, bars[Len(bars)]) = g
        \/ FillGap(g, bars[Len(bars)]) = [g EXCEPT !.filled = TRUE]
    BY DEF FillGap
  <2> QED
    BY <2>1 DEF GapType
<1>2. \A j \in DOMAIN gaps : gaps[j] \in GapType
  OBVIOUS
<1>3. CASE bars = << >>
  BY <1>3 DEF Updated
<1>4. CASE bars # << >>
  <2>1. u = v
    BY <1>4 DEF Updated
  <2>2. DOMAIN gaps = 1..Len(gaps) /\ Len(gaps) \in Nat
    OBVIOUS
  <2>3. ASSUME NEW j \in DOMAIN gaps
        PROVE  v[j] \in GapType /\ v[j].id = gaps[j].id /\ v[j].born = gaps[j].born
    <3>1. v[j] = gaps[j] \/ v[j] = FillGap(gaps[j], bars[Len(bars)])
      OBVIOUS
    <3> HIDE DEF v
    <3> QED
      BY <1>1, <1>2, <3>1
  <2>4. DOMAIN v = 1..Len(gaps) /\ v = [j \in 1..Len(gaps) |-> v[j]]
    BY <2>2
  <2> HIDE DEF v, u
  <2>5. v \in [1..Len(gaps) -> GapType]
    BY <2>2, <2>3, <2>4
  <2>6. v \in Seq(GapType)
    BY <2>2, <2>5
  <2> QED
    BY <2>1, <2>2, <2>3, <2>4, <2>6 DEF u
<1> QED
  BY <1>3, <1>4

\* Of the gaps detected, those whose id is not tracked.
LEMMA GapsAdded ==
    ASSUME NEW gaps \in Seq(GapType), NEW bars \in Seq(CandleType)
    PROVE  /\ NewGaps(gaps, bars) \in Seq(GapType)
           /\ \A n \in DOMAIN NewGaps(gaps, bars) :
                 /\ \E i \in 2..Len(bars) : /\ Gapped(bars, i)
                                            /\ NewGaps(gaps, bars)[n] = PriceGap(bars, i)
                 /\ \A j \in DOMAIN gaps : gaps[j].id # NewGaps(gaps, bars)[n].id
           /\ \A i \in 2..Len(bars) :
                 Gapped(bars, i) /\ (\A j \in DOMAIN gaps : gaps[j].id # PriceGap(bars, i).id) =>
                    \E n \in DOMAIN NewGaps(gaps, bars) : NewGaps(gaps, bars)[n] = PriceGap(bars, i)
           /\ \A m, n \in DOMAIN NewGaps(gaps, bars) :
                 NewGaps(gaps, bars)[m].id = NewGaps(gaps, bars)[n].id => m = n
<1> DEFINE found == DetectGaps(bars)
           ids == {gaps[i].id : i \in DOMAIN gaps}
           K == {i \in DOMAIN found : found[i].id \notin ids}
           E == {found[i] : i \in K \cap DOMAIN found}
           new == NewGaps(gaps, bars)
<1>1. new = Kept(found, K)
  BY DEF NewGaps
<1>2. /\ found \in Seq(GapType)
      /\ \A m \in DOMAIN found : \E i \in 2..Len(bars) : Gapped(bars, i) /\ found[m] = PriceGap(bars, i)
      /\ \A i \in 2..Len(bars) : Gapped(bars, i) => \E m \in DOMAIN found : found[m] = PriceGap(bars, i)
      /\ \A m, n \in DOMAIN found : found[m].id = found[n].id => m = n
  BY GapsDetected
<1>3. /\ \A m : m \in K <=> m \in DOMAIN found /\ found[m].id \notin ids
      /\ \A x : x \in ids <=> \E j \in DOMAIN gaps : x = gaps[j].id
  OBVIOUS
<1> HIDE DEF found, K, ids, new
<1>4. new \in Seq(E)
  BY <1>1, <1>2, KeptType
<1>5. E \subseteq GapType
  BY <1>2
<1>6. new \in Seq(GapType)
  BY <1>4, <1>5, ListMono
<1>7. K \cap DOMAIN found = K
  BY <1>3
<1>8. PICK pos : Enumerates(pos, new, found, K)
  <2>1. \E pos : Enumerates(pos, Kept(found, K), found, K \cap DOMAIN found)
    BY <1>2, KeptPlaces
  <2> QED
    BY <1>1, <1>7, <2>1
<1>9. \A n \in DOMAIN new : pos[n] \in K /\ new[n] = found[pos[n]]
  BY <1>8 DEF Enumerates
<1>10. ASSUME NEW n \in DOMAIN new
       PROVE  /\ \E i \in 2..Len(bars) : Gapped(bars, i) /\ new[n] = PriceGap(bars, i)
              /\ \A j \in DOMAIN gaps : gaps[j].id # new[n].id
  BY <1>2, <1>3, <1>9
<1>11. ASSUME NEW i \in 2..Len(bars), Gapped(bars, i),
              \A j \in DOMAIN gaps : gaps[j].id # PriceGap(bars, i).id
       PROVE  \E n \in DOMAIN new : new[n] = PriceGap(bars, i)
  <2>1. PICK m \in DOMAIN found : found[m] = PriceGap(bars, i)
    BY <1>2, <1>11
  <2>2. m \in K
    BY <1>3, <1>11, <2>1
  <2>3. PICK n \in DOMAIN new : pos[n] = m
    BY <1>8, <2>2 DEF Enumerates
  <2> QED
    BY <1>9, <2>1, <2>3
<1>12. ASSUME NEW m \in DOMAIN new, NEW n \in DOMAIN new, new[m].id = new[n].id
       PROVE  m = n
  <2>1. pos[m] = pos[n]
    BY <1>2, <1>3, <1>9, <1>12
  <2>2. m \in Nat /\ n \in Nat
    BY <1>6
  <2>3. pos[m] \in Nat
    BY <1>2, <1>3, <1>9
  <2>4. ~ m < n /\ ~ n < m
    BY <1>8, <2>1, <2>3 DEF Enumerates
  <2> QED
    BY <2>2, <2>4
<1> QED
  BY <1>6, <1>10, <1>11, <1>12 DEF new

\* A place in a list is the same place in a list that continues it.
LEMMA PrefixPlaces ==
    ASSUME NEW S, NEW old \in Seq(S), NEW new \in Seq(S), IsPrefix(old, new)
    PROVE  Len(old) <= Len(new) /\ \A i \in 1..Len(old) : new[i] = old[i]
<1>1. Len(old) <= Len(new) /\ SubSeq(old, 1, Len(old)) = SubSeq(new, 1, Len(old))
  BY DEF IsPrefix
<1>2. \A i \in 1..Len(old) : /\ SubSeq(old, 1, Len(old))[i] = old[i]
                             /\ SubSeq(new, 1, Len(old))[i] = new[i]
  BY <1>1
<1> QED
  BY <1>1, <1>2

\* A tick takes the gaps of one list to those of the next, if that only goes on.
LEMMA GapsFollow ==
    ASSUME NEW gaps \in Seq(GapType), NEW old \in Seq(CandleType), NEW h1 \in Seq(CandleType),
           GapsOf(gaps, old), IsPrefix(old, h1),
           \A i, j \in DOMAIN h1 : h1[i].t = h1[j].t => i = j
    PROVE  GapsOf(Updated(gaps, h1) \o NewGaps(Updated(gaps, h1), h1), h1)
<1> DEFINE u == Updated(gaps, h1)
           v == NewGaps(u, h1)
           w == u \o v
<1>1. /\ u \in Seq(GapType) /\ DOMAIN u = DOMAIN gaps
      /\ \A j \in DOMAIN gaps : u[j].id = gaps[j].id /\ u[j].born = gaps[j].born
  BY UpdatedGaps
<1> HIDE DEF u
<1>2. /\ v \in Seq(GapType)
      /\ \A n \in DOMAIN v : /\ \E i \in 2..Len(h1) : Gapped(h1, i) /\ v[n] = PriceGap(h1, i)
                             /\ \A j \in DOMAIN u : u[j].id # v[n].id
      /\ \A i \in 2..Len(h1) : Gapped(h1, i) /\ (\A j \in DOMAIN u : u[j].id # PriceGap(h1, i).id)
                                  => \E n \in DOMAIN v : v[n] = PriceGap(h1, i)
      /\ \A m, n \in DOMAIN v : v[m].id = v[n].id => m = n
  BY <1>1, GapsAdded
<1> HIDE DEF v
<1>3. /\ \A j \in DOMAIN u : j \in DOMAIN w /\ w[j] = u[j]
      /\ \A n \in DOMAIN v : Len(u) + n \in DOMAIN w /\ w[Len(u) + n] = v[n]
      /\ \A j \in DOMAIN w : \/ j \in DOMAIN u /\ w[j] = u[j]
                             \/ j - Len(u) \in DOMAIN v /\ w[j] = v[j - Len(u)]
      /\ \A j \in DOMAIN w : j \in Nat
      /\ Len(u) \in Nat
  BY <1>1, <1>2
<1> HIDE DEF w
<1>4. Len(old) <= Len(h1) /\ Len(old) \in Nat /\ Len(h1) \in Nat
      /\ \A i \in 1..Len(old) : h1[i] = old[i]
  BY PrefixPlaces
<1>5. ASSUME NEW i \in 2..Len(old)
      PROVE  /\ i \in 2..Len(h1) /\ (Gapped(h1, i) <=> Gapped(old, i))
             /\ PriceGap(h1, i) = PriceGap(old, i) /\ h1[i].t = old[i].t
  <2>1. i \in 1..Len(old) /\ i - 1 \in 1..Len(old) /\ i \in 2..Len(h1)
    BY <1>4
  <2>2. h1[i] = old[i] /\ h1[i - 1] = old[i - 1]
    BY <1>4, <2>1
  <2> QED
    BY <2>1, <2>2 DEF Gapped, PriceGap
<1>6. ASSUME NEW j \in DOMAIN w
      PROVE  \E i \in 2..Len(h1) : /\ Gapped(h1, i) /\ w[j].id = PriceGap(h1, i).id
                                   /\ w[j].born = h1[i].t
  <2>1. CASE j \in DOMAIN u /\ w[j] = u[j]
    <3>1. PICK i \in 2..Len(old) : /\ Gapped(old, i) /\ gaps[j].id = PriceGap(old, i).id
                                   /\ gaps[j].born = old[i].t
      BY <1>1, <2>1 DEF GapsOf
    <3> QED
      BY <1>1, <1>5, <2>1, <3>1
  <2>2. CASE j - Len(u) \in DOMAIN v /\ w[j] = v[j - Len(u)]
    <3>1. PICK i \in 2..Len(h1) : Gapped(h1, i) /\ w[j] = PriceGap(h1, i)
      BY <1>2, <2>2
    <3>2. PriceGap(h1, i).born = h1[i].t
      BY PriceGapType
    <3> QED
      BY <3>1, <3>2
  <2> QED
    BY <1>3, <2>1, <2>2
<1>7. ASSUME NEW i \in 2..Len(h1), Gapped(h1, i)
      PROVE  \E j \in DOMAIN w : w[j].id = PriceGap(h1, i).id
  <2>1. CASE \E j \in DOMAIN u : u[j].id = PriceGap(h1, i).id
    BY <1>3, <2>1
  <2>2. CASE \A j \in DOMAIN u : u[j].id # PriceGap(h1, i).id
    <3>1. PICK n \in DOMAIN v : v[n] = PriceGap(h1, i)
      BY <1>2, <1>7, <2>2
    <3>2. Len(u) + n \in DOMAIN w /\ w[Len(u) + n] = v[n]
      BY <1>3
    <3> QED
      BY <3>1, <3>2
  <2> QED
    BY <2>1, <2>2
<1>8. ASSUME NEW i \in DOMAIN w, NEW j \in DOMAIN w, w[i].id = w[j].id
      PROVE  i = j
  <2>1. CASE i \in DOMAIN u /\ w[i] = u[i] /\ j \in DOMAIN u /\ w[j] = u[j]
    BY <1>1, <1>8, <2>1 DEF GapsOf
  <2>2. CASE /\ i - Len(u) \in DOMAIN v /\ w[i] = v[i - Len(u)]
             /\ j - Len(u) \in DOMAIN v /\ w[j] = v[j - Len(u)]
    <3>1. i - Len(u) = j - Len(u)
      BY <1>2, <1>8, <2>2
    <3> QED
      BY <1>3, <3>1
  <2>3. CASE i \in DOMAIN u /\ w[i] = u[i] /\ j - Len(u) \in DOMAIN v /\ w[j] = v[j - Len(u)]
    BY <1>2, <1>8, <2>3
  <2>4. CASE j \in DOMAIN u /\ w[j] = u[j] /\ i - Len(u) \in DOMAIN v /\ w[i] = v[i - Len(u)]
    BY <1>2, <1>8, <2>4
  <2> QED
    BY <1>3, <2>1, <2>2, <2>3, <2>4
<1> QED
  BY <1>6, <1>7, <1>8 DEF GapsOf, u, v, w

LevelKinds == {"pdh", "pdl", "eqh", "eql", "swing_h", "swing_l"}
LevelType  == Price \X LevelKinds
SweepKey   == {"bearish", "bullish"} \X Price \X LevelKinds

LEMMA LevelsType ==
    ASSUME NEW bars \in Seq(CandleType), NEW days \in Seq(CandleType)
    PROVE  Levels(bars, days) \in Seq(LevelType)
<1>1. ASSUME NEW p \in Price, NEW k \in LevelKinds
      PROVE  << p, k >> \in LevelType
  BY DEF LevelType
<1>2. \A i \in DOMAIN bars : bars[i].h \in Price /\ bars[i].l \in Price
  <2>1. \A i \in DOMAIN bars : bars[i] \in CandleType
    OBVIOUS
  <2> QED
    BY <2>1, CandleFields
<1>3. DayLevels(days) \in Seq(LevelType)
  <2>1. CASE Len(days) < 2
    BY <2>1 DEF DayLevels
  <2>2. CASE ~ Len(days) < 2
    <3>1. days[Len(days) - 1] \in CandleType
      BY <2>2
    <3> DEFINE a == << days[Len(days) - 1].h, "pdh" >>
               b == << days[Len(days) - 1].l, "pdl" >>
    <3>2. a \in LevelType /\ b \in LevelType
      BY <3>1, <1>1, CandleFields DEF LevelKinds
    <3>3. DayLevels(days) = << a, b >>
      BY <2>2 DEF DayLevels
    <3> HIDE DEF a, b
    <3> QED
      BY <3>2, <3>3
  <2> QED
    BY <2>1, <2>2
<1>4. ASSUME NEW i \in DOMAIN bars
      PROVE  EqualsAt(bars, i) \in Seq(LevelType) /\ SwingsAt(bars, i) \in Seq(LevelType)
  <2>1. /\ << bars[i].h, "eqh" >> \in LevelType /\ << bars[i].l, "eql" >> \in LevelType
        /\ << bars[i].h, "swing_h" >> \in LevelType /\ << bars[i].l, "swing_l" >> \in LevelType
    BY <1>1, <1>2 DEF LevelKinds
  <2>2. \A s, q \in Seq(LevelType) : s \o q \in Seq(LevelType)
    OBVIOUS
  <2> QED
    BY <2>1, <2>2, OnlyType DEF EqualsAt, SwingsAt
<1>5. Len(bars) \in Nat /\ DOMAIN bars = 1..Len(bars)
  OBVIOUS
<1> DEFINE equals == [i \in DOMAIN bars |-> EqualsAt(bars, i)]
           swings == [i \in DOMAIN bars |-> SwingsAt(bars, i)]
<1>6. \A i \in 1..Len(bars) : equals[i] \in Seq(LevelType) /\ swings[i] \in Seq(LevelType)
  BY <1>4, <1>5
<1> HIDE DEF equals, swings
<1>7. Concat(equals, Len(bars)) \in Seq(LevelType) /\ Concat(swings, Len(bars)) \in Seq(LevelType)
  BY <1>5, <1>6, ConcatType
<1>8. \A s, q, r \in Seq(LevelType) : s \o q \o r \in Seq(LevelType)
  OBVIOUS
<1> QED
  BY <1>3, <1>7, <1>8 DEF Levels, equals, swings

LEMMA SweepsType ==
    ASSUME NEW bars \in Seq(CandleType), NEW days \in Seq(CandleType)
    PROVE  DetectSweeps(bars, days) \in Seq(SweepKey)
<1> DEFINE levels == Levels(bars, days)
           At(i) == Concat([k \in DOMAIN levels |-> SweptAt(bars[i], levels[k])], Len(levels))
           parts == [i \in DOMAIN bars |-> IF i = 1 THEN << >> ELSE At(i)]
<1>1. levels \in Seq(LevelType)
  BY LevelsType
<1>2. DetectSweeps(bars, days) = Concat(parts, Len(bars))
  BY DEF DetectSweeps
<1> HIDE DEF levels
<1>3. ASSUME NEW level \in LevelType, NEW bar
      PROVE  SweptAt(bar, level) \in Seq(SweepKey)
  <2>1. level[1] \in Price /\ level[2] \in LevelKinds
    BY DEF LevelType
  <2>2. /\ << "bearish", level[1], level[2] >> \in SweepKey
        /\ << "bullish", level[1], level[2] >> \in SweepKey
    BY <2>1 DEF SweepKey
  <2>3. \A s, q \in Seq(SweepKey) : s \o q \in Seq(SweepKey)
    OBVIOUS
  <2> QED
    BY <2>2, <2>3, OnlyType DEF SweptAt
<1>4. ASSUME NEW i \in DOMAIN bars
      PROVE  At(i) \in Seq(SweepKey)
  <2> DEFINE f == [k \in DOMAIN levels |-> SweptAt(bars[i], levels[k])]
  <2>1. DOMAIN levels = 1..Len(levels) /\ Len(levels) \in Nat
    BY <1>1
  <2>2. \A k \in 1..Len(levels) : f[k] \in Seq(SweepKey)
    BY <1>1, <1>3, <2>1
  <2> HIDE DEF f
  <2>3. Concat(f, Len(levels)) \in Seq(SweepKey)
    BY <2>1, <2>2, ConcatType
  <2> QED
    BY <2>3 DEF f
<1> HIDE DEF At
<1>5. Len(bars) \in Nat /\ DOMAIN bars = 1..Len(bars)
  OBVIOUS
<1>6. \A i \in 1..Len(bars) : parts[i] \in Seq(SweepKey)
  <2>1. << >> \in Seq(SweepKey)
    OBVIOUS
  <2>2. \A i \in 1..Len(bars) : parts[i] = << >> \/ parts[i] = At(i)
    BY <1>5
  <2> HIDE DEF parts
  <2> QED
    BY <1>4, <1>5, <2>1, <2>2
<1> HIDE DEF parts
<1> QED
  BY <1>2, <1>5, <1>6, ConcatType

\* _persist_events: of the last five sweeps those not seen, each once.
LEMMA KeysAreNew ==
    ASSUME NEW sweeps \in Seq(SweepKey), NEW seen
    PROVE  /\ SweepKeys(seen, sweeps) \in Seq(SweepKey)
           /\ \A i \in DOMAIN SweepKeys(seen, sweeps) : SweepKeys(seen, sweeps)[i] \notin seen
           /\ \A i, j \in DOMAIN SweepKeys(seen, sweeps) :
                 SweepKeys(seen, sweeps)[i] = SweepKeys(seen, sweeps)[j] => i = j
<1> DEFINE recent == LastBars(sweeps, 5)
           K == {i \in DOMAIN recent : /\ recent[i] \notin seen
                                       /\ \A j \in 1..(i - 1) : recent[j] # recent[i]}
           E == {recent[i] : i \in K \cap DOMAIN recent}
           keys == SweepKeys(seen, sweeps)
<1>1. keys = Kept(recent, K)
  BY DEF SweepKeys
<1>2. recent \in Seq(SweepKey)
  BY LastBarsPlaces
<1>3. \A i \in K : /\ i \in DOMAIN recent /\ recent[i] \notin seen
                   /\ \A j \in 1..(i - 1) : recent[j] # recent[i]
  OBVIOUS
<1>4. K \cap DOMAIN recent = K
  OBVIOUS
<1> HIDE DEF recent, K, keys
<1>5. keys \in Seq(E)
  BY <1>1, <1>2, KeptType
<1>6. E \subseteq SweepKey
  BY <1>2
<1>7. keys \in Seq(SweepKey)
  BY <1>5, <1>6, ListMono
<1>8. PICK pos : Enumerates(pos, keys, recent, K)
  <2>1. \E pos : Enumerates(pos, Kept(recent, K), recent, K \cap DOMAIN recent)
    BY <1>2, KeptPlaces
  <2> QED
    BY <1>1, <1>4, <2>1
<1>9. \A i \in DOMAIN keys : pos[i] \in K /\ keys[i] = recent[pos[i]]
  BY <1>8 DEF Enumerates
<1>10. ASSUME NEW i \in DOMAIN keys, NEW j \in DOMAIN keys, i < j
       PROVE  keys[i] # keys[j]
  <2>1. pos[i] \in Nat \ {0} /\ pos[j] \in Nat \ {0}
    BY <1>2, <1>3, <1>9
  <2>2. pos[i] < pos[j]
    BY <1>8, <1>10 DEF Enumerates
  <2>3. pos[i] \in 1..(pos[j] - 1)
    BY <2>1, <2>2
  <2> QED
    BY <1>3, <1>9, <2>3
<1>11. ASSUME NEW i \in DOMAIN keys, NEW j \in DOMAIN keys, keys[i] = keys[j]
       PROVE  i = j
  <2>1. i \in Nat /\ j \in Nat
    BY <1>7
  <2>2. ~ i < j /\ ~ j < i
    BY <1>10, <1>11
  <2> QED
    BY <2>1, <2>2
<1> QED
  BY <1>3, <1>7, <1>9, <1>11 DEF keys

-----------------------------------------------------------------------------
\* The newest stored candle is stored.
LEMMA NewestIsStored ==
    ASSUME FeedInv, NEW tf \in Frames, stored[tf] # {}
    PROVE  Newest(tf) \in stored[tf]
<1>1. stored[tf] \in SUBSET (0..closed[tf]) /\ closed[tf] \in Nat
  BY DEF FeedInv
<1>2. \E k \in stored[tf] : \A j \in stored[tf] : j <= k
  BY <1>1, GreatestElement
<1> QED
  BY <1>2 DEF Newest

LEMMA MarketLengths ==
    ASSUME market \in Markets, NEW tf \in Frames
    PROVE  Len(market[tf]) \in Nat
<1>1. market[tf] \in Seq(CandleType)
  BY PriceAssumption
<1> QED
  BY <1>1

LEMMA InitFeed == Init => FeedInv
<1> SUFFICES ASSUME Init
             PROVE  FeedInv
  OBVIOUS
<1>1. 0 \in 0..MaxTriggers /\ 0 \in 0..MaxFaults /\ 1 \in 1..MaxRuns
  BY FeedConstants
<1>2. \A tf \in Frames : 0 <= Len(market[tf])
  BY MarketLengths DEF Init
<1> QED
  BY <1>1, <1>2 DEF Init, FeedInv, PhaseStaysLow

LEMMA NextFeed == FeedInv /\ [Next]_vars => FeedInv'
<1> SUFFICES ASSUME FeedInv, [Next]_vars
             PROVE  FeedInv'
  OBVIOUS
<1>1. /\ market \in Markets /\ closed \in [Frames -> Nat] /\ stored \in [Frames -> SUBSET Nat]
      /\ \A tf \in Frames : closed[tf] <= Len(market[tf]) /\ stored[tf] \subseteq 1..closed[tf]
      /\ triggers \in 0..MaxTriggers /\ run \in 1..MaxRuns /\ faults \in 0..MaxFaults
      /\ phase \in {0, 1}
  BY DEF FeedInv, PhaseStaysLow
<1>2. /\ MaxTriggers \in Nat /\ MaxFaults \in Nat /\ MaxRuns \in Nat
      /\ \A tf \in Frames : Len(market[tf]) \in Nat
  BY <1>1, FeedConstants, MarketLengths
<1>3. CASE \E tf \in Frames : Close(tf)
  <2>1. PICK f \in Frames : Close(f)
    BY <1>3
  <2>2. /\ closed[f] < Len(market[f]) /\ closed' = [closed EXCEPT ![f] = @ + 1]
        /\ UNCHANGED << market, stored, triggers, run, faults, phase >>
    BY <2>1 DEF Close
  <2>3. closed' \in [Frames -> Nat] /\ \A tf \in Frames : closed[tf] <= closed'[tf]
    BY <1>1, <2>2
  <2>4. \A tf \in Frames : closed'[tf] <= Len(market[tf])
    BY <1>1, <1>2, <2>2
  <2>5. \A tf \in Frames : stored[tf] \subseteq 1..closed'[tf]
    BY <1>1, <2>3
  <2> QED
    BY <1>1, <2>2, <2>3, <2>4, <2>5 DEF FeedInv, PhaseStaysLow
<1>4. CASE \E answers \in SUBSET Frames, n \in 1..2 : PollAndTrigger(answers, n)
  <2>1. PICK answers \in SUBSET Frames, n \in 1..2 : PollAndTrigger(answers, n)
    BY <1>4
  <2>2. /\ stored' = [tf \in Frames |-> IF tf \in answers THEN stored[tf] \cup LastCandle(tf, n)
                                        ELSE stored[tf]]
        /\ triggers < MaxTriggers /\ triggers' = triggers + 1
        /\ UNCHANGED << market, closed, run, faults, phase >>
    BY <2>1 DEF PollAndTrigger
  <2>3. \A tf \in Frames : LastCandle(tf, n) \subseteq 1..closed[tf]
    BY DEF LastCandle
  <2>4. stored' \in [Frames -> SUBSET Nat] /\ \A tf \in Frames : stored'[tf] \subseteq 1..closed[tf]
    BY <1>1, <2>2, <2>3
  <2>5. triggers' \in 0..MaxTriggers
    BY <1>1, <1>2, <2>2
  <2> QED
    BY <1>1, <2>2, <2>4, <2>5 DEF FeedInv, PhaseStaysLow
<1>5. CASE Tick
  <2>1. /\ phase' = DetectMmmPhase(market.H4, market.D)
        /\ triggers > 0 /\ triggers' = triggers - 1
        /\ UNCHANGED << market, closed, stored, run, faults >>
    BY <1>5 DEF Tick
  <2>2. triggers' \in 0..MaxTriggers
    BY <1>1, <1>2, <2>1
  <2> QED
    BY <1>1, <2>1, <2>2, PhaseOfMarket DEF FeedInv, PhaseStaysLow
<1>6. CASE \E n \in 0..(5 + 1 + 2 * Len(market.H1) + 1) : FailedTick(n)
  <2>1. /\ phase' = DetectMmmPhase(market.H4, market.D)
        /\ triggers > 0 /\ triggers' = triggers - 1
        /\ faults < MaxFaults /\ faults' = faults + 1
        /\ UNCHANGED << market, closed, stored, run >>
    BY <1>6 DEF FailedTick
  <2>2. triggers' \in 0..MaxTriggers /\ faults' \in 0..MaxFaults
    BY <1>1, <1>2, <2>1
  <2> QED
    BY <1>1, <2>1, <2>2, PhaseOfMarket DEF FeedInv, PhaseStaysLow
<1>7. CASE FailedPhase
  <2>1. /\ triggers > 0 /\ triggers' = triggers - 1
        /\ faults < MaxFaults /\ faults' = faults + 1
        /\ UNCHANGED << market, closed, stored, phase, run >>
    BY <1>7 DEF FailedPhase
  <2>2. triggers' \in 0..MaxTriggers /\ faults' \in 0..MaxFaults
    BY <1>1, <1>2, <2>1
  <2> QED
    BY <1>1, <2>1, <2>2 DEF FeedInv, PhaseStaysLow
<1>8. CASE \E answers \in SUBSET Frames : Restart(answers)
  <2>1. PICK answers \in SUBSET Frames : Restart(answers)
    BY <1>8
  <2>2. /\ stored' = [tf \in Frames |-> IF tf \in answers THEN stored[tf] \cup Backfilled(tf)
                                        ELSE stored[tf]]
        /\ run < MaxRuns /\ run' = run + 1 /\ triggers' = 0
        /\ UNCHANGED << market, closed, phase, faults >>
    BY <2>1 DEF Restart
  <2>3. \A tf \in Frames : Backfilled(tf) \subseteq 1..closed[tf]
    BY DEF Backfilled
  <2>4. stored' \in [Frames -> SUBSET Nat] /\ \A tf \in Frames : stored'[tf] \subseteq 1..closed[tf]
    BY <1>1, <2>2, <2>3
  <2>5. triggers' \in 0..MaxTriggers /\ run' \in 1..MaxRuns
    BY <1>1, <1>2, <2>2
  <2> QED
    BY <1>1, <2>2, <2>4, <2>5 DEF FeedInv, PhaseStaysLow
<1>9. CASE UNCHANGED vars
  BY <1>1, <1>9 DEF FeedInv, vars, PhaseStaysLow
<1> QED
  BY <1>3, <1>4, <1>5, <1>6, <1>7, <1>8, <1>9 DEF Next

LEMMA FeedHolds == Spec => []FeedInv
BY InitFeed, NextFeed, PTL DEF Spec

\* Whatever the market does, an expansion is never seen: the sell program, reversal and
\* buy program that mmm_phase.py lists never occur.
THEOREM PhaseStaysLowHolds == Spec => []PhaseStaysLow
<1>1. FeedInv => PhaseStaysLow
  BY DEF FeedInv
<1> QED
  BY <1>1, FeedHolds, PTL

\* A candle that is neither newer than the newest stored one nor among the last two
\* is never stored any more.
THEOREM HolesStayHolds == Spec => HolesStay
<1> DEFINE Stays == \A tf \in Frames : \A k \in stored'[tf] \ stored[tf] :
                        k > Newest(tf) \/ k >= closed[tf] - 1
<1>1. FeedInv /\ [Next]_vars => [Stays]_vars
  <2> SUFFICES ASSUME FeedInv, Next, NEW tf \in Frames, NEW k \in stored'[tf] \ stored[tf]
               PROVE  k > Newest(tf) \/ k >= closed[tf] - 1
    OBVIOUS
  <2>1. CASE \E answers \in SUBSET Frames, n \in 1..2 : PollAndTrigger(answers, n)
    BY <2>1 DEF FeedInv, PollAndTrigger, LastCandle
  <2>2. CASE \E answers \in SUBSET Frames : Restart(answers)
    <3>1. k \in Backfilled(tf)
      BY <2>2 DEF Restart, FeedInv
    <3>2. k \in 1..closed[tf] /\ k >= Newest(tf) /\ closed[tf] \in Nat
      BY <3>1 DEF Backfilled, FeedInv
    <3>3. CASE stored[tf] = {}
      BY <3>2, <3>3 DEF Newest
    <3>4. CASE stored[tf] # {}
      <4>1. Newest(tf) \in stored[tf]
        BY <3>4, NewestIsStored
      <4>2. Newest(tf) \in Nat /\ k # Newest(tf)
        BY <4>1 DEF FeedInv
      <4> QED
        BY <3>2, <4>2
    <3> QED
      BY <3>3, <3>4
  <2>3. CASE \E f \in Frames : Close(f)
    BY <2>3 DEF Close
  <2>4. CASE Tick
    BY <2>4 DEF Tick
  <2>5. CASE \E n \in 0..(5 + 1 + 2 * Len(market.H1) + 1) : FailedTick(n)
    BY <2>5 DEF FailedTick
  <2>6. CASE FailedPhase
    BY <2>6 DEF FailedPhase
  <2> QED
    BY <2>1, <2>2, <2>3, <2>4, <2>5, <2>6 DEF Next
<1> QED
  BY <1>1, FeedHolds, PTL DEF Spec, HolesStay
-----------------------------------------------------------------------------
(* The gaps tracked follow the list of H1 candles.                          *)

LEMMA NoGaps == GapsOf(<< >>, << >>)
<1>1. DOMAIN << >> = {} /\ Len(<< >>) = 0
  OBVIOUS
<1>2. 2..0 = {}
  OBVIOUS
<1> QED
  BY <1>1, <1>2 DEF GapsOf

\* The gaps that a tick leaves behind, recorded or not.
LEMMA TickGaps ==
    ASSUME FeedInv, GapInv, NEW h1, h1 = Load("H1", H1Window), loaded' = Noted(h1),
           memory'.gaps = Updated(memory.gaps, h1) \o NewGaps(Updated(memory.gaps, h1), h1)
    PROVE  GapInv'
<1> DEFINE u == Updated(memory.gaps, h1)
           v == NewGaps(u, h1)
<1>1. h1 \in Seq(CandleType) /\ \A i, j \in DOMAIN h1 : h1[i].t = h1[j].t => i = j
  <2>1. "H1" \in Frames /\ H1Window \in Nat
    BY FeedConstants DEF Frames
  <2> QED
    BY <2>1, LoadedCandles
<1>2. memory.gaps \in Seq(GapType) /\ loaded.h1 \in Seq(CandleType)
  BY DEF GapInv
<1>3. u \in Seq(GapType)
  BY <1>2, UpdatedGaps
<1>4. v \in Seq(GapType)
  <2> HIDE DEF u
  <2> QED
    BY <1>1, <1>3, GapsAdded
<1>5. memory'.gaps \in Seq(GapType)
  <2> HIDE DEF u, v
  <2>1. u \o v \in Seq(GapType)
    BY <1>3, <1>4
  <2> QED
    BY <2>1 DEF u, v
<1>6. loaded'.h1 = h1 /\ (loaded'.grew => loaded.grew /\ IsPrefix(loaded.h1, h1))
  <2>1. loaded'.grew = (loaded.grew /\ IsPrefix(loaded.h1, h1)) /\ loaded'.h1 = h1
    BY Zenon DEF Noted
  <2> QED
    BY <2>1, Zenon
<1>7. ASSUME loaded'.grew
      PROVE  GapsOf(memory'.gaps, loaded'.h1)
  <2>1. GapsOf(memory.gaps, loaded.h1) /\ IsPrefix(loaded.h1, h1)
    BY <1>6, <1>7 DEF GapInv
  <2>2. GapsOf(u \o v, h1)
    BY <1>1, <1>2, <2>1, GapsFollow
  <2> QED
    BY <1>6, <2>2, Zenon
<1> QED
  BY <1>1, <1>5, <1>6, <1>7 DEF GapInv

LEMMA InitGaps == Init => GapInv
BY NoGaps DEF Init, GapInv, Blank, NoList

LEMMA NextGaps == FeedInv /\ GapInv /\ [Next]_vars => GapInv'
<1> SUFFICES ASSUME FeedInv, GapInv, [Next]_vars
             PROVE  GapInv'
  OBVIOUS
<1>1. \A rows, h1 : Remember(rows, h1).gaps = Updated(memory.gaps, h1)
                                              \o NewGaps(Updated(memory.gaps, h1), h1)
  BY DEF Remember
<1>2. CASE UNCHANGED << memory, loaded >>
  BY <1>2 DEF GapInv
<1>3. CASE \E tf \in Frames : Close(tf)
  BY <1>2, <1>3 DEF Close
<1>4. CASE \E answers \in SUBSET Frames, n \in 1..2 : PollAndTrigger(answers, n)
  BY <1>2, <1>4 DEF PollAndTrigger
<1>5. CASE Tick
  <2> DEFINE h1 == Load("H1", H1Window)
  <2>1. memory' = Remember(Rows(Load("M1", M1Window), h1), h1) /\ loaded' = Noted(h1)
    BY <1>5 DEF Tick
  <2> HIDE DEF h1
  <2>2. h1 = Load("H1", H1Window)
    BY DEF h1
  <2> QED
    BY <1>1, <2>1, <2>2, TickGaps
<1>6. CASE \E n \in 0..(5 + 1 + 2 * Len(market.H1) + 1) : FailedTick(n)
  <2> DEFINE h1 == Load("H1", H1Window)
             rows == Rows(Load("M1", M1Window), h1)
  <2>1. PICK n \in 0..(5 + 1 + 2 * Len(market.H1) + 1) : FailedTick(n)
    BY <1>6
  <2>2. /\ memory' = Remember(SubSeq(rows, 1, IF n <= Len(rows) THEN n ELSE Len(rows)), h1)
        /\ loaded' = Noted(h1)
    BY <2>1 DEF FailedTick
  <2> HIDE DEF h1, rows
  <2>3. h1 = Load("H1", H1Window)
    BY DEF h1
  <2> QED
    BY <1>1, <2>2, <2>3, TickGaps
<1>7. CASE FailedPhase
  <2> DEFINE h1 == Load("H1", H1Window)
  <2>1. memory' = Remember(<< >>, h1) /\ loaded' = Noted(h1)
    BY <1>7 DEF FailedPhase
  <2> HIDE DEF h1
  <2>2. h1 = Load("H1", H1Window)
    BY DEF h1
  <2> QED
    BY <1>1, <2>1, <2>2, TickGaps
<1>8. CASE \E answers \in SUBSET Frames : Restart(answers)
  <2>1. memory' = Blank /\ loaded' = NoList
    BY <1>8 DEF Restart
  <2> QED
    BY <2>1, NoGaps DEF GapInv, Blank, NoList
<1>9. CASE UNCHANGED vars
  BY <1>2, <1>9 DEF vars
<1> QED
  BY <1>3, <1>4, <1>5, <1>6, <1>7, <1>8, <1>9 DEF Next

LEMMA GapsHold == Spec => []GapInv
BY InitFeed, NextFeed, InitGaps, NextGaps, PTL DEF Spec

\* For as long as the list of H1 candles only grows at its end, every price gap in it is
\* tracked, and tracked once: ids made of places are then as good as ids made of times.
THEOREM GapsTrackedWhileGrowingHolds == Spec => []GapsTrackedWhileGrowing
<1>1. GapInv => GapsTrackedWhileGrowing
  <2> SUFFICES ASSUME GapInv, loaded.grew
               PROVE  /\ GapsTracked
                      /\ \A i, j \in DOMAIN memory.gaps :
                            memory.gaps[i].born = memory.gaps[j].born => i = j
    BY DEF GapsTrackedWhileGrowing
  <2> DEFINE gaps == memory.gaps
             h1 == loaded.h1
  <2>1. h1 \in Seq(CandleType) /\ GapsOf(gaps, h1)
    BY DEF GapInv
  <2>2. /\ \A i, j \in DOMAIN h1 : h1[i].t = h1[j].t => i = j
        /\ \A j \in DOMAIN gaps :
              \E i \in 2..Len(h1) : /\ gaps[j].id = PriceGap(h1, i).id
                                    /\ gaps[j].born = h1[i].t
        /\ \A i \in 2..Len(h1) :
              Gapped(h1, i) => \E j \in DOMAIN gaps : gaps[j].id = PriceGap(h1, i).id
        /\ \A i, j \in DOMAIN gaps : gaps[i].id = gaps[j].id => i = j
    BY <2>1 DEF GapsOf
  <2>3. \A i \in 2..Len(h1) : i \in DOMAIN h1 /\ PriceGap(h1, i).id[2] = i
                              /\ PriceGap(h1, i).born = h1[i].t
    BY <2>1, PriceGapType
  <2>4. ASSUME NEW m \in DOMAIN DetectGaps(h1)
        PROVE  \E j \in DOMAIN gaps : gaps[j].born = DetectGaps(h1)[m].born
    <3>1. PICK i \in 2..Len(h1) : Gapped(h1, i) /\ DetectGaps(h1)[m] = PriceGap(h1, i)
      BY <2>1, GapsDetected
    <3>2. PICK j \in DOMAIN gaps : gaps[j].id = PriceGap(h1, i).id
      BY <2>2, <3>1
    <3>3. PICK k \in 2..Len(h1) : gaps[j].id = PriceGap(h1, k).id /\ gaps[j].born = h1[k].t
      BY <2>2
    <3>4. i = k
      BY <2>3, <3>2, <3>3
    <3> QED
      BY <2>3, <3>1, <3>3, <3>4
  <2>5. ASSUME NEW i \in DOMAIN gaps, NEW j \in DOMAIN gaps, gaps[i].born = gaps[j].born
        PROVE  i = j
    <3>1. PICK a \in 2..Len(h1) : gaps[i].id = PriceGap(h1, a).id /\ gaps[i].born = h1[a].t
      BY <2>2
    <3>2. PICK b \in 2..Len(h1) : gaps[j].id = PriceGap(h1, b).id /\ gaps[j].born = h1[b].t
      BY <2>2
    <3>3. h1[a].t = h1[b].t
      BY <2>5, <3>1, <3>2
    <3>4. a \in DOMAIN h1 /\ b \in DOMAIN h1
      BY <2>3
    <3>5. a = b
      BY <2>2, <3>3, <3>4
    <3> QED
      BY <2>2, <3>1, <3>2, <3>5
  <2> QED
    BY <2>4, <2>5 DEF GapsTracked
<1> QED
  BY <1>1, GapsHold, PTL
-----------------------------------------------------------------------------
(* The rows of a tick and the sweeps that are remembered.                   *)

\* Rows of run n whose sweeps are not among seen, and different from each other.
Fresh(list, seen, n) ==
    /\ list \in Seq(ToSet(list))
    /\ \A i \in DOMAIN list : list[i].kind \in Kinds /\ list[i].run = n
    /\ \A i \in DOMAIN list : list[i].kind = "sweep" => list[i].key \notin seen
    /\ \A i, j \in DOMAIN list : list[i].kind = "sweep" /\ list[i] = list[j] => i = j

\* Rows of run n, none of them a sweep.
Quiet(list, n) ==
    /\ list \in Seq(ToSet(list))
    /\ \A i \in DOMAIN list : list[i].kind \in Kinds \ {"sweep"} /\ list[i].run = n

\* What a list of rows holds after others are appended.
LEMMA Appended ==
    ASSUME NEW s, NEW t, s \in Seq(ToSet(s)), t \in Seq(ToSet(t))
    PROVE  /\ s \o t \in Seq(ToSet(s \o t))
           /\ \A i \in DOMAIN s : i \in DOMAIN (s \o t) /\ (s \o t)[i] = s[i]
           /\ \A i \in DOMAIN t : Len(s) + i \in DOMAIN (s \o t) /\ (s \o t)[Len(s) + i] = t[i]
           /\ \A i \in DOMAIN (s \o t) :
                 \/ i \in DOMAIN s /\ (s \o t)[i] = s[i]
                 \/ /\ i - Len(s) \in DOMAIN t /\ (s \o t)[i] = t[i - Len(s)]
                    /\ i = Len(s) + (i - Len(s))
<1> DEFINE S == ToSet(s) \cup ToSet(t)
           w == s \o t
<1>1. s \in Seq(S) /\ t \in Seq(S)
  <2> DEFINE A == ToSet(s)
             B == ToSet(t)
  <2>1. A \subseteq A \cup B /\ B \subseteq A \cup B
    OBVIOUS
  <2> HIDE DEF A, B
  <2>2. s \in Seq(A \cup B) /\ t \in Seq(A \cup B)
    BY <2>1, ListMono DEF A, B
  <2> QED
    BY <2>2 DEF A, B
<1> HIDE DEF S
<1>2. /\ w \in Seq(S) /\ DOMAIN w = 1..Len(w) /\ Len(w) \in Nat
      /\ \A i \in DOMAIN s : i \in DOMAIN w /\ w[i] = s[i]
      /\ \A i \in DOMAIN t : Len(s) + i \in DOMAIN w /\ w[Len(s) + i] = t[i]
      /\ \A i \in DOMAIN w :
            \/ i \in DOMAIN s /\ w[i] = s[i]
            \/ /\ i - Len(s) \in DOMAIN t /\ w[i] = t[i - Len(s)]
               /\ i = Len(s) + (i - Len(s))
  BY <1>1
<1> HIDE DEF w
<1>3. w \in Seq(ToSet(w))
  <2>1. \A i \in 1..Len(w) : w[i] \in ToSet(w)
    BY <1>2 DEF ToSet
  <2> QED
    BY <1>2, <2>1
<1> QED
  BY <1>2, <1>3 DEF w

\* Rows made of one list.
LEMMA Listed ==
    ASSUME NEW f, NEW n \in Nat, f = [i \in 1..n |-> f[i]]
    PROVE  f \in Seq(ToSet(f)) /\ DOMAIN f = 1..n
<1>1. DOMAIN f = 1..n
  BY Zenon
<1>2. \A i \in 1..n : f[i] \in ToSet(f)
  BY <1>1 DEF ToSet
<1>3. f \in [1..n -> ToSet(f)]
  BY <1>2, Zenon
<1> QED
  BY <1>1, <1>3

LEMMA RecordQuiet ==
    ASSUME NEW list, NEW more, NEW seen, NEW n \in Nat \ {0},
           Recorded(list, seen, n), Quiet(more, n)
    PROVE  Recorded(list \o more, seen, n)
<1> DEFINE w == list \o more
<1>1. list \in Seq(ToSet(list)) /\ more \in Seq(ToSet(more))
  BY DEF Recorded, Quiet
<1>2. /\ w \in Seq(ToSet(w))
      /\ \A i \in DOMAIN w : \/ i \in DOMAIN list /\ w[i] = list[i]
                             \/ /\ i - Len(list) \in DOMAIN more /\ w[i] = more[i - Len(list)]
                                /\ i = Len(list) + (i - Len(list))
  BY <1>1, Appended
<1> HIDE DEF w
<1>3. \A i \in DOMAIN w : \/ i \in DOMAIN list /\ w[i] = list[i]
                          \/ w[i].kind \in Kinds \ {"sweep"} /\ w[i].run = n
  BY <1>2 DEF Quiet
<1>4. n \in 1..n
  OBVIOUS
<1>5. \A i, j \in DOMAIN w : w[i].kind = "sweep" /\ w[i] = w[j] => i = j
  BY <1>3 DEF Recorded
<1>6. \A i \in DOMAIN w : w[i].kind \in Kinds /\ w[i].run \in 1..n
  BY <1>3, <1>4 DEF Recorded
<1>7. \A i \in DOMAIN w : w[i].kind = "sweep" /\ w[i].run = n => w[i].key \in seen
  BY <1>3 DEF Recorded
<1> QED
  BY <1>2, <1>5, <1>6, <1>7 DEF Recorded, w

LEMMA FreshQuiet ==
    ASSUME NEW list, NEW more, NEW seen, NEW n, Fresh(list, seen, n), Quiet(more, n)
    PROVE  Fresh(list \o more, seen, n)
<1> DEFINE w == list \o more
<1>1. list \in Seq(ToSet(list)) /\ more \in Seq(ToSet(more))
  BY DEF Fresh, Quiet
<1>2. /\ w \in Seq(ToSet(w))
      /\ \A i \in DOMAIN w : \/ i \in DOMAIN list /\ w[i] = list[i]
                             \/ /\ i - Len(list) \in DOMAIN more /\ w[i] = more[i - Len(list)]
                                /\ i = Len(list) + (i - Len(list))
  BY <1>1, Appended
<1> HIDE DEF w
<1>3. \A i \in DOMAIN w : \/ i \in DOMAIN list /\ w[i] = list[i]
                          \/ w[i].kind \in Kinds \ {"sweep"} /\ w[i].run = n
  BY <1>2 DEF Quiet
<1>4. \A i, j \in DOMAIN w : w[i].kind = "sweep" /\ w[i] = w[j] => i = j
  BY <1>3 DEF Fresh
<1>5. \A i \in DOMAIN w : /\ w[i].kind \in Kinds /\ w[i].run = n
                          /\ w[i].kind = "sweep" => w[i].key \notin seen
  BY <1>3 DEF Fresh
<1> QED
  BY <1>2, <1>4, <1>5 DEF Fresh, w

\* Fresh rows are recorded, and their sweeps remembered.
LEMMA RecordFresh ==
    ASSUME NEW list, NEW more, NEW seen, NEW n \in Nat \ {0},
           Recorded(list, seen, n), Fresh(more, seen, n)
    PROVE  Recorded(list \o more, seen \cup KeysOf(more, "sweep"), n)
<1> DEFINE w == list \o more
           now == seen \cup KeysOf(more, "sweep")
<1>1. list \in Seq(ToSet(list)) /\ more \in Seq(ToSet(more))
  BY DEF Recorded, Fresh
<1>2. /\ w \in Seq(ToSet(w))
      /\ \A i \in DOMAIN w : \/ i \in DOMAIN list /\ w[i] = list[i]
                             \/ /\ i - Len(list) \in DOMAIN more /\ w[i] = more[i - Len(list)]
                                /\ i = Len(list) + (i - Len(list))
  BY <1>1, Appended
<1>3. /\ \A k \in DOMAIN more : more[k].kind = "sweep" => more[k].key \in now
      /\ \A x \in seen : x \in now
  BY DEF KeysOf
<1> HIDE DEF w, now
<1>4. n \in 1..n
  OBVIOUS
<1>5. \A i \in DOMAIN w : w[i].kind \in Kinds /\ w[i].run \in 1..n
  BY <1>2, <1>4 DEF Recorded, Fresh
<1>6. \A i \in DOMAIN w : w[i].kind = "sweep" /\ w[i].run = n => w[i].key \in now
  BY <1>2, <1>3 DEF Recorded
<1>7. \A i \in DOMAIN list, k \in DOMAIN more : list[i] = more[k] => list[i].kind # "sweep"
  BY DEF Recorded, Fresh
<1>8. ASSUME NEW i \in DOMAIN w, NEW j \in DOMAIN w, w[i].kind = "sweep", w[i] = w[j]
      PROVE  i = j
  <2>1. CASE i \in DOMAIN list /\ w[i] = list[i] /\ j \in DOMAIN list /\ w[j] = list[j]
    BY <1>8, <2>1 DEF Recorded
  <2>2. CASE /\ i - Len(list) \in DOMAIN more /\ w[i] = more[i - Len(list)]
             /\ j - Len(list) \in DOMAIN more /\ w[j] = more[j - Len(list)]
             /\ i = Len(list) + (i - Len(list)) /\ j = Len(list) + (j - Len(list))
    <3>1. i - Len(list) = j - Len(list)
      BY <1>8, <2>2 DEF Fresh
    <3> QED
      BY <2>2, <3>1
  <2>3. CASE /\ i \in DOMAIN list /\ w[i] = list[i]
             /\ j - Len(list) \in DOMAIN more /\ w[j] = more[j - Len(list)]
    BY <1>7, <1>8, <2>3
  <2>4. CASE /\ j \in DOMAIN list /\ w[j] = list[j]
             /\ i - Len(list) \in DOMAIN more /\ w[i] = more[i - Len(list)]
    BY <1>7, <1>8, <2>4
  <2> QED
    BY <1>2, <2>1, <2>2, <2>3, <2>4
<1> QED
  BY <1>2, <1>5, <1>6, <1>8 DEF Recorded, w, now

\* One row for each element of a list.
LEMMA RowsOfList ==
    ASSUME NEW S, NEW s \in Seq(S), NEW kind \in Kinds \ {"sweep"}
    PROVE  Quiet([i \in DOMAIN s |-> Row(kind, s[i])], run)
<1> DEFINE f == [i \in DOMAIN s |-> Row(kind, s[i])]
           n == Len(s)
<1>1. DOMAIN s = 1..n /\ n \in Nat
  OBVIOUS
<1>2. f = [i \in 1..n |-> f[i]]
  BY <1>1, Zenon
<1>3. \A i \in 1..n : f[i].kind = kind /\ f[i].run = run
  BY <1>1 DEF Row
<1> HIDE DEF f
<1>4. f \in Seq(ToSet(f)) /\ DOMAIN f = 1..n
  BY <1>1, <1>2, Listed
<1> QED
  BY <1>3, <1>4 DEF Quiet, f

LEMMA RowsOfGaps ==
    ASSUME NEW s \in Seq(GapType), NEW kind \in Kinds \ {"sweep"}
    PROVE  Quiet([i \in DOMAIN s |-> Row(kind, s[i].id)], run)
<1> DEFINE f == [i \in DOMAIN s |-> Row(kind, s[i].id)]
           n == Len(s)
<1>1. DOMAIN s = 1..n /\ n \in Nat
  OBVIOUS
<1>2. f = [i \in 1..n |-> f[i]]
  BY <1>1, Zenon
<1>3. \A i \in 1..n : f[i].kind = kind /\ f[i].run = run
  BY <1>1 DEF Row
<1> HIDE DEF f
<1>4. f \in Seq(ToSet(f)) /\ DOMAIN f = 1..n
  BY <1>1, <1>2, Listed
<1> QED
  BY <1>3, <1>4 DEF Quiet, f

LEMMA RowsOfSweeps ==
    ASSUME NEW keys \in Seq(SweepKey), NEW seen,
           \A i \in DOMAIN keys : keys[i] \notin seen,
           \A i, j \in DOMAIN keys : keys[i] = keys[j] => i = j
    PROVE  Fresh([i \in DOMAIN keys |-> Row("sweep", keys[i])], seen, run)
<1> DEFINE f == [i \in DOMAIN keys |-> Row("sweep", keys[i])]
           n == Len(keys)
<1>1. DOMAIN keys = 1..n /\ n \in Nat
  OBVIOUS
<1>2. f = [i \in 1..n |-> f[i]]
  BY <1>1, Zenon
<1>3. \A i \in 1..n : f[i].kind = "sweep" /\ f[i].run = run /\ f[i].key = keys[i]
  BY <1>1 DEF Row
<1> HIDE DEF f
<1>4. f \in Seq(ToSet(f)) /\ DOMAIN f = 1..n
  BY <1>1, <1>2, Listed
<1>5. "sweep" \in Kinds
  BY DEF Kinds
<1> QED
  BY <1>1, <1>3, <1>4, <1>5 DEF Fresh, f

\* The sweeps among the rows of a tick are new to the process, each once.
LEMMA TickRows ==
    ASSUME FeedInv, GapInv, NEW m1 \in Seq(CandleType), NEW h1 \in Seq(CandleType)
    PROVE  Fresh(Rows(m1, h1), memory.sweeps, run)
<1> DEFINE gaps   == Updated(memory.gaps, h1)
           sweeps == SweepKeys(memory.sweeps, DetectSweeps(m1, market.D))
           shifts == ShiftKeys(memory.shift, DetectMss(m1))
           formed == NewGaps(gaps, h1)
           filled == Kept(gaps, {i \in DOMAIN gaps : gaps[i].filled /\ ~ memory.gaps[i].filled})
           a == [i \in DOMAIN sweeps |-> Row("sweep", sweeps[i])]
           b == [i \in DOMAIN shifts |-> Row("mss", shifts[i])]
           c == [i \in DOMAIN formed |-> Row("gap_formed", formed[i].id)]
           d == [i \in DOMAIN filled |-> Row("gap_filled", filled[i].id)]
<1>1. Rows(m1, h1) = a \o b \o c \o d
  BY DEF Rows
<1>2. {"mss", "gap_formed", "gap_filled"} \subseteq Kinds \ {"sweep"}
  BY DEF Kinds
<1>3. Fresh(a, memory.sweeps, run)
  <2>1. market.D \in Seq(CandleType)
    BY PriceAssumption DEF FeedInv
  <2>2. DetectSweeps(m1, market.D) \in Seq(SweepKey)
    BY <2>1, SweepsType
  <2>3. /\ sweeps \in Seq(SweepKey)
        /\ \A i \in DOMAIN sweeps : sweeps[i] \notin memory.sweeps
        /\ \A i, j \in DOMAIN sweeps : sweeps[i] = sweeps[j] => i = j
    BY <2>2, KeysAreNew
  <2> HIDE DEF sweeps
  <2> QED
    BY <2>3, RowsOfSweeps
<1>4. Quiet(b, run)
  <2> DEFINE x == DetectMss(m1)[Len(DetectMss(m1))]
  <2>1. shifts = << >> \/ shifts = << x >>
    BY DEF ShiftKeys
  <2> HIDE DEF x, shifts
  <2>2. << >> \in Seq({x}) /\ << x >> \in Seq({x})
    OBVIOUS
  <2>3. shifts \in Seq({x})
    BY <2>1, <2>2, Zenon
  <2> QED
    BY <1>2, <2>3, RowsOfList
<1>5. memory.gaps \in Seq(GapType)
  BY DEF GapInv
<1>6. gaps \in Seq(GapType)
  BY <1>5, UpdatedGaps
<1>7. Quiet(c, run)
  <2> HIDE DEF gaps
  <2>1. formed \in Seq(GapType)
    BY <1>6, GapsAdded
  <2> HIDE DEF formed
  <2> QED
    BY <1>2, <2>1, RowsOfGaps
<1>8. Quiet(d, run)
  <2> DEFINE K == {i \in DOMAIN gaps : gaps[i].filled /\ ~ memory.gaps[i].filled}
             E == {gaps[i] : i \in K \cap DOMAIN gaps}
  <2> HIDE DEF gaps, K
  <2>1. Kept(gaps, K) \in Seq(E) /\ E \subseteq GapType
    BY <1>6, KeptType
  <2> HIDE DEF E
  <2>2. Kept(gaps, K) \in Seq(GapType)
    BY <2>1, ListMono
  <2>3. filled \in Seq(GapType)
    BY <2>2 DEF K
  <2> HIDE DEF filled
  <2> QED
    BY <1>2, <2>3, RowsOfGaps
<1> HIDE DEF a, b, c, d
<1>9. Fresh(a \o b, memory.sweeps, run)
  BY <1>3, <1>4, FreshQuiet
<1>10. Fresh((a \o b) \o c, memory.sweeps, run)
  BY <1>7, <1>9, FreshQuiet
<1>11. Fresh(((a \o b) \o c) \o d, memory.sweeps, run)
  BY <1>8, <1>10, FreshQuiet
<1> QED
  BY <1>1, <1>11

LEMMA PhaseRowsQuiet == Quiet(PhaseRows, run)
<1> DEFINE x == Row("mmm_phase_change", << DetectMmmPhase(market.H4, market.D) >>)
<1>1. PhaseRows = << x >> \/ PhaseRows = << >>
  BY DEF PhaseRows, Only
<1>2. x.kind \in Kinds \ {"sweep"} /\ x.run = run
  BY DEF Row, Kinds
<1> HIDE DEF x
<1>3. ASSUME PhaseRows = << x >>
      PROVE  Quiet(PhaseRows, run)
  <2>1. \A i \in DOMAIN << x >> : << x >>[i] = x
    OBVIOUS
  <2>2. << x >> \in Seq(ToSet(<< x >>))
    BY DEF ToSet
  <2> QED
    BY <1>2, <1>3, <2>1, <2>2 DEF Quiet
<1>4. ASSUME PhaseRows = << >>
      PROVE  Quiet(PhaseRows, run)
  BY <1>4 DEF Quiet, ToSet
<1> QED
  BY <1>1, <1>3, <1>4

LEMMA FeedRun ==
    ASSUME FeedInv
    PROVE  run \in Nat \ {0}
BY FeedConstants DEF FeedInv

\* What a tick stores and remembers.
LEMMA TickSweeps ==
    ASSUME FeedInv, GapInv, SweepInv, Tick
    PROVE  SweepInv' /\ lost \subseteq memory.sweeps
           /\ \E rows : /\ events' = events \o PhaseRows \o rows
                        /\ Fresh(rows, memory.sweeps, run)
<1> DEFINE h1 == Load("H1", H1Window)
           m1 == Load("M1", M1Window)
           rows == Rows(m1, h1)
<1>1. /\ memory' = Remember(rows, h1)
      /\ events' = events \o PhaseRows \o rows
      /\ run' = run /\ lost' = lost
  BY DEF Tick
<1>2. m1 \in Seq(CandleType) /\ h1 \in Seq(CandleType)
  <2>1. /\ "M1" \in Frames /\ "H1" \in Frames /\ M1Window \in Nat /\ H1Window \in Nat
    BY FeedConstants DEF Frames
  <2> QED
    BY <2>1, LoadedCandles
<1> HIDE DEF h1, m1
<1>3. Fresh(rows, memory.sweeps, run)
  BY <1>2, TickRows
<1> HIDE DEF rows
<1>4. memory'.sweeps = memory.sweeps \cup KeysOf(rows, "sweep")
  BY <1>1 DEF Remember
<1>5. Recorded(events \o PhaseRows, memory.sweeps, run)
  BY FeedRun, RecordQuiet, PhaseRowsQuiet DEF SweepInv
<1>6. Recorded((events \o PhaseRows) \o rows, memory.sweeps \cup KeysOf(rows, "sweep"), run)
  BY <1>3, <1>5, FeedRun, RecordFresh
<1>7. Recorded(events', memory'.sweeps, run')
  BY <1>1, <1>4, <1>6
<1>8. lost \subseteq memory.sweeps
  BY DEF SweepInv
<1> QED
  BY <1>1, <1>3, <1>4, <1>7, <1>8 DEF SweepInv

\* More may be remembered than is recorded.
LEMMA RecordedMore ==
    ASSUME NEW list, NEW seen, NEW more, NEW n, Recorded(list, seen, n), seen \subseteq more
    PROVE  Recorded(list, more, n)
BY DEF Recorded

LEMMA InitSweeps == Init => SweepInv
<1>1. ToSet(<< >>) = {} /\ DOMAIN << >> = {}
  BY DEF ToSet
<1>2. << >> \in Seq({})
  OBVIOUS
<1>3. \A seen, n : Recorded(<< >>, seen, n)
  BY <1>1, <1>2 DEF Recorded
<1> QED
  BY <1>3 DEF Init, SweepInv, Blank

LEMMA NextSweeps == FeedInv /\ GapInv /\ SweepInv /\ [Next]_vars => SweepInv'
<1> SUFFICES ASSUME FeedInv, GapInv, SweepInv, [Next]_vars
             PROVE  SweepInv'
  OBVIOUS
<1>1. Recorded(events, memory.sweeps, run) /\ lost \subseteq memory.sweeps
  BY DEF SweepInv
<1>2. CASE UNCHANGED << events, memory, run, lost >>
  BY <1>1, <1>2 DEF SweepInv
<1>3. CASE \E tf \in Frames : Close(tf)
  BY <1>2, <1>3 DEF Close
<1>4. CASE \E answers \in SUBSET Frames, n \in 1..2 : PollAndTrigger(answers, n)
  BY <1>2, <1>4 DEF PollAndTrigger
<1>5. CASE Tick
  BY <1>5, TickSweeps
<1>6. CASE \E n \in 0..(5 + 1 + 2 * Len(market.H1) + 1) : FailedTick(n)
  <2> DEFINE h1 == Load("H1", H1Window)
             rows == Rows(Load("M1", M1Window), h1)
  <2>1. PICK n \in 0..(5 + 1 + 2 * Len(market.H1) + 1) : FailedTick(n)
    BY <1>6
  <2> DEFINE some == SubSeq(rows, 1, IF n <= Len(rows) THEN n ELSE Len(rows))
  <2>2. /\ memory' = Remember(some, h1)
        /\ lost' = lost \cup (memory'.sweeps \ memory.sweeps)
        /\ events' = events \o PhaseRows
        /\ run' = run
    BY <2>1 DEF FailedTick
  <2> HIDE DEF h1, rows, some
  <2>3. memory'.sweeps = memory.sweeps \cup KeysOf(some, "sweep")
    BY <2>2 DEF Remember
  <2>4. Recorded(events \o PhaseRows, memory.sweeps, run)
    BY <1>1, FeedRun, RecordQuiet, PhaseRowsQuiet
  <2>5. memory.sweeps \subseteq memory'.sweeps
    BY <2>3
  <2>6. Recorded(events', memory'.sweeps, run')
    BY <2>2, <2>4, <2>5, RecordedMore
  <2> QED
    BY <1>1, <2>2, <2>5, <2>6 DEF SweepInv
<1>7. CASE FailedPhase
  <2> DEFINE h1 == Load("H1", H1Window)
  <2>1. memory' = Remember(<< >>, h1) /\ UNCHANGED << events, run, lost >>
    BY <1>7 DEF FailedPhase
  <2> HIDE DEF h1
  <2>2. memory.sweeps \subseteq memory'.sweeps
    BY <2>1 DEF Remember
  <2> QED
    BY <1>1, <2>1, <2>2, RecordedMore DEF SweepInv
<1>8. CASE \E answers \in SUBSET Frames : Restart(answers)
  <2>1. memory' = Blank /\ lost' = {} /\ run' = run + 1 /\ events' = events
    BY <1>8 DEF Restart
  <2>2. run \in Nat \ {0}
    BY FeedRun
  <2>3. \A i \in DOMAIN events : events[i].run \in 1..(run + 1) /\ events[i].run # run + 1
    BY <1>1, <2>2 DEF Recorded
  <2>4. Recorded(events, {}, run + 1)
    BY <1>1, <2>3 DEF Recorded
  <2>5. memory'.sweeps = {}
    BY <2>1 DEF Blank
  <2> QED
    BY <2>1, <2>4, <2>5 DEF SweepInv
<1>9. CASE UNCHANGED vars
  BY <1>2, <1>9 DEF vars
<1> QED
  BY <1>3, <1>4, <1>5, <1>6, <1>7, <1>8, <1>9 DEF Next

LEMMA SweepsHold == Spec => [](FeedInv /\ GapInv /\ SweepInv)
BY InitFeed, NextFeed, InitGaps, NextGaps, InitSweeps, NextSweeps, PTL DEF Spec

\* However often a sweep is seen, and whatever transactions fail, one process records
\* it at most once.
THEOREM SweepOncePerRunHolds == Spec => []SweepOncePerRun
<1>1. SweepInv => SweepOncePerRun
  BY DEF SweepInv, Recorded, SweepOncePerRun
<1> QED
  BY <1>1, SweepsHold, PTL

\* A sweep remembered by a failed transaction is recorded by no later tick of the
\* process: it is lost for as long as the process runs.
THEOREM LostStaysLostHolds == Spec => LostStaysLost
<1> DEFINE Stays == \A i \in (Len(events) + 1)..Len(events') :
                       events'[i].kind = "sweep" => events'[i].key \notin lost
<1>1. FeedInv /\ GapInv /\ SweepInv /\ [Next]_vars => [Stays]_vars
  <2> SUFFICES ASSUME FeedInv, GapInv, SweepInv, Next,
                      NEW i \in (Len(events) + 1)..Len(events'), events'[i].kind = "sweep"
               PROVE  events'[i].key \notin lost
    OBVIOUS
  <2>1. events \in Seq(ToSet(events))
    BY DEF SweepInv, Recorded
  <2>2. CASE UNCHANGED events
    BY <2>1, <2>2
  <2>3. PhaseRows \in Seq(ToSet(PhaseRows)) /\ \A k \in DOMAIN PhaseRows : PhaseRows[k].kind # "sweep"
    BY PhaseRowsQuiet DEF Quiet
  <2> DEFINE w == events \o PhaseRows
  <2>4. /\ w \in Seq(ToSet(w))
        /\ \A k \in DOMAIN w : k \notin DOMAIN events => w[k].kind # "sweep"
    BY <2>1, <2>3, Appended
  <2>5. i \notin DOMAIN events /\ i \in 1..Len(events')
    BY <2>1
  <2> HIDE DEF w
  <2>6. CASE events' = w
    BY <2>4, <2>5, <2>6
  <2>7. CASE Tick
    <3>1. PICK rows : events' = events \o PhaseRows \o rows /\ Fresh(rows, memory.sweeps, run)
      BY <2>7, TickSweeps
    <3>2. rows \in Seq(ToSet(rows)) /\ events' = w \o rows
      BY <3>1 DEF Fresh, w
    <3>3. /\ events' \in Seq(ToSet(events'))
          /\ \A k \in DOMAIN events' :
                \/ k \in DOMAIN w /\ events'[k] = w[k]
                \/ k - Len(w) \in DOMAIN rows /\ events'[k] = rows[k - Len(w)]
      BY <2>4, <3>2, Appended
    <3>4. i \in DOMAIN events'
      BY <2>5, <3>3
    <3>5. CASE i \in DOMAIN w /\ events'[i] = w[i]
      BY <2>4, <2>5, <3>5
    <3>6. CASE i - Len(w) \in DOMAIN rows /\ events'[i] = rows[i - Len(w)]
      BY <3>1, <3>6 DEF Fresh, SweepInv
    <3> QED
      BY <3>3, <3>4, <3>5, <3>6
  <2>8. CASE \E tf \in Frames : Close(tf)
    BY <2>2, <2>8 DEF Close
  <2>9. CASE \E answers \in SUBSET Frames, n \in 1..2 : PollAndTrigger(answers, n)
    BY <2>2, <2>9 DEF PollAndTrigger
  <2>10. CASE \E n \in 0..(5 + 1 + 2 * Len(market.H1) + 1) : FailedTick(n)
    <3>1. events' = w
      BY <2>10 DEF FailedTick, w
    <3> QED
      BY <2>6, <3>1
  <2>11. CASE FailedPhase
    BY <2>2, <2>11 DEF FailedPhase
  <2>12. CASE \E answers \in SUBSET Frames : Restart(answers)
    BY <2>2, <2>12 DEF Restart
  <2> QED
    BY <2>7, <2>8, <2>9, <2>10, <2>11, <2>12 DEF Next
<1> QED
  BY <1>1, SweepsHold, PTL DEF Spec, LostStaysLost

\* Every variable keeps its range: the tables hold closed candles of the market, and the
\* events are of the kinds that a tick records, under the number of a past process.
THEOREM FeedIsTyped == Spec => []TypeOK
<1>1. FeedInv /\ SweepInv => TypeOK
  <2> SUFFICES ASSUME FeedInv, SweepInv
               PROVE  TypeOK
    OBVIOUS
  <2>1. \A tf \in Frames : closed[tf] \in 0..Len(market[tf]) /\ stored[tf] \subseteq 1..closed[tf]
    BY MarketLengths DEF FeedInv
  <2>2. \A i \in DOMAIN events : /\ events[i].kind \in {"sweep", "mss", "gap_formed",
                                                        "gap_filled", "mmm_phase_change"}
                                 /\ events[i].run \in 1..run
    BY DEF SweepInv, Recorded, Kinds
  <2> QED
    BY <2>1, <2>2 DEF FeedInv, PhaseStaysLow, TypeOK
<1> QED
  BY <1>1, SweepsHold, PTL
=============================================================================
