-------------------------- MODULE TradeDeskProofs --------------------------
(***************************************************************************)
(* Theorems about TradeDesk, for every set of candidates, conditions,      *)
(* prices, dashboard requests and every calendar and bound.                *)
(***************************************************************************)
EXTENDS TradeDesk, TLAPS, SequenceTheorems, FiniteSetTheorems, Foundations

-----------------------------------------------------------------------------
\* A veto that is reported is one of the rules: a candidate that does not pass
\* meets a first rule that objects.
LEMMA FirstVetoIsVeto ==
    ASSUME NEW c, NEW cond, NEW losses, NEW monthly,
           ~ Passes(c, cond, losses, monthly)
    PROVE  FirstVeto(c, cond, losses, monthly) \in Vetoes
<1> DEFINE obj == Objects(c, cond, losses, monthly)
           T == {r \in 1..8 : obj[r]}
           first == CHOOSE r \in 1..8 : obj[r] /\ \A q \in 1..(r - 1) : ~ obj[q]
<1>1. T \in SUBSET Nat /\ T # {}
  BY DEF Passes
<1>2. PICK x \in T : \A y \in T : x <= y
  BY <1>1, LeastElement
<1>3. \A q \in 1..(x - 1) : ~ obj[q]
  BY <1>2
<1>4. first \in 1..8
  BY <1>2, <1>3
<1>5. FirstVeto(c, cond, losses, monthly) = ScreenOrder[first]
  BY DEF FirstVeto
<1> QED
  BY <1>4, <1>5 DEF ScreenOrder, Vetoes
\* Every row of the signals table holds a candidate with a confidence in points.
LEMMA ConfidenceInRange ==
    ASSUME signals \in Seq(SignalRow), NEW m \in 1..Len(signals)
    PROVE  Cand(m) \in Candidates /\ Cand(m).confidence \in 0..100
<1>1. signals[m] \in SignalRow
  BY ElementOfSeq
<1>2. Cand(m) \in Candidates
  BY <1>1 DEF SignalRow, Cand
<1>3. Cand(m) \in CandidateType
  BY <1>2, DeskAssumption
<1> QED
  BY <1>2, <1>3 DEF CandidateType

\* The representative of a non-empty set of signals is one of them, of the
\* representative strategy, and none of that strategy is more confident.
LEMMA RepresentativeIsBest ==
    ASSUME signals \in Seq(SignalRow),
           NEW members \in SUBSET (1..Len(signals)), NEW i \in members
    PROVE  LET rep    == Representative(i, members)
               chosen == RepresentativeStrategy({Cand(x).strategy : x \in members})
           IN  /\ rep \in members
               /\ Cand(rep).strategy = chosen
               /\ \A x \in members : Cand(x).strategy = chosen
                                     => Cand(x).confidence <= Cand(rep).confidence
<1> DEFINE strategies == {Cand(x).strategy : x \in members}
           chosen == RepresentativeStrategy(strategies)
           best == {m \in members : Cand(m).strategy = chosen}
           top == {m \in best : \A x \in best : Cand(x).confidence <= Cand(m).confidence}
<1>1. chosen \in strategies
  <2>1. CASE \E k \in DOMAIN Precedence : Precedence[k] \in strategies
    <3> DEFINE T == {k \in DOMAIN Precedence : Precedence[k] \in strategies}
    <3>1. Precedence \in Seq({"01_unicorn", "04_silver_bullet", "09_mmm", "14_cisd",
                              "03_confirmation", "02_judas", "10_po3"})
      BY DEF Precedence, ConfirmationFamily, JudasFamily
    <3>2. T \in SUBSET Nat /\ T # {}
      BY <2>1, <3>1
    <3>3. PICK k \in T : \A j \in T : k <= j
      BY <3>2, LeastElement
    <3> QED
      BY <2>1, <3>3 DEF RepresentativeStrategy
  <2>2. CASE ~ \E k \in DOMAIN Precedence : Precedence[k] \in strategies
    <3>1. Cand(i).strategy \in strategies
      OBVIOUS
    <3> QED
      BY <2>2, <3>1 DEF RepresentativeStrategy
  <2> QED
    BY <2>1, <2>2
<1>2. best # {}
  BY <1>1
<1>3. \A m \in members : Cand(m).confidence \in 0..100
  BY ConfidenceInRange
<1>4. top # {}
  <2> DEFINE T == {Cand(m).confidence : m \in best}
  <2>1. T \in SUBSET (0..100) /\ T # {}
    BY <1>2, <1>3
  <2>2. PICK most \in T : \A y \in T : y <= most
    BY <2>1, GreatestElement
  <2> QED
    BY <2>2
<1>5. Representative(i, members) \in top
  <2>1. CASE i \in top
    BY <2>1 DEF Representative
  <2>2. CASE i \notin top
    <3>1. top \in SUBSET Nat
      <4>1. Len(signals) \in Nat
        BY LenProperties
      <4>2. members \in SUBSET Nat
        BY <4>1
      <4> QED
        BY <4>2
    <3>2. PICK m \in top : \A x \in top : m <= x
      BY <1>4, <3>1, LeastElement
    <3>3. Representative(i, members) = CHOOSE y \in top : \A x \in top : y <= x
      BY <2>2 DEF Representative
    <3> QED
      BY <3>2, <3>3
  <2> QED
    BY <2>1, <2>2
<1> QED
  BY <1>5
-----------------------------------------------------------------------------
(* Type correctness, action by action.                                      *)

\* Sequences of ids stay sequences of ids when their table grows.
LEMMA IdsGrow ==
    ASSUME NEW m \in Nat, NEW n \in Nat, m <= n, NEW s \in Seq(1..m)
    PROVE  s \in Seq(1..n)
<1>1. 1..m \subseteq 1..n
  OBVIOUS
<1> QED
  BY <1>1, SeqMonotonic

\* The empty tables and idle threads of start-up are well-typed.
LEMMA TypeInit == Init => TypeOK
<1> SUFFICES ASSUME Init
             PROVE  TypeOK
  OBVIOUS
<1> USE DEF Init
<1>1. TablesOK
  BY DeskAssumption, EmptySeq DEF TablesOK, Times, Never
<1>2. HandOverOK
  BY EmptySeq DEF HandOverOK
<1>3. GateOK
  BY DeskAssumption DEF GateOK, GateState, IdleGate, Times
<1>4. TrackerOK
  BY DeskAssumption DEF TrackerOK, TrackerState, IdleTracker, Times
<1>5. ClerksOK
  BY DeskAssumption DEF ClerksOK, ClerkState, IdleClerk, Times, Outcomes, Executions
<1> QED
  BY <1>1, <1>2, <1>3, <1>4, <1>5 DEF TypeOK

\* _persist_result: one more signal row; the ids already handed out stay valid.
LEMMA TypePersist ==
    ASSUME TypeOK, NEW c \in Candidates, NEW t \in Times, OrchPersist(c, t)
    PROVE  TypeOK'
<1> USE DEF OrchPersist
<1> DEFINE row == [cand |-> c, t |-> t, gate |-> "pending"]
<1>1. row \in SignalRow
  BY DEF TypeOK, TablesOK, SignalRow
<1>2. /\ signals' \in Seq(SignalRow)
      /\ Len(signals') = Len(signals) + 1
      /\ Len(signals) \in Nat
      /\ DOMAIN signals = 1..Len(signals)
      /\ DOMAIN signals' = 1..Len(signals')
  BY <1>1, AppendProperties, LenProperties DEF TypeOK, TablesOK
<1>3. TablesOK'
  BY <1>2, DeskAssumption DEF TypeOK, TablesOK
<1>4. HandOverOK'
  BY <1>2, IdsGrow DEF TypeOK, HandOverOK, NextId
<1>5. GateOK' /\ TrackerOK' /\ ClerksOK'
  BY <1>2 DEF TypeOK, GateOK, TrackerOK, ClerksOK
<1> QED
  BY <1>3, <1>4, <1>5 DEF TypeOK

\* The hand-over through signal_q moves ids without changing them.
LEMMA TypeHandOver ==
    ASSUME TypeOK, OrchQueue \/ OrchDrop
    PROVE  TypeOK'
<1>1. CASE OrchQueue
  <2>1. queue' \in Seq(1..Len(signals))
    <3>1. orch \in 1..Len(signals)
      BY <1>1 DEF OrchQueue, TypeOK, HandOverOK
    <3> QED
      BY <1>1, <3>1, AppendProperties DEF OrchQueue, TypeOK, HandOverOK
  <2>2. Len(signals) \in Nat
    BY LenProperties DEF TypeOK, TablesOK
  <2> QED
    BY <1>1, <2>1, <2>2
       DEF OrchQueue, db, TypeOK, TablesOK, HandOverOK, GateOK, TrackerOK, ClerksOK
<1>2. CASE OrchDrop
  <2>1. Len(signals) \in Nat
    BY LenProperties DEF TypeOK, TablesOK
  <2>2. faults' \in 0..MaxFaults
    BY <1>2, DeskAssumption DEF OrchDrop, Fault, TypeOK, TablesOK
  <2> QED
    BY <1>2, <2>1, <2>2
       DEF OrchDrop, db, TypeOK, TablesOK, HandOverOK, GateOK, TrackerOK, ClerksOK
<1> QED
  BY <1>1, <1>2

\* The steps of the gate loop that only move the gate itself.
LEMMA TypeGateMoves ==
    ASSUME TypeOK,
           \/ GateTake
           \/ \E cond \in Conditions : GateScreen(cond)
           \/ GateCool
           \/ GateFail
    PROVE  TypeOK'
<1>1. /\ Len(signals) \in Nat
      /\ Len(signals) <= MaxSignals
      /\ MaxSignals \in Nat
  BY LenProperties, DeskAssumption DEF TypeOK, TablesOK
<1>2. IdleGate \in GateState /\ IdleGate.at = 0 /\ IdleGate.pc = "idle"
  BY DeskAssumption DEF IdleGate, GateState, Times
<1>3. now \in Nat
  BY DeskAssumption DEF TypeOK, TablesOK, Times
<1>4. CASE GateTake
  <2>1. Head(queue) \in 1..Len(signals) /\ queue' \in Seq(1..Len(signals))
    BY <1>4, HeadTailProperties DEF GateTake, QueueRest, TypeOK, HandOverOK
  <2>2. gate' = [pc |-> "screen", sig |-> Head(queue), at |-> now,
                 decision |-> "none", cluster |-> 0]
    BY <1>4 DEF GateTake, IdleGate
  <2>3. gate' \in GateState
    BY <1>1, <2>1, <2>2 DEF TypeOK, TablesOK, GateState
  <2>4. GateOK'
    BY <1>3, <1>4, <2>1, <2>2, <2>3 DEF GateTake, db, GateOK
  <2> QED
    BY <1>4, <2>1, <2>4
       DEF GateTake, db, TypeOK, TablesOK, HandOverOK, TrackerOK, ClerksOK
<1>5. CASE \E cond \in Conditions : GateScreen(cond)
  <2>1. PICK cond \in Conditions : GateScreen(cond)
    BY <1>5
  <2>2. \/ gate' = [gate EXCEPT !.pc = "cool"]
        \/ \E v \in Vetoes : gate' = [gate EXCEPT !.pc = "write", !.decision = v]
    BY <2>1, FirstVetoIsVeto, Zenon DEF GateScreen
  <2>3. "none" \notin Vetoes
    BY DEF Vetoes
  <2>4. GateOK'
    BY <2>1, <2>2, <2>3 DEF GateScreen, db, TypeOK, GateOK, GateState
  <2> QED
    BY <2>1, <2>4
       DEF GateScreen, db, TypeOK, TablesOK, HandOverOK, TrackerOK, ClerksOK
<1>6. CASE GateCool
  <2>1. GateOK'
    BY <1>6 DEF GateCool, db, TypeOK, GateOK, GateState, Vetoes
  <2> QED
    BY <1>6, <2>1
       DEF GateCool, db, TypeOK, TablesOK, HandOverOK, TrackerOK, ClerksOK
<1>7. CASE GateFail
  <2>1. GateOK'
    BY <1>2, <1>3, <1>7 DEF GateFail, db, TypeOK, TablesOK, GateOK
  <2>2. faults' \in 0..MaxFaults
    BY <1>7, DeskAssumption DEF GateFail, Fault, TypeOK, TablesOK
  <2> QED
    BY <1>7, <2>1, <2>2
       DEF GateFail, db, TypeOK, TablesOK, HandOverOK, TrackerOK, ClerksOK
<1> QED
  BY <1>4, <1>5, <1>6, <1>7

\* update_signal_gate stores a decision, never the absence of one.
LEMMA TypeGateWrite ==
    ASSUME TypeOK, GateWrite
    PROVE  TypeOK'
<1> USE DEF GateWrite
<1>1. /\ gate.sig \in 1..Len(signals)
      /\ gate.decision \in {"pending", "published"} \cup Vetoes
  BY DEF TypeOK, GateOK, GateState
<1>2. [signals[gate.sig] EXCEPT !.gate = gate.decision] \in SignalRow
  <2>1. signals[gate.sig] \in SignalRow
    BY <1>1, ElementOfSeq DEF TypeOK, TablesOK
  <2> QED
    BY <1>1, <2>1 DEF SignalRow
<1>3. signals' = [signals EXCEPT ![gate.sig] =
                    [signals[gate.sig] EXCEPT !.gate = gate.decision]]
  OBVIOUS
<1>4. signals' \in Seq(SignalRow) /\ Len(signals') = Len(signals)
  BY <1>1, <1>2, <1>3, ExceptSeq DEF TypeOK, TablesOK
<1>5. DOMAIN signals' = DOMAIN signals
  BY <1>4, LenProperties DEF TypeOK, TablesOK
<1>6. TablesOK' /\ HandOverOK' /\ TrackerOK' /\ ClerksOK'
  BY <1>4, <1>5 DEF TypeOK, TablesOK, HandOverOK, TrackerOK, ClerksOK
<1>7. GateOK'
  <2>1. IdleGate \in GateState /\ IdleGate.at = 0 /\ IdleGate.pc = "idle"
    BY DeskAssumption DEF IdleGate, GateState, Times
  <2>2. now \in Nat
    BY DeskAssumption DEF TypeOK, TablesOK, Times
  <2> QED
    BY <1>4, <2>1, <2>2 DEF TypeOK, GateOK, GateState
<1> QED
  BY <1>6, <1>7 DEF TypeOK

\* The cluster row names signals that exist, and a boost that is a number.
LEMMA TypeGateCluster ==
    ASSUME TypeOK, GateCluster
    PROVE  TypeOK'
<1> DEFINE members == Companions(gate.sig) \cup {gate.sig}
           rep == Representative(gate.sig, members)
           row == [representative |-> rep, members |-> members,
                   boosted |-> Boosted(Cand(rep).confidence, Cardinality(members))]
<1>1. gate.sig \in 1..Len(signals)
  BY DEF GateCluster, TypeOK, GateOK
<1>2. Elems(window) \subseteq 1..Len(signals)
  BY LenProperties DEF TypeOK, HandOverOK, Elems
<1>3. members \subseteq 1..Len(signals)
  BY <1>1, <1>2 DEF Companions
<1>4. 1..Len(signals) \subseteq SignalIds
  BY LenProperties, DeskAssumption DEF TypeOK, TablesOK, SignalIds
<1>5. rep \in members
  BY <1>3, RepresentativeIsBest DEF TypeOK, TablesOK
<1>6. Boosted(Cand(rep).confidence, Cardinality(members)) \in Nat
  <2>1. Cand(rep).confidence \in 0..100
    BY <1>3, <1>5, ConfidenceInRange DEF TypeOK, TablesOK
  <2>2. ConfluenceBoost(Cardinality(members)) \in {0, 10, 15}
    BY DEF ConfluenceBoost, ConfluenceBoostCap
  <2> QED
    BY <2>1, <2>2 DEF Boosted
<1>7. row \in ClusterRow
  BY <1>3, <1>4, <1>5, <1>6 DEF ClusterRow
<1>8. /\ gate.pc = "cluster"
      /\ UNCHANGED << now, signals, trades, lastStop, stats, orch, queue, window,
                      tracker, clerk, faults >>
  BY DEF GateCluster
<1>9. \/ UNCHANGED clusters /\ gate' = [gate EXCEPT !.pc = "publish"]
      \/ /\ clusters' = Append(clusters, row)
         /\ gate' = [gate EXCEPT !.pc = "publish", !.cluster = Len(clusters) + 1]
  BY Zenon DEF GateCluster
<1> HIDE DEF members, rep, row
<1>10. clusters' \in Seq(ClusterRow)
  <2>1. clusters \in Seq(ClusterRow)
    BY DEF TypeOK, TablesOK
  <2>2. Append(clusters, row) \in Seq(ClusterRow)
    BY <1>7, <2>1, AppendProperties
  <2> QED
    BY <1>9, <2>1, <2>2
<1>11. TablesOK'
  BY <1>8, <1>10 DEF TypeOK, TablesOK
<1>12. GateOK'
  <2>1. Len(clusters) \in Nat
    BY LenProperties DEF TypeOK, TablesOK
  <2>2. /\ gate' \in GateState /\ gate'.at = gate.at
        /\ gate'.pc = "publish" /\ gate'.sig = gate.sig
    <3>1. gate \in GateState
      BY DEF TypeOK, GateOK
    <3>2. PICK n : n = Len(clusters) + 1
      OBVIOUS
    <3>3. \/ gate' = [gate EXCEPT !.pc = "publish"]
          \/ gate' = [gate EXCEPT !.pc = "publish", !.cluster = n]
      BY <1>9, <3>2, Zenon
    <3>4. n \in Nat
      BY <2>1, <3>2
    <3> QED
      BY <3>1, <3>3, <3>4 DEF GateState
  <2> QED
    BY <1>8, <2>2 DEF TypeOK, GateOK
<1> QED
  BY <1>8, <1>11, <1>12 DEF TypeOK, HandOverOK, TrackerOK, ClerksOK

\* publish_signal: one more trade row, for the signal the gate holds.
LEMMA TypeGatePublish ==
    ASSUME TypeOK, GatePublish
    PROVE  TypeOK'
<1> DEFINE row == [signal |-> gate.sig, cluster |-> gate.cluster, outcome |-> "open",
                   outcomeT |-> Never, exec |-> "null"]
<1>1. /\ gate.sig \in 1..Len(signals)
      /\ gate.cluster \in Nat
  BY DEF GatePublish, TypeOK, GateOK, GateState
<1>2. Len(signals) \in Nat /\ Len(signals) <= MaxSignals /\ now \in Nat
  BY LenProperties, DeskAssumption DEF TypeOK, TablesOK, Times
<1>3. row \in TradeRow
  BY <1>1, <1>2, DeskAssumption DEF TradeRow, SignalIds, Outcomes, Executions
<1>4. /\ trades \in Seq(TradeRow) /\ Len(trades) \in Nat
      /\ DOMAIN trades = 1..Len(trades)
  BY LenProperties DEF TypeOK, TablesOK
<1>5. /\ trades' \in Seq(TradeRow)
      /\ Len(trades') \in Nat /\ Len(trades) <= Len(trades')
      /\ \A j \in DOMAIN trades' : \/ j \in DOMAIN trades /\ trades'[j] = trades[j]
                                  \/ trades'[j] = row
  <2>1. CASE UNCHANGED trades
    BY <1>4, <2>1
  <2>2. CASE trades' = Append(trades, row)
    <3>1. /\ trades' \in Seq(TradeRow)
          /\ Len(trades') = Len(trades) + 1
          /\ \A i \in 1..Len(trades) : trades'[i] = trades[i]
          /\ trades'[Len(trades) + 1] = row
      BY <1>3, <1>4, <2>2, AppendProperties
    <3>2. DOMAIN trades' = 1..(Len(trades) + 1)
      BY <3>1, LenProperties
    <3> QED
      BY <1>4, <3>1, <3>2
  <2> QED
    BY <2>1, <2>2 DEF GatePublish
<1>6. TablesOK'
  <2>1. row.signal = gate.sig /\ row.outcomeT = Never
    OBVIOUS
  <2>2. DOMAIN signals = 1..Len(signals)
    BY LenProperties DEF TypeOK, TablesOK
  <2> HIDE DEF row
  <2>3. \A j \in DOMAIN trades' : /\ trades'[j].signal \in DOMAIN signals
                                 /\ trades'[j].outcomeT <= now
    <3> SUFFICES ASSUME NEW j \in DOMAIN trades'
                 PROVE  trades'[j].signal \in DOMAIN signals /\ trades'[j].outcomeT <= now
      OBVIOUS
    <3>1. CASE trades'[j] = row
      BY <1>1, <1>2, <2>1, <2>2, <3>1 DEF Never
    <3>2. CASE j \in DOMAIN trades /\ trades'[j] = trades[j]
      BY <3>2 DEF TypeOK, TablesOK
    <3> QED
      BY <1>5, <3>1, <3>2
  <2> QED
    BY <1>5, <2>3 DEF GatePublish, TypeOK, TablesOK
<1>7. HandOverOK'
  <2> DEFINE longer == Append(window, gate.sig)
  <2>1. /\ longer \in Seq(1..Len(signals)) /\ longer # << >>
    BY <1>1, AppendProperties DEF TypeOK, HandOverOK
  <2>2. Tail(longer) \in Seq(1..Len(signals))
    BY <2>1, HeadTailProperties
  <2>3. window' = longer \/ window' = Tail(longer)
    BY Zenon DEF GatePublish, Remember
  <2> HIDE DEF longer
  <2> QED
    BY <2>1, <2>2, <2>3 DEF GatePublish, TypeOK, HandOverOK
<1>8. GateOK'
  <2>1. IdleGate \in GateState /\ IdleGate.at = 0 /\ IdleGate.pc = "idle"
    BY DeskAssumption DEF IdleGate, GateState, Times
  <2> QED
    BY <1>2, <2>1 DEF GatePublish, GateOK
<1>9. TrackerOK' /\ ClerksOK'
  BY <1>4, <1>5 DEF GatePublish, TypeOK, TrackerOK, ClerksOK
<1> QED
  BY <1>6, <1>7, <1>8, <1>9 DEF TypeOK

\* An update of the rows of the trades table that keeps their signals and dates
\* them no later than now keeps the table well-typed.
LEMMA TradesUpdated ==
    ASSUME TypeOK,
           trades' \in [1..Len(trades) -> TradeRow],
           \A j \in 1..Len(trades) : /\ trades'[j].signal = trades[j].signal
                                     /\ trades'[j].outcomeT <= now,
           UNCHANGED << now, signals, clusters, lastStop, stats, faults >>
    PROVE  TablesOK' /\ Len(trades') = Len(trades)
<1>1. Len(trades) \in Nat /\ DOMAIN trades = 1..Len(trades)
  BY LenProperties DEF TypeOK, TablesOK
<1>2. trades' \in Seq(TradeRow)
  BY <1>1, SeqDef
<1>3. Len(trades') = Len(trades) /\ DOMAIN trades' = 1..Len(trades)
  BY <1>1, <1>2, LenProperties
<1> QED
  BY <1>1, <1>2, <1>3 DEF TypeOK, TablesOK

\* A tracker pass works on rows that exist and dates them by its own clock.
LEMMA TypeTrack ==
    ASSUME TypeOK, Track
    PROVE  TypeOK'
<1>1. /\ Len(trades) \in Nat /\ DOMAIN trades = 1..Len(trades)
      /\ now \in Nat
  BY LenProperties, DeskAssumption DEF TypeOK, TablesOK, Times
<1>2. IdleTracker \in TrackerState /\ IdleTracker.at = 0 /\ IdleTracker.rows = {}
  BY DeskAssumption DEF IdleTracker, TrackerState, Times
<1>3. ASSUME NEW mid \in Prices, TrackRead(mid)
      PROVE  TypeOK'
  <2>1. TrackerOK'
    BY <1>1, <1>3, DeskAssumption DEF TrackRead, db, TypeOK, TablesOK, TrackerOK, TrackerState
  <2> QED
    BY <1>3, <2>1 DEF TrackRead, db, TypeOK, TablesOK, HandOverOK, GateOK, ClerksOK
<1>4. CASE TrackClose
  <2> DEFINE closed(i) == [trades[i] EXCEPT !.outcome = Hit(i, tracker.mid),
                                            !.outcomeT = tracker.at, !.exec = "null"]
  <2>1. /\ tracker.at \in Times /\ tracker.at <= now
        /\ \A i \in 1..Len(trades) : trades[i] \in TradeRow /\ trades[i].outcomeT <= now
    BY <1>1, ElementOfSeq DEF TypeOK, TablesOK, TrackerOK, TrackerState
  <2>2. ASSUME NEW i \in HitRows(tracker.mid, tracker.rows)
        PROVE  Hit(i, tracker.mid) \in Outcomes
    BY DEF HitRows, Hit, Outcomes
  <2>3. ASSUME NEW i \in 1..Len(trades), i \in HitRows(tracker.mid, tracker.rows)
        PROVE  /\ closed(i) \in TradeRow
               /\ closed(i).signal = trades[i].signal
               /\ closed(i).outcomeT <= now
    <3>1. Hit(i, tracker.mid) \in Outcomes
      BY <2>2, <2>3
    <3> QED
      BY <2>1, <3>1 DEF TradeRow, Executions
  <2>4. trades' = [i \in 1..Len(trades) |->
                      IF i \in HitRows(tracker.mid, tracker.rows)
                      THEN closed(i) ELSE trades[i]]
    BY <1>1, <1>4 DEF TrackClose
  <2> HIDE DEF closed
  <2>5. /\ trades' \in [1..Len(trades) -> TradeRow]
        /\ \A j \in 1..Len(trades) : /\ trades'[j].signal = trades[j].signal
                                      /\ trades'[j].outcomeT <= now
    BY <2>1, <2>3, <2>4
  <2>6. TablesOK' /\ Len(trades') = Len(trades)
    BY <1>4, <2>5, TradesUpdated DEF TrackClose
  <2>7. TrackerOK'
    <3>1. tracker' = IdleTracker /\ now' = now
      BY <1>4 DEF TrackClose
    <3> QED
      BY <1>1, <1>2, <3>1 DEF TrackerOK
  <2> QED
    BY <1>4, <2>6, <2>7 DEF TrackClose, TypeOK, HandOverOK, GateOK, ClerksOK
<1>5. CASE TrackStall
  <2>1. TrackerOK'
    BY <1>5 DEF TrackStall, db, TypeOK, TrackerOK, TrackerState
  <2> QED
    BY <1>5, <2>1 DEF TrackStall, db, TypeOK, TablesOK, HandOverOK, GateOK, ClerksOK
<1>6. CASE TrackAbort
  <2>1. TrackerOK'
    BY <1>1, <1>2, <1>6 DEF TrackAbort, db, TrackerOK
  <2> QED
    BY <1>6, <2>1 DEF TrackAbort, db, TypeOK, TablesOK, HandOverOK, GateOK, ClerksOK
<1> QED
  BY <1>3, <1>4, <1>5, <1>6 DEF Track

\* A dashboard request works on a trade that exists and dates it by its own clock.
LEMMA TypeServe ==
    ASSUME TypeOK, NEW k \in Clerks, Serve(k)
    PROVE  TypeOK'
<1>1. /\ Len(trades) \in Nat /\ DOMAIN trades = 1..Len(trades)
      /\ now \in Nat
  BY LenProperties, DeskAssumption DEF TypeOK, TablesOK, Times
<1>2. IdleClerk \in ClerkState /\ IdleClerk.at = 0 /\ IdleClerk.pc = "idle"
  BY DeskAssumption DEF IdleClerk, ClerkState, Times, Outcomes, Executions
<1>3. /\ clerk[k] \in ClerkState /\ clerk[k].at <= now
      /\ clerk[k].pc # "idle" => clerk[k].trade \in 1..Len(trades)
  BY DEF TypeOK, ClerksOK
<1>4. ASSUME NEW i \in DOMAIN trades, NEW mark \in Marks, ClerkPress(k, i, mark)
      PROVE  TypeOK'
  <2>1. PICK o \in Outcomes, e \in Executions : mark[1] = o /\ mark[2] = e
    BY DeskAssumption
  <2>2. clerk' = [clerk EXCEPT ![k] =
                    [pc |-> "mark", trade |-> i, outcome |-> o, exec |-> e,
                     at |-> now, seen |-> {}]]
    BY <1>4, <2>1 DEF ClerkPress
  <2>3. ClerksOK'
    <3>1. now \in Times
      BY DEF TypeOK, TablesOK
    <3>2. [pc |-> "mark", trade |-> i, outcome |-> o, exec |-> e, at |-> now, seen |-> {}]
             \in ClerkState
      BY <1>1, <3>1 DEF ClerkState
    <3>3. UNCHANGED << now, trades >>
      BY <1>4 DEF ClerkPress, db
    <3> QED
      BY <1>1, <2>2, <3>2, <3>3 DEF TypeOK, ClerksOK
  <2> QED
    BY <1>4, <2>3 DEF ClerkPress, db, TypeOK, TablesOK, HandOverOK, GateOK, TrackerOK
<1>5. CASE ClerkMark(k)
  <2> DEFINE i == clerk[k].trade
             row == [trades[i] EXCEPT !.outcome = clerk[k].outcome,
                                      !.outcomeT = clerk[k].at, !.exec = clerk[k].exec]
  <2>1. i \in 1..Len(trades)
    BY <1>3, <1>5 DEF ClerkMark
  <2>2. \A j \in 1..Len(trades) : trades[j] \in TradeRow /\ trades[j].outcomeT <= now
    BY <1>1, ElementOfSeq DEF TypeOK, TablesOK
  <2>3. /\ row \in TradeRow /\ row.signal = trades[i].signal
        /\ row.outcomeT <= now
    BY <1>3, <2>1, <2>2 DEF TradeRow, ClerkState
  <2>4. trades' = [trades EXCEPT ![i] = row]
    BY <1>5 DEF ClerkMark
  <2> HIDE DEF row, i
  <2>5. trades \in [1..Len(trades) -> TradeRow]
    BY LenProperties DEF TypeOK, TablesOK
  <2>6. /\ trades' \in [1..Len(trades) -> TradeRow]
        /\ \A j \in 1..Len(trades) : /\ trades'[j].signal = trades[j].signal
                                      /\ trades'[j].outcomeT <= now
    BY <2>1, <2>2, <2>3, <2>4, <2>5
  <2>7. TablesOK' /\ Len(trades') = Len(trades)
    BY <1>5, <2>6, TradesUpdated DEF ClerkMark
  <2>8. ClerksOK'
    BY <1>5, <2>7 DEF ClerkMark, StepAfter, TypeOK, ClerksOK, ClerkState
  <2> QED
    BY <1>5, <2>7, <2>8 DEF ClerkMark, TypeOK, HandOverOK, GateOK, TrackerOK
<1>6. CASE ClerkStop(k)
  <2>1. TablesOK'
    BY <1>1, <1>6 DEF ClerkStop, TypeOK, TablesOK
  <2>2. ClerksOK'
    BY <1>6 DEF ClerkStop, TypeOK, ClerksOK, ClerkState
  <2> QED
    BY <1>6, <2>1, <2>2 DEF ClerkStop, TypeOK, HandOverOK, GateOK, TrackerOK
<1>7. CASE ClerkRecompute(k)
  <2> DEFINE seen == Counted(Cand(trades[clerk[k].trade].signal).strategy)
  <2>1. seen \subseteq Nat \X Outcomes
    <3>1. \A j \in DOMAIN trades : trades[j] \in TradeRow
      BY <1>1, ElementOfSeq DEF TypeOK, TablesOK
    <3>2. \A j \in DOMAIN trades : j \in Nat /\ trades[j].outcome \in Outcomes
      BY <1>1, <3>1 DEF TradeRow
    <3> QED
      BY <3>2 DEF Counted
  <2>2. clerk' = [clerk EXCEPT ![k].pc = "save", ![k].seen = seen]
    BY <1>7 DEF ClerkRecompute
  <2> HIDE DEF seen
  <2>3. clerk'[k] \in ClerkState
    BY <1>3, <2>1, <2>2 DEF TypeOK, ClerksOK, ClerkState
  <2>4. ClerksOK'
    BY <1>7, <2>2, <2>3 DEF ClerkRecompute, db, TypeOK, ClerksOK
  <2> QED
    BY <1>7, <2>4 DEF ClerkRecompute, db, TypeOK, TablesOK, HandOverOK, GateOK, TrackerOK
<1>8. CASE ClerkSave(k)
  <2>1. TablesOK'
    BY <1>3, <1>8 DEF ClerkSave, TypeOK, TablesOK, ClerkState
  <2>2. ClerksOK'
    BY <1>1, <1>2, <1>8 DEF ClerkSave, TypeOK, ClerksOK
  <2> QED
    BY <1>8, <2>1, <2>2 DEF ClerkSave, TypeOK, HandOverOK, GateOK, TrackerOK
<1>9. CASE ClerkFail(k)
  <2>1. faults' \in 0..MaxFaults
    BY <1>9, DeskAssumption DEF ClerkFail, Fault, TypeOK, TablesOK
  <2>2. ClerksOK'
    BY <1>1, <1>2, <1>9 DEF ClerkFail, db, TypeOK, ClerksOK
  <2> QED
    BY <1>9, <2>1, <2>2 DEF ClerkFail, db, TypeOK, TablesOK, HandOverOK, GateOK, TrackerOK
<1> QED
  BY <1>4, <1>5, <1>6, <1>7, <1>8, <1>9 DEF Serve

\* The environment: the clock, and a restart.
LEMMA TypeEnvironment ==
    ASSUME TypeOK, Tick \/ Crash
    PROVE  TypeOK'
<1>1. /\ Len(signals) \in Nat /\ Len(trades) \in Nat
      /\ now \in Nat /\ now \in Times /\ MaxNow \in Nat
  BY LenProperties, DeskAssumption DEF TypeOK, TablesOK, Times
<1>2. CASE Tick
  <2>1. now' \in Times /\ now <= now' /\ now' \in Nat
    BY <1>1, <1>2 DEF Tick, Times
  <2>2. TablesOK'
    <3>1. \A j \in DOMAIN trades : trades[j].outcomeT <= now'
      <4>1. \A j \in DOMAIN trades : trades[j] \in TradeRow
        BY LenProperties, ElementOfSeq DEF TypeOK, TablesOK
      <4>2. \A j \in DOMAIN trades : /\ trades[j].outcomeT \in Int
                                    /\ trades[j].outcomeT <= now
        BY <4>1 DEF TypeOK, TablesOK, TradeRow, Times, Never
      <4> QED
        BY <1>1, <2>1, <4>2
    <3>2. lastStop \in Int /\ lastStop <= now
      BY DEF TypeOK, TablesOK, Times, Never
    <3> QED
      BY <1>1, <1>2, <2>1, <3>1, <3>2 DEF Tick, db, TypeOK, TablesOK
  <2>3. HandOverOK'
    BY <1>2 DEF Tick, db, TypeOK, HandOverOK
  <2>4. GateOK'
    BY <1>1, <1>2, <2>1 DEF Tick, db, TypeOK, GateOK, GateState, Times
  <2>5. TrackerOK'
    BY <1>1, <1>2, <2>1 DEF Tick, db, TypeOK, TrackerOK, TrackerState, Times
  <2>6. ClerksOK'
    BY <1>1, <1>2, <2>1 DEF Tick, db, TypeOK, ClerksOK, ClerkState, Times
  <2> QED
    BY <2>2, <2>3, <2>4, <2>5, <2>6 DEF TypeOK
<1>3. CASE Crash
  <2>1. TablesOK'
    <3>1. faults' \in 0..MaxFaults
      BY <1>3, DeskAssumption DEF Crash, Fault, TypeOK, TablesOK
    <3> QED
      BY <1>3, <3>1 DEF Crash, db, TypeOK, TablesOK
  <2>2. HandOverOK'
    BY <1>1, <1>3, EmptySeq DEF Crash, db, HandOverOK
  <2>3. GateOK'
    BY <1>1, <1>3, DeskAssumption DEF Crash, db, GateOK, GateState, IdleGate, Times
  <2>4. TrackerOK'
    BY <1>1, <1>3, DeskAssumption DEF Crash, db, TrackerOK, TrackerState, IdleTracker, Times
  <2>5. ClerksOK'
    BY <1>1, <1>3, DeskAssumption
       DEF Crash, db, ClerksOK, ClerkState, IdleClerk, Times, Outcomes, Executions
  <2> QED
    BY <2>1, <2>2, <2>3, <2>4, <2>5 DEF TypeOK
<1> QED
  BY <1>2, <1>3

\* Every step of the engine keeps the types: one case per action.
LEMMA TypeStep == TypeOK /\ [Next]_vars => TypeOK'
<1> SUFFICES ASSUME TypeOK, [Next]_vars
             PROVE  TypeOK'
  OBVIOUS
<1>1. CASE Orchestrate
  BY <1>1, TypePersist, TypeHandOver DEF Orchestrate
<1>2. CASE GateLoop
  BY <1>2, TypeGateMoves, TypeGateWrite, TypeGateCluster, TypeGatePublish DEF GateLoop
<1>3. CASE Track
  BY <1>3, TypeTrack
<1>4. CASE \E k \in Clerks : Serve(k)
  BY <1>4, TypeServe
<1>5. CASE Tick \/ Crash
  BY <1>5, TypeEnvironment
<1>6. CASE UNCHANGED vars
  BY <1>6 DEF vars, db, TypeOK, TablesOK, HandOverOK, GateOK, TrackerOK, ClerksOK
<1> QED
  BY <1>1, <1>2, <1>3, <1>4, <1>5, <1>6 DEF Next

\* Type correctness, for every instance: the desk's tables, queues and threads
\* never leave their types, and no id dangles.
THEOREM TypeCorrect == Spec => []TypeOK
  BY TypeInit, TypeStep, PTL DEF Spec
============================================================================
