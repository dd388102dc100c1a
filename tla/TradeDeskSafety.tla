-------------------------- MODULE TradeDeskSafety --------------------------
(***************************************************************************)
(* Safety theorems about TradeDesk, on top of its type correctness and of  *)
(* the one place of each signal: the cap of the present month, the cooling *)
(* timer, and what a row of the clusters table says.                       *)
(***************************************************************************)
EXTENDS TradeDeskOnce

-----------------------------------------------------------------------------
(* The monthly cap.                                                         *)

\* What the gate has found out about the cap stays true until it commits: no
\* other thread publishes, and a new month only makes room.
CapRoom ==
    gate.pc = "cool" \/ (gate.pc = "write" /\ gate.decision = "published")
        => Cardinality(PublishedInMonth(now)) < MaxMonthlyTrades

\* The published signals of a month are finitely many.
LEMMA PublishedFinite ==
    ASSUME TypeOK, NEW t
    PROVE  /\ IsFiniteSet(PublishedInMonth(t))
           /\ Cardinality(PublishedInMonth(t)) \in Nat
<1>1. PublishedInMonth(t) \in SUBSET (1..Len(signals))
  BY LenProperties DEF TypeOK, TablesOK, PublishedInMonth
<1>2. IsFiniteSet(1..Len(signals))
  <2>1. Len(signals) \in Nat
    BY LenProperties DEF TypeOK, TablesOK
  <2>2. 1 \in Int /\ Len(signals) \in Int
    BY <2>1
  <2> QED
    BY <2>2, FS_Interval
<1> QED
  BY <1>1, <1>2, FS_Subset, FS_CardinalityType

\* Looking back from a later minute finds no more published signals.
LEMMA MonthShrinks ==
    ASSUME TypeOK, NEW t \in Times, NEW u \in Times, t <= u
    PROVE  /\ PublishedInMonth(u) \subseteq PublishedInMonth(t)
           /\ Cardinality(PublishedInMonth(u)) <= Cardinality(PublishedInMonth(t))
<1>1. MonthStart[t] \in Int /\ MonthStart[u] \in Int /\ MonthStart[t] <= MonthStart[u]
  <2>1. MonthStart[t] \in Times /\ MonthStart[u] \in Times
    BY CalendarAssumption
  <2>2. MonthStart[t] <= MonthStart[u]
    BY CalendarAssumption
  <2> QED
    BY <2>1, <2>2, DeskAssumption DEF Times
<1>2. \A i \in DOMAIN signals : signals[i].t \in Int
  <2>1. \A i \in DOMAIN signals : signals[i] \in SignalRow
    BY LenProperties, ElementOfSeq DEF TypeOK, TablesOK
  <2> QED
    BY <2>1, DeskAssumption DEF SignalRow, Times
<1>3. PublishedInMonth(u) \subseteq PublishedInMonth(t)
  BY <1>1, <1>2 DEF PublishedInMonth
<1> QED
  BY <1>3, PublishedFinite, FS_Subset

\* A candidate that passes has met fewer published signals than the cap.
LEMMA PassesUnderCap ==
    ASSUME NEW c, NEW cond, NEW losses, NEW monthly \in Nat,
           Passes(c, cond, losses, monthly)
    PROVE  monthly < MaxMonthlyTrades
<1>1. ~ Objects(c, cond, losses, monthly)[5]
  BY DEF Passes
<1>2. ~ CapReached(monthly)
  BY <1>1 DEF Objects
<1> QED
  BY <1>2, GateAssumption DEF CapReached

\* An empty table is under any cap.
LEMMA CapInit == Init => PresentMonthCap /\ CapRoom
<1> SUFFICES ASSUME Init
             PROVE  PresentMonthCap /\ CapRoom
  OBVIOUS
<1>1. PublishedInMonth(now) = {}
  BY DEF Init, PublishedInMonth
<1>2. Cardinality(PublishedInMonth(now)) = 0
  BY <1>1, FS_EmptySet
<1>3. gate.pc = "idle"
  BY DEF Init, IdleGate
<1> QED
  BY <1>2, <1>3, GateAssumption DEF PresentMonthCap, CapRoom

\* Signals appended or re-marked without being published leave the count alone.
LEMMA CapQuiet ==
    ASSUME TypeOK, PresentMonthCap, CapRoom,
           PublishedInMonth(now)' = PublishedInMonth(now),
           UNCHANGED gate \/ gate'.pc \in {"idle", "screen", "cluster", "publish"}
    PROVE  PresentMonthCap' /\ CapRoom'
  BY DEF PresentMonthCap, CapRoom

\* Every step keeps the count under the cap, and room for what the gate has passed.
LEMMA CapStep ==
    TypeOK /\ PresentMonthCap /\ CapRoom /\ [Next]_vars => PresentMonthCap' /\ CapRoom'
<1> SUFFICES ASSUME TypeOK, PresentMonthCap, CapRoom, [Next]_vars
             PROVE  PresentMonthCap' /\ CapRoom'
  OBVIOUS
<1>1. ASSUME UNCHANGED << now, signals >>
      PROVE  PublishedInMonth(now)' = PublishedInMonth(now)
  BY <1>1 DEF PublishedInMonth, Cand
<1>2. ASSUME NEW c \in Candidates, NEW t \in Times, OrchPersist(c, t)
      PROVE  PresentMonthCap' /\ CapRoom'
  <2> DEFINE row == [cand |-> c, t |-> t, gate |-> "pending"]
  <2>1. /\ DOMAIN signals = 1..Len(signals) /\ Len(signals) \in Nat
        /\ DOMAIN signals' = 1..(Len(signals) + 1)
        /\ \A i \in 1..Len(signals) : signals'[i] = signals[i]
        /\ signals'[Len(signals) + 1] = row
    <3>1. row \in SignalRow /\ signals \in Seq(SignalRow)
      BY DEF TypeOK, TablesOK, SignalRow
    <3>2. signals' = Append(signals, row)
      BY <1>2 DEF OrchPersist
    <3> QED
      BY <3>1, <3>2, AppendProperties, LenProperties
  <2>2. row.gate # "published"
    OBVIOUS
  <2> HIDE DEF row
  <2>3. now' = now /\ gate' = gate
    BY <1>2 DEF OrchPersist
  <2>4. PublishedInMonth(now)' = PublishedInMonth(now)
    BY <2>1, <2>2, <2>3 DEF PublishedInMonth, Cand
  <2> QED
    BY <2>3, <2>4, CapQuiet
<1>3. CASE OrchQueue \/ OrchDrop
  BY <1>1, <1>3, CapQuiet DEF OrchQueue, OrchDrop, db
<1>4. CASE GateTake \/ GateCluster \/ GatePublish \/ GateFail
  <2>1. gate'.pc \in {"idle", "screen", "publish"}
    <3>1. CASE GateTake
      BY <3>1 DEF GateTake, IdleGate
    <3>2. CASE GateCluster
      <4>1. gate \in GateState
        BY DEF TypeOK, GateOK
      <4>2. \/ gate' = [gate EXCEPT !.pc = "publish"]
            \/ gate' = [gate EXCEPT !.pc = "publish", !.cluster = Len(clusters) + 1]
        BY <3>2, Zenon DEF GateCluster
      <4> QED
        BY <4>1, <4>2 DEF GateState
    <3>3. CASE GatePublish \/ GateFail
      BY <3>3 DEF GatePublish, GateFail, IdleGate
    <3> QED
      BY <1>4, <3>1, <3>2, <3>3
  <2>2. UNCHANGED << now, signals >>
    BY <1>4 DEF GateTake, GateCluster, GatePublish, GateFail, db
  <2> QED
    BY <1>1, <2>1, <2>2, CapQuiet
<1>5. CASE \E cond \in Conditions : GateScreen(cond)
  <2> DEFINE c == Cand(gate.sig)
             losses == Cardinality(LossesToday(gate.at))
             monthly == Cardinality(PublishedInMonth(gate.at))
  <2>1. PICK cond \in Conditions : GateScreen(cond)
    BY <1>5
  <2>2. UNCHANGED << now, signals >>
    BY <2>1 DEF GateScreen, db
  <2>3. CASE Passes(c, cond, losses, monthly)
    <3>1. monthly < MaxMonthlyTrades
      BY <2>3, PublishedFinite, PassesUnderCap
    <3>2. gate.at \in Times /\ now \in Times /\ gate.at <= now
      BY DEF TypeOK, TablesOK, GateOK, GateState
    <3>3. /\ Cardinality(PublishedInMonth(now)) <= monthly
          /\ Cardinality(PublishedInMonth(now)) \in Nat /\ monthly \in Nat
      BY <3>2, MonthShrinks, PublishedFinite
    <3>4. Cardinality(PublishedInMonth(now)) < MaxMonthlyTrades
      BY <3>1, <3>3, GateAssumption
    <3>5. PublishedInMonth(now)' = PublishedInMonth(now)
      BY <1>1, <2>2
    <3> QED
      BY <3>4, <3>5 DEF PresentMonthCap, CapRoom
  <2>4. CASE ~ Passes(c, cond, losses, monthly)
    <3>1. gate' = [gate EXCEPT !.pc = "write", !.decision = FirstVeto(c, cond, losses, monthly)]
      BY <2>1, <2>4, Zenon DEF GateScreen
    <3>2. FirstVeto(c, cond, losses, monthly) \in Vetoes
      BY <2>4, FirstVetoIsVeto
    <3>3. gate'.pc # "cool" /\ gate'.decision # "published"
      BY <3>1, <3>2 DEF Vetoes, TypeOK, GateOK, GateState
    <3>4. PublishedInMonth(now)' = PublishedInMonth(now)
      BY <1>1, <2>2
    <3> QED
      BY <3>3, <3>4 DEF PresentMonthCap, CapRoom
  <2> QED
    BY <2>3, <2>4
<1>6. CASE GateCool
  <2>1. gate.pc = "cool" /\ UNCHANGED << now, signals >>
    BY <1>6 DEF GateCool, db
  <2>2. PublishedInMonth(now)' = PublishedInMonth(now)
    BY <1>1, <2>1
  <2> QED
    BY <2>1, <2>2 DEF PresentMonthCap, CapRoom
<1>7. CASE GateWrite
  <2>1. /\ gate.pc = "write" /\ gate.sig \in DOMAIN signals
        /\ now' = now
        /\ signals' = [signals EXCEPT ![gate.sig].gate = gate.decision]
        /\ gate'.pc \in {"idle", "cluster"}
    BY <1>7, LenProperties DEF GateWrite, IdleGate, TypeOK, TablesOK, GateOK, GateState
  <2>2. /\ DOMAIN signals' = DOMAIN signals
        /\ \A i \in DOMAIN signals : /\ signals'[i].cand = signals[i].cand
                                     /\ signals'[i].t = signals[i].t
                                     /\ i # gate.sig => signals'[i].gate = signals[i].gate
        /\ signals'[gate.sig].gate = gate.decision
    <3>1. \A i \in DOMAIN signals : signals[i] \in SignalRow
      BY LenProperties, ElementOfSeq DEF TypeOK, TablesOK
    <3> QED
      BY <2>1, <3>1 DEF SignalRow
  <2>3. CASE gate.decision = "published"
    <3>1. Cardinality(PublishedInMonth(now)) < MaxMonthlyTrades
      BY <2>1, <2>3 DEF CapRoom
    <3>2. PublishedInMonth(now)' \subseteq PublishedInMonth(now) \cup {gate.sig}
      BY <2>1, <2>2 DEF PublishedInMonth, Cand
    <3>3. /\ IsFiniteSet(PublishedInMonth(now))
          /\ Cardinality(PublishedInMonth(now)) \in Nat
      BY PublishedFinite
    <3>4. /\ IsFiniteSet(PublishedInMonth(now) \cup {gate.sig})
          /\ Cardinality(PublishedInMonth(now) \cup {gate.sig})
                <= Cardinality(PublishedInMonth(now)) + 1
      BY <3>3, FS_AddElement
    <3>5. /\ Cardinality(PublishedInMonth(now)')
                <= Cardinality(PublishedInMonth(now) \cup {gate.sig})
          /\ IsFiniteSet(PublishedInMonth(now)')
      BY <3>2, <3>4, FS_Subset
    <3>6. /\ Cardinality(PublishedInMonth(now)') \in Nat
          /\ Cardinality(PublishedInMonth(now) \cup {gate.sig}) \in Nat
      BY <3>4, <3>5, FS_CardinalityType
    <3>7. Cardinality(PublishedInMonth(now)') <= MaxMonthlyTrades
      BY <3>1, <3>3, <3>4, <3>5, <3>6, GateAssumption
    <3> QED
      BY <2>1, <3>7 DEF PresentMonthCap, CapRoom
  <2>4. CASE gate.decision # "published"
    <3>1. PublishedInMonth(now)' \subseteq PublishedInMonth(now)
      BY <2>1, <2>2, <2>4 DEF PublishedInMonth, Cand
    <3>2. Cardinality(PublishedInMonth(now)') <= Cardinality(PublishedInMonth(now))
      BY <3>1, PublishedFinite, FS_Subset
    <3>3. IsFiniteSet(PublishedInMonth(now)')
      BY <3>1, PublishedFinite, FS_Subset
    <3>4. Cardinality(PublishedInMonth(now)') \in Nat
      BY <3>3, FS_CardinalityType
    <3>5. Cardinality(PublishedInMonth(now)') <= MaxMonthlyTrades
      BY <3>2, <3>4, PublishedFinite, GateAssumption DEF PresentMonthCap
    <3> QED
      BY <2>1, <3>5 DEF PresentMonthCap, CapRoom
  <2> QED
    BY <2>3, <2>4
<1>8. CASE Track
  BY <1>1, <1>8, CapQuiet DEF Track, TrackRead, TrackClose, TrackStall, TrackAbort, db
<1>9. CASE \E k \in Clerks : Serve(k)
  <2>1. UNCHANGED << now, signals, gate >>
    BY <1>9 DEF Serve, ClerkPress, ClerkMark, ClerkStop, ClerkRecompute, ClerkSave,
                ClerkFail, db
  <2> QED
    BY <1>1, <2>1, CapQuiet
<1>10. CASE Tick
  <2>1. /\ now \in Times /\ now + 1 \in Times /\ now <= now + 1
        /\ now' = now + 1
        /\ UNCHANGED << signals, gate >>
    BY <1>10, DeskAssumption DEF Tick, db, TypeOK, TablesOK, Times
  <2>2. /\ Cardinality(PublishedInMonth(now + 1)) <= Cardinality(PublishedInMonth(now))
        /\ Cardinality(PublishedInMonth(now + 1)) \in Nat
        /\ Cardinality(PublishedInMonth(now)) \in Nat
    BY <2>1, MonthShrinks, PublishedFinite
  <2>3. PublishedInMonth(now)' = PublishedInMonth(now + 1)
    BY <2>1 DEF PublishedInMonth, Cand
  <2> QED
    BY <2>1, <2>2, <2>3, GateAssumption DEF PresentMonthCap, CapRoom
<1>11. CASE Crash
  <2>1. gate'.pc = "idle" /\ UNCHANGED << now, signals >>
    BY <1>11 DEF Crash, IdleGate, db
  <2> QED
    BY <1>1, <2>1, CapQuiet
<1>12. CASE UNCHANGED vars
  BY <1>1, <1>12, CapQuiet DEF vars, db
<1> QED
  BY <1>2, <1>3, <1>4, <1>5, <1>6, <1>7, <1>8, <1>9, <1>10, <1>11, <1>12
     DEF Next, Orchestrate, GateLoop

\* Veto 4 holds for the month of the present clock although counting and committing are
\* separate steps: there is one gate loop, and nothing but the gate publishes.
THEOREM PresentMonthCapHolds == Spec => []PresentMonthCap
<1>1. Spec => []TypeOK
  BY TypeCorrect
<1>2. Spec => [](PresentMonthCap /\ CapRoom)
  BY <1>1, CapInit, CapStep, PTL DEF Spec
<1> QED
  BY <1>2, PTL

-----------------------------------------------------------------------------
(* A stop-loss starts the cooling timer.                                    *)

\* A step that keeps the timer, the requests and every stop-loss row keeps the
\* property: no new stop-loss appears.
LEMMA StopQuiet ==
    ASSUME TypeOK, StopStartsCooling,
           faults' = 0 => faults = 0,
           UNCHANGED << lastStop, clerk >>,
           \A j \in DOMAIN trades' :
               trades'[j].outcome = "sl_hit" =>
                   j \in DOMAIN trades /\ trades'[j] = trades[j]
    PROVE  StopStartsCooling'
  BY DEF StopStartsCooling

\* Every step keeps a stop-loss and its timer together.
LEMMA StopStep == TypeOK /\ StopStartsCooling /\ [Next]_vars => StopStartsCooling'
<1> SUFFICES ASSUME TypeOK, StopStartsCooling, [Next]_vars
             PROVE  StopStartsCooling'
  OBVIOUS
<1>1. /\ DOMAIN trades = 1..Len(trades) /\ Len(trades) \in Nat
      /\ \A j \in DOMAIN trades : trades[j] \in TradeRow
  BY LenProperties, ElementOfSeq DEF TypeOK, TablesOK
<1>2. ASSUME Fault
      PROVE  faults' # 0
  BY <1>2, DeskAssumption DEF Fault, TypeOK, TablesOK
<1>3. CASE Orchestrate
  <2>1. UNCHANGED << trades, lastStop, clerk >> /\ (UNCHANGED faults \/ Fault)
    BY <1>3 DEF Orchestrate, OrchPersist, OrchQueue, OrchDrop, db
  <2> QED
    BY <1>2, <2>1, StopQuiet
<1>4. CASE GatePublish
  <2>1. UNCHANGED << lastStop, clerk, faults >>
    BY <1>4 DEF GatePublish
  <2>2. CASE UNCHANGED trades
    BY <2>1, <2>2, StopQuiet
  <2>3. ASSUME NEW row, row.outcome = "open", row \in TradeRow,
               trades' = Append(trades, row)
        PROVE  StopStartsCooling'
    <3>1. /\ DOMAIN trades' = 1..(Len(trades) + 1)
          /\ \A j \in 1..Len(trades) : trades'[j] = trades[j]
          /\ trades'[Len(trades) + 1] = row
      <4>1. trades \in Seq(TradeRow)
        BY DEF TypeOK, TablesOK
      <4> QED
        BY <2>3, <4>1, AppendProperties, LenProperties
    <3>2. \A j \in DOMAIN trades' :
              trades'[j].outcome = "sl_hit" =>
                  j \in DOMAIN trades /\ trades'[j] = trades[j]
      BY <1>1, <2>3, <3>1
    <3> QED
      BY <2>1, <3>2, StopQuiet
  <2>4. CASE DeservesTrade(Cand(gate.sig).verdict)
    <3> DEFINE row == [signal |-> gate.sig, cluster |-> gate.cluster, outcome |-> "open",
                       outcomeT |-> Never, exec |-> "null"]
    <3>1. trades' = Append(trades, row)
      BY <1>4, <2>4 DEF GatePublish
    <3>2. row \in TradeRow
      <4>1. gate.sig \in 1..Len(signals) /\ gate.cluster \in Nat
        BY <1>4 DEF GatePublish, TypeOK, GateOK, GateState
      <4>2. Len(signals) \in Nat /\ Len(signals) <= MaxSignals
        BY LenProperties DEF TypeOK, TablesOK
      <4> QED
        BY <4>1, <4>2, DeskAssumption DEF TradeRow, SignalIds, Outcomes, Executions
    <3>3. row.outcome = "open"
      OBVIOUS
    <3> HIDE DEF row
    <3> QED
      BY <2>3, <3>1, <3>2, <3>3
  <2> QED
    BY <1>4, <2>2, <2>4 DEF GatePublish
<1>5. CASE \/ GateTake \/ GateCool \/ GateWrite \/ GateCluster \/ GateFail
           \/ \E cond \in Conditions : GateScreen(cond)
  <2>1. UNCHANGED << trades, lastStop, clerk >> /\ (UNCHANGED faults \/ Fault)
    BY <1>5 DEF GateTake, GateCool, GateWrite, GateCluster, GateFail, GateScreen, db
  <2> QED
    BY <1>2, <2>1, StopQuiet
<1>6. CASE TrackClose
  <2>1. \A j \in HitRows(tracker.mid, tracker.rows) : Hit(j, tracker.mid) # "sl_hit"
    BY <1>6 DEF TrackClose, StopHit, HitRows
  <2>2. DOMAIN trades' = DOMAIN trades
    BY <1>6 DEF TrackClose
  <2>3. ASSUME NEW j \in DOMAIN trades', trades'[j].outcome = "sl_hit"
        PROVE  trades'[j] = trades[j]
    <3>1. CASE j \in HitRows(tracker.mid, tracker.rows)
      <4>1. trades'[j] = [trades[j] EXCEPT !.outcome = Hit(j, tracker.mid),
                                           !.outcomeT = tracker.at, !.exec = "null"]
        BY <1>6, <2>2, <3>1 DEF TrackClose
      <4>2. trades'[j].outcome = Hit(j, tracker.mid)
        BY <1>1, <2>2, <4>1 DEF TradeRow
      <4> QED
        BY <2>1, <2>3, <3>1, <4>2
    <3>2. CASE j \notin HitRows(tracker.mid, tracker.rows)
      BY <1>6, <2>2, <3>2 DEF TrackClose
    <3> QED
      BY <3>1, <3>2
  <2> QED
    BY <1>6, <2>2, <2>3, StopQuiet DEF TrackClose
<1>7. CASE TrackStall \/ TrackAbort \/ \E mid \in Prices : TrackRead(mid)
  <2>1. UNCHANGED << trades, lastStop, clerk, faults >>
    BY <1>7 DEF TrackRead, TrackStall, TrackAbort, db
  <2> QED
    BY <2>1, StopQuiet
<1>8. ASSUME NEW k \in Clerks, Serve(k)
      PROVE  StopStartsCooling'
  <2>1. clerk \in [Clerks -> ClerkState]
    BY DEF TypeOK, ClerksOK
  <2>2. ASSUME UNCHANGED << trades, lastStop, faults >>, clerk[k].pc # "stop",
               clerk' \in [Clerks -> ClerkState],
               \A l \in Clerks : l # k => clerk'[l] = clerk[l]
        PROVE  StopStartsCooling'
    BY <2>1, <2>2 DEF StopStartsCooling
  <2>3. CASE \/ ClerkRecompute(k) \/ ClerkSave(k)
             \/ \E i \in DOMAIN trades, mark \in Marks : ClerkPress(k, i, mark)
    <3>1. UNCHANGED << trades, lastStop, faults >> /\ clerk[k].pc # "stop"
      BY <2>3 DEF ClerkRecompute, ClerkSave, ClerkPress, db
    <3>2. \A l \in Clerks : l # k => clerk'[l] = clerk[l]
      BY <2>1, <2>3 DEF ClerkRecompute, ClerkSave, ClerkPress
    <3>3. clerk' \in [Clerks -> ClerkState]
      BY <1>8, TypeServe DEF TypeOK, ClerksOK
    <3> QED
      BY <2>2, <3>1, <3>2, <3>3
  <2>4. CASE ClerkMark(k)
    <3> DEFINE i == clerk[k].trade
    <3>1. /\ UNCHANGED << lastStop, faults >> /\ i \in DOMAIN trades
          /\ DOMAIN trades' = DOMAIN trades
          /\ \A j \in DOMAIN trades : j # i => trades'[j] = trades[j]
          /\ trades'[i].outcome = clerk[k].outcome
      BY <1>1, <2>4 DEF ClerkMark, TypeOK, ClerksOK, TradeRow
    <3>2. /\ clerk[k].outcome = "sl_hit" => clerk'[k].pc = "stop"
          /\ clerk'[k].trade = i
          /\ clerk[k].pc = "mark"
          /\ \A l \in Clerks : l # k => clerk'[l] = clerk[l]
      BY <2>1, <2>4 DEF ClerkMark, StepAfter, ClerkState
    <3> HIDE DEF i
    <3>3. ASSUME NEW j \in DOMAIN trades', trades'[j].outcome = "sl_hit", faults = 0
          PROVE  \/ lastStop >= trades'[j].outcomeT
                 \/ \E l \in Clerks : clerk'[l].pc = "stop" /\ clerk'[l].trade = j
      <4>1. CASE j = i
        BY <3>1, <3>2, <3>3, <4>1
      <4>2. CASE j # i
        BY <3>1, <3>2, <3>3, <4>2 DEF StopStartsCooling
      <4> QED
        BY <4>1, <4>2
    <3> QED
      BY <3>1, <3>3 DEF StopStartsCooling
  <2>5. CASE ClerkStop(k)
    <3>1. /\ trades' = trades /\ faults' = faults /\ lastStop' = now
          /\ \A l \in Clerks : l # k => clerk'[l] = clerk[l]
      BY <2>1, <2>5 DEF ClerkStop
    <3>2. \A j \in DOMAIN trades : now >= trades[j].outcomeT
      <4>1. now \in Int
        BY DeskAssumption DEF TypeOK, TablesOK, Times
      <4>2. \A j \in DOMAIN trades : /\ trades[j].outcomeT \in Int
                                    /\ trades[j].outcomeT <= now
        BY <1>1, DeskAssumption DEF TypeOK, TablesOK, TradeRow, Times, Never
      <4> QED
        BY <4>1, <4>2
    <3> QED
      BY <3>1, <3>2 DEF StopStartsCooling
  <2>6. CASE ClerkFail(k)
    <3>1. Fault
      BY <2>6 DEF ClerkFail
    <3> QED
      BY <1>2, <3>1 DEF StopStartsCooling
  <2> QED
    BY <1>8, <2>3, <2>4, <2>5, <2>6 DEF Serve
<1>9. CASE Tick
  <2>1. UNCHANGED << trades, lastStop, clerk, faults >>
    BY <1>9 DEF Tick, db
  <2> QED
    BY <2>1, StopQuiet
<1>10. CASE Crash
  <2>1. Fault
    BY <1>10 DEF Crash
  <2> QED
    BY <1>2, <2>1 DEF StopStartsCooling
<1>11. CASE UNCHANGED vars
  <2>1. UNCHANGED << trades, lastStop, clerk, faults >>
    BY <1>11 DEF vars, db
  <2> QED
    BY <2>1, StopQuiet
<1> QED
  BY <1>3, <1>4, <1>5, <1>6, <1>7, <1>8, <1>9, <1>10, <1>11
     DEF Next, GateLoop, Track

\* Without failures, whoever records a stop-loss also restarts the cooling timer,
\* or is about to: the two transactions of mark_outcome never drift apart.
THEOREM StopStartsCoolingHolds == Spec => []StopStartsCooling
<1>1. Spec => []TypeOK
  BY TypeCorrect
<1>2. Init => StopStartsCooling
  BY DEF Init, StopStartsCooling
<1> QED
  BY <1>1, <1>2, StopStep, PTL DEF Spec
-----------------------------------------------------------------------------
(* Clusters.                                                                *)

\* What a cluster row claims of the signals table.
ClusterTrue(row) ==
    /\ row.members \subseteq DOMAIN signals
    /\ row.representative \in row.members
    /\ Cardinality(row.members) >= 2
    /\ \A a, b \in row.members :
          /\ signals[a].gate = "published"
          /\ Family(Cand(a).strategy) = Family(Cand(b).strategy)
          /\ ClusterKey(signals[a].t, Cand(a).signature)
               = ClusterKey(signals[b].t, Cand(b).signature)
    /\ \A a \in row.members :
          /\ ~ Outranks(Cand(a).strategy, Cand(row.representative).strategy)
          /\ Cand(a).strategy = Cand(row.representative).strategy
               => Cand(a).confidence <= Cand(row.representative).confidence
    /\ row.boosted \in Cand(row.representative).confidence..100

ClustersTrue == \A n \in DOMAIN clusters : ClusterTrue(clusters[n])

\* The window holds signals that were published.
WindowPublished == \A p \in DOMAIN window : signals[window[p]].gate = "published"

\* A trade refers to a cluster of its signal, and no other trade does.
TradesClustered ==
    \A j \in DOMAIN trades :
        trades[j].cluster # 0 =>
            /\ trades[j].cluster \in DOMAIN clusters
            /\ trades[j].signal \in clusters[trades[j].cluster].members
            /\ \A k \in DOMAIN trades : trades[k].cluster = trades[j].cluster => k = j

\* So does the gate between cluster and trade: its cluster has no trade yet.
GateClustered ==
    /\ gate.pc # "publish" => gate.cluster = 0
    /\ gate.cluster # 0 => /\ gate.cluster \in DOMAIN clusters
                           /\ gate.sig \in clusters[gate.cluster].members
                           /\ \A j \in DOMAIN trades : trades[j].cluster # gate.cluster

ClusterInv == WindowPublished /\ ClustersTrue /\ TradesClustered /\ GateClustered

\* The clusters table is a table, and the window holds ids.
LEMMA ClusterTables ==
    ASSUME TypeOK
    PROVE  /\ Len(clusters) \in Nat /\ DOMAIN clusters = 1..Len(clusters)
           /\ \A n \in DOMAIN clusters : clusters[n] \in ClusterRow
           /\ Len(window) \in Nat /\ DOMAIN window = 1..Len(window)
           /\ \A p \in DOMAIN window : window[p] \in DOMAIN signals
<1>1. Len(clusters) \in Nat /\ DOMAIN clusters = 1..Len(clusters)
  BY LenProperties DEF TypeOK, TablesOK
<1>2. \A n \in DOMAIN clusters : clusters[n] \in ClusterRow
  BY <1>1, ElementOfSeq DEF TypeOK, TablesOK
<1>3. Len(window) \in Nat /\ DOMAIN window = 1..Len(window)
  BY LenProperties DEF TypeOK, HandOverOK
<1>4. \A p \in DOMAIN window : window[p] \in DOMAIN signals
  BY <1>3, Tables, ElementOfSeq DEF TypeOK, HandOverOK
<1> QED
  BY <1>1, <1>2, <1>3, <1>4

\* No strategy of a set outranks the one that select_representative takes from it.
LEMMA NoneOutranks ==
    ASSUME NEW strategies, NEW a \in strategies
    PROVE  ~ Outranks(a, RepresentativeStrategy(strategies))
<1> DEFINE P == Precedence
           T == {k \in DOMAIN P : P[k] \in strategies}
<1>1. /\ DOMAIN P = 1..7
      /\ P[1] = "01_unicorn" /\ P[2] = "04_silver_bullet" /\ P[3] = "09_mmm"
      /\ P[4] = "14_cisd" /\ P[5] = "03_confirmation" /\ P[6] = "02_judas"
      /\ P[7] = "10_po3"
  BY DEF Precedence, ConfirmationFamily, JudasFamily
<1>2. \A i, j \in 1..7 : P[i] = P[j] => i = j
  <2> HIDE DEF P
  <2> QED
    BY <1>1
<1>3. SUFFICES ASSUME NEW i \in DOMAIN P, NEW j \in DOMAIN P, P[i] = a, i < j,
                      P[j] = RepresentativeStrategy(strategies)
               PROVE  FALSE
  BY DEF Outranks
<1>4. i \in T /\ T \in SUBSET Nat
  BY <1>1, <1>3
<1>5. PICK m \in T : \A k \in T : m <= k
  BY <1>4, LeastElement
<1> DEFINE first == CHOOSE k \in DOMAIN P : /\ P[k] \in strategies
                                            /\ \A l \in DOMAIN P : P[l] \in strategies => k <= l
<1>6. first \in T /\ \A k \in T : first <= k
  BY <1>5
<1>7. RepresentativeStrategy(strategies) = P[first]
  BY <1>4 DEF RepresentativeStrategy
<1> HIDE DEF P, T, first
<1>8. j = first
  <2>1. first \in DOMAIN P
    BY <1>6 DEF T
  <2> QED
    BY <1>1, <1>2, <1>3, <1>7, <2>1
<1> QED
  BY <1>1, <1>3, <1>4, <1>6, <1>8

\* A boost adds to a confidence and stops at 100.
LEMMA BoostedRange ==
    ASSUME NEW confidence \in 0..100, NEW size
    PROVE  Boosted(confidence, size) \in confidence..100
<1>1. ConfluenceBoost(size) \in {0, 10, 15}
  BY DEF ConfluenceBoost, ConfluenceBoostCap
<1> QED
  BY <1>1 DEF Boosted

\* A new cluster row is true.
LEMMA NewClusterTrue ==
    ASSUME TypeOK, Once, WindowPublished, gate.pc = "cluster", Companions(gate.sig) # {}
    PROVE  LET members == Companions(gate.sig) \cup {gate.sig}
               rep     == Representative(gate.sig, members)
           IN  ClusterTrue([representative |-> rep, members |-> members,
                            boosted |-> Boosted(Cand(rep).confidence, Cardinality(members))])
<1> DEFINE members == Companions(gate.sig) \cup {gate.sig}
           rep == Representative(gate.sig, members)
           strategies == {Cand(x).strategy : x \in members}
<1>1. gate.sig \in DOMAIN signals /\ signals[gate.sig].gate = "published"
  BY Tables DEF Once, InTransit
<1>2. \A c \in Companions(gate.sig) :
          /\ c \in DOMAIN signals /\ c # gate.sig
          /\ signals[c].gate = "published"
          /\ Family(Cand(gate.sig).strategy) = Family(Cand(c).strategy)
          /\ ClusterKey(signals[gate.sig].t, Cand(gate.sig).signature)
               = ClusterKey(signals[c].t, Cand(c).signature)
  BY ClusterTables DEF Companions, Elems, WindowPublished, CanCluster
<1>3. members \in SUBSET DOMAIN signals /\ gate.sig \in members
  BY <1>1, <1>2
<1>4. members \in SUBSET (1..Len(signals))
  BY <1>3, Tables
<1>5. Cardinality(members) >= 2
  <2>1. PICK c \in Companions(gate.sig) : TRUE
    OBVIOUS
  <2>2. c # gate.sig /\ {gate.sig, c} \subseteq members
    BY <1>2
  <2>3. Cardinality({gate.sig, c}) = 2
    <3>1. IsFiniteSet({gate.sig}) /\ Cardinality({gate.sig}) = 1
      BY FS_Singleton
    <3>2. Cardinality({gate.sig} \cup {c}) = 2
      <4>1. c \notin {gate.sig}
        BY <2>2
      <4> HIDE DEF members
      <4>2. Cardinality({gate.sig} \cup {c}) = Cardinality({gate.sig}) + 1
        BY <3>1, <4>1, FS_AddElement
      <4> QED
        BY <3>1, <4>2
    <3>3. {gate.sig} \cup {c} = {gate.sig, c}
      OBVIOUS
    <3> QED
      BY <3>2, <3>3
  <2>4. IsFiniteSet(members)
    <3>1. Len(signals) \in Int
      BY Tables
    <3>2. IsFiniteSet(1..Len(signals))
      BY <3>1, FS_Interval
    <3> QED
      BY <1>4, <3>2, FS_Subset
  <2>5. Cardinality({gate.sig, c}) <= Cardinality(members)
    BY <2>2, <2>4, FS_Subset
  <2>6. Cardinality(members) \in Nat
    BY <2>4, FS_CardinalityType
  <2> QED
    BY <2>3, <2>5, <2>6
<1>6. \A a, b \in members :
          /\ signals[a].gate = "published"
          /\ Family(Cand(a).strategy) = Family(Cand(b).strategy)
          /\ ClusterKey(signals[a].t, Cand(a).signature)
               = ClusterKey(signals[b].t, Cand(b).signature)
  BY <1>1, <1>2
<1> HIDE DEF members
<1>7. /\ rep \in members
      /\ Cand(rep).strategy = RepresentativeStrategy(strategies)
      /\ \A x \in members : Cand(x).strategy = RepresentativeStrategy(strategies)
                            => Cand(x).confidence <= Cand(rep).confidence
  BY <1>3, <1>4, RepresentativeIsBest DEF TypeOK, TablesOK
<1>8. \A a \in members : ~ Outranks(Cand(a).strategy, Cand(rep).strategy)
  <2>1. \A a \in members : Cand(a).strategy \in strategies
    OBVIOUS
  <2> HIDE DEF strategies, rep
  <2> QED
    BY <1>7, <2>1, NoneOutranks
<1>9. Boosted(Cand(rep).confidence, Cardinality(members)) \in Cand(rep).confidence..100
  <2>1. Cand(rep).confidence \in 0..100
    BY <1>4, <1>7, ConfidenceInRange DEF TypeOK, TablesOK
  <2> HIDE DEF rep
  <2> QED
    BY <2>1, BoostedRange
<1> HIDE DEF rep, strategies
<1>10. ClusterTrue([representative |-> rep, members |-> members,
                    boosted |-> Boosted(Cand(rep).confidence, Cardinality(members))])
  BY <1>3, <1>5, <1>6, <1>7, <1>8, <1>9 DEF ClusterTrue
<1> QED
  BY <1>10 DEF rep, members

\* No step takes back what a cluster row rests on: published rows are final.
LEMMA ClustersKept ==
    ASSUME TypeOK, Once, [Next]_vars, ClustersTrue,
           \A n \in DOMAIN clusters : clusters'[n] = clusters[n]
    PROVE  \A n \in DOMAIN clusters : ClusterTrue(clusters[n])'
<1>1. DOMAIN signals \subseteq DOMAIN signals'
  <2>1. CASE UNCHANGED signals
    BY <2>1
  <2>2. ASSUME NEW c \in Candidates, NEW t \in Times, OrchPersist(c, t)
        PROVE  DOMAIN signals \subseteq DOMAIN signals'
    <3> DEFINE row == [cand |-> c, t |-> t, gate |-> "pending"]
    <3>1. row \in SignalRow /\ signals \in Seq(SignalRow)
      BY DEF TypeOK, TablesOK, SignalRow
    <3>2. signals' = Append(signals, row)
      BY <2>2 DEF OrchPersist
    <3> HIDE DEF row
    <3>3. signals' \in Seq(SignalRow) /\ Len(signals') = Len(signals) + 1
      BY <3>1, <3>2, AppendProperties
    <3>4. DOMAIN signals' = 1..(Len(signals) + 1)
      BY <3>3, LenProperties
    <3> QED
      BY <3>4, Tables
  <2>3. CASE GateWrite
    BY <2>3 DEF GateWrite
  <2>4. CASE ~ (GateWrite \/ \E c \in Candidates, t \in Times : OrchPersist(c, t))
    <3>1. UNCHANGED signals
      BY <2>4 DEF Next, Orchestrate, OrchQueue, OrchDrop, GateLoop, GateTake, GateScreen,
           GateCool, GateCluster, GatePublish, GateFail, Track, TrackRead, TrackClose,
           TrackStall, TrackAbort, Serve, ClerkPress, ClerkMark, ClerkStop, ClerkRecompute,
           ClerkSave, ClerkFail, Tick, Crash, vars, db
    <3> QED
      BY <2>1, <3>1
  <2> QED
    BY <2>2, <2>3, <2>4
<1>2. \A i \in DOMAIN signals : signals[i].gate # "pending" => signals'[i] = signals[i]
  BY DecidedStep
<1>3. SUFFICES ASSUME NEW n \in DOMAIN clusters
               PROVE  ClusterTrue(clusters[n])'
  OBVIOUS
<1>4. clusters'[n] = clusters[n] /\ ClusterTrue(clusters[n])
  BY DEF ClustersTrue
<1>5. \A a \in clusters[n].members :
          a \in DOMAIN signals' /\ signals'[a] = signals[a] /\ signals[a].gate = "published"
  BY <1>1, <1>2, <1>4 DEF ClusterTrue
<1> QED
  BY <1>4, <1>5 DEF ClusterTrue, Cand

\* What was published stays published.
LEMMA WindowKept ==
    ASSUME TypeOK, Once, [Next]_vars, WindowPublished, UNCHANGED window \/ window' = << >>
    PROVE  WindowPublished'
<1>1. \A p \in DOMAIN window : signals'[window[p]] = signals[window[p]]
  BY DecidedStep, ClusterTables DEF WindowPublished
<1> QED
  BY <1>1, EmptySeq DEF WindowPublished

\* A step that neither forms a cluster nor publishes keeps what is said of clusters.
LEMMA ClusterQuiet ==
    ASSUME TypeOK, Once, ClusterInv, [Next]_vars,
           UNCHANGED clusters,
           UNCHANGED window \/ window' = << >>,
           UNCHANGED gate \/ gate'.cluster = 0,
           DOMAIN trades' = DOMAIN trades,
           \A j \in DOMAIN trades : /\ trades'[j].signal = trades[j].signal
                                    /\ trades'[j].cluster = trades[j].cluster
    PROVE  ClusterInv'
<1>1. WindowPublished'
  BY WindowKept DEF ClusterInv
<1>2. ClustersTrue'
  BY ClustersKept DEF ClusterInv, ClustersTrue
<1>3. TradesClustered'
  BY DEF ClusterInv, TradesClustered
<1>4. GateClustered'
  BY DEF ClusterInv, GateClustered
<1> QED
  BY <1>1, <1>2, <1>3, <1>4 DEF ClusterInv

\* process_new_signal appends a true row, which no trade refers to yet.
LEMMA ClusterFormed ==
    ASSUME TypeOK, Once, ClusterInv, GateCluster
    PROVE  ClusterInv'
<1> DEFINE members == Companions(gate.sig) \cup {gate.sig}
           rep == Representative(gate.sig, members)
           row == [representative |-> rep, members |-> members,
                   boosted |-> Boosted(Cand(rep).confidence, Cardinality(members))]
<1>1. /\ gate.pc = "cluster"
      /\ UNCHANGED << signals, trades, window >>
      /\ [Next]_vars
  BY DEF GateCluster, Next, GateLoop
<1>2. gate \in GateState /\ gate.cluster = 0
  BY <1>1, Tables DEF ClusterInv, GateClustered
<1>3. CASE Companions(gate.sig) = {}
  <2>1. gate'.cluster = 0 /\ UNCHANGED clusters
    BY <1>2, <1>3 DEF GateCluster, GateState
  <2> QED
    BY <1>1, <2>1, ClusterQuiet
<1>4. CASE Companions(gate.sig) # {}
  <2>1. /\ clusters' = Append(clusters, row)
        /\ gate' = [gate EXCEPT !.pc = "publish", !.cluster = Len(clusters) + 1]
    BY <1>4, Zenon DEF GateCluster
  <2>2. gate'.pc = "publish" /\ gate'.sig = gate.sig /\ gate'.cluster = Len(clusters) + 1
    BY <1>2, <2>1 DEF GateState
  <2>3. ClusterTrue(row)
    BY <1>1, <1>4, NewClusterTrue DEF ClusterInv
  <2>4. row.members = members /\ gate.sig \in members
    OBVIOUS
  <2>5. row \in [representative : UNION {row.members}, members : {row.members}, boosted : Int]
    <3>1. row.representative \in row.members /\ row.boosted \in Int
      <4> HIDE DEF row
      <4>1. row.boosted \in Cand(row.representative).confidence..100
        BY <2>3 DEF ClusterTrue
      <4> QED
        BY <2>3, <4>1 DEF ClusterTrue
    <3> HIDE DEF rep, members
    <3> QED
      BY <3>1
  <2> HIDE DEF row, members
  <2>6. /\ Len(clusters) \in Nat /\ DOMAIN clusters = 1..Len(clusters)
        /\ DOMAIN clusters' = 1..(Len(clusters) + 1)
        /\ \A n \in DOMAIN clusters : clusters'[n] = clusters[n]
        /\ clusters'[Len(clusters) + 1] = row
    <3> DEFINE S == ClusterRow \cup {row}
    <3>1. clusters \in Seq(ClusterRow) /\ ClusterRow \subseteq S /\ row \in S
      BY DEF TypeOK, TablesOK
    <3> HIDE DEF S
    <3>2. clusters \in Seq(S)
      BY <3>1, SeqMonotonic
    <3>3. Append(clusters, row) \in Seq(S) /\ Len(Append(clusters, row)) = Len(clusters) + 1
      BY <3>1, <3>2, AppendProperties
    <3>4. DOMAIN Append(clusters, row) = 1..(Len(clusters) + 1)
      BY <3>3, LenProperties
    <3>5. Len(clusters) \in Nat /\ DOMAIN clusters = 1..Len(clusters)
      BY ClusterTables
    <3> QED
      BY <2>1, <3>1, <3>2, <3>4, <3>5, AppendProperties
  <2>7. ClustersTrue'
    <3>1. \A n \in DOMAIN clusters : ClusterTrue(clusters[n])'
      BY <1>1, <2>6, ClustersKept DEF ClusterInv
    <3>3. ASSUME NEW n \in DOMAIN clusters', n \notin DOMAIN clusters
          PROVE  ClusterTrue(clusters[n])'
      <4>1. clusters'[n] = row
        BY <2>6, <3>3
      <4> QED
        BY <1>1, <2>3, <4>1 DEF ClusterTrue, Cand
    <3> QED
      BY <3>1, <3>3 DEF ClustersTrue
  <2>8. \A j \in DOMAIN trades : trades[j].cluster # 0 => trades[j].cluster \in DOMAIN clusters
    BY DEF ClusterInv, TradesClustered
  <2>9. TradesClustered'
    BY <1>1, <2>6, <2>8 DEF ClusterInv, TradesClustered
  <2>10. GateClustered'
    BY <1>1, <2>2, <2>4, <2>6, <2>8 DEF GateClustered
  <2>11. WindowPublished'
    BY <1>1 DEF ClusterInv, WindowPublished
  <2> QED
    BY <2>7, <2>9, <2>10, <2>11 DEF ClusterInv
<1> QED
  BY <1>3, <1>4

\* publish_signal hands the cluster on to the trade, and the signal joins the window.
LEMMA ClusterPublished ==
    ASSUME TypeOK, Once, ClusterInv, GatePublish
    PROVE  ClusterInv'
<1>1. /\ gate.pc = "publish" /\ gate'.cluster = 0 /\ gate'.pc = "idle"
      /\ UNCHANGED << signals, clusters >>
      /\ [Next]_vars
  BY DEF GatePublish, IdleGate, Next, GateLoop
<1>2. gate.sig \in DOMAIN signals /\ signals[gate.sig].gate = "published"
  BY <1>1, Tables DEF Once, InTransit
<1>3. WindowPublished'
  <2> DEFINE longer == Append(window, gate.sig)
             S == {i \in DOMAIN signals : signals[i].gate = "published"}
  <2>1. window \in Seq(S) /\ gate.sig \in S
    <3>1. \A p \in 1..Len(window) : window[p] \in S
      BY ClusterTables DEF ClusterInv, WindowPublished
    <3> HIDE DEF S
    <3>2. window \in [1..Len(window) -> S]
      <4>1. window \in Seq(1..Len(signals))
        BY DEF TypeOK, HandOverOK
      <4>2. window \in [1..Len(window) -> 1..Len(signals)]
        BY <4>1, LenProperties
      <4> QED
        BY <3>1, <4>2
    <3> QED
      BY <1>2, <3>2, ClusterTables, SeqDef DEF S
  <2> HIDE DEF S
  <2>2. longer \in Seq(S) /\ longer # << >>
    BY <2>1, AppendProperties
  <2>3. window' = longer \/ window' = Tail(longer)
    BY DEF GatePublish, Remember
  <2> HIDE DEF longer
  <2>4. window' \in Seq(S)
    BY <2>2, <2>3, HeadTailProperties
  <2>5. \A p \in DOMAIN window' : window'[p] \in S
    BY <2>4, LenProperties, ElementOfSeq
  <2> QED
    BY <1>1, <2>5 DEF WindowPublished, S
<1>4. ClustersTrue'
  BY <1>1, ClustersKept DEF ClusterInv, ClustersTrue
<1>5. GateClustered'
  BY <1>1 DEF GateClustered
<1>6. TradesClustered'
  <2>1. CASE UNCHANGED trades
    BY <1>1, <2>1 DEF ClusterInv, TradesClustered
  <2>2. CASE ~ UNCHANGED trades
    <3> DEFINE row == [signal |-> gate.sig, cluster |-> gate.cluster, outcome |-> "open",
                       outcomeT |-> Never, exec |-> "null"]
    <3>1. trades' = Append(trades, row)
      BY <2>2 DEF GatePublish
    <3>2. row \in TradeRow /\ trades \in Seq(TradeRow)
      <4>1. gate.sig \in 1..Len(signals) /\ gate.cluster \in Nat
        BY <1>1, Tables DEF GateState
      <4>2. Len(signals) \in Nat /\ Len(signals) <= MaxSignals
        BY LenProperties DEF TypeOK, TablesOK
      <4> QED
        BY <4>1, <4>2, DeskAssumption
           DEF TradeRow, SignalIds, Outcomes, Executions, TypeOK, TablesOK
    <3>3. row.signal = gate.sig /\ row.cluster = gate.cluster
      OBVIOUS
    <3> HIDE DEF row
    <3>4. /\ DOMAIN trades' = 1..(Len(trades) + 1)
          /\ \A j \in DOMAIN trades : trades'[j] = trades[j]
          /\ trades'[Len(trades) + 1] = row
      BY <3>1, <3>2, Tables, AppendProperties, LenProperties
    <3>5. ASSUME NEW j \in DOMAIN trades', trades'[j].cluster # 0
          PROVE  /\ trades'[j].cluster \in DOMAIN clusters
                 /\ trades'[j].signal \in clusters[trades'[j].cluster].members
                 /\ \A k \in DOMAIN trades' : trades'[k].cluster = trades'[j].cluster => k = j
      <4>1. CASE j \in DOMAIN trades
        BY <3>3, <3>4, <3>5, <4>1, Tables DEF ClusterInv, TradesClustered, GateClustered
      <4>2. CASE j \notin DOMAIN trades
        BY <3>3, <3>4, <3>5, <4>2, Tables DEF ClusterInv, TradesClustered, GateClustered
      <4> QED
        BY <4>1, <4>2
    <3> QED
      BY <1>1, <3>5 DEF TradesClustered
  <2> QED
    BY <2>1, <2>2
<1> QED
  BY <1>3, <1>4, <1>5, <1>6 DEF ClusterInv

\* Every step keeps clusters true, and each with one trade at most.
LEMMA ClusterStep == TypeOK /\ Once /\ ClusterInv /\ [Next]_vars => ClusterInv'
<1> SUFFICES ASSUME TypeOK, Once, ClusterInv, [Next]_vars
             PROVE  ClusterInv'
  OBVIOUS
<1>1. CASE Orchestrate \/ Tick \/ UNCHANGED vars
  <2>1. UNCHANGED << clusters, window, gate, trades >>
    BY <1>1 DEF Orchestrate, OrchPersist, OrchQueue, OrchDrop, Tick, vars, db
  <2> QED
    BY <2>1, ClusterQuiet
<1>2. CASE GateTake \/ GateCool \/ GateWrite \/ GateFail
           \/ \E cond \in Conditions : GateScreen(cond)
  <2>1. UNCHANGED << clusters, window, trades >>
    BY <1>2 DEF GateTake, GateScreen, GateCool, GateWrite, GateFail, db
  <2>2. gate'.cluster = 0
    <3>1. CASE GateTake
      BY <3>1 DEF GateTake, IdleGate
    <3>2. CASE GateFail
      BY <3>2 DEF GateFail, IdleGate
    <3>3. CASE GateWrite
      BY <3>3, Tables DEF GateWrite, IdleGate, GateState, ClusterInv, GateClustered
    <3>4. CASE GateCool
      BY <3>4, Tables DEF GateCool, GateState, ClusterInv, GateClustered
    <3>5. ASSUME NEW cond \in Conditions, GateScreen(cond)
          PROVE  gate'.cluster = 0
      <4>1. gate.cluster = 0
        BY <3>5 DEF GateScreen, ClusterInv, GateClustered
      <4>2. \/ gate' = [gate EXCEPT !.pc = "cool"]
            \/ \E v : gate' = [gate EXCEPT !.pc = "write", !.decision = v]
        BY <3>5, Zenon DEF GateScreen
      <4> QED
        BY <4>1, <4>2, Tables DEF GateState
    <3> QED
      BY <1>2, <3>1, <3>2, <3>3, <3>4, <3>5
  <2> QED
    BY <2>1, <2>2, ClusterQuiet
<1>3. CASE Track \/ \E k \in Clerks : Serve(k)
  <2>1. UNCHANGED << clusters, window, gate >>
    BY <1>3 DEF Track, TrackRead, TrackClose, TrackStall, TrackAbort, Serve, ClerkPress,
         ClerkMark, ClerkStop, ClerkRecompute, ClerkSave, ClerkFail, db
  <2>2. /\ DOMAIN trades' = DOMAIN trades
        /\ \A j \in DOMAIN trades : /\ trades'[j].signal = trades[j].signal
                                    /\ trades'[j].cluster = trades[j].cluster
    <3>1. CASE TrackClose
      BY <3>1, Tables DEF TrackClose, TradeRow
    <3>2. CASE TrackStall \/ TrackAbort \/ \E mid \in Prices : TrackRead(mid)
      BY <3>2 DEF TrackRead, TrackStall, TrackAbort, db
    <3>3. ASSUME NEW k \in Clerks, Serve(k)
          PROVE  /\ DOMAIN trades' = DOMAIN trades
                 /\ \A j \in DOMAIN trades : /\ trades'[j].signal = trades[j].signal
                                             /\ trades'[j].cluster = trades[j].cluster
      <4>1. CASE ClerkMark(k)
        BY <4>1, Tables DEF ClerkMark, TradeRow
      <4>2. CASE ~ ClerkMark(k)
        BY <3>3, <4>2
           DEF Serve, ClerkPress, ClerkStop, ClerkRecompute, ClerkSave, ClerkFail, db
      <4> QED
        BY <4>1, <4>2
    <3> QED
      BY <1>3, <3>1, <3>2, <3>3 DEF Track
  <2> QED
    BY <2>1, <2>2, ClusterQuiet
<1>4. CASE Crash
  <2>1. /\ UNCHANGED << clusters, trades >> /\ window' = << >> /\ gate'.cluster = 0
    BY <1>4 DEF Crash, IdleGate, db
  <2> QED
    BY <2>1, ClusterQuiet
<1> QED
  BY <1>1, <1>2, <1>3, <1>4, ClusterFormed, ClusterPublished DEF Next, GateLoop

\* At start-up there is nothing to be said of clusters.
LEMMA ClusterInit == Init => ClusterInv
<1> SUFFICES ASSUME Init
             PROVE  ClusterInv
  OBVIOUS
<1>1. /\ DOMAIN window = {} /\ DOMAIN clusters = {} /\ DOMAIN trades = {}
      /\ gate.cluster = 0
  BY DEF Init, IdleGate
<1> QED
  BY <1>1 DEF ClusterInv, WindowPublished, ClustersTrue, TradesClustered, GateClustered

\* Whatever joins a cluster was published, under one key and of one family; its
\* representative is outranked by none, and at most one trade is for the cluster.
THEOREM ClusterConsistentHolds == Spec => []ClusterConsistent
<1>1. Spec => []TypeOK
  BY TypeCorrect
<1>2. Spec => []Once
  BY <1>1, OnceInit, OnceStep, PTL DEF Spec
<1>3. Spec => []ClusterInv
  BY <1>1, <1>2, ClusterInit, ClusterStep, PTL DEF Spec
<1>4. ClusterInv => ClusterConsistent
  BY DEF ClusterInv, ClustersTrue, ClusterTrue, TradesClustered, ClusterConsistent
<1> QED
  BY <1>3, <1>4, PTL
============================================================================
