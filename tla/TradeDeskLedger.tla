-------------------------- MODULE TradeDeskLedger --------------------------
(***************************************************************************)
(* The desk implements the ledger: every step of TradeDesk is one step of  *)
(* SignalLedger under the mapping of DeskLedger, or changes nothing there. *)
(***************************************************************************)
EXTENDS TradeDeskSafety, DeskLedger

EntryType == [t : Times, valid : BOOLEAN, tradable : BOOLEAN, state : Ledger!States]

EntryOf(i) == [t |-> signals[i].t, valid |-> Cand(i).verdict = "VALID",
               tradable |-> Cand(i).verdict # "NO_TRADE", state |-> StateOf(i)]

Sound == TypeOK /\ PresentMonthCap /\ CapRoom /\ Once

\* The mapping yields a sequence of entries, one for each row.
LEMMA LedgerIsSequence ==
    ASSUME TypeOK
    PROVE  /\ LedgerOfDesk = [i \in 1..Len(signals) |-> EntryOf(i)]
           /\ LedgerOfDesk \in Seq(EntryType)
           /\ Len(LedgerOfDesk) = Len(signals)
           /\ \A i \in DOMAIN signals : StateOf(i) \in Ledger!States
<1>1. LedgerOfDesk = [i \in 1..Len(signals) |-> EntryOf(i)]
  BY Tables DEF LedgerOfDesk, EntryOf
<1>2. \A i \in DOMAIN signals : StateOf(i) \in Ledger!States
  BY DEF StateOf, Ledger!States
<1>3. \A i \in 1..Len(signals) : EntryOf(i) \in EntryType
  BY <1>2, Tables DEF EntryOf, EntryType, SignalRow
<1>4. Len(signals) \in Nat
  BY Tables
<1> QED
  BY <1>1, <1>2, <1>3, <1>4 

\* Pending, published and vetoed rows are told apart by their gate_result alone.
LEMMA StateIsGate ==
    ASSUME TypeOK, NEW i \in DOMAIN signals
    PROVE  /\ StateOf(i) = "pending" <=> signals[i].gate = "pending"
           /\ StateOf(i) \in {"published", "traded"} <=> signals[i].gate = "published"
           /\ StateOf(i) = "published" <=> signals[i].gate = "published" /\ ~ HasTrade(i)
           /\ StateOf(i) = "vetoed" <=> signals[i].gate \notin {"pending", "published"}
  BY DEF StateOf

\* What fills the month in the ledger is what _get_monthly_trades counts.
LEMMA SameMonth ==
    ASSUME TypeOK
    PROVE  Ledger!ThisMonth = PublishedInMonth(now)
<1>1. DOMAIN LedgerOfDesk = DOMAIN signals
  BY DEF LedgerOfDesk
<1>2. ASSUME NEW i \in DOMAIN signals
      PROVE  /\ LedgerOfDesk[i].valid <=> Cand(i).verdict = "VALID"
             /\ LedgerOfDesk[i].state = StateOf(i)
             /\ LedgerOfDesk[i].t = signals[i].t
  BY DEF LedgerOfDesk
<1>3. ASSUME NEW i \in DOMAIN signals
      PROVE  i \in Ledger!ThisMonth <=> i \in PublishedInMonth(now)
  BY <1>1, <1>2, StateIsGate DEF Ledger!ThisMonth, PublishedInMonth
<1> QED
  BY <1>1, <1>3 DEF Ledger!ThisMonth, PublishedInMonth

\* A step that keeps the signals, and which of them have a trade, is invisible.
LEMMA LedgerQuiet ==
    ASSUME UNCHANGED signals,
           \A i \in DOMAIN signals : HasTrade(i)' <=> HasTrade(i)
    PROVE  LedgerOfDesk' = LedgerOfDesk
<1>1. \A i \in DOMAIN signals : StateOf(i)' = StateOf(i)
  BY DEF StateOf
<1> QED
  BY <1>1 DEF LedgerOfDesk, Cand

\* Updating trade rows in place leaves every signal with the trade it had.
LEMMA TradesKept ==
    ASSUME DOMAIN trades' = DOMAIN trades,
           \A j \in DOMAIN trades : trades'[j].signal = trades[j].signal
    PROVE  \A i : HasTrade(i)' <=> HasTrade(i)
  BY DEF HasTrade

\* Where one row alone changes, and only in its state, so does its entry.
LEMMA LedgerBecomes ==
    ASSUME TypeOK, NEW s \in DOMAIN signals, NEW from, NEW to,
           StateOf(s) = from, StateOf(s)' = to,
           DOMAIN signals' = DOMAIN signals,
           \A i \in DOMAIN signals : /\ signals'[i].cand = signals[i].cand
                                     /\ signals'[i].t = signals[i].t
                                     /\ i # s => StateOf(i)' = StateOf(i),
           now' = now
    PROVE  Ledger!Become(s, from, to)
<1>1. LedgerOfDesk[s].state = from
  BY DEF LedgerOfDesk
<1>2. LedgerOfDesk' = [i \in DOMAIN signals |->
          [t |-> signals[i].t, valid |-> Cand(i).verdict = "VALID",
           tradable |-> Cand(i).verdict # "NO_TRADE",
           state |-> IF i = s THEN to ELSE StateOf(i)]]
  BY DEF LedgerOfDesk, Cand
<1>3. LedgerOfDesk' = [LedgerOfDesk EXCEPT ![s].state = to]
  <2> DEFINE then == [LedgerOfDesk EXCEPT ![s].state = to]
  <2>1. DOMAIN LedgerOfDesk = DOMAIN signals /\ DOMAIN then = DOMAIN signals
    BY DEF LedgerOfDesk
  <2>2. ASSUME NEW i \in DOMAIN signals, i # s
        PROVE  then[i] = LedgerOfDesk'[i]
    BY <1>2, <2>1, <2>2 DEF LedgerOfDesk
  <2>3. then[s] = [LedgerOfDesk[s] EXCEPT !.state = to]
    BY <2>1
  <2>4. LedgerOfDesk[s] = EntryOf(s)
    BY DEF LedgerOfDesk, EntryOf
  <2>5. then[s] = LedgerOfDesk'[s]
    BY <1>2, <2>3, <2>4 DEF EntryOf
  <2>6. DOMAIN LedgerOfDesk' = DOMAIN signals
    BY <1>2
  <2>7. /\ then = [i \in DOMAIN signals |-> then[i]]
        /\ LedgerOfDesk' = [i \in DOMAIN signals |-> LedgerOfDesk'[i]]
    <3>1. then = [i \in DOMAIN signals |-> then[i]]
      BY <2>1
    <3>2. LedgerOfDesk' = [i \in DOMAIN signals |-> LedgerOfDesk'[i]]
      BY <1>2, <2>6
    <3> QED
      BY <3>1, <3>2
  <2> HIDE DEF then
  <2>8. then = LedgerOfDesk'
    BY <2>2, <2>5, <2>7
  <2> QED
    BY <2>8 DEF then
<1> QED
  BY <1>1, <1>3 DEF Ledger!Become

\* _persist_result records one entry.
LEMMA LedgerPersist ==
    ASSUME Sound, NEW c \in Candidates, NEW t \in Times, OrchPersist(c, t),
           NEW n, n = Len(signals) + 1
    PROVE  Ledger!LedgerNext
<1> DEFINE row == [cand |-> c, t |-> t, gate |-> "pending"]
           entry == Ledger!Entry(t, c.verdict = "VALID", c.verdict # "NO_TRADE")
<1>1. /\ Len(signals) \in Nat /\ DOMAIN signals = 1..Len(signals)
      /\ DOMAIN signals' = 1..n
      /\ \A i \in DOMAIN signals : signals'[i] = signals[i]
      /\ signals'[n] = row
  <2>1. row \in SignalRow /\ signals \in Seq(SignalRow)
    BY DEF Sound, TypeOK, TablesOK, SignalRow
  <2>2. signals' = Append(signals, row)
    BY DEF OrchPersist
  <2> QED
    BY <2>1, <2>2, AppendProperties, LenProperties
<1>2. now' = now /\ trades' = trades /\ t <= now
  BY DEF OrchPersist
<1>3. LedgerOfDesk' = [i \in 1..n |-> IF i = n THEN entry ELSE LedgerOfDesk[i]]
  <2>1. LedgerOfDesk' = [i \in 1..n |->
            [t |-> signals'[i].t, valid |-> signals'[i].cand.verdict = "VALID",
             tradable |-> signals'[i].cand.verdict # "NO_TRADE", state |-> StateOf(i)']]
    BY <1>1 DEF LedgerOfDesk, Cand
  <2>2. StateOf(n)' = "pending"
    BY <1>1 DEF StateOf
  <2>3. \A i \in DOMAIN signals : StateOf(i)' = StateOf(i)
    BY <1>1, <1>2 DEF StateOf, HasTrade
  <2>4. ASSUME NEW i \in 1..n, i # n
        PROVE  i \in DOMAIN signals
    BY <1>1, <2>4
  <2> QED
    BY <1>1, <2>1, <2>2, <2>3, <2>4 DEF LedgerOfDesk, Cand, Ledger!Entry
<1>4. LedgerOfDesk' = Append(LedgerOfDesk, entry)
  <2>1. LedgerOfDesk \in Seq(EntryType) /\ Len(LedgerOfDesk) = Len(signals)
    BY LedgerIsSequence DEF Sound
  <2>2. Append(LedgerOfDesk, entry)
            = [i \in 1..n |-> IF i = n THEN entry ELSE LedgerOfDesk[i]]
    BY <1>1, <2>1
  <2> QED
    BY <1>3, <2>2
<1>5. Ledger!Record(t, c.verdict = "VALID", c.verdict # "NO_TRADE")
  BY <1>2, <1>4 DEF Ledger!Record
<1>6. t \in DOMAIN MonthStart
  BY CalendarAssumption
<1> QED
  BY <1>5, <1>6 DEF Ledger!LedgerNext

\* evaluate_signal's commit vetoes or publishes one entry; the count it read
\* before still leaves room.
LEMMA LedgerWrite ==
    ASSUME Sound, GateWrite, NEW s, s = gate.sig
    PROVE  Ledger!LedgerNext
<1>1. /\ gate.pc = "write" /\ s \in DOMAIN signals
      /\ now' = now /\ trades' = trades
      /\ signals' = [signals EXCEPT ![s].gate = gate.decision]
  BY Tables DEF Sound, GateWrite
<1>2. /\ DOMAIN signals' = DOMAIN signals
      /\ \A i \in DOMAIN signals : /\ signals'[i].cand = signals[i].cand
                                   /\ signals'[i].t = signals[i].t
                                   /\ i # s => signals'[i].gate = signals[i].gate
      /\ signals'[s].gate = gate.decision
  BY <1>1, Tables DEF Sound, SignalRow
<1>3. \A i \in DOMAIN signals : i # s => StateOf(i)' = StateOf(i)
  BY <1>1, <1>2 DEF StateOf, HasTrade
<1>4. signals[s].gate = "pending" /\ ~ HasTrade(s)
  BY <1>1 DEF Sound, Once, InTransit, TradeBacked, HasTrade
<1>5. StateOf(s) = "pending"
  BY <1>4 DEF StateOf
<1>6. ~ HasTrade(s)'
  BY <1>1, <1>4 DEF HasTrade
<1>7. s \in DOMAIN LedgerOfDesk
  BY <1>1 DEF LedgerOfDesk
<1>8. CASE gate.decision = "published"
  <2>1. StateOf(s)' = "published"
    BY <1>2, <1>6, <1>8 DEF StateOf
  <2>2. Ledger!Become(s, "pending", "published")
    BY <1>1, <1>2, <1>3, <1>5, <2>1, LedgerBecomes DEF Sound
  <2>3. Cardinality(Ledger!ThisMonth) < MaxMonthlyTrades
    BY <1>1, <1>8, SameMonth DEF Sound, CapRoom
  <2>4. Ledger!Publish(s)
    BY <2>2, <2>3, Zenon DEF Ledger!Publish, Ledger!Cardinality, Cardinality
  <2> QED
    BY <1>7, <2>4 DEF Ledger!LedgerNext
<1>9. CASE gate.decision # "published"
  <2>1. gate.decision # "pending"
    BY DEF Sound, TypeOK, GateOK, GateState, Vetoes
  <2>2. StateOf(s)' = "vetoed"
    BY <1>2, <1>9, <2>1 DEF StateOf
  <2>3. Ledger!Veto(s)
    BY <1>1, <1>2, <1>3, <1>5, <2>2, LedgerBecomes DEF Sound, Ledger!Veto
  <2> QED
    BY <1>7, <2>3 DEF Ledger!LedgerNext
<1> QED
  BY <1>8, <1>9

\* publish_signal proposes the entry the gate holds, or nothing.
LEMMA LedgerPublish ==
    ASSUME Sound, GatePublish, NEW s, s = gate.sig
    PROVE  Ledger!LedgerNext \/ LedgerOfDesk' = LedgerOfDesk
<1>1. gate.pc = "publish" /\ s \in DOMAIN signals /\ UNCHANGED << now, signals >>
  BY Tables DEF Sound, GatePublish
<1>2. CASE UNCHANGED trades
  <2>1. \A i \in DOMAIN signals : HasTrade(i)' <=> HasTrade(i)
    BY <1>2 DEF HasTrade
  <2> QED
    BY <1>1, <2>1, LedgerQuiet
<1>3. CASE ~ UNCHANGED trades
  <2> DEFINE row == [signal |-> s, cluster |-> gate.cluster, outcome |-> "open",
                     outcomeT |-> Never, exec |-> "null"]
             n == Len(trades) + 1
  <2>1. DeservesTrade(Cand(s).verdict) /\ trades' = Append(trades, row)
    BY <1>3 DEF GatePublish
  <2>2. /\ Len(trades) \in Nat /\ DOMAIN trades = 1..Len(trades)
        /\ DOMAIN trades' = 1..n
        /\ \A j \in DOMAIN trades : trades'[j] = trades[j]
        /\ trades'[n] = row
    <3>1. trades \in Seq(TradeRow)
      BY DEF Sound, TypeOK, TablesOK
    <3>2. row \in TradeRow
      BY <1>1, Tables DEF Sound, TypeOK, TablesOK, TradeRow, GateState, SignalIds, Outcomes,
                          Executions
    <3> QED
      BY <2>1, <3>1, <3>2, AppendProperties, LenProperties
  <2>3. row.signal = s
    OBVIOUS
  <2> HIDE DEF row
  <2>4. HasTrade(s)'
    BY <2>2, <2>3 DEF HasTrade
  <2>5. \A i \in DOMAIN signals : i # s => (HasTrade(i)' <=> HasTrade(i))
    BY <2>2, <2>3 DEF HasTrade
  <2>6. signals[s].gate = "published" /\ ~ HasTrade(s)
    BY <1>1 DEF Sound, Once, InTransit, HasTrade
  <2>7. StateOf(s) = "published"
    BY <2>6 DEF StateOf
  <2>8. StateOf(s)' = "traded"
    BY <1>1, <2>4, <2>6 DEF StateOf
  <2>9. \A i \in DOMAIN signals : i # s => StateOf(i)' = StateOf(i)
    BY <1>1, <2>5 DEF StateOf
  <2>10. Ledger!Become(s, "published", "traded")
    BY <1>1, <2>7, <2>8, <2>9, LedgerBecomes DEF Sound
  <2>11. LedgerOfDesk[s].tradable /\ s \in DOMAIN LedgerOfDesk
    BY <1>1, <2>1 DEF LedgerOfDesk, DeservesTrade
  <2> QED
    BY <2>10, <2>11 DEF Ledger!Propose, Ledger!LedgerNext
<1> QED
  BY <1>2, <1>3

\* Every step of the desk is a step of the ledger or leaves it alone.
LEMMA LedgerStep ==
    ASSUME Sound, [Next]_vars
    PROVE  [Ledger!LedgerNext]_<< now, LedgerOfDesk >>
<1> DEFINE Quiet == UNCHANGED << now, LedgerOfDesk >>
<1>1. ASSUME UNCHANGED << now, signals, trades >>
      PROVE  Quiet
  BY <1>1, LedgerQuiet DEF HasTrade
<1>2. ASSUME UNCHANGED << now, signals >>, DOMAIN trades' = DOMAIN trades,
             \A j \in DOMAIN trades : trades'[j].signal = trades[j].signal
      PROVE  Quiet
  BY <1>2, TradesKept, LedgerQuiet
<1>3. CASE Orchestrate
  <2>1. CASE OrchQueue \/ OrchDrop
    BY <1>1, <2>1 DEF OrchQueue, OrchDrop, db
  <2>2. ASSUME NEW c \in Candidates, NEW t \in Times, OrchPersist(c, t)
        PROVE  Ledger!LedgerNext
    <3>1. PICK n : n = Len(signals) + 1
      OBVIOUS
    <3> QED
      BY <2>2, <3>1, LedgerPersist
  <2> QED
    BY <1>3, <2>1, <2>2 DEF Orchestrate
<1>4. CASE GateLoop
  <2>1. CASE \/ GateTake \/ GateCool \/ GateCluster \/ GateFail
             \/ \E cond \in Conditions : GateScreen(cond)
    BY <1>1, <2>1 DEF GateTake, GateScreen, GateCool, GateCluster, GateFail, db
  <2>2. PICK s : s = gate.sig
    OBVIOUS
  <2>3. CASE GatePublish
    BY <2>2, <2>3, LedgerPublish DEF GatePublish
  <2>4. CASE GateWrite
    BY <2>2, <2>4, LedgerWrite
  <2> QED
    BY <1>4, <2>1, <2>3, <2>4 DEF GateLoop
<1>5. CASE Track
  <2>1. CASE TrackClose
    <3>1. \A j \in DOMAIN trades : trades'[j].signal = trades[j].signal
      BY <2>1, Tables DEF Sound, TrackClose, TradeRow
    <3> QED
      BY <1>2, <2>1, <3>1 DEF TrackClose
  <2>2. CASE TrackStall \/ TrackAbort \/ \E mid \in Prices : TrackRead(mid)
    BY <1>1, <2>2 DEF TrackRead, TrackStall, TrackAbort, db
  <2> QED
    BY <1>5, <2>1, <2>2 DEF Track
<1>6. ASSUME NEW k \in Clerks, Serve(k)
      PROVE  Quiet
  <2>1. CASE ClerkMark(k)
    <3>1. /\ DOMAIN trades' = DOMAIN trades
          /\ \A j \in DOMAIN trades : trades'[j].signal = trades[j].signal
      BY <2>1, Tables DEF Sound, ClerkMark, TradeRow
    <3> QED
      BY <1>2, <2>1, <3>1 DEF ClerkMark
  <2>2. CASE \/ ClerkStop(k) \/ ClerkRecompute(k) \/ ClerkSave(k) \/ ClerkFail(k)
             \/ \E i \in DOMAIN trades, mark \in Marks : ClerkPress(k, i, mark)
    BY <1>1, <2>2 DEF ClerkPress, ClerkStop, ClerkRecompute, ClerkSave, ClerkFail, db
  <2> QED
    BY <1>6, <2>1, <2>2 DEF Serve
<1>7. CASE Tick
  <2>1. now' = now + 1 /\ UNCHANGED << signals, trades >>
    BY <1>7 DEF Tick, db
  <2>2. LedgerOfDesk' = LedgerOfDesk
    BY <2>1, LedgerQuiet DEF HasTrade
  <2> QED
    BY <2>1, <2>2 DEF Ledger!Pass, Ledger!LedgerNext
<1>8. CASE Crash \/ UNCHANGED vars
  BY <1>1, <1>8 DEF Crash, vars, db
<1> QED
  BY <1>3, <1>4, <1>5, <1>6, <1>7, <1>8 DEF Next

\* The queue, the gate's stale counts, crashes and lock timeouts are invisible in
\* the tables: gate_loop as a whole is an atomic ledger of decisions.
THEOREM DeskImplementsLedger == Spec => DeskIsLedger
<1>1. Spec => []TypeOK
  BY TypeCorrect
<1>2. Spec => []Sound
  BY <1>1, CapInit, CapStep, OnceInit, OnceStep, PTL DEF Spec, Sound
<1>3. Init => Ledger!LedgerInit
  BY DEF Init, Ledger!LedgerInit, LedgerOfDesk
<1>4. Sound /\ [Next]_vars => [Ledger!LedgerNext]_<< now, LedgerOfDesk >>
  BY LedgerStep
<1> QED
  BY <1>2, <1>3, <1>4, PTL DEF Spec, DeskIsLedger, Ledger!LedgerSpec
=============================================================================
