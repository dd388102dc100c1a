--------------------------- MODULE TradeDeskOnce ---------------------------
(***************************************************************************)
(* Theorems about TradeDesk: every signal is decided at most once, a       *)
(* published one gets at most one trade, and, unless a failure is to       *)
(* blame, none is forgotten and each published plan gets its trade, across *)
(* crashes, full queues and lock timeouts.                                 *)
(***************************************************************************)
EXTENDS TradeDeskProofs

\* Where a signal is while it is pending or being published: in one place at a
\* time, and not yet behind a trade.
InTransit ==
    /\ orch # 0 => signals[orch].gate = "pending" /\ orch \notin Elems(queue)
    /\ \A p \in DOMAIN queue : signals[queue[p]].gate = "pending"
    /\ \A p, q \in DOMAIN queue : queue[p] = queue[q] => p = q
    /\ gate.pc \in {"screen", "cool", "write"} =>
           /\ signals[gate.sig].gate = "pending"
           /\ gate.sig \notin Elems(queue) /\ gate.sig # orch
    /\ gate.pc \in {"cluster", "publish"} =>
           /\ signals[gate.sig].gate = "published"
           /\ \A j \in DOMAIN trades : trades[j].signal # gate.sig

\* The gate has seen the cooling timer expired, unless it was set again since.
CoolingChecked ==
    gate.pc = "write" /\ gate.decision = "published" =>
        \/ lastStop = Never
        \/ gate.at - lastStop >= Cooling
        \/ lastStop >= gate.at

Once == TradeBacked /\ InTransit

\* The facts about the tables that the steps below use.
LEMMA Tables ==
    ASSUME TypeOK
    PROVE  /\ Len(signals) \in Nat /\ DOMAIN signals = 1..Len(signals)
           /\ \A i \in DOMAIN signals : signals[i] \in SignalRow
           /\ Len(trades) \in Nat /\ DOMAIN trades = 1..Len(trades)
           /\ \A j \in DOMAIN trades : /\ trades[j] \in TradeRow
                                     /\ trades[j].signal \in DOMAIN signals
           /\ Len(queue) \in Nat /\ DOMAIN queue = 1..Len(queue)
           /\ \A p \in DOMAIN queue : queue[p] \in DOMAIN signals
           /\ orch \in Nat /\ (orch # 0 => orch \in DOMAIN signals)
           /\ gate \in GateState /\ (gate.pc # "idle" => gate.sig \in DOMAIN signals)
<1>1. Len(signals) \in Nat /\ DOMAIN signals = 1..Len(signals)
  BY LenProperties DEF TypeOK, TablesOK
<1>2. \A i \in DOMAIN signals : signals[i] \in SignalRow
  BY <1>1, ElementOfSeq DEF TypeOK, TablesOK
<1>3. Len(trades) \in Nat /\ DOMAIN trades = 1..Len(trades)
  BY LenProperties DEF TypeOK, TablesOK
<1>4. \A j \in DOMAIN trades : trades[j] \in TradeRow /\ trades[j].signal \in DOMAIN signals
  BY <1>3, ElementOfSeq DEF TypeOK, TablesOK
<1>5. Len(queue) \in Nat /\ DOMAIN queue = 1..Len(queue)
  BY LenProperties DEF TypeOK, HandOverOK
<1>6. \A p \in DOMAIN queue : queue[p] \in DOMAIN signals
  BY <1>1, <1>5, ElementOfSeq DEF TypeOK, HandOverOK
<1>7. orch \in Nat /\ (orch # 0 => orch \in DOMAIN signals)
  BY <1>1 DEF TypeOK, HandOverOK
<1>8. gate \in GateState /\ (gate.pc # "idle" => gate.sig \in DOMAIN signals)
  BY <1>1 DEF TypeOK, GateOK
<1> QED
  BY <1>1, <1>2, <1>3, <1>4, <1>5, <1>6, <1>7, <1>8

\* A new row is in transit once: nothing else can refer to its id yet.
LEMMA OncePersist ==
    ASSUME TypeOK, Once, NEW c \in Candidates, NEW t \in Times, OrchPersist(c, t)
    PROVE  Once'
<1> DEFINE row == [cand |-> c, t |-> t, gate |-> "pending"]
           n == Len(signals) + 1
<1>1. /\ UNCHANGED << trades, queue, gate >>
      /\ orch = 0 /\ orch' = n /\ signals' = Append(signals, row)
  BY DEF OrchPersist, NextId
<1>2. row \in SignalRow /\ row.gate = "pending"
  BY DEF TypeOK, TablesOK, SignalRow
<1> HIDE DEF row
<1>3. /\ DOMAIN signals' = 1..n
      /\ \A i \in DOMAIN signals : signals'[i] = signals[i]
      /\ signals'[n] = row
      /\ n \notin DOMAIN signals /\ n # 0
  <2>1. signals \in Seq(SignalRow)
    BY DEF TypeOK, TablesOK
  <2> QED
    BY <1>1, <1>2, <2>1, Tables, AppendProperties, LenProperties
<1>4. TradeBacked'
  BY <1>1, <1>3, Tables DEF Once, TradeBacked, Cand
<1>5. n \notin Elems(queue)
  BY <1>3, Tables DEF Elems
<1>6. gate.pc # "idle" => gate.sig # n
  BY <1>3, Tables
<1>7. InTransit'
  BY <1>1, <1>2, <1>3, <1>5, <1>6, Tables DEF Once, InTransit, GateState
<1> QED
  BY <1>4, <1>7 DEF Once

\* put_nowait hands the id over without copying it.
LEMMA OnceQueue ==
    ASSUME TypeOK, Once, OrchQueue
    PROVE  Once'
<1>1. /\ UNCHANGED << signals, trades, gate >>
      /\ orch # 0 /\ orch' = 0 /\ queue' = Append(queue, orch)
  BY DEF OrchQueue, db
<1>2. /\ DOMAIN queue' = 1..(Len(queue) + 1)
      /\ \A p \in DOMAIN queue : queue'[p] = queue[p]
      /\ queue'[Len(queue) + 1] = orch
  <2>1. queue \in Seq(1..Len(signals)) /\ orch \in 1..Len(signals)
    BY <1>1, Tables DEF TypeOK, HandOverOK
  <2> QED
    BY <1>1, <2>1, Tables, AppendProperties, LenProperties
<1>3. TradeBacked'
  BY <1>1 DEF Once, TradeBacked, Cand
<1>4. \A p \in DOMAIN queue : queue[p] # orch
  BY <1>1 DEF Once, InTransit, Elems
<1>5. InTransit'
  BY <1>1, <1>2, <1>4, Tables DEF Once, InTransit, GateState, Elems
<1> QED
  BY <1>3, <1>5 DEF Once

\* The gate loop takes the id out of the queue before it works on it.
LEMMA OnceTake ==
    ASSUME TypeOK, Once, GateTake
    PROVE  Once'
<1>1. /\ UNCHANGED << signals, trades, orch >>
      /\ queue # << >> /\ queue' = Tail(queue)
      /\ gate'.pc = "screen" /\ gate'.sig = Head(queue)
  BY DEF GateTake, QueueRest, IdleGate, db
<1>2. /\ Len(queue) \in Nat \ {0}
      /\ Head(queue) = queue[1]
      /\ DOMAIN queue' = 1..(Len(queue) - 1)
      /\ \A p \in DOMAIN queue' : queue'[p] = queue[p + 1]
  <2>1. queue \in Seq(1..Len(signals))
    BY DEF TypeOK, HandOverOK
  <2> QED
    BY <1>1, <2>1, HeadTailProperties, LenProperties, EmptySeq
<1>3. TradeBacked'
  BY <1>1 DEF Once, TradeBacked, Cand
<1>4. \A p \in DOMAIN queue' : p + 1 \in DOMAIN queue /\ p + 1 # 1 /\ 1 \in DOMAIN queue
  BY <1>2, Tables
<1>5. Elems(queue') \subseteq Elems(queue) /\ Head(queue) \notin Elems(queue')
      /\ Head(queue) \in Elems(queue)
  BY <1>2, <1>4, Tables DEF Once, InTransit, Elems
<1>6. \A p, q \in DOMAIN queue' : queue'[p] = queue'[q] => p = q
  <2> SUFFICES ASSUME NEW p \in DOMAIN queue', NEW q \in DOMAIN queue',
                      queue'[p] = queue'[q]
               PROVE  p = q
    OBVIOUS
  <2>1. p + 1 = q + 1
    BY <1>2, <1>4 DEF Once, InTransit
  <2> QED
    BY <1>2, <2>1
<1>7. \A p \in DOMAIN queue' : signals[queue'[p]].gate = "pending"
  BY <1>2, <1>4 DEF Once, InTransit
<1>8. signals[Head(queue)].gate = "pending"
  BY <1>2, Tables DEF Once, InTransit
<1>9. orch # 0 => orch \notin Elems(queue') /\ orch # Head(queue)
  BY <1>5 DEF Once, InTransit
<1>10. Head(queue) # 0
  BY <1>2, Tables
<1>11. InTransit'
  BY <1>1, <1>5, <1>6, <1>7, <1>8, <1>9, <1>10 DEF Once, InTransit
<1> QED
  BY <1>3, <1>11 DEF Once

\* With the commit of its decision the signal is no longer in transit.
LEMMA OnceWrite ==
    ASSUME TypeOK, Once, GateWrite
    PROVE  Once'
<1>1. /\ UNCHANGED << trades, queue, orch >>
      /\ gate.pc = "write"
      /\ signals' = [signals EXCEPT ![gate.sig].gate = gate.decision]
      /\ \/ gate'.pc = "idle"
         \/ gate'.pc = "cluster" /\ gate'.sig = gate.sig /\ gate.decision = "published"
  BY Tables DEF GateWrite, IdleGate, GateState
<1>2. /\ DOMAIN signals' = DOMAIN signals
      /\ \A i \in DOMAIN signals : /\ signals'[i].cand = signals[i].cand
                                   /\ i # gate.sig => signals'[i] = signals[i]
      /\ signals'[gate.sig].gate = gate.decision
  BY <1>1, Tables DEF SignalRow
<1>3. /\ signals[gate.sig].gate = "pending"
      /\ gate.sig \notin Elems(queue) /\ gate.sig # orch
  BY <1>1 DEF Once, InTransit
<1>4. \A j \in DOMAIN trades : trades[j].signal # gate.sig
  BY <1>3 DEF Once, TradeBacked
<1>5. TradeBacked'
  BY <1>1, <1>2, <1>4, Tables DEF Once, TradeBacked, Cand
<1>6. \A p \in DOMAIN queue : queue[p] # gate.sig
  BY <1>3 DEF Elems
<1>7. /\ orch # 0 => signals'[orch].gate = "pending" /\ orch \notin Elems(queue)
      /\ \A p \in DOMAIN queue : signals'[queue[p]].gate = "pending"
  BY <1>2, <1>3, <1>6, Tables DEF Once, InTransit
<1>8. \A p, q \in DOMAIN queue : queue[p] = queue[q] => p = q
  BY DEF Once, InTransit
<1>9. InTransit'
  BY <1>1, <1>2, <1>4, <1>7, <1>8 DEF InTransit
<1> QED
  BY <1>5, <1>9 DEF Once

\* publish_signal writes the first trade of the signal the gate holds.
LEMMA OncePublish ==
    ASSUME TypeOK, Once, GatePublish
    PROVE  Once'
<1>1. /\ UNCHANGED << signals, queue, orch >>
      /\ gate.pc = "publish" /\ gate'.pc = "idle"
  BY DEF GatePublish, IdleGate
<1>2. /\ signals[gate.sig].gate = "published" /\ gate.sig \in DOMAIN signals
      /\ \A j \in DOMAIN trades : trades[j].signal # gate.sig
  BY <1>1, Tables DEF Once, InTransit
<1>3. InTransit'
  BY <1>1 DEF Once, InTransit
<1>4. CASE UNCHANGED trades
  BY <1>1, <1>3, <1>4 DEF Once, TradeBacked, Cand
<1>5. CASE DeservesTrade(Cand(gate.sig).verdict)
  <2> DEFINE row == [signal |-> gate.sig, cluster |-> gate.cluster, outcome |-> "open",
                     outcomeT |-> Never, exec |-> "null"]
  <2>1. trades' = Append(trades, row)
    BY <1>5 DEF GatePublish
  <2>2. row \in TradeRow /\ trades \in Seq(TradeRow)
    <3>1. gate.sig \in 1..Len(signals) /\ gate.cluster \in Nat
      BY <1>1, Tables DEF GateState
    <3>2. Len(signals) \in Nat /\ Len(signals) <= MaxSignals
      BY LenProperties DEF TypeOK, TablesOK
    <3> QED
      BY <3>1, <3>2, DeskAssumption
         DEF TradeRow, SignalIds, Outcomes, Executions, TypeOK, TablesOK
  <2>3. row.signal = gate.sig
    OBVIOUS
  <2> HIDE DEF row
  <2>4. /\ DOMAIN trades' = 1..(Len(trades) + 1)
        /\ \A j \in DOMAIN trades : trades'[j] = trades[j]
        /\ trades'[Len(trades) + 1] = row
    BY <2>1, <2>2, Tables, AppendProperties, LenProperties
  <2>5. TradeBacked'
    <3>1. ASSUME NEW j \in DOMAIN trades'
          PROVE  /\ signals[trades'[j].signal].gate = "published"
                 /\ Cand(trades'[j].signal).verdict # "NO_TRADE"
      BY <1>2, <1>5, <2>3, <2>4, Tables DEF DeservesTrade, Once, TradeBacked
    <3>2. ASSUME NEW j \in DOMAIN trades', NEW k \in DOMAIN trades',
                 trades'[k].signal = trades'[j].signal
          PROVE  k = j
      BY <1>2, <2>3, <2>4, <3>2, Tables DEF Once, TradeBacked
    <3> QED
      BY <1>1, <3>1, <3>2 DEF TradeBacked, Cand
  <2> QED
    BY <1>3, <2>5 DEF Once
<1> QED
  BY <1>4, <1>5 DEF GatePublish

\* The other steps of the gate: from one place of the loop to the next, or out.
LEMMA OnceGate ==
    ASSUME TypeOK, Once,
           UNCHANGED << signals, trades, queue, orch >>,
           \/ gate' = gate
           \/ gate'.pc = "idle"
           \/ /\ gate'.sig = gate.sig
              /\ \/ gate.pc \in {"screen", "cool"} /\ gate'.pc \in {"cool", "write"}
                 \/ gate.pc = "cluster" /\ gate'.pc = "publish"
    PROVE  Once'
<1>1. TradeBacked'
  BY DEF Once, TradeBacked, Cand
<1>2. InTransit'
  BY DEF Once, InTransit
<1> QED
  BY <1>1, <1>2 DEF Once

\* Losing an id, in a full queue or in a crash, repeats nothing.
LEMMA OnceDrop ==
    ASSUME TypeOK, Once,
           UNCHANGED << signals, trades >>, orch' = 0,
           \/ UNCHANGED << queue, gate >>
           \/ queue' = << >> /\ gate'.pc = "idle"
    PROVE  Once'
<1>1. TradeBacked'
  BY DEF Once, TradeBacked, Cand
<1>2. InTransit'
  <2>1. CASE UNCHANGED << queue, gate >>
    BY <2>1, Tables DEF Once, InTransit, GateState
  <2>2. CASE queue' = << >> /\ gate'.pc = "idle"
    BY <2>2, EmptySeq DEF InTransit, Elems
  <2> QED
    BY <2>1, <2>2
<1> QED
  BY <1>1, <1>2 DEF Once

\* Whoever updates trade rows keeps their signals.
LEMMA OnceTrades ==
    ASSUME TypeOK, Once,
           UNCHANGED << signals, queue, orch, gate >>,
           DOMAIN trades' = DOMAIN trades,
           \A j \in DOMAIN trades : trades'[j].signal = trades[j].signal
    PROVE  Once'
<1>1. TradeBacked'
  BY DEF Once, TradeBacked, Cand
<1>2. InTransit'
  BY DEF Once, InTransit
<1> QED
  BY <1>1, <1>2 DEF Once

\* Every step keeps each signal in transit, and in trade, at most once.
LEMMA OnceStep == TypeOK /\ Once /\ [Next]_vars => Once'
<1> SUFFICES ASSUME TypeOK, Once, [Next]_vars
             PROVE  Once'
  OBVIOUS
<1>1. CASE Orchestrate
  <2>1. CASE OrchDrop
    BY <2>1, OnceDrop DEF OrchDrop, db
  <2> QED
    BY <1>1, <2>1, OncePersist, OnceQueue DEF Orchestrate
<1>2. CASE GateLoop
  <2>1. ASSUME NEW cond \in Conditions, GateScreen(cond)
        PROVE  Once'
    <3>1. /\ UNCHANGED << signals, trades, queue, orch >>
          /\ gate.pc = "screen"
      BY <2>1 DEF GateScreen, db
    <3>2. \/ gate' = [gate EXCEPT !.pc = "cool"]
          \/ \E v : gate' = [gate EXCEPT !.pc = "write", !.decision = v]
      BY <2>1, Zenon DEF GateScreen
    <3>3. gate'.sig = gate.sig /\ gate'.pc \in {"cool", "write"}
      BY <3>2, Tables DEF GateState
    <3> QED
      BY <3>1, <3>3, OnceGate
  <2>2. CASE GateCool
    <3>1. gate.pc = "cool" /\ gate'.sig = gate.sig /\ gate'.pc = "write"
      BY <2>2, Tables DEF GateCool, GateState
    <3>2. UNCHANGED << signals, trades, queue, orch >>
      BY <2>2 DEF GateCool, db
    <3> QED
      BY <3>1, <3>2, OnceGate
  <2>3. CASE GateCluster
    <3>1. UNCHANGED << signals, trades, queue, orch >> /\ gate.pc = "cluster"
      BY <2>3 DEF GateCluster
    <3>2. \/ gate' = [gate EXCEPT !.pc = "publish"]
          \/ gate' = [gate EXCEPT !.pc = "publish", !.cluster = Len(clusters) + 1]
      BY <2>3, Zenon DEF GateCluster
    <3>3. gate'.sig = gate.sig /\ gate'.pc = "publish"
      BY <3>2, Tables DEF GateState
    <3> QED
      BY <3>1, <3>3, OnceGate
  <2>4. CASE GateFail
    BY <2>4, OnceGate DEF GateFail, IdleGate, db
  <2> QED
    BY <1>2, <2>1, <2>2, <2>3, <2>4, OnceTake, OnceWrite, OncePublish DEF GateLoop
<1>3. CASE Track
  <2>1. CASE TrackClose
    <3>1. \A j \in DOMAIN trades : trades'[j].signal = trades[j].signal
      BY <2>1, Tables DEF TrackClose, TradeRow
    <3>2. DOMAIN trades' = DOMAIN trades
      BY <2>1 DEF TrackClose
    <3> QED
      BY <2>1, <3>1, <3>2, OnceTrades DEF TrackClose
  <2>2. CASE TrackStall \/ TrackAbort \/ \E mid \in Prices : TrackRead(mid)
    <3>1. UNCHANGED << signals, trades, queue, orch, gate >>
      BY <2>2 DEF TrackRead, TrackStall, TrackAbort, db
    <3> QED
      BY <3>1, OnceGate
  <2> QED
    BY <1>3, <2>1, <2>2 DEF Track
<1>4. ASSUME NEW k \in Clerks, Serve(k)
      PROVE  Once'
  <2>1. CASE ClerkMark(k)
    <3>1. /\ DOMAIN trades' = DOMAIN trades
          /\ \A j \in DOMAIN trades : trades'[j].signal = trades[j].signal
      BY <2>1, Tables DEF ClerkMark, TradeRow
    <3> QED
      BY <2>1, <3>1, OnceTrades DEF ClerkMark
  <2>2. CASE \/ ClerkStop(k) \/ ClerkRecompute(k) \/ ClerkSave(k) \/ ClerkFail(k)
             \/ \E i \in DOMAIN trades, mark \in Marks : ClerkPress(k, i, mark)
    <3>1. UNCHANGED << signals, trades, queue, orch, gate >>
      BY <2>2 DEF ClerkPress, ClerkStop, ClerkRecompute, ClerkSave, ClerkFail, db
    <3> QED
      BY <3>1, OnceGate
  <2> QED
    BY <1>4, <2>1, <2>2 DEF Serve
<1>5. CASE Tick
  BY <1>5, OnceGate DEF Tick, db
<1>6. CASE Crash
  BY <1>6, OnceDrop DEF Crash, IdleGate, db
<1>7. CASE UNCHANGED vars
  BY <1>7, OnceGate DEF vars, db
<1> QED
  BY <1>1, <1>2, <1>3, <1>4, <1>5, <1>6, <1>7 DEF Next

\* Nothing is in transit at start-up.
LEMMA OnceInit == Init => Once
<1> SUFFICES ASSUME Init
             PROVE  Once
  OBVIOUS
<1>1. orch = 0 /\ gate.pc = "idle" /\ DOMAIN queue = {} /\ DOMAIN trades = {}
  BY DEF Init, IdleGate
<1> QED
  BY <1>1 DEF Once, TradeBacked, InTransit

\* publish_signal never acts twice on a signal, nor on one the gate stopped:
\* whatever is lost in a crash or a lock timeout, nothing is repeated.
THEOREM TradeBackedHolds == Spec => []TradeBacked
<1>1. Spec => []TypeOK
  BY TypeCorrect
<1>2. Spec => []Once
  BY <1>1, OnceInit, OnceStep, PTL DEF Spec
<1>3. Once => TradeBacked
  BY DEF Once
<1> QED
  BY <1>2, <1>3, PTL

-----------------------------------------------------------------------------
(* Action properties.                                                       *)

\* Two steps write the signals table, each in its own way.
LEMMA SignalsChange ==
    ASSUME TypeOK, [Next]_vars
    PROVE  \/ UNCHANGED signals
           \/ \A i \in DOMAIN signals : signals'[i] = signals[i]
           \/ /\ GateWrite
              /\ \A i \in DOMAIN signals : i # gate.sig => signals'[i] = signals[i]
              /\ signals'[gate.sig].gate = gate.decision
<1>1. ASSUME NEW c \in Candidates, NEW t \in Times, OrchPersist(c, t)
      PROVE  \A i \in DOMAIN signals : signals'[i] = signals[i]
  <2> DEFINE row == [cand |-> c, t |-> t, gate |-> "pending"]
  <2>1. row \in SignalRow /\ signals \in Seq(SignalRow)
    BY DEF TypeOK, TablesOK, SignalRow
  <2>2. signals' = Append(signals, row)
    BY <1>1 DEF OrchPersist
  <2> HIDE DEF row
  <2> QED
    BY <2>1, <2>2, Tables, AppendProperties
<1>2. CASE GateWrite
  <2>1. gate.sig \in DOMAIN signals
    BY <1>2, Tables DEF GateWrite
  <2> QED
    BY <1>2, <2>1, Tables DEF GateWrite, SignalRow
<1>3. CASE OrchQueue \/ OrchDrop
  BY <1>3 DEF OrchQueue, OrchDrop, db
<1>4. CASE \/ GateTake \/ GateCool \/ GateCluster \/ GatePublish \/ GateFail
           \/ \E cond \in Conditions : GateScreen(cond)
  BY <1>4 DEF GateTake, GateScreen, GateCool, GateCluster, GatePublish, GateFail, db
<1>5. CASE Track
  BY <1>5 DEF Track, TrackRead, TrackClose, TrackStall, TrackAbort, db
<1>6. CASE \E k \in Clerks : Serve(k)
  BY <1>6 DEF Serve, ClerkPress, ClerkMark, ClerkStop, ClerkRecompute, ClerkSave, ClerkFail, db
<1>7. CASE Tick \/ Crash \/ UNCHANGED vars
  BY <1>7 DEF Tick, Crash, vars, db
<1> QED
  BY <1>1, <1>2, <1>3, <1>4, <1>5, <1>6, <1>7 DEF Next, Orchestrate, GateLoop

\* The gate only writes signals that are still in transit, hence pending.
LEMMA DecidedStep ==
    ASSUME TypeOK, Once, [Next]_vars
    PROVE  \A i \in DOMAIN signals :
               signals[i].gate # "pending" => signals'[i] = signals[i]
<1>1. CASE GateWrite
  <2>1. signals[gate.sig].gate = "pending"
    BY <1>1 DEF GateWrite, Once, InTransit
  <2> QED
    BY <2>1, SignalsChange
<1> QED
  BY <1>1, SignalsChange

\* evaluate_signal's verdict on a signal is final: no restart, retry or second
\* delivery decides it again.
THEOREM DecidedOnceHolds == Spec => DecidedOnce
<1>1. Spec => []TypeOK
  BY TypeCorrect
<1>2. Spec => []Once
  BY <1>1, OnceInit, OnceStep, PTL DEF Spec
<1>3. TypeOK /\ Once /\ [Next]_vars =>
          [\A i \in DOMAIN signals :
              signals[i].gate # "pending" => signals'[i] = signals[i]]_vars
  BY DecidedStep
<1> QED
  BY <1>1, <1>2, <1>3, PTL DEF Spec, DecidedOnce

\* Nothing but a request that sets the timer to the present touches it while the
\* gate is between its check and its commit.
LEMMA CoolingStep ==
    ASSUME TypeOK, CoolingChecked, [Next]_vars
    PROVE  CoolingChecked'
<1>1. CASE UNCHANGED << gate, lastStop >>
  BY <1>1 DEF CoolingChecked
<1>2. CASE gate'.pc # "write"
  BY <1>2 DEF CoolingChecked
<1>3. ASSUME NEW cond \in Conditions, GateScreen(cond)
      PROVE  CoolingChecked'
  <2> DEFINE v == FirstVeto(Cand(gate.sig), cond, Cardinality(LossesToday(gate.at)),
                            Cardinality(PublishedInMonth(gate.at)))
  <2>1. CASE gate' = [gate EXCEPT !.pc = "cool"]
    BY <2>1, Tables DEF GateState, CoolingChecked
  <2>2. CASE ~ Passes(Cand(gate.sig), cond, Cardinality(LossesToday(gate.at)),
                      Cardinality(PublishedInMonth(gate.at)))
    <3>1. v \in Vetoes
      BY <2>2, FirstVetoIsVeto
    <3>2. gate' = [gate EXCEPT !.pc = "write", !.decision = v]
      BY <1>3, <2>2, Zenon DEF GateScreen
    <3> HIDE DEF v
    <3>3. gate'.decision # "published"
      BY <3>1, <3>2, Tables DEF GateState, Vetoes
    <3> QED
      BY <3>3 DEF CoolingChecked
  <2> QED
    BY <1>3, <2>1, <2>2, Zenon DEF GateScreen
<1>4. CASE GateCool
  <2>1. lastStop' = lastStop /\ gate'.at = gate.at
    BY <1>4, Tables DEF GateCool, GateState, db
  <2>2. CASE InCooling(gate.at, lastStop)
    <3>1. gate'.decision = "cooling"
      BY <1>4, <2>2, Tables DEF GateCool, GateState
    <3> QED
      BY <3>1 DEF CoolingChecked
  <2>3. CASE ~ InCooling(gate.at, lastStop)
    <3>1. lastStop = Never \/ ~ (gate.at - lastStop < Cooling)
      BY <2>3 DEF InCooling
    <3>2. gate.at \in Int /\ lastStop \in Int /\ Cooling \in Int
      BY GateAssumption, DeskAssumption, Tables DEF GateState, TypeOK, TablesOK, Times, Never
    <3>3. lastStop = Never \/ gate.at - lastStop >= Cooling
      BY <3>1, <3>2
    <3> QED
      BY <2>1, <3>3 DEF CoolingChecked
  <2> QED
    BY <2>2, <2>3
<1>5. ASSUME NEW k \in Clerks, ClerkStop(k)
      PROVE  CoolingChecked'
  <2>1. lastStop' = now /\ gate' = gate
    BY <1>5 DEF ClerkStop
  <2>2. now >= gate.at
    BY Tables, DeskAssumption DEF TypeOK, TablesOK, GateOK, GateState, Times
  <2> QED
    BY <2>1, <2>2 DEF CoolingChecked
<1>6. CASE GateTake \/ GateWrite \/ GatePublish \/ GateFail \/ Crash
  <2>1. gate'.pc # "write"
    <3>1. CASE GateWrite
      <4>1. gate \in GateState
        BY Tables
      <4>2. gate' = [gate EXCEPT !.pc = "cluster"] \/ gate' = IdleGate
        BY <3>1, Zenon DEF GateWrite
      <4> QED
        BY <4>1, <4>2 DEF GateState, IdleGate
    <3>2. CASE GateTake
      BY <3>2 DEF GateTake, IdleGate
    <3>3. CASE GatePublish \/ GateFail \/ Crash
      <4>1. gate' = IdleGate
        BY <3>3 DEF GatePublish, GateFail, Crash
      <4> QED
        BY <4>1 DEF IdleGate
    <3> QED
      BY <1>6, <3>1, <3>2, <3>3
  <2> QED
    BY <1>2, <2>1
<1>7. CASE GateCluster
  <2>1. \/ gate' = [gate EXCEPT !.pc = "publish"]
        \/ gate' = [gate EXCEPT !.pc = "publish", !.cluster = Len(clusters) + 1]
    BY <1>7, Zenon DEF GateCluster
  <2>2. gate'.pc # "write"
    BY <2>1, Tables DEF GateState
  <2> QED
    BY <1>2, <2>2
<1>8. CASE Orchestrate \/ Track \/ Tick \/ UNCHANGED vars
  <2>1. UNCHANGED << gate, lastStop >>
    BY <1>8 DEF Orchestrate, OrchPersist, OrchQueue, OrchDrop,
                Track, TrackRead, TrackClose, TrackStall, TrackAbort, Tick, vars, db
  <2> QED
    BY <1>1, <2>1
<1>9. ASSUME NEW k \in Clerks, Serve(k)
      PROVE  CoolingChecked'
  <2>1. CASE ~ ClerkStop(k)
    <3>1. UNCHANGED << gate, lastStop >>
      BY <1>9, <2>1
         DEF Serve, ClerkPress, ClerkMark, ClerkRecompute, ClerkSave, ClerkFail, db
    <3> QED
      BY <1>1, <3>1
  <2> QED
    BY <1>5, <2>1
<1> QED
  BY <1>3, <1>4, <1>6, <1>7, <1>8, <1>9 DEF Next, GateLoop

\* Veto 8 is kept whatever the dashboard does to the timer during an evaluation.
THEOREM CoolingHonouredHolds == Spec => CoolingHonoured
<1>1. Spec => []TypeOK
  BY TypeCorrect
<1>2. Init => CoolingChecked
  BY DEF Init, IdleGate, CoolingChecked
<1>3. TypeOK /\ CoolingChecked /\ [Next]_vars => CoolingChecked'
  BY CoolingStep
<1>4. Spec => []CoolingChecked
  BY <1>1, <1>2, <1>3, PTL DEF Spec
<1>5. ASSUME TypeOK, CoolingChecked, [Next]_vars, NEW i \in DOMAIN signals, Publishes(i)
      PROVE  \/ lastStop = Never
             \/ gate.at - lastStop >= Cooling
             \/ lastStop >= gate.at
  <2>1. GateWrite /\ gate.decision = "published"
    BY <1>5, SignalsChange DEF Publishes
  <2> QED
    BY <1>5, <2>1 DEF CoolingChecked, GateWrite
<1>6. TypeOK /\ CoolingChecked /\ [Next]_vars =>
          [\A i \in DOMAIN signals :
              Publishes(i) =>
                  \/ lastStop = Never
                  \/ gate.at - lastStop >= Cooling
                  \/ lastStop >= gate.at]_vars
  BY <1>5
<1> QED
  BY <1>1, <1>4, <1>6, PTL DEF Spec, CoolingHonoured
-----------------------------------------------------------------------------
(* Delivery: as long as nothing fails, nothing is lost between the           *)
(* orchestrator's commit and the publisher's.                                *)

\* Where a pending signal may be, and how a published one is accounted for.
Located(i) == i = orch \/ i \in Elems(queue) \/ (gate.pc # "idle" /\ gate.sig = i)

Backed(i) == \/ \E j \in DOMAIN trades : trades[j].signal = i
             \/ gate.pc \in {"cluster", "publish"} /\ gate.sig = i

Delivered(i) == /\ signals[i].gate = "pending" => Located(i)
                /\ signals[i].gate = "published" /\ Cand(i).verdict # "NO_TRADE" => Backed(i)

AllDelivered == faults = 0 => \A i \in DOMAIN signals : Delivered(i)

\* The two properties are what AllDelivered says of pending and published rows.
LEMMA DeliveredMeans == AllDelivered <=> NoneForgotten /\ PublishedHasTrade
  BY DEF AllDelivered, Delivered, Located, Backed, NoneForgotten, PublishedHasTrade

\* Steps that keep the signals and whatever accounts for each of them.
LEMMA DeliveryQuiet ==
    ASSUME \A i \in DOMAIN signals : Delivered(i),
           UNCHANGED << signals, orch, queue >>,
           \A i \in DOMAIN signals :
               (\E j \in DOMAIN trades : trades[j].signal = i)
                   => \E j \in DOMAIN trades' : trades'[j].signal = i,
           gate.pc # "idle" => gate'.pc # "idle" /\ gate'.sig = gate.sig,
           gate.pc \in {"cluster", "publish"} => gate'.pc \in {"cluster", "publish"}
    PROVE  \A i \in DOMAIN signals' : Delivered(i)'
  BY DEF Delivered, Located, Backed, Cand

\* A signal that was just stored is with the orchestrator.
LEMMA DeliveryPersist ==
    ASSUME TypeOK, \A i \in DOMAIN signals : Delivered(i),
           NEW c \in Candidates, NEW t \in Times, OrchPersist(c, t)
    PROVE  \A i \in DOMAIN signals' : Delivered(i)'
<1> DEFINE row == [cand |-> c, t |-> t, gate |-> "pending"]
           n == Len(signals) + 1
<1>1. /\ UNCHANGED << trades, queue, gate >>
      /\ orch = 0 /\ orch' = n /\ signals' = Append(signals, row)
  BY DEF OrchPersist, NextId
<1>2. row \in SignalRow /\ row.gate = "pending"
  BY DEF TypeOK, TablesOK, SignalRow
<1> HIDE DEF row
<1>3. /\ DOMAIN signals' = 1..n
      /\ \A i \in DOMAIN signals : signals'[i] = signals[i]
      /\ signals'[n] = row
      /\ \A i \in 1..n : i # n => i \in DOMAIN signals /\ i # 0
  <2>1. signals \in Seq(SignalRow)
    BY DEF TypeOK, TablesOK
  <2> QED
    BY <1>1, <1>2, <2>1, Tables, AppendProperties, LenProperties
<1>4. ASSUME NEW i \in DOMAIN signals', i # n
      PROVE  Delivered(i)'
  <2>1. Delivered(i) /\ i # orch /\ signals'[i] = signals[i]
    BY <1>1, <1>3, <1>4
  <2> QED
    BY <1>1, <2>1 DEF Delivered, Located, Backed, Cand
<1>5. ASSUME NEW i \in DOMAIN signals', i = n
      PROVE  Delivered(i)'
  BY <1>1, <1>2, <1>3, <1>5 DEF Delivered, Located
<1> QED
  BY <1>4, <1>5

\* put_nowait and get move an id on; every other stays where it is.
LEMMA DeliveryQueue ==
    ASSUME TypeOK, \A i \in DOMAIN signals : Delivered(i), OrchQueue \/ GateTake
    PROVE  \A i \in DOMAIN signals' : Delivered(i)'
<1>1. CASE OrchQueue
  <2>1. /\ UNCHANGED << signals, trades, gate >>
        /\ orch # 0 /\ orch' = 0 /\ queue' = Append(queue, orch)
    BY <1>1 DEF OrchQueue, db
  <2>2. Elems(queue') = Elems(queue) \cup {orch}
    <3>1. queue \in Seq(1..Len(signals)) /\ orch \in 1..Len(signals)
      BY <2>1, Tables DEF TypeOK, HandOverOK
    <3>2. /\ DOMAIN queue' = 1..(Len(queue) + 1)
          /\ \A p \in DOMAIN queue : queue'[p] = queue[p]
          /\ queue'[Len(queue) + 1] = orch
      BY <2>1, <3>1, Tables, AppendProperties, LenProperties
    <3> QED
      BY <3>2, Tables DEF Elems
  <2> QED
    BY <2>1, <2>2 DEF Delivered, Located, Backed, Cand
<1>2. CASE GateTake
  <2>1. /\ UNCHANGED << signals, trades, orch >> /\ gate.pc = "idle"
        /\ queue # << >> /\ queue' = Tail(queue)
        /\ gate'.pc = "screen" /\ gate'.sig = Head(queue)
    BY <1>2 DEF GateTake, QueueRest, IdleGate, db
  <2>2. Elems(queue) \subseteq Elems(queue') \cup {Head(queue)}
    <3>1. queue \in Seq(1..Len(signals))
      BY DEF TypeOK, HandOverOK
    <3>2. /\ Len(queue) \in Nat \ {0} /\ DOMAIN queue = 1..Len(queue)
          /\ Head(queue) = queue[1]
          /\ DOMAIN queue' = 1..(Len(queue) - 1)
          /\ \A p \in DOMAIN queue' : queue'[p] = queue[p + 1]
      BY <2>1, <3>1, HeadTailProperties, LenProperties, EmptySeq
    <3>3. ASSUME NEW p \in DOMAIN queue, p # 1
          PROVE  p - 1 \in DOMAIN queue' /\ queue'[p - 1] = queue[p]
      BY <3>2, <3>3
    <3> QED
      BY <3>2, <3>3 DEF Elems
  <2> QED
    BY <2>1, <2>2 DEF Delivered, Located, Backed, Cand
<1> QED
  BY <1>1, <1>2

\* The commit of the decision: vetoed rows need no account, a published one is
\* with the gate until publish_signal has written its trade.
LEMMA DeliveryWrite ==
    ASSUME TypeOK, \A i \in DOMAIN signals : Delivered(i), GateWrite
    PROVE  \A i \in DOMAIN signals' : Delivered(i)'
<1>1. /\ UNCHANGED << trades, queue, orch >>
      /\ gate.pc = "write" /\ gate.sig \in DOMAIN signals
      /\ signals' = [signals EXCEPT ![gate.sig].gate = gate.decision]
      /\ gate.decision = "published" => gate'.pc = "cluster" /\ gate'.sig = gate.sig
  BY Tables DEF GateWrite, GateState
<1>2. /\ DOMAIN signals' = DOMAIN signals
      /\ \A i \in DOMAIN signals : /\ signals'[i].cand = signals[i].cand
                                   /\ i # gate.sig => signals'[i] = signals[i]
      /\ signals'[gate.sig].gate = gate.decision
  BY <1>1, Tables DEF SignalRow
<1>3. gate.decision # "pending"
  BY <1>1 DEF TypeOK, GateOK, GateState, Vetoes
<1>4. ASSUME NEW i \in DOMAIN signals, i # gate.sig
      PROVE  Delivered(i)'
  <2>1. Delivered(i) /\ signals'[i] = signals[i]
    BY <1>2, <1>4
  <2> QED
    BY <1>1, <1>4, <2>1 DEF Delivered, Located, Backed, Cand
<1>5. ASSUME NEW i \in DOMAIN signals, i = gate.sig
      PROVE  Delivered(i)'
  <2>1. signals'[i].gate = gate.decision
    BY <1>2, <1>5
  <2> QED
    BY <1>1, <1>3, <1>5, <2>1 DEF Delivered, Backed
<1> QED
  BY <1>2, <1>4, <1>5

\* publish_signal leaves no published signal that deserves a trade without one.
LEMMA DeliveryPublish ==
    ASSUME TypeOK, Once, \A i \in DOMAIN signals : Delivered(i), GatePublish
    PROVE  \A i \in DOMAIN signals' : Delivered(i)'
<1>1. /\ UNCHANGED << signals, queue, orch >>
      /\ gate.pc = "publish" /\ gate.sig \in DOMAIN signals
      /\ signals[gate.sig].gate = "published"
  BY Tables DEF GatePublish, Once, InTransit
<1>2. CASE ~ DeservesTrade(Cand(gate.sig).verdict)
  <2>1. UNCHANGED trades
    BY <1>2 DEF GatePublish
  <2> QED
    BY <1>1, <1>2, <2>1 DEF Delivered, Located, Backed, Cand, DeservesTrade
<1>3. CASE DeservesTrade(Cand(gate.sig).verdict)
  <2> DEFINE row == [signal |-> gate.sig, cluster |-> gate.cluster, outcome |-> "open",
                     outcomeT |-> Never, exec |-> "null"]
  <2>1. trades' = Append(trades, row)
    BY <1>3 DEF GatePublish
  <2>2. row \in TradeRow /\ trades \in Seq(TradeRow)
    <3>1. gate.sig \in 1..Len(signals) /\ gate.cluster \in Nat
      BY <1>1, Tables DEF GateState
    <3>2. Len(signals) \in Nat /\ Len(signals) <= MaxSignals
      BY LenProperties DEF TypeOK, TablesOK
    <3> QED
      BY <3>1, <3>2, DeskAssumption
         DEF TradeRow, SignalIds, Outcomes, Executions, TypeOK, TablesOK
  <2>3. row.signal = gate.sig
    OBVIOUS
  <2> HIDE DEF row
  <2>4. /\ DOMAIN trades \subseteq DOMAIN trades'
        /\ \A j \in DOMAIN trades : trades'[j] = trades[j]
        /\ Len(trades) + 1 \in DOMAIN trades' /\ trades'[Len(trades) + 1] = row
    BY <2>1, <2>2, Tables, AppendProperties, LenProperties
  <2>5. ASSUME NEW i \in DOMAIN signals
        PROVE  Delivered(i)'
    BY <1>1, <2>3, <2>4 DEF Delivered, Located, Backed, Cand
  <2> QED
    BY <1>1, <2>5
<1> QED
  BY <1>2, <1>3

\* Every step that is not a failure keeps every signal accounted for.
LEMMA DeliveryStep == TypeOK /\ Once /\ AllDelivered /\ [Next]_vars => AllDelivered'
<1> SUFFICES ASSUME TypeOK, Once, AllDelivered, [Next]_vars, faults' = 0
             PROVE  \A i \in DOMAIN signals' : Delivered(i)'
  BY DEF AllDelivered
<1> DEFINE All == \A i \in DOMAIN signals : Delivered(i)
<1>1. faults \in Nat /\ ~ Fault
  BY DeskAssumption DEF Fault, TypeOK, TablesOK
<1>2. ~ OrchDrop /\ ~ GateFail /\ ~ Crash /\ \A k \in Clerks : ~ ClerkFail(k)
  BY <1>1 DEF OrchDrop, GateFail, Crash, ClerkFail
<1>3. faults' = faults
  BY <1>2 DEF Next, Orchestrate, OrchPersist, OrchQueue, GateLoop, GateTake, GateScreen,
              GateCool, GateWrite, GateCluster, GatePublish, Track, TrackRead, TrackClose,
              TrackStall, TrackAbort, Serve, ClerkPress, ClerkMark, ClerkStop,
              ClerkRecompute, ClerkSave, Tick, vars
<1>4. All
  BY <1>3 DEF AllDelivered
<1>5. CASE Orchestrate
  BY <1>2, <1>4, <1>5, DeliveryPersist, DeliveryQueue DEF Orchestrate
<1>6. CASE GateLoop
  <2>1. ASSUME NEW cond \in Conditions, GateScreen(cond)
        PROVE  All'
    <3>1. UNCHANGED << signals, trades, queue, orch >> /\ gate.pc = "screen"
      BY <2>1 DEF GateScreen, db
    <3>2. \/ gate' = [gate EXCEPT !.pc = "cool"]
          \/ \E v : gate' = [gate EXCEPT !.pc = "write", !.decision = v]
      BY <2>1, Zenon DEF GateScreen
    <3>3. gate'.sig = gate.sig /\ gate'.pc # "idle"
      BY <3>2, Tables DEF GateState
    <3> QED
      BY <1>4, <3>1, <3>3, DeliveryQuiet
  <2>2. CASE GateCool
    <3>1. UNCHANGED << signals, trades, queue, orch >> /\ gate.pc = "cool"
          /\ gate'.sig = gate.sig /\ gate'.pc = "write"
      BY <2>2, Tables DEF GateCool, GateState, db
    <3> QED
      BY <1>4, <3>1, DeliveryQuiet
  <2>3. CASE GateCluster
    <3>1. UNCHANGED << signals, trades, queue, orch >>
      BY <2>3 DEF GateCluster
    <3>2. \/ gate' = [gate EXCEPT !.pc = "publish"]
          \/ gate' = [gate EXCEPT !.pc = "publish", !.cluster = Len(clusters) + 1]
      BY <2>3, Zenon DEF GateCluster
    <3>3. gate'.sig = gate.sig /\ gate'.pc = "publish"
      BY <3>2, Tables DEF GateState
    <3> QED
      BY <1>4, <3>1, <3>3, DeliveryQuiet
  <2> QED
    BY <1>2, <1>4, <1>6, <2>1, <2>2, <2>3, DeliveryQueue, DeliveryWrite, DeliveryPublish
       DEF GateLoop
<1>7. CASE Track
  <2>1. UNCHANGED << signals, queue, orch, gate >>
    BY <1>7 DEF Track, TrackRead, TrackClose, TrackStall, TrackAbort, db
  <2>2. /\ DOMAIN trades' = DOMAIN trades
        /\ \A j \in DOMAIN trades : trades'[j].signal = trades[j].signal
    BY <1>7, Tables DEF Track, TrackRead, TrackClose, TrackStall, TrackAbort, db, TradeRow
  <2> QED
    BY <1>4, <2>1, <2>2, DeliveryQuiet
<1>8. ASSUME NEW k \in Clerks, Serve(k)
      PROVE  All'
  <2>1. UNCHANGED << signals, queue, orch, gate >>
    BY <1>8 DEF Serve, ClerkPress, ClerkMark, ClerkStop, ClerkRecompute, ClerkSave,
                ClerkFail, db
  <2>2. /\ DOMAIN trades' = DOMAIN trades
        /\ \A j \in DOMAIN trades : trades'[j].signal = trades[j].signal
    <3>1. CASE ClerkMark(k)
      BY <3>1, Tables DEF ClerkMark, TradeRow
    <3>2. CASE ~ ClerkMark(k)
      BY <1>8, <3>2 DEF Serve, ClerkPress, ClerkStop, ClerkRecompute, ClerkSave,
                        ClerkFail, db
    <3> QED
      BY <3>1, <3>2
  <2> QED
    BY <1>4, <2>1, <2>2, DeliveryQuiet
<1>9. CASE Tick \/ UNCHANGED vars
  <2>1. UNCHANGED << signals, trades, queue, orch, gate >>
    BY <1>9 DEF Tick, vars, db
  <2> QED
    BY <1>4, <2>1, DeliveryQuiet
<1> QED
  BY <1>2, <1>5, <1>6, <1>7, <1>8, <1>9 DEF Next

\* Nothing is stored at start-up, so nothing is missing.
LEMMA DeliveryAlways == Spec => []AllDelivered
<1>1. Spec => []TypeOK
  BY TypeCorrect
<1>2. Init => AllDelivered
  BY DEF Init, AllDelivered
<1> QED
  BY <1>1, <1>2, OnceInit, OnceStep, DeliveryStep, PTL DEF Spec

\* While nothing fails, a pending signal is on its way: neither the executor
\* thread nor the queue nor the gate loop loses one.
THEOREM NoneForgottenHolds == Spec => []NoneForgotten
  BY DeliveryAlways, DeliveredMeans, PTL

\* While nothing fails, gate and publisher agree although they commit apart.
THEOREM PublishedHasTradeHolds == Spec => []PublishedHasTrade
  BY DeliveryAlways, DeliveredMeans, PTL
=============================================================================
