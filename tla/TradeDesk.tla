----------------------------- MODULE TradeDesk -----------------------------
(***************************************************************************)
(* The path of a signal through the engine, and of a trade through its     *)
(* life: the strategy orchestrator's executor thread persists a strategy   *)
(* result and queues it; the gate loop (app/main.py) takes it, evaluates   *)
(* it, clusters it and publishes it as a trade; the tracker job closes     *)
(* trades against the live price; dashboard requests record outcomes.      *)
(* They share one SQLite database.  A transaction is one step: Python's    *)
(* sqlite3 opens it at the first write, and it needs the write lock.  A    *)
(* SELECT outside it is a step of its own.  The one transaction that is    *)
(* held across steps is the tracker's, see TrackStall.                     *)
(***************************************************************************)
EXTENDS GateRules, Clustering

CONSTANTS Candidates,   \* the strategy results the orchestrator may persist
          Conditions,   \* the conditions a gate evaluation may meet
          Prices,       \* the (non-zero) mid prices a tracker pass may see
          Clerks,       \* concurrent dashboard requests
          Marks,        \* << outcome, execution_status >> the buttons post
          DayStart,     \* minute |-> first minute of its IST day
          MonthStart,   \* minute |-> first minute of its IST month
          WindowCap,    \* signals kept for clustering (50 in main.py)
          QueueCap,     \* maxsize of signal_q (500 in main.py)
          MaxLag,       \* minutes a tick may have waited for its evaluation
          MaxNow, MaxSignals, MaxFaults   \* bounds of the instance

Outcomes == {"open", "tp1_hit", "tp2_hit", "sl_hit", "manual_close"}

\* "null" is SQL NULL: the column's default, and what the tracker writes.
Executions == {"null", "taken", "skipped"}

Times == 0..MaxNow

\* A StrategyResult.  tp1 = 0 stands for "no trade parameters", tp2 = 0 for no
\* second target; the code tests both with a truth value.
CandidateType ==
    [strategy: StrategyIds, verdict: Verdicts, confidence: 0..100, rr: Nat,
     direction: {"buy", "sell", "null"}, entry: Nat, sl: Nat, tp1: Nat, tp2: Nat,
     signature: {NoSignature} \cup ({"bullish", "bearish"} \X Nat \X Nat \X Nat)]

ASSUME DeskAssumption ==
    /\ MaxNow \in Nat /\ MaxSignals \in Nat /\ MaxFaults \in Nat /\ MaxLag \in Nat
    /\ WindowCap \in Nat \ {0} /\ QueueCap \in Nat \ {0}
    /\ Candidates \subseteq CandidateType
    /\ Conditions \subseteq ConditionType
    /\ Prices \subseteq Nat \ {0}
    /\ Marks \subseteq Outcomes \X Executions

ASSUME CalendarAssumption ==
    /\ DayStart \in [Times -> Times]
    /\ MonthStart \in [Times -> Times]
    /\ \A t \in Times : DayStart[t] <= t /\ MonthStart[t] <= t
    /\ \A t, u \in Times : t <= u => MonthStart[t] <= MonthStart[u]

VARIABLES
    now,        \* the wall clock, in minutes
    \* the database
    signals,    \* table signals: the row with id i is signals[i]
    trades,     \* table trades, likewise
    clusters,   \* table clusters, likewise
    lastStop,   \* settings.last_stoploss_t
    stats,      \* strategy_stats: what the last recompute counted
    \* memory of the process
    orch,       \* id persisted by the orchestrator and not queued yet, or 0
    queue,      \* signal_q
    gate,       \* the gate loop
    window,     \* gate_loop's pending_window
    tracker,    \* the check_open_trades job
    clerk,      \* the dashboard requests
    \* history
    faults      \* crashes, full queues and "database is locked" errors so far

db   == << signals, trades, clusters, lastStop, stats >>
vars == << now, db, orch, queue, gate, window, tracker, clerk, faults >>

-----------------------------------------------------------------------------
(* Types.                                                                   *)

SignalIds == 1..MaxSignals

SignalRow == [cand: Candidates, t: Times, gate: {"pending", "published"} \cup Vetoes]

TradeRow == [signal: SignalIds, cluster: Nat, outcome: Outcomes,
             outcomeT: Times \cup {Never}, exec: Executions]

ClusterRow == [representative: SignalIds, members: SUBSET SignalIds, boosted: Nat]

GateState == [pc: {"idle", "screen", "cool", "write", "cluster", "publish"},
              sig: 0..MaxSignals, at: Times,
              decision: {"none", "published"} \cup Vetoes, cluster: Nat]

TrackerState == [pc: {"idle", "read", "stalled"}, mid: Nat, rows: SUBSET Nat, at: Times]

ClerkState == [pc: {"idle", "mark", "stop", "recompute", "save"}, trade: Nat,
               outcome: Outcomes, exec: Executions, at: Times,
               seen: SUBSET (Nat \X Outcomes)]

IdleGate == [pc |-> "idle", sig |-> 0, at |-> 0, decision |-> "none", cluster |-> 0]

IdleTracker == [pc |-> "idle", mid |-> 0, rows |-> {}, at |-> 0]

IdleClerk == [pc |-> "idle", trade |-> 0, outcome |-> "open", exec |-> "null",
              at |-> 0, seen |-> {}]

-----------------------------------------------------------------------------
(* Queries.                                                                 *)

Cand(i) == signals[i].cand

\* _get_monthly_trades: VALID signals published and dated in the month of t.
PublishedInMonth(t) ==
    {i \in DOMAIN signals : /\ Cand(i).verdict = "VALID"
                            /\ signals[i].gate = "published"
                            /\ signals[i].t >= MonthStart[t]}

\* _get_daily_losses: stop-losses dated in the day of t.
LossesToday(t) ==
    {i \in DOMAIN trades : /\ trades[i].outcome = "sl_hit"
                           /\ trades[i].outcomeT >= DayStart[t]}

\* Which level of its trade the mid price has reached (check_open_trades).  A
\* trade published without parameters is a buy at 0.0.
Hit(i, mid) ==
    LET c == Cand(trades[i].signal)
        beyond(level) == IF c.direction = "sell" THEN mid <= level ELSE mid >= level
        stopped == IF c.direction = "sell" THEN mid >= c.sl ELSE mid <= c.sl
    IN  IF c.tp2 # 0 /\ beyond(c.tp2) THEN "tp2_hit"
        ELSE IF beyond(c.tp1) THEN "tp1_hit"
        ELSE IF stopped THEN "sl_hit" ELSE "none"

HitRows(mid, rows) == {i \in rows : Hit(i, mid) # "none"}

\* What recompute_strategy_stats counts: NULL execution_status fails the
\* SQL comparison with 'skipped', so it is left out like 'skipped' itself.
Counted(strategy) ==
    {<< i, trades[i].outcome >> : i \in
        {j \in DOMAIN trades : /\ Cand(trades[j].signal).strategy = strategy
                               /\ trades[j].outcome \notin {"open", "manual_close"}
                               /\ trades[j].exec = "taken"}}

\* The signals that process_new_signal puts in one cluster with signal i: i
\* itself and those of the window that may join it under the same key.
Companions(i) ==
    {j \in Elems(window) : /\ j # i
                           /\ Cand(i).signature # NoSignature
                           /\ Cand(j).signature # NoSignature
                           /\ CanCluster(Cand(i).strategy, Cand(j).strategy)
                           /\ ClusterKey(signals[i].t, Cand(i).signature)
                                = ClusterKey(signals[j].t, Cand(j).signature)}

\* (The newest signal always represents its cluster.)
RepresentativeNewest(i, members) == i

\* Among the members of the representative strategy, the most confident; the
\* new signal i comes first in the list max() scans, then the window in order.
Representative(i, members) ==
    LET best == {m \in members :
                    Cand(m).strategy =
                        RepresentativeStrategy({Cand(x).strategy : x \in members})}
        top  == {m \in best : \A x \in best : Cand(x).confidence <= Cand(m).confidence}
    IN  IF i \in top THEN i ELSE CHOOSE m \in top : \A x \in top : m <= x

\* Only a stalled tracker pass keeps the write lock between two steps.
LockFree == tracker.pc # "stalled"

Fault == /\ faults < MaxFaults
         /\ faults' = faults + 1

-----------------------------------------------------------------------------
(* The strategy orchestrator (executor thread).                             *)

\* UNIQUE(strategy_id, signature, t); SQL NULL signatures are never equal.
IsDuplicate(c, t) ==
    /\ c.signature # NoSignature
    /\ \E i \in DOMAIN signals : /\ Cand(i).strategy = c.strategy
                                 /\ Cand(i).signature = c.signature
                                 /\ signals[i].t = t

\* lastrowid of the INSERT.  (NextIdSkipped is off by one.)
NextIdSkipped == Len(signals) + 2
NextId == Len(signals) + 1

\* _persist_result: the signal row and its agent scores in one transaction.  The
\* row is dated t, the minute of the tick the strategies were called for.
OrchPersist(c, t) ==
    /\ orch = 0
    /\ t <= now /\ now <= t + MaxLag
    /\ Len(signals) < MaxSignals
    /\ LockFree
    /\ ~ IsDuplicate(c, t)
    /\ signals' = Append(signals, [cand |-> c, t |-> t, gate |-> "pending"])
    /\ orch' = NextId
    /\ UNCHANGED << now, trades, clusters, lastStop, stats, queue, gate, window,
                    tracker, clerk, faults >>

\* put_nowait on signal_q.
OrchQueue ==
    /\ orch # 0
    /\ Len(queue) < QueueCap
    /\ queue' = Append(queue, orch)
    /\ orch' = 0
    /\ UNCHANGED << now, db, gate, window, tracker, clerk, faults >>

\* QueueFull is caught and logged: the row stays, nobody will evaluate it.
OrchDrop ==
    /\ orch # 0
    /\ Len(queue) >= QueueCap
    /\ Fault
    /\ orch' = 0
    /\ UNCHANGED << now, db, queue, gate, window, tracker, clerk >>

-----------------------------------------------------------------------------
(* The gate loop.                                                           *)

\* signal_q after a get.  (QueueKept forgets to remove the item, QueueDrained
\* takes one and throws the rest away.)
QueueKept == queue
QueueDrained == << >>
QueueRest == Tail(queue)

GateTake ==
    /\ gate.pc = "idle"
    /\ queue # << >>
    /\ gate' = [IdleGate EXCEPT !.pc = "screen", !.sig = Head(queue), !.at = now]
    /\ queue' = QueueRest
    /\ UNCHANGED << now, db, orch, window, tracker, clerk, faults >>

\* Vetoes 0 to 7, from one reading of the tables.
GateScreen(cond) ==
    /\ gate.pc = "screen"
    /\ LET c       == Cand(gate.sig)
           losses  == Cardinality(LossesToday(gate.at))
           monthly == Cardinality(PublishedInMonth(gate.at))
       IN  \/ /\ Passes(c, cond, losses, monthly)
              /\ gate' = [gate EXCEPT !.pc = "cool"]
           \/ /\ ~ Passes(c, cond, losses, monthly)
              /\ gate' = [gate EXCEPT !.pc = "write",
                                      !.decision = FirstVeto(c, cond, losses, monthly)]
    /\ UNCHANGED << now, db, orch, queue, window, tracker, clerk, faults >>

\* Veto 8 reads the cooling timer last.
GateCool ==
    /\ gate.pc = "cool"
    /\ \/ /\ InCooling(gate.at, lastStop)
          /\ gate' = [gate EXCEPT !.pc = "write", !.decision = "cooling"]
       \/ /\ ~ InCooling(gate.at, lastStop)
          /\ gate' = [gate EXCEPT !.pc = "write", !.decision = "published"]
    /\ UNCHANGED << now, db, orch, queue, window, tracker, clerk, faults >>

\* update_signal_gate and commit.
GateWrite ==
    /\ gate.pc = "write"
    /\ LockFree
    /\ signals' = [signals EXCEPT ![gate.sig].gate = gate.decision]
    /\ gate' = IF gate.decision = "published" THEN [gate EXCEPT !.pc = "cluster"]
               ELSE IdleGate
    /\ UNCHANGED << now, trades, clusters, lastStop, stats, orch, queue, window,
                    tracker, clerk, faults >>

\* process_new_signal: a cluster row if at least two signals agree.
GateCluster ==
    /\ gate.pc = "cluster"
    /\ LET members == Companions(gate.sig) \cup {gate.sig}
           rep     == Representative(gate.sig, members)
       IN  \/ /\ Companions(gate.sig) = {}
              /\ gate' = [gate EXCEPT !.pc = "publish"]
              /\ UNCHANGED clusters
           \/ /\ Companions(gate.sig) # {}
              /\ LockFree
              /\ clusters' = Append(clusters,
                    [representative |-> rep, members |-> members,
                     boosted |-> Boosted(Cand(rep).confidence, Cardinality(members))])
              /\ gate' = [gate EXCEPT !.pc = "publish", !.cluster = Len(clusters) + 1]
    /\ UNCHANGED << now, signals, trades, lastStop, stats, orch, queue, window,
                    tracker, clerk, faults >>

\* pending_window.append(sig), keeping the last WindowCap.
Remember(i) ==
    LET longer == Append(window, i)
    IN  window' = IF Len(longer) > WindowCap THEN Tail(longer) ELSE longer

\* Which verdicts publish_signal turns into a trade.  (DeservesTradeValid forgets
\* the WAIT signals.)
DeservesTradeValid(verdict) == verdict = "VALID"
DeservesTrade(verdict) == verdict # "NO_TRADE"

\* publish_signal, then the next signal: a NO_TRADE signal gets no trade row.
GatePublish ==
    /\ gate.pc = "publish"
    /\ \/ /\ ~ DeservesTrade(Cand(gate.sig).verdict)
          /\ UNCHANGED trades
       \/ /\ DeservesTrade(Cand(gate.sig).verdict)
          /\ LockFree
          /\ trades' = Append(trades, [signal |-> gate.sig, cluster |-> gate.cluster,
                                       outcome |-> "open", outcomeT |-> Never,
                                       exec |-> "null"])
    /\ Remember(gate.sig)
    /\ gate' = IdleGate
    /\ UNCHANGED << now, signals, clusters, lastStop, stats, orch, queue,
                    tracker, clerk, faults >>

\* A write that waited for the lock in vain raises, gate_loop logs it and takes
\* the next signal.
GateFail ==
    /\ \/ gate.pc = "write"
       \/ gate.pc = "cluster" /\ Companions(gate.sig) # {}
       \/ gate.pc = "publish" /\ DeservesTrade(Cand(gate.sig).verdict)
    /\ ~ LockFree
    /\ Fault
    /\ gate' = IdleGate
    /\ UNCHANGED << now, db, orch, queue, window, tracker, clerk >>

-----------------------------------------------------------------------------
(* The tracker job (scheduler thread).                                      *)

\* One pass reads the price and the open trades, before any write.
TrackRead(mid) ==
    /\ tracker.pc = "idle"
    /\ tracker' = [pc |-> "read", mid |-> mid, at |-> now,
                   rows |-> {i \in DOMAIN trades : trades[i].outcome = "open"}]
    /\ UNCHANGED << now, db, orch, queue, gate, window, clerk, faults >>

StopHit(mid, rows) == \E i \in rows : Hit(i, mid) = "sl_hit"

\* A pass without a stop-loss: every trade that was open when it read and has
\* reached a target is closed in one transaction.  execution_status is not
\* passed to update_trade_outcome, which writes its default, NULL.
TrackClose ==
    /\ tracker.pc = "read"
    /\ ~ StopHit(tracker.mid, tracker.rows)
    /\ trades' = [i \in DOMAIN trades |->
                    IF i \in HitRows(tracker.mid, tracker.rows)
                    THEN [trades[i] EXCEPT !.outcome = Hit(i, tracker.mid),
                                           !.outcomeT = tracker.at, !.exec = "null"]
                    ELSE trades[i]]
    /\ tracker' = IdleTracker
    /\ UNCHANGED << now, signals, clusters, lastStop, stats, orch, queue, gate,
                    window, clerk, faults >>

\* A pass with a stop-loss: after the update of that trade, in the open
\* transaction, record_stoploss opens a second connection and waits for the
\* write lock that this very pass holds.
TrackStall ==
    /\ tracker.pc = "read"
    /\ StopHit(tracker.mid, tracker.rows)
    /\ tracker' = [tracker EXCEPT !.pc = "stalled"]
    /\ UNCHANGED << now, db, orch, queue, gate, window, clerk, faults >>

\* (Without a busy timeout the pass would wait for itself for ever.)
TrackWaitForever == tracker.pc = "stalled" /\ LockFree /\ UNCHANGED vars

\* The busy timeout: "database is locked" leaves the with block, which rolls
\* the whole pass back and frees the lock.
TrackAbort ==
    /\ tracker.pc = "stalled"
    /\ tracker' = IdleTracker
    /\ UNCHANGED << now, db, orch, queue, gate, window, clerk, faults >>

-----------------------------------------------------------------------------
(* Dashboard requests: record_outcome and mark_outcome.                     *)

\* The POST arrives; outcome_t is read from the clock here.
ClerkPress(k, i, mark) ==
    /\ clerk[k].pc = "idle"
    /\ clerk' = [clerk EXCEPT ![k] =
                    [pc |-> "mark", trade |-> i, outcome |-> mark[1],
                     exec |-> mark[2], at |-> now, seen |-> {}]]
    /\ UNCHANGED << now, db, orch, queue, gate, window, tracker, faults >>

\* What follows the first transaction.  (NoTimerAfter skips record_stoploss.)
NoTimerAfter(outcome) == "recompute"
StepAfter(outcome) == IF outcome = "sl_hit" THEN "stop" ELSE "recompute"

\* First transaction: the trade row.
ClerkMark(k) ==
    /\ clerk[k].pc = "mark"
    /\ LockFree
    /\ trades' = [trades EXCEPT ![clerk[k].trade] =
                    [@ EXCEPT !.outcome = clerk[k].outcome, !.outcomeT = clerk[k].at,
                              !.exec = clerk[k].exec]]
    /\ clerk' = [clerk EXCEPT ![k].pc = StepAfter(clerk[k].outcome)]
    /\ UNCHANGED << now, signals, clusters, lastStop, stats, orch, queue, gate,
                    window, tracker, faults >>

\* Second transaction, on a connection of its own: record_stoploss.
ClerkStop(k) ==
    /\ clerk[k].pc = "stop"
    /\ LockFree
    /\ lastStop' = now
    /\ clerk' = [clerk EXCEPT ![k].pc = "recompute"]
    /\ UNCHANGED << now, signals, trades, clusters, stats, orch, queue, gate,
                    window, tracker, faults >>

\* recompute_strategy_stats reads the trades ...
ClerkRecompute(k) ==
    /\ clerk[k].pc = "recompute"
    /\ clerk' = [clerk EXCEPT ![k].pc = "save",
                    ![k].seen = Counted(Cand(trades[clerk[k].trade].signal).strategy)]
    /\ UNCHANGED << now, db, orch, queue, gate, window, tracker, faults >>

\* ... and upserts what it computed, in the third transaction.
ClerkSave(k) ==
    /\ clerk[k].pc = "save"
    /\ LockFree
    /\ stats' = [stats EXCEPT ![Cand(trades[clerk[k].trade].signal).strategy] =
                    clerk[k].seen]
    /\ clerk' = [clerk EXCEPT ![k] = IdleClerk]
    /\ UNCHANGED << now, signals, trades, clusters, lastStop, orch, queue, gate,
                    window, tracker, faults >>

\* "database is locked" ends the request with what it has committed so far.
ClerkFail(k) ==
    /\ clerk[k].pc \in {"mark", "stop", "save"}
    /\ ~ LockFree
    /\ Fault
    /\ clerk' = [clerk EXCEPT ![k] = IdleClerk]
    /\ UNCHANGED << now, db, orch, queue, gate, window, tracker >>

-----------------------------------------------------------------------------
(* The environment.                                                         *)

Tick ==
    /\ now < MaxNow
    /\ now' = now + 1
    /\ UNCHANGED << db, orch, queue, gate, window, tracker, clerk, faults >>

\* The process stops and is started again: what is not in the database is gone,
\* and start-up (app/main.py main) reads no signal back.
Crash ==
    /\ Fault
    /\ orch' = 0
    /\ queue' = << >>
    /\ gate' = IdleGate
    /\ window' = << >>
    /\ tracker' = IdleTracker
    /\ clerk' = [k \in Clerks |-> IdleClerk]
    /\ UNCHANGED << now, db >>

Init ==
    /\ now = 0
    /\ signals = << >> /\ trades = << >> /\ clusters = << >>
    /\ lastStop = Never
    /\ stats = [s \in StrategyIds |-> {}]
    /\ orch = 0
    /\ queue = << >>
    /\ gate = IdleGate
    /\ window = << >>
    /\ tracker = IdleTracker
    /\ clerk = [k \in Clerks |-> IdleClerk]
    /\ faults = 0

Orchestrate == \/ \E c \in Candidates, t \in Times : OrchPersist(c, t)
               \/ OrchQueue
               \/ OrchDrop

GateLoop == \/ GateTake
            \/ \E cond \in Conditions : GateScreen(cond)
            \/ GateCool
            \/ GateWrite
            \/ GateCluster
            \/ GatePublish
            \/ GateFail

Track == \/ \E mid \in Prices : TrackRead(mid)
         \/ TrackClose
         \/ TrackStall
         \/ TrackAbort

Serve(k) == \/ \E i \in DOMAIN trades, mark \in Marks : ClerkPress(k, i, mark)
            \/ ClerkMark(k)
            \/ ClerkStop(k)
            \/ ClerkRecompute(k)
            \/ ClerkSave(k)
            \/ ClerkFail(k)

Next == \/ Orchestrate
        \/ GateLoop
        \/ Track
        \/ \E k \in Clerks : Serve(k)
        \/ Tick
        \/ Crash

Spec == Init /\ [][Next]_vars

(***************************************************************************)
(* Fairness.  Each thread runs; the tracker job is scheduled every minute; *)
(* SQLite's busy handler retries a blocked write, and a stalled pass frees *)
(* the lock for the rest of its minute, so a write that is possible again  *)
(* and again is done.  Nothing obliges a user to press a button.           *)
(***************************************************************************)
Fairness ==
    /\ WF_vars(OrchQueue)
    /\ WF_vars(GateTake)
    /\ WF_vars(\E cond \in Conditions : GateScreen(cond))
    /\ WF_vars(GateCool)
    /\ SF_vars(GateWrite)
    /\ SF_vars(GateCluster)
    /\ SF_vars(GatePublish)
    /\ WF_vars(Track)
    /\ \A k \in Clerks : /\ SF_vars(ClerkMark(k))
                         /\ SF_vars(ClerkStop(k))
                         /\ WF_vars(ClerkRecompute(k))
                         /\ SF_vars(ClerkSave(k))

FairSpec == Spec /\ Fairness

-----------------------------------------------------------------------------
(* Properties that hold.                                                    *)

TablesOK ==
    /\ now \in Times
    /\ signals \in Seq(SignalRow) /\ Len(signals) <= MaxSignals
    /\ trades \in Seq(TradeRow)
    /\ \A j \in DOMAIN trades : /\ trades[j].signal \in DOMAIN signals
                               /\ trades[j].outcomeT <= now
    /\ clusters \in Seq(ClusterRow)
    /\ lastStop \in Times \cup {Never} /\ lastStop <= now
    /\ stats \in [StrategyIds -> SUBSET (Nat \X Outcomes)]
    /\ faults \in 0..MaxFaults

HandOverOK ==
    /\ orch \in 0..Len(signals)
    /\ queue \in Seq(1..Len(signals))
    /\ window \in Seq(1..Len(signals))

GateOK ==
    /\ gate \in GateState /\ gate.at <= now
    /\ gate.pc # "idle" => gate.sig \in 1..Len(signals)
    /\ gate.pc = "write" => gate.decision # "none"

TrackerOK ==
    /\ tracker \in TrackerState /\ tracker.at <= now
    /\ tracker.rows \subseteq 1..Len(trades)

ClerksOK ==
    /\ clerk \in [Clerks -> ClerkState]
    /\ \A k \in Clerks : /\ clerk[k].at <= now
                         /\ clerk[k].pc # "idle" => clerk[k].trade \in 1..Len(trades)

\* Every variable stays in its type; ids point into their tables and no stored
\* or remembered time lies in the future.
TypeOK == TablesOK /\ HandOverOK /\ GateOK /\ TrackerOK /\ ClerksOK

\* A trade row exists only for a signal the gate let through and the publisher
\* turns into a trade, and no signal ever gets a second one, whatever crashes
\* and lock timeouts cut the gate loop short (publish_signal, gate_loop).
TradeBacked ==
    \A j \in DOMAIN trades :
        /\ signals[trades[j].signal].gate = "published"
        /\ Cand(trades[j].signal).verdict # "NO_TRADE"
        /\ \A k \in DOMAIN trades : trades[k].signal = trades[j].signal => k = j

\* The gate counts before it decides and commits later; still, the IST month of the
\* present clock never holds more published VALID signals of its own than the cap
\* (veto 4).  Only the present one: a signal dated before the month's turn and
\* decided after it counts in neither, and EveryMonthCapped below is refuted by it.
PresentMonthCap == Cardinality(PublishedInMonth(now)) <= MaxMonthlyTrades

\* mark_outcome commits a stop-loss and starts the cooling timer in two
\* transactions: unless something failed, the timer is at least as recent as
\* every recorded stop-loss, or the request that recorded it is about to set it.
StopStartsCooling ==
    faults = 0 =>
        \A j \in DOMAIN trades :
            trades[j].outcome = "sl_hit" =>
                \/ lastStop >= trades[j].outcomeT
                \/ \E k \in Clerks : clerk[k].pc = "stop" /\ clerk[k].trade = j

\* A pending signal is still on its way to the gate, unless something failed:
\* the hand-over from the executor thread to the gate loop drops nothing.
NoneForgotten ==
    faults = 0 =>
        \A i \in DOMAIN signals :
            signals[i].gate = "pending" =>
                i = orch \/ i \in Elems(queue) \/ (gate.pc # "idle" /\ gate.sig = i)

\* A published signal that deserves a trade has one or is just getting it,
\* unless something failed between the gate's commit and the publisher's.
PublishedHasTrade ==
    faults = 0 =>
        \A i \in DOMAIN signals :
            signals[i].gate = "published" /\ Cand(i).verdict # "NO_TRADE" =>
                \/ \E j \in DOMAIN trades : trades[j].signal = i
                \/ gate.pc \in {"cluster", "publish"} /\ gate.sig = i

\* What a cluster row claims is true of the signals: its members were published,
\* share family and key, nobody outranks the representative, and a trade that
\* refers to the cluster is for one of its members (process_new_signal).
ClusterConsistent ==
    /\ \A n \in DOMAIN clusters :
        LET members == clusters[n].members
            rep     == clusters[n].representative
        IN  /\ rep \in members
            /\ Cardinality(members) >= 2
            /\ \A a, b \in members :
                /\ signals[a].gate = "published"
                /\ Family(Cand(a).strategy) = Family(Cand(b).strategy)
                /\ ClusterKey(signals[a].t, Cand(a).signature)
                     = ClusterKey(signals[b].t, Cand(b).signature)
            /\ \A a \in members :
                /\ ~ Outranks(Cand(a).strategy, Cand(rep).strategy)
                /\ Cand(a).strategy = Cand(rep).strategy
                     => Cand(a).confidence <= Cand(rep).confidence
            /\ clusters[n].boosted \in Cand(rep).confidence..100
    /\ \A j \in DOMAIN trades :
        trades[j].cluster # 0 =>
            /\ trades[j].signal \in clusters[trades[j].cluster].members
            /\ \A k \in DOMAIN trades : trades[k].cluster = trades[j].cluster => k = j

\* A gate_result, once decided, is final (evaluate_signal runs once per signal).
DecidedOnce ==
    [][\A i \in DOMAIN signals :
        signals[i].gate # "pending" => signals'[i] = signals[i]]_vars

Publishes(i) == signals[i].gate = "pending" /\ signals'[i].gate = "published"

\* However the cooling timer is rewritten while the gate is at work, it never
\* publishes over a stop that was recorded before its evaluation began and less
\* than the cooling time ago (veto 8).
CoolingHonoured ==
    [][\A i \in DOMAIN signals :
        Publishes(i) =>
            \/ lastStop = Never
            \/ gate.at - lastStop >= Cooling
            \/ lastStop >= gate.at]_vars

\* Every queued signal gets its gate_result and every published one its trade,
\* although the tracker takes the write lock again and again (no failures).
QueuedIsDecided ==
    \A i \in SignalIds :
        i \in Elems(queue) ~> (i \in DOMAIN signals /\ signals[i].gate # "pending")

PublishedBecomesTrade ==
    \A i \in SignalIds :
        (gate.pc = "cluster" /\ gate.sig = i /\ Cand(i).verdict # "NO_TRADE")
            ~> \E j \in DOMAIN trades : trades[j].signal = i

-----------------------------------------------------------------------------
(* What the documents say and the code does not do.  Each is refuted by a   *)
(* run; README.md has the account.                                          *)

\* tracker.py: "auto-close open trades that have hit TP1/TP2/SL".
StopIsClosed ==
    \A j \in SignalIds :
        (tracker.pc = "read" /\ j \in tracker.rows /\ Hit(j, tracker.mid) = "sl_hit")
            ~> (j \in DOMAIN trades /\ trades[j].outcome # "open")

\* tracker.py: "Manual outcome override from dashboard": a pass that is under way
\* does not undo it.
ManualOutcomeKept ==
    [][\A j \in DOMAIN trades :
        tracker' # tracker /\ trades[j].outcome # "open" => trades'[j] = trades[j]]_vars

\* USER_MANUAL.md: "Limits to 15 published VALID signals per IST month": every
\* month, the past ones too, whenever its signals were decided.
EveryMonthCapped ==
    \A t \in Times :
        Cardinality({i \in DOMAIN signals : /\ Cand(i).verdict = "VALID"
                                           /\ signals[i].gate = "published"
                                           /\ MonthStart[signals[i].t] = MonthStart[t]})
            <= MaxMonthlyTrades

\* USER_MANUAL.md: "These buttons update the database immediately and feed the
\* performance stats": when no request is under way, the stats are up to date.
StatsUpToDate ==
    (\A k \in Clerks : clerk[k].pc = "idle") =>
        \A s \in StrategyIds : stats[s] = Counted(s)
============================================================================
