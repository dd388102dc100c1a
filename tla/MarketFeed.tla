----------------------------- MODULE MarketFeed -----------------------------
(***************************************************************************)
(* From the market to the events table: the poller that stores the last    *)
(* closed candles of M1 and H1 every minute, the backfill of a start-up,   *)
(* and the pipeline tick that each poll triggers, with what it remembers   *)
(* between ticks in order to record an event once.  Each tick commits its  *)
(* events in one transaction, which may fail; the memory is not rolled     *)
(* back.  The process may be restarted between any two steps.              *)
(***************************************************************************)
EXTENDS Detectors

CONSTANTS Markets,      \* the courses of the market: M1, H1, H4 and daily candles
          M1Window,     \* _LOAD: candles of M1 that a tick loads
          H1Window,     \* _LOAD: candles of H1 that a tick loads
          MaxTriggers,  \* bound: triggers in stream_candle_q
          MaxFaults,    \* bound: failed transactions
          MaxRuns       \* bound: starts of the process

Frames == {"M1", "H1"}

ASSUME FeedAssumption ==
    /\ M1Window \in Nat \ {0} /\ H1Window \in Nat \ {0}
    /\ MaxTriggers \in Nat /\ MaxFaults \in Nat /\ MaxRuns \in Nat \ {0}
    /\ \A m \in Markets : \A tf \in Frames : \A k \in DOMAIN m[tf] : m[tf][k].t = k

\* The candles of a day or of four hours, with prices that an exchange rate can have.
HighestPrice == 100000000
CandleType == [t : Nat, o : 0..HighestPrice, h : 0..HighestPrice,
               l : 0..HighestPrice, c : 0..HighestPrice]
ASSUME PriceAssumption ==
    \A m \in Markets : \A tf \in Frames \cup {"H4", "D"} : m[tf] \in Seq(CandleType)

VARIABLES market,    \* the course that the market takes
          closed,    \* number of its candles that are complete, by frame
          stored,    \* table candles: the candles of the market it holds, by frame
          triggers,  \* stream_candle_q
          memory,    \* what the pipeline object remembers
          phase,     \* setting mmm_phase
          events,    \* table events, in order of id
          run,       \* number of the process
          faults,    \* failed transactions
          lost,      \* history: keys remembered by a failed transaction of this run
          loaded     \* history: the H1 list of the last tick, and whether the lists of
                     \* this run's ticks only grew at the end

vars == << market, closed, stored, triggers, memory, phase, events, run, faults,
           lost, loaded >>

\* Shifts and sweeps by direction and level, gaps by their id.
NoShift == << >>
NoList == [h1 |-> << >>, grew |-> TRUE]
Blank == [sweeps |-> {}, shift |-> NoShift, gaps |-> << >>]

TypeOK ==
    /\ market \in Markets
    /\ \A tf \in Frames : closed[tf] \in 0..Len(market[tf]) /\ stored[tf] \subseteq 1..closed[tf]
    /\ triggers \in 0..MaxTriggers
    /\ phase \in 0..4
    /\ run \in 1..MaxRuns
    /\ faults \in 0..MaxFaults
    /\ \A i \in DOMAIN events : /\ events[i].kind \in {"sweep", "mss", "gap_formed",
                                                       "gap_filled", "mmm_phase_change"}
                                /\ events[i].run \in 1..run
-----------------------------------------------------------------------------
\* get_candles: the newest candles that are stored, oldest first.
Load(tf, window) ==
    LastBars(Kept(market[tf], stored[tf]), window)

\* Active gaps after the fill update with the newest candle.
Updated(gaps, bars) ==
    IF bars = << >> THEN gaps
    ELSE [i \in DOMAIN gaps |-> IF gaps[i].filled THEN gaps[i]
                                ELSE FillGap(gaps[i], bars[Len(bars)])]

\* Detected gaps whose id no active gap has, filled ones included.
\* (NewGapsAll takes them all.)
NewGapsAll(gaps, bars) == DetectGaps(bars)
NewGaps(gaps, bars) ==
    LET found == DetectGaps(bars)
        ids   == {gaps[i].id : i \in DOMAIN gaps}
    IN  Kept(found, {i \in DOMAIN found : found[i].id \notin ids})

Row(kind, key) == [kind |-> kind, key |-> key, run |-> run]

\* The keys of the last five sweeps that are not yet seen, each once.
\* (SweepKeysAll forgets to look at the keys seen.)
SweepKeysAll(seen, sweeps) == LastBars(sweeps, 5)
SweepKeys(seen, sweeps) ==
    LET recent == LastBars(sweeps, 5)
    IN  Kept(recent, {i \in DOMAIN recent : /\ recent[i] \notin seen
                                            /\ \A j \in 1..(i - 1) : recent[j] # recent[i]})

ShiftKeys(last, shifts) ==
    IF shifts = << >> \/ shifts[Len(shifts)] = last THEN << >> ELSE << shifts[Len(shifts)] >>

\* The rows of one tick, in the order of their inserts.
Rows(m1, h1) ==
    LET gaps   == Updated(memory.gaps, h1)
        sweeps == SweepKeys(memory.sweeps, DetectSweeps(m1, market.D))
        shifts == ShiftKeys(memory.shift, DetectMss(m1))
        formed == NewGaps(gaps, h1)
        filled == Kept(gaps, {i \in DOMAIN gaps : gaps[i].filled /\ ~ memory.gaps[i].filled})
    IN  [i \in DOMAIN sweeps |-> Row("sweep", sweeps[i])]
        \o [i \in DOMAIN shifts |-> Row("mss", shifts[i])]
        \o [i \in DOMAIN formed |-> Row("gap_formed", formed[i].id)]
        \o [i \in DOMAIN filled |-> Row("gap_filled", filled[i].id)]

KeysOf(rows, kind) == {rows[i].key : i \in {j \in DOMAIN rows : rows[j].kind = kind}}

\* What the pipeline remembers when the inserts have got as far as these rows.
Remember(rows, h1) ==
    LET gaps   == Updated(memory.gaps, h1)
        shifts == KeysOf(rows, "mss")
    IN  [sweeps |-> memory.sweeps \cup KeysOf(rows, "sweep"),
         shift  |-> IF shifts = {} THEN memory.shift ELSE CHOOSE key \in shifts : TRUE,
         gaps   |-> gaps \o NewGaps(gaps, h1)]
-----------------------------------------------------------------------------
Init == /\ market \in Markets
        /\ closed = [tf \in Frames |-> 0]
        /\ stored = [tf \in Frames |-> {}]
        /\ triggers = 0
        /\ memory = Blank
        /\ phase = 0
        /\ events = << >>
        /\ run = 1
        /\ faults = 0
        /\ lost = {}
        /\ loaded = NoList

\* The market completes a candle.
Close(tf) ==
    /\ closed[tf] < Len(market[tf])
    /\ closed' = [closed EXCEPT ![tf] = @ + 1]
    /\ UNCHANGED << market, stored, triggers, memory, phase, events, run, faults, lost, loaded >>

\* The last two candles: one of them still open, or, before the first price of a new
\* candle, both complete.  (LastCandleOpen takes the open one with them.)
LastCandleOpen(tf, n) == {k \in 1..(closed[tf] + 1) : k > closed[tf] + 1 - n}
LastCandle(tf, n) == {k \in 1..closed[tf] : k > closed[tf] - n}

\* poll_and_trigger: each time frame may fail by itself, and the trigger follows.
PollAndTrigger(answers, n) ==
    /\ triggers < MaxTriggers
    /\ stored' = [tf \in Frames |-> IF tf \in answers THEN stored[tf] \cup LastCandle(tf, n)
                                    ELSE stored[tf]]
    /\ triggers' = triggers + 1
    /\ UNCHANGED << market, closed, memory, phase, events, run, faults, lost, loaded >>

\* A changed MMM phase is recorded in a transaction of its own, before the others.
PhaseRows == Only(DetectMmmPhase(market.H4, market.D) # phase,
                  Row("mmm_phase_change", << DetectMmmPhase(market.H4, market.D) >>))

Noted(h1) == [h1 |-> h1, grew |-> loaded.grew /\ IsPrefix(loaded.h1, h1)]

Tick ==
    /\ triggers > 0
    /\ LET h1 == Load("H1", H1Window)
           rows == Rows(Load("M1", M1Window), h1)
       IN  /\ memory' = Remember(rows, h1)
           /\ events' = events \o PhaseRows \o rows
           /\ loaded' = Noted(h1)
    /\ phase' = DetectMmmPhase(market.H4, market.D)
    /\ triggers' = triggers - 1
    /\ UNCHANGED << market, closed, stored, run, faults, lost >>

\* The insert of row n (0: of an FVG row, which come first), or the commit after the
\* last one, raises: none of the rows is stored, and sweeps, shift and gaps up to there
\* are remembered all the same.
FailedTick(n) ==
    /\ triggers > 0
    /\ faults < MaxFaults
    /\ LET h1   == Load("H1", H1Window)
           rows == Rows(Load("M1", M1Window), h1)
       IN  /\ n \in 0..(Len(rows) + 1)
           /\ memory' = Remember(SubSeq(rows, 1, IF n <= Len(rows) THEN n ELSE Len(rows)), h1)
           /\ lost' = lost \cup (memory'.sweeps \ memory.sweeps)
           /\ loaded' = Noted(h1)
    /\ events' = events \o PhaseRows
    /\ phase' = DetectMmmPhase(market.H4, market.D)
    /\ triggers' = triggers - 1
    /\ faults' = faults + 1
    /\ UNCHANGED << market, closed, stored, run >>

\* The transaction of a changed phase raises, and ends the tick.
FailedPhase ==
    /\ triggers > 0
    /\ faults < MaxFaults
    /\ PhaseRows # << >>
    /\ LET h1 == Load("H1", H1Window)
       IN  memory' = Remember(<< >>, h1) /\ loaded' = Noted(h1)
    /\ triggers' = triggers - 1
    /\ faults' = faults + 1
    /\ UNCHANGED << market, closed, stored, phase, events, run, lost >>

Newest(tf) == IF stored[tf] = {} THEN 0
              ELSE CHOOSE k \in stored[tf] : \A j \in stored[tf] : j <= k

\* backfill: every complete candle from the newest stored one on.
Backfilled(tf) == {k \in 1..closed[tf] : k >= Newest(tf)}

\* The process ends and starts again: queue and memory are new, and the backfill
\* succeeds for some of the time frames.
Restart(answers) ==
    /\ run < MaxRuns
    /\ run' = run + 1
    /\ stored' = [tf \in Frames |-> IF tf \in answers THEN stored[tf] \cup Backfilled(tf)
                                    ELSE stored[tf]]
    /\ triggers' = 0
    /\ memory' = Blank
    /\ lost' = {}
    /\ loaded' = NoList
    /\ UNCHANGED << market, closed, phase, events, faults >>

Next == \/ \E tf \in Frames : Close(tf)
        \/ \E answers \in SUBSET Frames, n \in 1..2 : PollAndTrigger(answers, n)
        \/ Tick
        \/ \E n \in 0..(5 + 1 + 2 * Len(market.H1) + 1) : FailedTick(n)
        \/ FailedPhase
        \/ \E answers \in SUBSET Frames : Restart(answers)

Spec == Init /\ [][Next]_vars
-----------------------------------------------------------------------------
\* A sweep is seen again at every tick, for as long as it is among the last five, and
\* under one key whenever the same level is swept: one process records it once.
SweepOncePerRun ==
    \A i, j \in DOMAIN events :
        events[i].kind = "sweep" /\ events[i] = events[j] => i = j

\* A sweep that a failed transaction took with it is not recorded by a later tick of
\* the process, however often it is seen again: pipeline.py marks it before the insert
\* and inserts what is "not already persisted", which this one then never is.
LostStaysLost ==
    [][\A i \in (Len(events) + 1)..Len(events') :
          events'[i].kind = "sweep" => events'[i].key \notin lost]_vars

\* Every price gap in the candles of the last tick is tracked, open or filled.
\* pipeline.py: "Add newly detected gaps that aren't already tracked".
GapsTracked ==
    LET gaps == DetectGaps(loaded.h1)
    IN  \A i \in DOMAIN gaps : \E j \in DOMAIN memory.gaps : memory.gaps[j].born = gaps[i].born

\* That holds, and each gap is tracked once, for as long as the list of H1 candles has
\* only grown at its end: ids are places in the list.
GapsTrackedWhileGrowing ==
    loaded.grew =>
        /\ GapsTracked
        /\ \A i, j \in DOMAIN memory.gaps : memory.gaps[i].born = memory.gaps[j].born => i = j

-----------------------------------------------------------------------------
(* What the documents say and the code does not do.  BackfillFillsGaps is   *)
(* refuted by a run.  The other two say how far the code departs from its   *)
(* documents; they are no promise of the program.                           *)

\* poller.py: "On first run fill history; on reconnect fill any gap", and the manual
\* has the same function run again for "Missing candles or gaps in history": a start-up
\* whose backfill of a time frame stores anything leaves no complete candle out.
BackfillFillsGaps ==
    [][run' # run =>
          \A tf \in Frames : stored'[tf] # stored[tf] => stored'[tf] = 1..closed[tf]]_vars

\* Instead a candle that was missed stays missing once a newer one is stored and it is
\* no longer among the last two: neither the poller nor the backfill looks behind the
\* newest candle.
HolesStay ==
    [][\A tf \in Frames : \A k \in stored'[tf] \ stored[tf] :
          k > Newest(tf) \/ k >= closed[tf] - 1]_vars

\* mmm_phase.py and the manual list phases 2 to 4, and strategy 09 waits for the third.
\* The expansion by 20 pips that begins them is never seen, whatever the H4 candles do.
PhaseStaysLow == phase \in {0, 1}
=============================================================================
