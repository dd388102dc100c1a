# A TLA+ model of SMC-AgenticTrade

SMC-AgenticTrade watches EUR/USD, lets fifteen price-pattern strategies judge
every minute, screens what they find through a decision gate, publishes what
passes as a trade proposal and follows each proposal until it closes. This
directory holds a model of that program, the TLC runs that check it, and
theorems about it that TLAPS has proved. All paths below are relative to the
repository.

Two commands reproduce everything, in this directory:

    tlc -workers 2 -config desk_flow.cfg MCTradeDesk.tla         (and the other desk_, doc_ runs)
    tlc -workers 2 -config strategy_pass.cfg MCStrategyPass.tla
    tlc -workers 2 -config feed_flow.cfg MCMarketFeed.tla        (and doc_gap_ids, doc_backfill)
    tlc -workers 2 -config fvg_flow.cfg MCFvgTracking.tla        (and doc_failed_fvg)
    tlapm TradeDeskProofs.tla     (and TradeDeskOnce, -Safety, -Ledger, Foundations,
                                   StrategyPassProofs, MarketFeedProofs, FvgTrackingProofs)

## 1. Inventory

| Part | Source | State it keeps | Operations | What must be right |
|---|---|---|---|---|
| ingestion | `app/ingestion/*` | candle tables, latest bid and spread, calendar table | backfill, poll every minute, price stream, calendar refresh every 15 min | candles stored once and without holes; the spread the gate reads is not stale |
| event pipeline and detectors | `app/detector/*` | tracked FVGs and gaps, sets of events already stored | one evaluation per tick: detect, update, persist, build a context | an event is stored exactly once; a filled gap stays filled; a restart rebuilds the same state |
| strategies and debate | `app/strategies/*` | nothing between ticks | fifteen strategies, four agents each, one verdict | verdict follows scores, vetoes and strict rules |
| orchestrator | `app/strategies/orchestrator.py` | `signal_q` (500) | run all strategies in an executor thread, store each result, queue it | nothing stored is forgotten, nothing is queued twice |
| decision gate | `app/gate/decision_gate.py` | `settings.last_stoploss_t`; the rest is counted from tables | nine veto rules, in order; cooling timer | caps and pauses hold under any interleaving; a decision is final |
| clustering | `app/clustering/*` | window of the last 50 published signals, table `clusters` | group signals of one family, 5-minute bucket and 5-pip levels; choose a representative | a cluster row tells the truth |
| publisher | `app/gate/publisher.py` | table `trades` | insert the trade; narrative thread, SSE, Telegram | one trade per published signal |
| outcome tracker | `app/performance/tracker.py` | columns `outcome`, `outcome_t`, `execution_status` | a pass every minute over the open trades; manual outcome from the dashboard | what is hit is closed, what the user said is kept |
| statistics | `app/performance/stats.py` | table `strategy_stats` | recompute per strategy | the totals agree with the trades |
| dashboard | `app/dashboard/*` | SSE client queues | pages, settings form, outcome buttons, event stream | concurrent requests do not undo each other |
| storage | `app/storage/*` | one SQLite file in WAL mode | a connection per operation | one writer at a time; a UNIQUE key makes signals idempotent |
| narrative, notifications | `app/narrative`, `app/notifications` | nothing the engine reads | HTTP calls, fire and forget | - |
| scripts | `scripts/*` | the same database, from another process | history backfill, replay of a day | replay respects the same caps |

The parts interact in four ways. Calls go down the path of a signal. Two
asyncio queues and an executor thread hand contexts and signals over. The
scheduler runs polling, tracker and calendar jobs in threads of its own, and
Flask serves each request in a thread. And all of them share the SQLite file:
there is no lock in the program around trades or signals, only SQLite's write
lock around each transaction, which Python's `sqlite3` opens at the first write.

What is hard to test here: orders of steps of the gate, the tracker and
concurrent requests; what a transaction does and does not cover; a connection
opened inside another connection's transaction; a restart between commits; a
full queue; the month's turn; a button pressed when it makes no sense.
`PROJECT.json` lists each hazard at its line.

## 2. Modules

    GateRules    the nine veto rules            Clustering   families, key, boost
          \                                      /
           +---------- TradeDesk ---------------+      state machine of the whole path
                       /        \
   SignalLedger       /          TradeDeskProofs      type correctness
   atomic promise    /                  |
          \         /             TradeDeskOnce       one place, one decision, one trade
          DeskLedger                    |
          mapping      \         TradeDeskSafety      cap, cooling, clusters
              /         \               |
             /           +------ TradeDeskLedger      the refinement
        MCTradeDesk
        instances

   SetupContext <- Debate <- Unicorn, JudasSwing, ... BprInBlock   fifteen strategies
                                   \  |  /
                              StrategyPass  <-  MCStrategyPass     one pass over them
                                    |
                            StrategyPassProofs

   Lists <- Detectors <- MarketFeed <- MCMarketFeed     from the market to the events table
       \                     |
        \             MarketFeedProofs
         \
       FvgTracking  <-  MCFvgTracking       the event pipeline's memory of fair value gaps
            |
     FvgTrackingProofs

   Foundations     least and greatest elements, and what the operators of Lists return:
                   for MarketFeedProofs, FvgTrackingProofs and StrategyPassProofs

**`GateRules`** translates `evaluate_signal` into operators. `Objects` is the
sequence of the eight rules that are screened before the cooling timer, in the
order of the code's early returns, `FirstVeto` the one that returns first,
`InCooling` the ninth. Confidence is in points, reward-to-risk and spread in
tenths, so the thresholds 75, 65, 2.0 and 1.5 become integers. A custom
threshold replaces both global ones. The weekday, the calendar, the strategy's
settings and the spread are one record, a *condition*, chosen anew for each
evaluation. A veto is a name; the number the code formats into the reason is
left out.

**`Clustering`** translates `ancestry.py`, `signature.py` and the boost of
`cluster_engine.py`: families and their precedence, which pairs may cluster, the
cluster key with Python's rounding (a tie goes to the even multiple of five
pips), the boost and its cap. A signature is a tuple of a direction and three
prices in points. The text form, in which the five fields are joined by colons,
loses nothing the key reads, so it is left out.

**`TradeDesk`** is the state machine:

| Variable | Code |
|---|---|
| `signals`, `trades`, `clusters`, `lastStop`, `stats` | the tables and `settings.last_stoploss_t`; a row's id is its index |
| `orch` | the id `_persist_result` returned and `put_nowait` has not queued yet |
| `queue` | `signal_q` |
| `gate` | `gate_loop`: which signal, at which point, the clock read at the start, the decision |
| `window` | `pending_window` |
| `tracker` | `check_open_trades`: price and rows it read, or stalled on the lock |
| `clerk[k]` | dashboard request k: which of its three transactions comes next |
| `now` | the clock in minutes; `DayStart` and `MonthStart` give IST days and months |
| `faults` | failures so far, bounded by `MaxFaults` |

A transaction is one step. So is a read, when nothing else can change what it
reads together with what follows; where something can, it is a step of its own:

- the gate reads its counts (`GateScreen`), then the cooling timer (`GateCool`),
  then commits (`GateWrite`); clustering (`GateCluster`) and publishing
  (`GatePublish`) are separate transactions after that;
- a tracker pass reads the open trades (`TrackRead`) and later updates them
  (`TrackClose`);
- `mark_outcome` updates the trade (`ClerkMark`), sets the timer when it was a
  stop-loss (`ClerkStop`), reads the trades for the statistics
  (`ClerkRecompute`) and stores them (`ClerkSave`).

`TrackStall` and `TrackAbort` are the tracker's encounter with itself: with a
stop-loss among the hits, the pass updates that trade, which takes the write
lock, and then calls `record_stoploss`, which writes through a second
connection. That write can only time out; the exception rolls back the pass.
While it waits no one else can write (`LockFree`), and a write that loses its
patience in this time fails (`GateFail`, `ClerkFail`).

`Crash` is a stop and restart of the process at any point: memory is gone, the
committed rows stay, and start-up reads no signal back. `OrchDrop` is
`QueueFull`.

What it leaves out: `realized_r`, notes, narrative, SSE and Telegram; the
`agent_scores` rows written with a signal; the 30-day window and the averages of
the statistics; the two queues before the orchestrator. The strategies are
represented by `Candidates`, the results they may return: any, so that what
`StrategyPass` shows of them is not assumed here.

**`SignalLedger`** is what the desk promises to whoever reads the tables, with
every decision atomic: a signal is recorded as pending, then vetoed or published
for good, a published and tradable one is traded at most once, and publishing
needs room in the present month. It knows no queue, no gate in several steps, no
failure. **`DeskLedger`** maps the tables to it (`StateOf`: pending, vetoed,
published, or traded once a trade row points to the signal) and states the
refinement as `DeskIsLedger`. It is not a rewording of the invariants: that a
decision *never* changes, that a trade never comes before its decision, and that
the cap holds *at the minute of the commit* are all steps of the ledger, and the
desk has to show them although its gate reads, waits and commits separately.

**`MCTradeDesk`** instantiates both: five candidates (a `VALID` buy and sell, `WAIT`
with and without trade parameters, `NO_TRADE` above the threshold), the buttons'
posts, prices and calendars.

**`FvgTracking`** is a part of what comes before the desk: polls store candles and
trigger ticks; a tick detects the gaps of the loaded candles, moves the tracked
ones by the newest M1 candle, stores new CE tests and puts a context into
`context_q`; strategy 13 judges contexts in the orchestrator's thread.

| Variable | Code |
|---|---|
| `candles`, `stored` | table `candles` per timeframe, a row's index is its time; the `fvg_ce_test` rows of `events` |
| `polled`, `triggers` | what the current `poll_latest` has stored; `stream_candle_q` |
| `objects` | the `FVG` objects of the process |
| `active`, `rebuilt` | `_active_fvgs`, as references into `objects`; `_fvg_tests_rebuilt` |
| `tick` | `_build_context` between its computation, its commit and `context_q.put` |
| `contexts`, `judge` | `context_q`, as lists of references; strategy 13 between its agents and its trade parameters |

References matter: a context holds the very objects that the next tick changes.
So do the two names of a gap, its first candle (`c1`, used after a restart) and
its position in the loaded list (`id`, used to count stored tests), which moves
with every new candle once the list is full. Prices are integers; the midpoint
is rounded to a point. All timeframes are moved by M1 candles, as in the code.
Left out: the other detectors of a tick (`MarketFeed` has some), `size_pips`,
pruning of the events table, the backfill of candles at a restart, and the finer
interleavings within one tick's loop over its objects.

**`MCFvgTracking`** gives it a bullish M1 gap and a bearish M5 gap to begin with
and candles that respect, fail, fill or invert the first, or leave another gap.

**`SetupContext`** is the snapshot that strategies receive, one record per tick,
and the look-ups they share: usable gaps, recent events, nearest levels, the
scores of `scoring.py`. Prices are in points (0.00001), scores in tenths of a
point, ages in candles, missing values are `Unknown` or empty. **`Debate`** is
`debate.py` with the trade parameters of `base.py`: the weighted confidence, the
floors, the veto, and which plan a verdict keeps. Python's rounding of a score's
last tenth is left out; the rounding of the confidence and of the
reward-to-risk figure to two decimals are not, since rules compare them.

**`Unicorn`** to **`BprInBlock`**, one module per `strategy_NN_*.py`, have the same
shape: the set-up the strategy looks for, `Opp1`, `Opp2`, `Risk1`, `Risk2` (its four
agents' scores), `Trade`, `Signature`, and `Evaluate` with its strict rules.
Loops that return the first hit become sets of hits with a choice of the first.
Reasons, evidence and the second and third targets are left out.

| No. | Module | Source | | No. | Module | Source |
|---|---|---|---|---|---|---|
| 01 | `Unicorn` | `unicorn` | | 09 | `MarketMakerModel` | `mmm` |
| 02 | `JudasSwing` | `judas` | | 10 | `PowerOfThree` | `po3` |
| 03 | `ConfirmationModel` | `confirmation` | | 11 | `PropulsionBlock` | `propulsion` |
| 04 | `SilverBullet` | `silver_bullet` | | 12 | `VacuumBlock` | `vacuum` |
| 05 | `NestedFvg` | `nested_fvg` | | 13 | `ReclaimedFvg` | `reclaimed_fvg` |
| 06 | `InverseFvg` | `ifvg` | | 14 | `Cisd` | `cisd` |
| 07 | `OteFvg` | `ote_fvg` | | 15 | `BprInBlock` | `bpr_ob` |
| 08 | `RejectionBlock` | `rejection_block` | | | | |

**`StrategyPass`** is the orchestrator around them:

| Variable | Code |
|---|---|
| `pass` | `_evaluate_all`: its context, `tick_t` and the strategy that is next |
| `signals` | table `signals`, with the four agents' scores of each row |
| `taken`, `failed` | history: the passes begun, and which strategy raised in which |

`Take` gets a live context, `Replay` one of `replay_day.py`, whose tick may come a
second time, in the same context or in another (the script loads the newest
candles, not those of the day). `Step` evaluates one strategy and stores its row
unless the unique key refuses it, `Fail` is an exception in it. A live tick bears the wall
clock and a replayed one the time of its candle, so the two never share a key.

**`Lists`** has the three ways in which detectors and pipeline build a list: one after
another (`Concat`), an append under a condition (`Only`), a comprehension with a
condition (`Kept`, by the places that stay). They are compositions of `FlattenSeq`,
a recursive function, where `SelectSeq` would be as good to TLC: the provers know
nothing of `SelectSeq`, and of `FlattenSeq` what section 5 needs can be proved.

**`Detectors`** translates swings, structure shifts, sweeps, price gaps and the MMM
phase into operators on sequences of candles, **`MarketFeed`** what happens around
them:

| Variable | Code |
|---|---|
| `market`, `closed` | the course of the market, and how much of it has happened |
| `stored`, `events`, `phase` | tables `candles` and `events`, setting `mmm_phase` |
| `triggers` | `stream_candle_q` |
| `memory` | `_seen_sweep_keys`, `_last_mss_key`, `_active_gaps` |
| `run`, `faults` | number of the process, failures so far |
| `lost`, `loaded` | history: keys remembered by a failed tick; the H1 list of the last tick, and whether the lists of this process only grew |

`PollAndTrigger` stores what a poll of two candles brings (one or two complete
ones), for those time frames whose request succeeds, and triggers a tick in any
case. `Tick` reads, updates the memory and commits; `FailedTick` raises at any of
the inserts or at the commit, which rolls back the rows and not the memory;
`FailedPhase` raises in the transaction of the phase before. `Restart` empties
memory and queue and backfills from the newest candle stored.

Left out of `MarketFeed`: FVGs and their tests (in `FvgTracking`), the levels of
the Asian session, the fib and manipulation rows, M5 and M15 candles (polled like the others,
read by no detector of this module), a tick that fails while it loads. The H4
and daily candles are a fixed part of the market's course.

**`MCStrategyPass`** and **`MCMarketFeed`** give contexts and courses of the market.

## 3. Runs

Passing:

| Run | Properties | Question |
|---|---|---|
| `desk_flow` | `TypeOK` `TradeBacked` `NoneForgotten` `PublishedHasTrade` `ClusterConsistent` `PresentMonthCap` `DecidedOnce` `DeskIsLedger` | Does every signal take the path once, are its cluster rows right, does count-then-commit keep the cap of the month it counts, and does all that implement the atomic ledger, whatever crashes, lock timeouts and full queues do? |
| `desk_stops` | `StopStartsCooling` `CoolingHonoured` `QueuedIsDecided` `PublishedBecomesTrade` | Do stop-losses pause the gate although timer and trade are separate transactions and two requests race, and does the gate get through although the tracker keeps taking the write lock? |
| `fvg_flow` | `TypeOK` `TestsAreTrue` `InvertedIsFinal` `NeverBackwards` `TickEnds` | Do test histories stay true, objects move forward and ticks end, across a moving window, a restart or failed commit, and a judge that shares the objects? |
| `strategy_pass` | `TypeOK` `PlansAreSound` `SignatureAgrees` `VetoNeverDecides` `TickCovered` `ReplayAddsUnsigned` `ManipulationNeverWaits` | Which verdicts, plans and signatures can fifteen strategies bring forth, does each get its turn, and what does a second replay add? |
| `feed_flow` | `TypeOK` `SweepOncePerRun` `GapsTrackedWhileGrowing` `LostStaysLost` | Which events are recorded once, which are lost, and which price gaps are tracked, when polls, ticks and the process fail? |

Bounds, and why they are enough. `desk_flow` has three signals of the four kinds
that gate and publisher tell apart: a `VALID` buy and sell, a `WAIT` without a plan
and a `NO_TRADE`. There are two minutes, with the month turning at the second, and a cap
of one, so that the two `VALID` signals of one minute suffice to break it, and one that waited in the queue is evaluated in the next month.
Three signals of one family make clusters of two and three with both boosts. A queue of two can fill;
one fault is a crash, a lost write or a dropped signal at any point. The price is the buy's
stop, the sell's target, and a hit for a signal without a plan: the pass that loses its lock
and the one that closes both occur. The spread, calendar and weekday are calm: the other vetoes lead to the same
decision as the cap's, and the theorems take any of them.

`desk_stops` has two requests, because the
races are between two, and two minutes with a cooling time of two, so that an
evaluation begun before a stop-loss may end after it and one begun later falls into the pause;
two signals, so that one is decided while another has a trade to stop; no faults, for the liveness
properties (section 4). No evaluation here lies after
the pause; that, longer windows and more of everything else are covered by the
theorems of section 5, which have no such bounds.

`fvg_flow` loads four M1 candles of up to five, so
that positions move, keeps four gaps of the two to three that each of three
ticks detects, so that the cap bites, holds one context in the queue, so that a
tick has to wait, and allows one fault: a restart, a failed commit or a failed
restoration.

`strategy_pass` has some nine thousand contexts. The largest family combines, freely,
the sweeps, shifts, gaps, blocks, sessions and biases that several strategies read, with directions that
contradict each other; eight smaller ones give one or two strategies the set-up they look for
and what may be wrong with it, so that every strategy but 15 (see below) is accepted and
refused in some of them. Each context is judged once in a live tick; two replays and an exception
are tried on three (`Watched`): one that all refuse, one with accepted plans of
which the Unicorn's has no signature, and one where it has. More would add
nothing, since no strategy looks at the table.

`feed_flow` takes every course of four candles of four (M1) or three (H1) shapes,
with an H1 window of three, so that the list moves, swings of one candle on each side, a
trigger queue of one, one failed tick and one restart, and four H4 courses
(within, below, back, above the range). Either M1 or H1 moves, because no
detector reads both.

The runs of `FvgTracking`, `StrategyPass` and `MarketFeed`, `doc_stats` and `doc_monthly_cap` disable the deadlock check: there all
ticks may have been served, the market's course may be over, or all buttons
pressed and all signals served.

Violated, each stating what a document or comment says (the quotation and its
line are in `PROJECT.json`, "findings"):

| Run | Property | What the code does |
|---|---|---|
| `doc_stop_close` | `StopIsClosed` | A trade that reaches its stop is never closed by the tracker: the pass waits for its own write lock and is rolled back, every minute again. Observed on the real code too: `database is locked` after five seconds, trade still open. |
| `doc_manual_override` | `ManualOutcomeKept` | The tracker overwrites an outcome recorded between its read and its update. |
| `doc_stats` | `StatsUpToDate` | Of two concurrent recomputations the older totals may be stored last. |
| `doc_failed_fvg` | `FailureIsPermanent` | A gap with a failed CE test that is then filled comes back as a new one and is accepted after two more tests. Observed on the real code too: verdict `WAIT`, confidence 79. |
| `doc_gap_ids` | `GapsTracked` | Price gaps are named by their place in the H1 list; once it moves, a new gap bears the name of an older one and is never tracked. |
| `doc_monthly_cap` | `EveryMonthCapped` | The cap counts the published signals dated since the first of the *evaluation's* month. A signal dated before the month's turn and evaluated after it is counted nowhere, and the old month may hold any number of them. |
| `doc_backfill` | `BackfillFillsGaps` | The backfill begins at the newest stored candle; one that was missed before it stays missing, also when the manual's remedy, to run the backfill again, is taken. |

More consequences follow from the same actions and have no run.

*Desk.* The cooling
pause is never started by the tracker, only by the dashboard button; closing a
trade erases what the user declared ("taken", `repositories.py:388-394`), and
the statistics then leave it out; "I Skipped" on a closed trade reopens it
(`segment_3.html:208-209`); a stored signal that was queued when the process
stopped stays pending for ever (`main.py:71`, against `USER_MANUAL.md:84`); a `NO_TRADE` signal above the WAIT threshold
is stored and listed as published (`decision_gate.py:121`, against
`USER_MANUAL.md:50`); members of a cluster are published one by one
(`main.py:137`, against `USER_MANUAL.md:534`);
and a planless `WAIT` signal becomes a buy at 0.0 whose first target counts as hit at
any price (`publisher.py:39-42`, `tracker.py:35`). The unique key of `signals`
contains the wall clock of a live tick, so live it refuses nothing: a set-up that
lasts ten minutes is stored, queued and, gate permitting, published ten times.

*Pipeline.* One M1 candle counts as two CE
tests when two ticks meet it (`pipeline.py:127`, against `USER_MANUAL.md:498`);
strategies judge FVG objects that the next tick changes under their hands
(`pipeline.py:231`, against `README.md:38`); candles may sweep levels that form
after them (`sweep.py:83`); a restart reopens price gaps that had been filled
(`MarketFeed!Restart`); a sweep whose insert was rolled back is not inserted
again by the same process, although `pipeline.py` inserts what is "not already
persisted" (`LostStaysLost`); the manipulation event is stored again at every tick
(`README.md:205` speaks of deduplication). The phases 2 to 4 of the market maker
model that `mmm_phase.py:3-8` and `USER_MANUAL.md:442-449` list, the third as the one that gives
signals and that strategy 09 waits for, do not occur: `mmm_phase.py:53` converts the wrong way
(theorem `PhaseStaysLowHolds`). `HolesStayHolds` says of missed candles what
`doc_backfill` shows by example: only candles from the newest stored one on, or among the last
two, are ever added, against `poller.py:5` and `:29` and `USER_MANUAL.md:758-763`.

*Strategies.* The pipeline never sets `current_price`, so every entry is unknown to be
near and `VALID` is out of reach, against `USER_MANUAL.md:462` and `:636`; `StrategyPass` takes
the missing price as an assumption (`ContextAssumption`) and says nothing about
it. An OTE buy has its stop 15 pips below the *low*
of the impulse and its first target, below its entry, there too, where
`strategy_07_ote_fvg.py:4` and `USER_MANUAL.md:418-420` put them at opposite ends
(theorem `OteBuysNeverPayHolds`). An OTE sell has its stop 15 pips above the *low* of the impulse, below its
entry as soon as the impulse exceeds some 51 pips, with a reward-to-risk figure
(computed from distances) of 2 and more up to some 101: it is published and
stopped at once. `ManipulationNeverWaits`: strategy 10 in its manipulation phase
is held to 64 points where its rule asks for 65, although its own comment says
"ensure max WAIT level" (`strategy_10_po3.py:89`, `USER_MANUAL.md:461`).
Strategy 15
waits for H4 or H1 order blocks and strategy 05 rewards H4 gaps, neither of which
the pipeline detects. The first target of strategy 01 is once the risk and never
meets the floor of two. Strategy 04 asks for three of its "4 strict checks",
strategy 06 for three of three where its comment says two (`strategy_06_ifvg.py:218`, 66.7 against 67). `replay_day.py:9` calls itself
idempotent: not for results without a signature, and not when newer candles have
changed the context (`ReplayAddsUnsigned` says exactly when it is).
`VetoNeverDecides`: the documents have the veto at 70 points, the code above 70,
and neither ever changes a verdict.

## 4. Fairness

`FairSpec` adds to `Spec`:

- weak fairness of the steps that only compute or read: each is a thread or a
  task that the interpreter runs. `GateTake` is among them: `put_nowait` is
  called from the executor thread, which does not wake the event loop by itself,
  but the executor's own completion does (`call_soon_threadsafe`), and the
  scheduler's trigger does every minute;
- weak fairness of a tracker pass: the job runs every 60 seconds, and a stalled
  pass ends with the busy timeout of five seconds;
- strong fairness of the writes: while a pass is stalled a writer cannot commit,
  but SQLite's busy handler keeps retrying, and the lock is free for the rest of
  each minute.

`FvgTracking`'s `FairSpec` asks only that a begun tick commits or fails, that a
finished one is delivered when there is room, and that strategy 13 goes on:
threads and tasks that nothing else holds up.

Pressing a button, a new signal, the clock, failures and restarts carry no
fairness. `desk_stops` excludes failures (`MaxFaults` = 0): a write that
times out is abandoned for good, which is what the hazards on `gate_loop` are
about. `StrategyPass` and `MarketFeed` state no fairness and no liveness: a pass is
one loop without waiting, and a tick that does not come is what the latter is
about.

## 5. Theorems

All are proved for every value of the constants that satisfies the modules'
assumptions. For the desk these are `DeskAssumption`, `CalendarAssumption`,
`GateAssumption` and `BucketAssumption`: finite but arbitrary bounds, any
candidates, any set of concurrent requests, any calendar whose months do not run
backwards. For the pass, `ContextAssumption`: any contexts, of any length and any
prices, as long as the live price and spread are missing, as in the code. For
the feed, `FeedAssumption` (candles are numbered by their time), `DetectorAssumption`
(a swing has a candle on each side) and `PriceAssumption` (a course is a list of
candles with prices up to 1000.00000). For gap tracking, `FvgAssumption`: any
list of time frames but the empty one, any history and shapes of candles, windows
and caps of any size from one on. `TypeOK` below is each module's own.

| Theorem | Module | Says |
|---|---|---|
| `TypeCorrect` | `TradeDeskProofs` | `Spec => []TypeOK` |
| `TradeBackedHolds` | `TradeDeskOnce` | `Spec => []TradeBacked` |
| `DecidedOnceHolds` | `TradeDeskOnce` | `Spec => DecidedOnce` |
| `CoolingHonouredHolds` | `TradeDeskOnce` | `Spec => CoolingHonoured` |
| `NoneForgottenHolds` | `TradeDeskOnce` | `Spec => []NoneForgotten` |
| `PublishedHasTradeHolds` | `TradeDeskOnce` | `Spec => []PublishedHasTrade` |
| `PresentMonthCapHolds` | `TradeDeskSafety` | `Spec => []PresentMonthCap` |
| `StopStartsCoolingHolds` | `TradeDeskSafety` | `Spec => []StopStartsCooling` |
| `ClusterConsistentHolds` | `TradeDeskSafety` | `Spec => []ClusterConsistent` |
| `DeskImplementsLedger` | `TradeDeskLedger` | `Spec => DeskIsLedger` |
| `PassIsTyped` | `StrategyPassProofs` | `Spec => []TypeOK` |
| `TicksAreCovered` | `StrategyPassProofs` | `Spec => []TickCovered` |
| `ReplaysAddUnsigned` | `StrategyPassProofs` | `Spec => ReplayAddsUnsigned` |
| `PlansAreSoundHolds` | `StrategyPassProofs` | `Spec => []PlansAreSound` |
| `OteBuysNeverPayHolds` | `StrategyPassProofs` | `Spec => []OteBuysNeverPay` |
| `SignatureAgreesHolds` | `StrategyPassProofs` | `Spec => []SignatureAgrees` |
| `VetoNeverDecidesHolds` | `StrategyPassProofs` | `Spec => []VetoNeverDecides` |
| `ManipulationNeverWaitsHolds` | `StrategyPassProofs` | `Spec => ManipulationNeverWaits` |
| `FeedIsTyped` | `MarketFeedProofs` | `Spec => []TypeOK` |
| `SweepOncePerRunHolds` | `MarketFeedProofs` | `Spec => []SweepOncePerRun` |
| `LostStaysLostHolds` | `MarketFeedProofs` | `Spec => LostStaysLost` |
| `GapsTrackedWhileGrowingHolds` | `MarketFeedProofs` | `Spec => []GapsTrackedWhileGrowing` |
| `PhaseStaysLowHolds` | `MarketFeedProofs` | `Spec => []PhaseStaysLow` |
| `HolesStayHolds` | `MarketFeedProofs` | `Spec => HolesStay` |
| `TrackingIsTyped` | `FvgTrackingProofs` | `Spec => []TypeOK` |
| `TestsAreTrueHolds` | `FvgTrackingProofs` | `Spec => []TestsAreTrue` |
| `InvertedIsFinalHolds` | `FvgTrackingProofs` | `Spec => []InvertedIsFinal` |
| `NeverBackwardsHolds` | `FvgTrackingProofs` | `Spec => NeverBackwards` |

How the arguments go:

- *Types.* `TypeOK` is inductive as it stands because it carries three facts
  besides types: ids never dangle, no stored time lies in the future, and a gate
  about to write has decided. The hard case is `GateCluster`, whose
  representative is chosen twice over; `RepresentativeIsBest` shows that the
  choice exists and is a member.
- *Cap of the present month.* The cap, of the signals dated in the month of the
  clock (`doc_monthly_cap` shows that no more is true), is not inductive: between `GateScreen` and `GateWrite`
  a passed signal is not counted yet. `CapRoom` adds that, from the moment a
  signal has passed, the month counted at its evaluation has room for one more.
  It survives because only the gate publishes, and because a later minute counts
  no more of the same signals (`MonthShrinks`).
- *Stop and timer.* `StopStartsCooling` is inductive given the types: a request
  writes its own time and then the current one, which is no earlier.
- *One trade per signal.* `Once` puts each undecided id in exactly one place
  (with the orchestrator, once in the queue, or with the gate, `InTransit`) and
  says that a signal the gate is about to publish has no trade. Crashes only
  empty places. `DecidedOnce` follows: the gate writes only what is in transit,
  and what is in transit is pending.
- *Cooling.* `CoolingChecked` records what `GateCool` saw until `GateWrite`; the
  timer is only ever overwritten by the present time, which the property allows
  for.

- *Clusters.* `ClusterConsistent` is not inductive, because the row that
  `GateCluster` writes is used two transactions later. `ClusterInv` adds what the
  gate remembers between cluster and trade: its cluster exists, has its signal among
  the members and has no trade yet (`GateClustered`); a trade refers to a cluster
  of its signal (`TradesClustered`); and the window, from which members are taken,
  holds published signals only (`WindowPublished`), which `Once` provides when one enters and
  `DecidedOnce` keeps. That the representative outranks the rest and the boosted confidence stays
  between its own and 100 is `NewClusterTrue`.
- *Delivery.* `AllDelivered` joins the two statements of `NoneForgotten` and
  `PublishedHasTrade`: they are inductive together, given `Once`, since the gate
  leaves a signal only by deciding it and, if published and tradable, only by
  giving it a trade. Every action that abandons a signal counts a fault.
- *Refinement.* Each desk step is matched with the ledger step it takes:
  `OrchPersist` records, `GateWrite` vetoes or publishes, `GatePublish` proposes, `Tick` passes, all others leave the mapped
  ledger alone. `Once` supplies "still pending" and "not traded yet", `CapRoom`
  that the month has room when the commit comes, although the count was taken
  earlier.

- *Passes.* `PassInv` says that every row is what its strategy makes of some context
  (`Typed`) and how far each pass has come (`Complete`: each strategy before
  `next` has a row or has raised, in earlier passes all fifteen). `TicksAreCovered`
  is its end; `ReplaysAddUnsigned` follows because a signed row of the earlier
  replay is still there and refuses the new one.
- *Results.* Because rows are results, the other four statements on rows of
  `StrategyPassProofs` reduce to one about `Evaluate(s, c)` for an arbitrary context,
  taken strategy by strategy. Plans: `RMultipleIsSound` settles target and reward once the
  entry and the stop are integers, which needs that each strategy's choice (the
  newest gap, the nearest gap or level, the last pair) exists and lies in its
  list: that is `LexBest`, `PairBest` and `NearestHasType`, on `Foundations`. The veto: eight strategies' risk agents never reach 70
  (`MildRisks`); in the other seven whatever drives a risk score there also takes
  enough from the strict rules that the weighted sum stays below 65. The hardest
  is strategy 03, where the bound uses that a weak last candle, which one risk agent
  counts, also bounds the displacement bonus of another agent (`DisplacementBound`).
- *Types of results.* `PassIsTyped` needs that a confidence is one of 0 to 100
  points. It is a rounded quotient of a weighted sum of four scores, so each of the sixty scores must be an
  integer of its range: that is a lemma per strategy (`UnicornFits` to `BprFits`)
  and arithmetic on top (`ConfidenceRange`). The scores
  that divide (overlap of zones, ratio of wick and body, bar after a
  propulsion) are the ones where a zero or a missing candle could have broken it.
- *Feed.* `FeedInv` holds the types of tables and queue and the phase itself.
  The phase is low because an expansion is converted to a distance that no price
  has (`ExpansionIsFar`). A hole stays because both ways into the table, the poll
  and the backfill, only bring candles from the newest stored one on or the last two.
- *Sweeps.* That the table holds no sweep of a process twice says nothing about the
  next insert. `SweepInv` relates table and memory: the keys of the sweeps that
  this process has stored are among `memory.sweeps` (`Recorded`), and so are those
  of rolled-back ticks (`lost`). A tick only inserts sweeps whose keys are not
  there, once each, however the list of candles has moved; `LostStaysLost` follows from the same facts.
- *Gaps by place.* `GapInv` says that the tracked gaps are those of the list last
  loaded, under the names they have in it (`GapsOf`), while that list has only
  grown. Growing keeps the place of a candle, so an old name means the old gap;
  the candles' times being distinct, no gap is tracked twice. When the window
  moves this ends, which is what `doc_gap_ids` shows.
- *Fair value gaps.* `TestsAreTrue` is not inductive: the truth of a test must
  survive the wait between a tick's computation and its commit (`RowsTrue(tick.rows)`), and
  a restart, which puts the stored rows back into other objects. `TrackInv` says of
  each object that it is a gap of the candles (`GapAt`), which new candles do not
  change; of each test, stored, waiting or remembered, that it is true of that gap and that its
  candle did not close through it (`Recorded`); of an inverted gap that a later
  candle did (`ClosedThrough`); and that before the restoration there are no
  objects (`~ rebuilt`), so that tests only enter fresh ones. `InvertedIsFinal`
  needs the clause about closing through: a gap that an M1 candle
  closes through has been reached and ends in that very step (`ThroughEnds`).
  `NeverBackwards` needs `~ rebuilt` for the one step that replaces tests.
- *Lists.* Detectors and pipeline build lists in loops. `FlattenSeq` is a recursive
  function over a length, and induction over it is done in `Foundations` by the
  least counterexample (`LeastElement`), which needs no induction rule: `JoinsExist`
  gives the list, `KeptPlaces` the increasing places that it keeps.

Left to TLC: the three liveness properties (`QueuedIsDecided`, `PublishedBecomesTrade`
and `TickEnds`: temporal reasoning under fairness and ENABLED are out of the
prover's reach), and the violated properties of the `doc_` runs. Every other property
of a passing run is a theorem. Three theorems have no run: `OteBuysNeverPayHolds`,
`PhaseStaysLowHolds` and `HolesStayHolds` say how far the code departs from its
documents, for every context, course and length, and promise nothing.

## 6. Not modelled, and what is left

- Server-sent events, narrative, Telegram: output only, nothing reads it back.
- The price stream (`stream_consumer.py`): its spread and price reach the gate and
  the tracker as arbitrary values, which includes stale ones. The watchdog that
  `stream_consumer.py:61` describes is never started.
- Calendar refresh (`finnhub_client.py`): replaces a table in one transaction;
  the gate's model has any calendar answer at any evaluation.
- Order blocks, kill zones, bias, premium and discount, SMT divergence, ATR and the
  fib levels: functions of a list of candles; strategies get any values of them.
  The contexts of `strategy_pass` are therefore more than the pipeline can build;
  what holds of all of them holds of those.
- A second gate process (`replay_day.py:75-81`) beside the live one; the fields of
  the statistics beyond counts; pages and settings form; pruning of events older
  than 90 days.

Left to do: an abstract specification of the events table, as `SignalLedger` is one of the
signals, that both `MarketFeed` and `FvgTracking` implement; the second gate.

Divergences between documents and code in parts not modelled: the gate runs
before clustering although
`decision_gate.py:3` says after; a "perfect FVG" of at most 1 pip
(`USER_MANUAL.md:503`) cannot exist beside the 5-pip minimum; the watchdog and the
reconnect are described and never called
(`poller.py:5`, `stream_consumer.py:61`); `USER_MANUAL.md:517` gives CISD the
lowest priority and `ancestry.py:18` does not.
