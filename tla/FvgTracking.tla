---------------------------- MODULE FvgTracking ----------------------------
(***************************************************************************)
(* What the event pipeline remembers of fair value gaps: a poll stores     *)
(* candles and triggers a tick; a tick detects the gaps of the candles it  *)
(* loads, advances those it tracks by the newest M1 candle, stores their   *)
(* new CE tests and hands a context to the strategies.  Strategy 13        *)
(* (reclaimed FVG) judges the context in a thread of its own.  The FVGs    *)
(* are Python objects that tracking and contexts share: here they live in  *)
(* `objects', and everyone holds indices into it.                          *)
(***************************************************************************)
EXTENDS Lists

CONSTANTS Timeframes,   \* in the order of detection; candles of the first one move gaps
          Shapes,       \* timeframe |-> the candles the broker may report
          History,      \* timeframe |-> candles the backfill has stored
          Load,         \* timeframe |-> candles a tick loads (200, 100, 60)
          MinGap,       \* FVG_MIN_PIPS, in points
          KeepCap,      \* FVGs kept (400)
          ContextCap,   \* maxsize of context_q (100)
          MaxRows, MaxTicks, MaxPending, MaxFaults   \* bounds of the instance

Frames == ToSet(Timeframes)
Base   == Timeframes[1]

CandleType == {c \in [o : Int, h : Int, l : Int, c : Int] :
                  c.l <= c.o /\ c.o <= c.h /\ c.l <= c.c /\ c.c <= c.h}

ASSUME FvgAssumption ==
    /\ Timeframes \in Seq(Frames) \ {<< >>}
    /\ Shapes \in [Frames -> SUBSET CandleType]
    /\ History \in [Frames -> Seq(CandleType)]
    /\ Load \in [Frames -> Nat]
    /\ MaxRows \in [Frames -> Nat]
    /\ MinGap \in Nat \ {0} /\ KeepCap \in Nat \ {0} /\ ContextCap \in Nat \ {0}
    /\ MaxTicks \in Nat /\ MaxPending \in Nat /\ MaxFaults \in Nat

VARIABLES
    candles,    \* table candles: timeframe |-> rows, the row's index is its time
    stored,     \* table events, the rows of type fvg_ce_test
    polled,     \* timeframe |-> candles the present poll has stored
    ticks,      \* triggers put so far (history)
    triggers,   \* stream_candle_q
    objects,    \* the FVG objects of this process
    active,     \* _active_fvgs
    rebuilt,    \* _fvg_tests_rebuilt
    tick,       \* a tick that has evaluated and not delivered yet
    contexts,   \* context_q: the fvgs of each CanonicalContext
    judge,      \* strategy 13 at work on a context
    faults      \* restarts and failed database calls so far (history)

vars == << candles, stored, polled, ticks, triggers, objects, active, rebuilt,
           tick, contexts, judge, faults >>

-----------------------------------------------------------------------------
(* Gaps: a gap is named by its timeframe and the row of its first candle.   *)

\* detect_fvgs: three rows whose outer wicks leave at least MinGap free.
Upward(tf, k)   == candles[tf][k + 2].l - candles[tf][k].h >= MinGap
Downward(tf, k) == candles[tf][k].l - candles[tf][k + 2].h >= MinGap

Direction(f) == IF Upward(f.tf, f.c1) THEN "bullish" ELSE "bearish"
Top(f)    == IF Upward(f.tf, f.c1) THEN candles[f.tf][f.c1 + 2].l ELSE candles[f.tf][f.c1].l
Bottom(f) == IF Upward(f.tf, f.c1) THEN candles[f.tf][f.c1].h ELSE candles[f.tf][f.c1 + 2].h

\* The midpoint, rounded to a point.  (Which neighbour Python's round gives a half
\* depends on the binary fraction; the instances have even gaps.)
CE(f) == (Top(f) + Bottom(f)) \div 2

States == {"formed", "retested", "partially_filled", "fully_filled", "inverted"}
Ended  == {"fully_filled", "inverted"}

\* Rows before the ones a tick loads.
Skipped(tf) == IF Len(candles[tf]) > Load[tf] THEN Len(candles[tf]) - Load[tf] ELSE 0

\* Fresh objects for every gap among the loaded rows.  The id is the position in
\* the loaded list and moves when the list does.
Detected(tf) ==
    LET rows   == [k \in 1..Len(candles[tf]) |-> k]
        firsts == Kept(rows, {k \in DOMAIN rows : /\ k > Skipped(tf)
                                                  /\ k + 2 <= Len(candles[tf])
                                                  /\ Upward(tf, k) \/ Downward(tf, k)})
    IN  [n \in DOMAIN firsts |->
            [tf |-> tf, c1 |-> firsts[n], id |-> firsts[n] - Skipped(tf),
             state |-> "formed", tests |-> << >>]]

DetectedAll == FlattenSeq([n \in DOMAIN Timeframes |-> Detected(Timeframes[n])])

-----------------------------------------------------------------------------
(* One object and one candle.                                               *)

Deeper == [s \in States |-> IF s = "formed" THEN "retested"
                            ELSE IF s = "retested" THEN "partially_filled" ELSE s]

NearEdge(f, c) == IF Direction(f) = "bullish" THEN c.l <= Top(f) ELSE c.h >= Bottom(f)
FarEdge(f, c)  == IF Direction(f) = "bullish" THEN c.l <= Bottom(f) ELSE c.h >= Top(f)
BodyThrough(f, c) == IF Direction(f) = "bullish" THEN c.c < Bottom(f) /\ c.o > Top(f)
                     ELSE c.c > Top(f) /\ c.o < Bottom(f)

\* update_fvg_state.  (AdvanceEnded forgets that an ended gap stays as it is.)
StateAfter(f, c) ==
    IF ~ NearEdge(f, c) THEN f.state
    ELSE IF BodyThrough(f, c) THEN "inverted"
    ELSE IF FarEdge(f, c) THEN "fully_filled" ELSE Deeper[f.state]
AdvanceEnded(f, c) == [f EXCEPT !.state = StateAfter(f, c)]
Advance(f, c) == IF f.state \in Ended THEN f ELSE [f EXCEPT !.state = StateAfter(f, c)]

\* update_fvg_ce_tests, with the candle in row t of the first timeframe.
\* (TestAny also tests gaps that have ended.)
Respects(f, c) == IF Direction(f) = "bullish" THEN c.c >= CE(f) ELSE c.c <= CE(f)
TestAny(f, t) ==
    LET c == candles[Base][t]
    IN  IF c.l <= Top(f) /\ c.h >= Bottom(f)
        THEN [f EXCEPT !.tests = Append(@, [t |-> t, respected |-> Respects(f, c)])]
        ELSE f
Test(f, t) == IF f.state \in Ended THEN f ELSE TestAny(f, t)

Aged(f) ==
    LET t == Len(candles[Base])
    IN  IF t = 0 THEN f ELSE Test(Advance(f, candles[Base][t]), t)

\* _rebuild_fvg_tests_from_db looks rows up by (c1_t, timeframe, instrument).
\* (SameId takes the id for the key.)
SameId(r, f)  == r.tf = f.tf /\ r.id = f.id
SameGap(r, f) == r.tf = f.tf /\ r.c1 = f.c1
Restored(f) ==
    LET rows == Kept(stored, {n \in DOMAIN stored : SameGap(stored[n], f)})
    IN  IF f.tests # << >> THEN f
        ELSE [f EXCEPT !.tests = [n \in DOMAIN rows |->
                                    [t |-> rows[n].t, respected |-> rows[n].respected]]]

\* _prev_test_counts: keyed by id, so the last of several objects counts.
PrevCount(f) ==
    LET n == SelectLastInSeq(active, LAMBDA i : objects[i].tf = f.tf /\ objects[i].id = f.id)
    IN  Len(objects[active[n]].tests)

\* The event rows for what the aged object f has beyond that count.
NewRows(f) ==
    LET news == SubSeq(f.tests, PrevCount(f) + 1, Len(f.tests))
    IN  [n \in DOMAIN news |-> [tf |-> f.tf, c1 |-> f.c1, id |-> f.id,
                                t |-> news[n].t, respected |-> news[n].respected]]

\* The last KeepCap of a list.  (AllOf keeps every one.)
AllOf(s)  == s
Newest(s) == IF Len(s) > KeepCap THEN SubSeq(s, Len(s) - KeepCap + 1, Len(s)) ELSE s

-----------------------------------------------------------------------------
IdleTick  == [pc |-> "idle", rows |-> << >>, fvgs |-> << >>]
IdleJudge == [pc |-> "idle", fvgs |-> << >>, strict |-> FALSE, gap |-> 0]
NonePolled == [tf \in Frames |-> 0]

\* poll_latest: each timeframe is fetched and committed by itself; count=2 brings up
\* to two closed candles, a failed fetch none.
Poll(tf, c) ==
    /\ polled[tf] < 2
    /\ Len(candles[tf]) < MaxRows[tf]
    /\ candles' = [candles EXCEPT ![tf] = Append(@, c)]
    /\ polled' = [polled EXCEPT ![tf] = @ + 1]
    /\ UNCHANGED << stored, ticks, triggers, objects, active, rebuilt, tick, contexts,
                    judge, faults >>

\* poll_and_trigger then triggers a tick, whatever the poll brought.
Trigger ==
    /\ ticks < MaxTicks /\ triggers < MaxPending
    /\ ticks' = ticks + 1
    /\ triggers' = triggers + 1
    /\ polled' = NonePolled
    /\ UNCHANGED << candles, stored, objects, active, rebuilt, tick, contexts, judge,
                    faults >>

\* _build_context up to _persist_events: age the tracked objects, append the detected
\* ones, forget the filled ones and all but the last KeepCap, and on the first tick
\* restore test histories (which may fail, is logged and never tried again).
Evaluate ==
    /\ tick.pc = "idle"
    /\ triggers > 0
    /\ triggers' = triggers - 1
    /\ LET aged   == [i \in DOMAIN objects |->
                        IF Contains(active, i) THEN Aged(objects[i]) ELSE objects[i]]
           grown  == aged \o DetectedAll
           every  == active \o [n \in DOMAIN DetectedAll |-> Len(objects) + n]
           open   == Kept(every, {n \in DOMAIN every : grown[every[n]].state # "fully_filled"})
           tail   == Newest(open)
       IN  /\ active' = tail
           /\ \/ /\ rebuilt
                 /\ objects' = grown
                 /\ UNCHANGED faults
              \/ /\ ~ rebuilt
                 /\ objects' = [i \in DOMAIN grown |->
                                   IF Contains(tail, i) THEN Restored(grown[i]) ELSE grown[i]]
                 /\ UNCHANGED faults
              \/ /\ ~ rebuilt
                 /\ faults < MaxFaults
                 /\ objects' = grown
                 /\ faults' = faults + 1
           /\ tick' = [pc |-> "persist", fvgs |-> tail,
                       rows |-> FlattenSeq([n \in DOMAIN active |-> NewRows(aged[active[n]])])]
    /\ rebuilt' = TRUE
    /\ UNCHANGED << candles, stored, polled, ticks, contexts, judge >>

\* _persist_events commits ...
Persist ==
    /\ tick.pc = "persist"
    /\ stored' = stored \o tick.rows
    /\ tick' = [tick EXCEPT !.pc = "deliver", !.rows = << >>]
    /\ UNCHANGED << candles, polled, ticks, triggers, objects, active, rebuilt, contexts,
                    judge, faults >>

\* ... or fails: no context, but what is tracked has moved on.
PersistFail ==
    /\ tick.pc = "persist"
    /\ faults < MaxFaults
    /\ faults' = faults + 1
    /\ tick' = IdleTick
    /\ UNCHANGED << candles, stored, polled, ticks, triggers, objects, active, rebuilt,
                    contexts, judge >>

\* context_q.put waits while the queue is full.
Deliver ==
    /\ tick.pc = "deliver"
    /\ Len(contexts) < ContextCap
    /\ contexts' = Append(contexts, tick.fvgs)
    /\ tick' = IdleTick
    /\ UNCHANGED << candles, stored, polled, ticks, triggers, objects, active, rebuilt,
                    judge, faults >>

-----------------------------------------------------------------------------
(* Strategy 13.                                                             *)

Breached(f) == \E n \in DOMAIN f.tests : ~ f.tests[n].respected
Reclaimable(f) == f.state \notin Ended /\ Len(f.tests) >= 2 /\ ~ Breached(f)

\* _find_reclaimed_fvg: the position of the last one, 0 if there is none.
Reclaimed(fvgs) == SelectLastInSeq(fvgs, LAMBDA i : Reclaimable(objects[i]))

JudgeTake ==
    /\ judge.pc = "idle"
    /\ contexts # << >>
    /\ judge' = [IdleJudge EXCEPT !.pc = "agents", !.fvgs = Head(contexts)]
    /\ contexts' = Tail(contexts)
    /\ UNCHANGED << candles, stored, polled, ticks, triggers, objects, active, rebuilt,
                    tick, faults >>

\* The agents look first: the strict rules hold if there is a reclaimed gap and no
\* gap of the context is breached.
JudgeAgents ==
    /\ judge.pc = "agents"
    /\ judge' = [judge EXCEPT !.pc = "trade",
                    !.strict = /\ Reclaimed(judge.fvgs) # 0
                               /\ \A n \in DOMAIN judge.fvgs : ~ Breached(objects[judge.fvgs[n]])]
    /\ UNCHANGED << candles, stored, polled, ticks, triggers, objects, active, rebuilt,
                    tick, contexts, faults >>

\* build_trade_parameters looks again.
JudgeTrade ==
    /\ judge.pc = "trade"
    /\ LET n == Reclaimed(judge.fvgs)
       IN  judge' = [judge EXCEPT !.pc = "result",
                        !.gap = IF n = 0 THEN 0 ELSE judge.fvgs[n]]
    /\ UNCHANGED << candles, stored, polled, ticks, triggers, objects, active, rebuilt,
                    tick, contexts, faults >>

\* The result is stored and queued (TradeDesk), the next context may come.  (JudgeHangs
\* never returns from that.)
JudgeHangs == judge.pc = "result" /\ UNCHANGED vars
JudgeDone ==
    /\ judge.pc = "result"
    /\ judge' = IdleJudge
    /\ UNCHANGED << candles, stored, polled, ticks, triggers, objects, active, rebuilt,
                    tick, contexts, faults >>

\* A stop and restart: the tables stay.
Restart ==
    /\ faults < MaxFaults
    /\ faults' = faults + 1
    /\ objects' = << >> /\ active' = << >> /\ rebuilt' = FALSE
    /\ polled' = NonePolled /\ triggers' = 0
    /\ tick' = IdleTick /\ contexts' = << >> /\ judge' = IdleJudge
    /\ UNCHANGED << candles, stored, ticks >>

Init ==
    /\ candles = History
    /\ stored = << >>
    /\ objects = << >> /\ active = << >> /\ rebuilt = FALSE
    /\ polled = NonePolled /\ ticks = 0 /\ triggers = 0
    /\ tick = IdleTick /\ contexts = << >> /\ judge = IdleJudge
    /\ faults = 0

Pipeline == Evaluate \/ Persist \/ PersistFail \/ Deliver
Judge    == JudgeTake \/ JudgeAgents \/ JudgeTrade \/ JudgeDone

Next ==
    \/ \E tf \in Frames : \E c \in Shapes[tf] : Poll(tf, c)
    \/ Trigger
    \/ Pipeline
    \/ Judge
    \/ Restart

Spec == Init /\ [][Next]_vars

\* A tick that has begun and a strategy at work are threads that keep running.
FairSpec == Spec /\ WF_vars(Persist \/ PersistFail) /\ WF_vars(Deliver) /\ WF_vars(Judge)

-----------------------------------------------------------------------------
(* Properties.                                                              *)

TestType == [t : Nat, respected : BOOLEAN]
ObjectType == [tf : Frames, c1 : Nat, id : Nat, state : States, tests : Seq(TestType)]
RowType == [tf : Frames, c1 : Nat, id : Nat, t : Nat, respected : BOOLEAN]
Refs == Seq(DOMAIN objects)

\* Every reference a thread or a queue holds leads to an object.
TypeOK ==
    /\ candles \in [Frames -> Seq(CandleType)]
    /\ stored \in Seq(RowType)
    /\ polled \in [Frames -> 0..2]
    /\ ticks \in 0..MaxTicks /\ triggers \in 0..ticks
    /\ objects \in Seq(ObjectType)
    /\ active \in Refs /\ Len(active) <= KeepCap
    /\ rebuilt \in BOOLEAN
    /\ tick \in [pc : {"idle", "persist", "deliver"}, rows : Seq(RowType), fvgs : Refs]
    /\ contexts \in Seq(Refs) /\ Len(contexts) <= ContextCap
    /\ judge \in [pc : {"idle", "agents", "trade", "result"}, fvgs : Refs, strict : BOOLEAN,
                  gap : 0..Len(objects)]
    /\ faults \in 0..MaxFaults

\* A test x of the gap (tf, k) is what the M1 candle of that time did: its range met
\* the zone, and the verdict is the side of the middle on which it closed.
TrueTest(tf, k, x) ==
    LET c   == candles[Base][x.t]
        one == candles[tf][k]
        two == candles[tf][k + 2]
        mid == IF one.h < two.l THEN (one.h + two.l) \div 2 ELSE (one.l + two.h) \div 2
    IN  /\ k + 2 \in DOMAIN candles[tf]
        /\ x.t \in DOMAIN candles[Base]
        /\ \/ one.h < two.l /\ c.l <= two.l /\ c.h >= one.h /\ x.respected = (c.c >= mid)
           \/ two.h < one.l /\ c.l <= one.l /\ c.h >= two.h /\ x.respected = (c.c <= mid)

\* No test is ever told of the wrong gap: not in memory, not in the events table, not
\* after a restart has given rows back to gaps that meanwhile have other positions.
TestsAreTrue ==
    /\ \A i \in DOMAIN objects : \A n \in DOMAIN objects[i].tests :
           TrueTest(objects[i].tf, objects[i].c1, objects[i].tests[n])
    /\ \A n \in DOMAIN stored : TrueTest(stored[n].tf, stored[n].c1, stored[n])

\* An inverted gap was closed through by a candle that came after its last test: the
\* state machine and the test history, kept by two functions, agree.
InvertedIsFinal ==
    \A i \in DOMAIN objects :
        objects[i].state = "inverted" =>
            \E t \in DOMAIN candles[Base] :
                /\ BodyThrough(objects[i], candles[Base][t])
                /\ \A n \in DOMAIN objects[i].tests : objects[i].tests[n].t < t

\* Within a process an object only moves forward: its tests grow at the end, an ended
\* gap keeps state and tests, and a deep state never turns shallow again.
Rank == [s \in States |-> IF s = "formed" THEN 0 ELSE IF s = "retested" THEN 1
                          ELSE IF s = "partially_filled" THEN 2 ELSE 3]
Forward(f, g) ==
    /\ IsPrefix(f.tests, g.tests)
    /\ Rank[f.state] <= Rank[g.state]
    /\ f.state \in Ended => g.state = f.state /\ g.tests = f.tests
NeverBackwards ==
    [][\A i \in DOMAIN objects \cap DOMAIN objects' : Forward(objects[i], objects'[i])]_vars

\* A tick comes to its end: though it waits while context_q is full and the strategies
\* look at the objects it moves, neither loop waits for the other for ever.
TickEnds == tick.pc # "idle" ~> tick.pc = "idle"

\* USER_MANUAL.md: "A single failure permanently disqualifies the FVG": strategy 13
\* never finds its strict rules met by a gap with a failed test on record.
FailureIsPermanent ==
    [][judge'.pc = "trade" /\ judge.pc = "agents" /\ judge'.strict =>
          LET f == objects[judge.fvgs[Reclaimed(judge.fvgs)]]
          IN  \A n \in DOMAIN stored : SameGap(stored[n], f) => stored[n].respected]_vars
=============================================================================
