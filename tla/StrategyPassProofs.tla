------------------------- MODULE StrategyPassProofs -------------------------
(***************************************************************************)
(* Theorems about StrategyPass: that every pass leaves a row for each      *)
(* strategy, what a replay adds, and, because every row is the result of   *)
(* its strategy on a context, what the verdicts and plans of the           *)
(* strategies can be, whatever the market does: among them that the        *)
(* confidence is a percentage, which rests on each of the sixty scores.    *)
(***************************************************************************)
EXTENDS StrategyPass, TLAPS, FiniteSetTheorems, Foundations

Strategies == {Order[i] : i \in DOMAIN Order}

\* The results a pass can come by.
RowType == {Row(s, t, Evaluate(s, c)) : s \in Strategies, t \in Int, c \in Contexts}

\* Every row is what its strategy makes of a context.
Typed ==
    /\ signals \in Seq(RowType)
    /\ taken \in Seq(Int \X Contexts)
    /\ pass = Idle \/ /\ taken # << >>
                      /\ pass.next \in 1..15
                      /\ pass.t = taken[Len(taken)][1]
                      /\ pass.ctx = taken[Len(taken)][2]
                      /\ pass = [ctx |-> pass.ctx, t |-> pass.t, next |-> pass.next]

\* Strategy i has raised in pass n, or its result is stored.
Covered(n, i) ==
    \/ << n, Order[i] >> \in failed
    \/ \E k \in DOMAIN signals :
          /\ signals[k].strategy = Order[i]
          /\ signals[k].t = taken[n][1]
          /\ signals[k].result.signature = Evaluate(Order[i], taken[n][2]).signature

\* Past passes are complete, the running one is up to its next strategy.
Complete ==
    \A n \in DOMAIN taken : \A i \in 1..15 :
        n < Len(taken) \/ pass = Idle \/ i < pass.next => Covered(n, i)

PassInv == Typed /\ Complete

LEMMA FifteenStrategies == Len(Order) = 15 /\ DOMAIN Order = 1..15
BY DEF Order

LEMMA InitPass == Init => PassInv
BY DEF Init, PassInv, Typed, Complete

\* A pass begins: the one before it was over.
LEMMA BeginKeeps ==
    ASSUME PassInv, pass = Idle, NEW t \in Int, NEW c \in Contexts, Begin(t, c)
    PROVE  PassInv'
<1>1. Typed'
  BY DEF PassInv, Typed, Begin
<1>2. ASSUME NEW n \in DOMAIN taken', NEW i \in 1..15,
             n < Len(taken') \/ pass' = Idle \/ i < pass'.next
      PROVE  Covered(n, i)'
  <2>1. n < Len(taken')
    BY <1>2, <1>1 DEF PassInv, Typed, Begin, Idle
  <2>2. n \in DOMAIN taken /\ taken'[n] = taken[n]
    BY <2>1 DEF PassInv, Typed, Begin
  <2>3. Covered(n, i)
    BY <2>2 DEF PassInv, Complete
  <2> QED
    BY <2>2, <2>3 DEF Covered, Begin
<1> QED
  BY <1>1, <1>2 DEF PassInv, Complete

\* The pass moves on when its strategy is covered.
LEMMA AdvanceKeeps ==
    ASSUME PassInv, pass # Idle, pass' = Advance, taken' = taken,
           signals' \in Seq(RowType),
           \A n \in DOMAIN taken, i \in 1..15 : Covered(n, i) => Covered(n, i)',
           NEW m, NEW j, m = Len(taken), j = pass.next, Covered(m, j)'
    PROVE  PassInv'
<1>1. Typed'
  <2>1. CASE pass.next = 15
    BY <2>1, FifteenStrategies DEF PassInv, Typed, Advance
  <2>2. CASE pass.next # 15
    <3>1. pass' = [pass EXCEPT !.next = @ + 1]
      BY <2>2, FifteenStrategies DEF Advance
    <3>2. pass' = [ctx |-> pass.ctx, t |-> pass.t, next |-> pass.next + 1]
      BY <3>1 DEF PassInv, Typed
    <3>3. pass'.next \in 1..15 /\ pass'.ctx = pass.ctx /\ pass'.t = pass.t
      BY <2>2, <3>2 DEF PassInv, Typed
    <3> QED
      BY <3>2, <3>3 DEF PassInv, Typed
  <2> QED
    BY <2>1, <2>2
<1>2. ASSUME NEW n \in DOMAIN taken', NEW i \in 1..15,
             n < Len(taken') \/ pass' = Idle \/ i < pass'.next
      PROVE  Covered(n, i)'
  <2>1. n \in DOMAIN taken /\ n \in 1..m /\ m \in Nat /\ j \in 1..15
    BY DEF PassInv, Typed
  <2>2. CASE n < m \/ i < j
    BY <2>1, <2>2 DEF PassInv, Complete
  <2>3. CASE n = m /\ i = j
    BY <2>3
  <2>4. n < m \/ i <= j
    <3>1. CASE j = 15
      BY <3>1
    <3>2. CASE j # 15
      <4>1. pass' = [pass EXCEPT !.next = @ + 1]
        BY <3>2, FifteenStrategies DEF Advance
      <4>2. pass' = [ctx |-> pass.ctx, t |-> pass.t, next |-> j + 1]
        BY <4>1 DEF PassInv, Typed
      <4>3. pass'.next = j + 1 /\ pass' # Idle
        BY <2>1, <4>2 DEF Idle
      <4> QED
        BY <1>2, <2>1, <4>3
    <3> QED
      BY <3>1, <3>2
  <2> QED
    BY <2>1, <2>2, <2>3, <2>4
<1> QED
  BY <1>1, <1>2 DEF PassInv, Complete

\* The row that Step appends, or finds.
LEMMA StepKeeps ==
    ASSUME PassInv, Step
    PROVE  PassInv'
<1> DEFINE strategy == Order[pass.next]
           result   == Evaluate(strategy, pass.ctx)
           row      == Row(strategy, pass.t, result)
<1>1. /\ taken # << >> /\ Len(taken) \in DOMAIN taken
      /\ pass.ctx = taken[Len(taken)][2] /\ pass.ctx \in Contexts
      /\ pass.t = taken[Len(taken)][1] /\ pass.t \in Int
      /\ pass.next \in 1..15
  BY DEF PassInv, Typed, Step
<1>2. signals' = IF IsDuplicate(strategy, pass.t, result) THEN signals ELSE Append(signals, row)
  BY DEF Step
<1>3. strategy \in Strategies
  BY <1>1, FifteenStrategies DEF Strategies
<1>4. row \in RowType
  <2> HIDE DEF strategy
  <2> QED
    BY <1>1, <1>3 DEF RowType
<1>5. signals' \in Seq(RowType)
  <2> HIDE DEF row
  <2> QED
    BY <1>2, <1>4 DEF PassInv, Typed
<1>6. ASSUME NEW m, NEW j, m = Len(taken), j = pass.next
      PROVE  Covered(m, j)'
  <2>1. CASE IsDuplicate(strategy, pass.t, result)
    <3>1. PICK k \in DOMAIN signals : /\ signals[k].strategy = Order[j]
                                      /\ signals[k].result.signature = result.signature
                                      /\ signals[k].t = taken[m][1]
      BY <1>1, <1>6, <2>1 DEF IsDuplicate
    <3>2. result = Evaluate(Order[j], taken[m][2])
      BY <1>1, <1>6
    <3>3. signals' = signals /\ taken' = taken
      BY <1>2, <2>1 DEF Step
    <3> QED
      BY <3>1, <3>2, <3>3 DEF Covered
  <2>2. CASE ~ IsDuplicate(strategy, pass.t, result)
    <3>1. Len(signals) + 1 \in DOMAIN signals' /\ signals'[Len(signals) + 1] = row
      <4> HIDE DEF row
      <4> QED
        BY <1>2, <2>2 DEF PassInv, Typed
    <3>2. row.strategy = strategy /\ row.t = pass.t /\ row.result = result
      BY DEF Row
    <3>3. strategy = Order[j] /\ pass.t = taken[m][1] /\ taken' = taken
          /\ result = Evaluate(Order[j], taken[m][2])
      BY <1>1, <1>6 DEF Step
    <3> HIDE DEF row, result, strategy
    <3> QED
      BY <3>1, <3>2, <3>3 DEF Covered
  <2> QED
    BY <2>1, <2>2
<1>7. \A k \in DOMAIN signals : k \in DOMAIN signals' /\ signals'[k] = signals[k]
  <2> HIDE DEF row
  <2> QED
    BY <1>2 DEF PassInv, Typed
<1>8. \A n \in DOMAIN taken, i \in 1..15 : Covered(n, i) => Covered(n, i)'
  BY <1>7 DEF Covered, Step
<1> QED
  BY <1>5, <1>6, <1>8, AdvanceKeeps DEF Step

LEMMA FailKeeps ==
    ASSUME PassInv, Fail
    PROVE  PassInv'
<1>1. \A n \in DOMAIN taken, i \in 1..15 : Covered(n, i) => Covered(n, i)'
  BY DEF Covered, Fail
<1>2. ASSUME NEW m, NEW j, m = Len(taken), j = pass.next
      PROVE  Covered(m, j)'
  BY <1>2 DEF Covered, Fail
<1> QED
  BY <1>1, <1>2, AdvanceKeeps DEF Fail, PassInv, Typed

LEMMA LiveTicksIsNatural ==
    ASSUME Typed
    PROVE  LiveTicks \in Nat
<1>1. IsFiniteSet(DOMAIN taken)
  <2>1. DOMAIN taken = 1..Len(taken) /\ Len(taken) \in Int
    BY DEF Typed
  <2> QED
    BY <2>1, FS_Interval
<1> QED
  BY <1>1, FS_Subset, FS_CardinalityType DEF LiveTicks

LEMMA NextPass == PassInv /\ [Next]_vars => PassInv'
<1> SUFFICES ASSUME PassInv, [Next]_vars
             PROVE  PassInv'
  OBVIOUS
<1>1. CASE Take
  <2>1. PICK c \in Offered : Begin(LiveTicks + 1, c)
    BY <1>1 DEF Take
  <2>2. c \in Contexts
    BY ContextAssumption DEF Offered
  <2>3. LiveTicks + 1 \in Int
    BY LiveTicksIsNatural DEF PassInv
  <2> QED
    BY <1>1, <2>1, <2>2, <2>3, BeginKeeps DEF Take
<1>2. CASE Replay
  <2>1. PICK c \in Offered \cap Watched : Begin(PastTime, c)
    BY <1>2 DEF Replay
  <2> QED
    BY <1>2, <2>1, BeginKeeps, ContextAssumption DEF Replay, PastTime
<1>3. CASE Step
  BY <1>3, StepKeeps
<1>4. CASE Fail
  BY <1>4, FailKeeps
<1>5. CASE UNCHANGED vars
  BY <1>5 DEF vars, PassInv, Typed, Complete, Covered
<1> QED
  BY <1>1, <1>2, <1>3, <1>4, <1>5 DEF Next

LEMMA PassHolds == Spec => []PassInv
BY InitPass, NextPass, PTL DEF Spec

\* Every strategy has a row of its time after each pass, or has raised in it: one that
\* raises takes nothing from the others.
THEOREM TicksAreCovered == Spec => []TickCovered
<1>1. PassInv => TickCovered
  <2> SUFFICES ASSUME PassInv, NEW n \in DOMAIN taken, n < Len(taken) \/ pass = Idle,
                      NEW i \in DOMAIN Order
               PROVE  \/ << n, Order[i] >> \in failed
                      \/ \E row \in Rows : row.strategy = Order[i] /\ row.t = taken[n][1]
    BY DEF TickCovered
  <2>1. Covered(n, i)
    BY FifteenStrategies DEF PassInv, Complete
  <2> QED
    BY <2>1 DEF Covered, Rows
<1> QED
  BY <1>1, PassHolds, PTL

\* A replay in the same context adds a signed result only where its strategy raised.
THEOREM ReplaysAddUnsigned == Spec => ReplayAddsUnsigned
<1> DEFINE Adds == pass.t = PastTime /\ Len(signals') > Len(signals) =>
                   LET row == signals'[Len(signals')]
                   IN  \A n \in 1..(Len(taken) - 1) : taken[n] = << PastTime, pass.ctx >> =>
                           \/ row.result.signature = NoSignature
                           \/ << n, row.strategy >> \in failed
<1>1. PassInv /\ [Next]_vars => [Adds]_vars
  <2> SUFFICES ASSUME PassInv, [Next]_vars, pass.t = PastTime, Len(signals') > Len(signals),
                      NEW n \in 1..(Len(taken) - 1), taken[n] = << PastTime, pass.ctx >>,
                      signals'[Len(signals')].result.signature # NoSignature
               PROVE  << n, signals'[Len(signals')].strategy >> \in failed
    OBVIOUS
  <2> DEFINE strategy == Order[pass.next]
             result   == Evaluate(strategy, pass.ctx)
             row      == Row(strategy, pass.t, result)
  <2>1. Step
    BY DEF Next, vars, Take, Replay, Begin, Fail, PassInv, Typed
  <2>2. ~ IsDuplicate(strategy, pass.t, result) /\ signals' = Append(signals, row)
    BY <2>1 DEF Step, PassInv, Typed
  <2>3. signals'[Len(signals')] = row
    <3> HIDE DEF row
    <3> QED
      BY <2>2 DEF PassInv, Typed
  <2>4. pass.next \in 1..15 /\ n \in DOMAIN taken /\ n < Len(taken)
    BY <2>1 DEF Step, PassInv, Typed
  <2>5. Covered(n, pass.next)
    BY <2>4 DEF PassInv, Complete
  <2>6. row.strategy = strategy /\ row.result = result
    BY DEF Row
  <2>7. << n, strategy >> \in failed
    BY <2>2, <2>3, <2>5, <2>6 DEF Covered, IsDuplicate
  <2> QED
    BY <2>3, <2>6, <2>7
<1> QED
  BY <1>1, PassHolds, PTL DEF Spec, ReplayAddsUnsigned
-----------------------------------------------------------------------------
\* A row is the result of one of the fifteen strategies on one of the contexts.
LEMMA RowIsResult ==
    ASSUME PassInv, NEW row \in Rows
    PROVE  /\ row.strategy \in Strategies
           /\ \E c \in Contexts : row.result = Evaluate(row.strategy, c)
<1>1. PICK i \in DOMAIN signals : row = signals[i]
  BY DEF Rows
<1>2. row \in RowType
  BY <1>1 DEF PassInv, Typed
<1>3. PICK s \in Strategies, t \in Int, c \in Contexts : row = Row(s, t, Evaluate(s, c))
  BY <1>2 DEF RowType
<1>4. row.strategy = s /\ row.result = Evaluate(s, c)
  BY <1>3 DEF Row
<1> QED
  BY <1>4

LEMMA StrategyNames ==
    Strategies = {"01_unicorn", "02_judas", "03_confirmation", "04_silver_bullet",
                  "05_nested_fvg", "06_ifvg", "07_ote_fvg", "08_rejection_block",
                  "09_mmm", "10_po3", "11_propulsion", "12_vacuum",
                  "13_reclaimed_fvg", "14_cisd", "15_bpr_ob"}
BY FifteenStrategies DEF Strategies, Order

-----------------------------------------------------------------------------
\* What is read of a context here has its type.
LEMMA FibType ==
    ASSUME NEW c \in Contexts
    PROVE  c.fib.zero \in Int /\ c.fib.one \in Int
BY ContextAssumption DEF ContextType

\* An OTE buy: the entry is above the low of the impulse, which is the target, and the
\* stop is 15 pips below it.
LEMMA OteBuy ==
    ASSUME NEW c \in Contexts, S07!Evaluate(c).trade.direction = "buy"
    PROVE  LET trade == S07!Evaluate(c).trade
           IN  /\ trade.entry \in Int /\ trade.tp1 \in Int /\ trade.sl \in Int
               /\ trade.tp1 <= trade.entry /\ trade.sl = trade.tp1 - 150
<1> DEFINE trade == S07!Evaluate(c).trade
           entry == S07!FibLevel(c, 705)
<1>1. trade = S07!NoTrade \/ trade = S07!Trade(c)
  BY DEF S07!Evaluate, S07!ComputeVerdict, S07!PlanOf
<1>2. S07!NoTrade.direction = "none"
  BY DEF S07!NoTrade
<1>3. S07!Trade(c) = S07!LevelTarget(S07!Impulse(c), entry,
                        S07!Beyond(S07!Impulse(c), S07!StopEnd(c), S07!Pips(15)),
                        S07!Target(c))
  BY <1>1, <1>2 DEF S07!Trade
<1>4. S07!Impulse(c) = "bullish"
  BY <1>1, <1>2, <1>3 DEF S07!LevelTarget, S07!Plan, S07!Impulse
<1>5. c.fib.zero < c.fib.one
  BY <1>4 DEF S07!Impulse
<1>6. trade = S07!Plan("bullish", entry, c.fib.zero - 150, c.fib.zero)
  BY <1>1, <1>2, <1>3, <1>4 DEF S07!LevelTarget, S07!Beyond, S07!StopEnd, S07!Target, S07!Pips
<1>7. entry \in Int /\ c.fib.zero <= entry
  <2>1. (705 * (c.fib.one - c.fib.zero)) \div 1000 \in Nat
    BY <1>5, FibType
  <2> QED
    BY <2>1, FibType DEF S07!FibLevel
<1> QED
  BY <1>6, <1>7, FibType DEF S07!Plan

\* Against its documents an accepted OTE buy cannot pay for its risk.
THEOREM OteBuysNeverPayHolds == Spec => []OteBuysNeverPay
<1>1. PassInv => OteBuysNeverPay
  <2> SUFFICES ASSUME PassInv, NEW row \in Rows, row.strategy = "07_ote_fvg",
                      row.result.trade.direction = "buy"
               PROVE  row.result.trade.tp1 <= row.result.trade.entry /\ ~ RrOk(row.result.trade)
    BY DEF OteBuysNeverPay
  <2>1. PICK c \in Contexts : row.result = S07!Evaluate(c)
    BY RowIsResult DEF Evaluate
  <2> DEFINE trade == row.result.trade
  <2>2. /\ trade.entry \in Int /\ trade.tp1 \in Int /\ trade.sl \in Int
        /\ trade.tp1 <= trade.entry /\ trade.sl = trade.tp1 - 150
    BY <2>1, OteBuy
  <2> HIDE DEF trade
  <2>3. ~ RrOk(trade)
    BY <2>2 DEF RrOk, Distance
  <2> QED
    BY <2>2, <2>3 DEF trade
<1> QED
  BY <1>1, PassHolds, PTL
-----------------------------------------------------------------------------
\* At most all of n checks pass.
LEMMA PassedBound ==
    ASSUME NEW n \in Nat, NEW checks, DOMAIN checks = 1..n
    PROVE  Cardinality({i \in DOMAIN checks : checks[i]}) \in 0..n
<1>1. IsFiniteSet(1..n) /\ Cardinality(1..n) = n
  BY FS_Interval
<1>2. {i \in DOMAIN checks : checks[i]} \subseteq 1..n
  OBVIOUS
<1> QED
  BY <1>1, <1>2, FS_Subset, FS_CardinalityType

\* In its manipulation phase Power of 3 misses its own floor of 65 points.
LEMMA ManipulationIsRefused ==
    ASSUME NEW c, S10!Evaluate(c).verdict # "NO_TRADE"
    PROVE  c.amd = "Distribution"
<1> DEFINE checks == << TRUE, TRUE, S10!RecentMss(c, 20) # {} >>
           score  == S10!Share(checks, 100)
<1>1. S10!Opp1(c) >= 650 /\ c.amd # "Accumulation"
  BY DEF S10!Evaluate, S10!ComputeVerdict, S10!Verdict, S10!Strict
<1>2. score \in Int
  <2>1. DOMAIN checks = 1..3 /\ Len(checks) = 3
    OBVIOUS
  <2> HIDE DEF checks
  <2>2. S10!Passed(checks) \in 0..3
    <3>1. S10!Passed(checks) = Cardinality({i \in DOMAIN checks : checks[i]})
      BY DEF S10!Passed, S10!Cardinality, Cardinality
    <3> QED
      BY <2>1, <3>1, PassedBound
  <2> QED
    BY <2>1, <2>2 DEF S10!Share
<1>3. CASE c.amd # "Distribution" /\ S10!HasManip(c)
  <2>1. S10!Opp1(c) = S10!Lower(score, 640)
    BY <1>1, <1>3 DEF S10!Opp1
  <2> HIDE DEF score
  <2> QED
    BY <1>1, <1>2, <2>1 DEF S10!Lower
<1>4. CASE c.amd # "Distribution" /\ ~ S10!HasManip(c)
  BY <1>1, <1>4 DEF S10!Opp1
<1> QED
  BY <1>3, <1>4

\* A step adds at most one row, the result of its strategy on its context.
LEMMA StepAddsOne ==
    ASSUME PassInv, [Next]_vars, NEW i \in (Len(signals) + 1)..Len(signals')
    PROVE  /\ pass.next \in 1..15 /\ i = Len(signals')
           /\ signals'[i] = Row(Order[pass.next], pass.t, Evaluate(Order[pass.next], pass.ctx))
<1> DEFINE row == Row(Order[pass.next], pass.t, Evaluate(Order[pass.next], pass.ctx))
<1>1. signals \in Seq(RowType)
  BY DEF PassInv, Typed
<1>2. signals' # signals
  BY <1>1
<1>3. Step
  BY <1>2 DEF Next, vars, Take, Replay, Begin, Fail
<1>4. signals' = Append(signals, row)
  BY <1>2, <1>3 DEF Step
<1>5. pass.next \in 1..15
  BY <1>3 DEF Step, PassInv, Typed
<1> HIDE DEF row
<1>6. i = Len(signals') /\ signals'[i] = row
  BY <1>1, <1>4
<1> QED
  BY <1>5, <1>6 DEF row

\* Power of 3 is never accepted in its manipulation phase.
THEOREM ManipulationNeverWaitsHolds == Spec => ManipulationNeverWaits
<1> DEFINE Waits == \A i \in (Len(signals) + 1)..Len(signals') :
                        signals'[i].strategy = "10_po3" /\ Accepted(signals'[i])
                            => pass.ctx.amd = "Distribution"
<1>1. PassInv /\ [Next]_vars => [Waits]_vars
  <2> SUFFICES ASSUME PassInv, [Next]_vars, NEW i \in (Len(signals) + 1)..Len(signals'),
                      signals'[i].strategy = "10_po3", Accepted(signals'[i])
               PROVE  pass.ctx.amd = "Distribution"
    OBVIOUS
  <2>1. signals'[i] = Row(Order[pass.next], pass.t, Evaluate(Order[pass.next], pass.ctx))
    BY StepAddsOne
  <2>2. Order[pass.next] = "10_po3"
    BY <2>1 DEF Row
  <2>3. signals'[i].result = S10!Evaluate(pass.ctx)
    BY <2>1, <2>2 DEF Row, Evaluate
  <2> QED
    BY <2>3, ManipulationIsRefused DEF Accepted
<1> QED
  BY <1>1, PassHolds, PTL DEF Spec, ManipulationNeverWaits
-----------------------------------------------------------------------------
\* The newest of a set of places in a list is one of them.
LEMMA NewestIsOne ==
    ASSUME NEW list, NEW n \in Nat, NEW I \in SUBSET (1..n), I # {}
    PROVE  \E i \in I : Newest(list, I) = list[i]
<1>1. I \in SUBSET (0..n)
  OBVIOUS
<1>2. \E i \in I : \A j \in I : j <= i
  BY <1>1, GreatestElement
<1> QED
  BY <1>2 DEF Newest

LEMMA ContextFields ==
    ASSUME NEW c \in Contexts
    PROVE  /\ c.m1 \in Seq(BarType) /\ c.m5 \in Seq(BarType)
           /\ c.m15 \in Seq(BarType) /\ c.h1 \in Seq(BarType)
           /\ c.fvgs \in Seq(FvgType) /\ c.obs \in Seq(BlockType)
           /\ c.sweeps \in Seq(SweepType) /\ c.mss \in Seq(MssType)
           /\ c.swings \in Seq(SwingType) /\ c.gaps \in Seq(GapType)
           /\ c.atr \in Nat /\ c.price = Unknown /\ c.spreadHigh = FALSE
BY ContextAssumption DEF ContextType

\* The last candle of a non-empty list.
LEMMA LastBar ==
    ASSUME NEW list \in Seq(BarType), list # << >>
    PROVE  Newest(list, DOMAIN list) \in BarType
<1>1. DOMAIN list = 1..Len(list) /\ Len(list) \in Nat
  OBVIOUS
<1>2. Len(list) \in DOMAIN list
  OBVIOUS
<1>3. \E i \in DOMAIN list : Newest(list, DOMAIN list) = list[i]
  BY <1>1, <1>2, NewestIsOne
<1> QED
  BY <1>3

LEMMA DisplacementBound ==
    ASSUME NEW c \in Contexts, NEW bonus \in {15, 20, 25}
    PROVE  Displacement(c, bonus) \in 0..(10 * bonus)
<1>1. CASE c.m1 = << >> \/ c.atr = Unknown
  BY <1>1 DEF Displacement
<1>2. CASE ~ (c.m1 = << >> \/ c.atr = Unknown)
  <2> DEFINE bar == Newest(c.m1, DOMAIN c.m1)
  <2>1. bar.o \in Int /\ bar.c \in Int /\ 2 * c.atr \in Nat /\ 2 * c.atr > 0
    <3>1. bar \in BarType
      BY <1>2, LastBar, ContextFields
    <3>2. c.atr \in Nat /\ c.atr # 0
      BY <1>2, ContextFields DEF Unknown
    <3> QED
      BY <3>1, <3>2 DEF BarType
  <2>2. 100 * Distance(bar.c, bar.o) \in Nat
    <3> HIDE DEF bar
    <3> QED
      BY <2>1 DEF Distance
  <2>3. (100 * Distance(bar.c, bar.o)) \div (2 * c.atr) \in Nat
    <3> DEFINE a == 100 * Distance(bar.c, bar.o)
               b == 2 * c.atr
    <3>1. a \in Nat /\ b \in Nat /\ b > 0
      BY <2>1, <2>2
    <3> HIDE DEF a, b
    <3> QED
      <4>1. a \div b \in Nat
        BY <3>1, SMTT(30)
      <4> QED
        BY <4>1 DEF a, b
  <2>4. DisplacementStrength(c) \in 0..100
    <3> HIDE DEF bar
    <3>1. DisplacementStrength(c)
          = Lower((100 * Distance(bar.c, bar.o)) \div (2 * c.atr), 100)
      BY DEF DisplacementStrength, bar
    <3> QED
      BY <2>3, <3>1 DEF Lower
  <2>5. Displacement(c, bonus) = (DisplacementStrength(c) * bonus) \div 10
    BY <1>2 DEF Displacement
  <2> QED
    BY <2>4, <2>5
<1> QED
  BY <1>1, <1>2

LEMMA StructureClarityBound ==
    ASSUME NEW c \in Contexts, NEW bonus \in {10, 15}
    PROVE  StructureClarity(c, bonus) \in 0..(10 * bonus)
<1>1. Len(c.mss) \in Nat /\ Len(c.fvgs) \in Nat
  BY ContextFields
<1> DEFINE shifts == Len(c.mss)
           gaps   == Len(c.fvgs)
           share  == Lower(25 * shifts + 15 * gaps, 100)
<1>2. share \in 0..100
  <2> HIDE DEF shifts, gaps
  <2>1. shifts \in Nat /\ gaps \in Nat
    BY <1>1 DEF shifts, gaps
  <2> QED
    BY <2>1 DEF Lower
<1>3. StructureClarity(c, bonus) = (share * bonus) \div 10
  BY DEF StructureClarity
<1> HIDE DEF share
<1> QED
  BY <1>2, <1>3

\* Scores that leave less than 65 points.
LEMMA ConfidenceBelow ==
    ASSUME NEW opp1 \in Int, NEW opp2 \in Int, NEW risk1 \in Int, NEW risk2 \in Int,
           3 * opp1 + 2 * opp2 - 3 * risk1 - 2 * risk2 < 1495
    PROVE  Confidence(Opinions(opp1, opp2, risk1, risk2)) < WaitThreshold
<1> DEFINE x == (3 * opp1 + 2 * opp2 - 3 * risk1 - 2 * risk2 + 5005) \div 10
<1>1. x \in Int /\ x < 650
  OBVIOUS
<1>2. Confidence(Opinions(opp1, opp2, risk1, risk2)) = Bounded(x)
  BY DEF Confidence, Opinions
<1> HIDE DEF x
<1> QED
  BY <1>1, <1>2 DEF Bounded, Lower, Higher, WaitThreshold
-----------------------------------------------------------------------------
\* A risk agent opposes with 70 points or more, and the result is refused anyway.
Vetoed(o) == o.risk1 >= 700 \/ o.risk2 >= 700
Harmless(result) == Vetoed(result.opinions) => result.confidence < WaitThreshold

\* Strategies whose risk agents never have 70 points.
LEMMA MildRisks ==
    ASSUME NEW c \in Contexts
    PROVE  /\ Harmless(S02!Evaluate(c))
           /\ Harmless(S04!Evaluate(c))
           /\ Harmless(S05!Evaluate(c))
           /\ Harmless(S06!Evaluate(c))
           /\ Harmless(S11!Evaluate(c))
           /\ Harmless(S12!Evaluate(c))
           /\ Harmless(S14!Evaluate(c))
           /\ Harmless(S15!Evaluate(c))
<1>1. c.spreadHigh = FALSE
  BY ContextFields
<1>2. Harmless(S02!Evaluate(c))
  <2>1. S02!Risk1(c) \in 0..699 /\ S02!Risk2(c) \in 0..699
    BY <1>1 DEF S02!Risk1, S02!Risk2, S02!Pts
  <2> QED
    BY <2>1 DEF Harmless, Vetoed, S02!Evaluate, S02!ComputeVerdict, S02!Opinions
<1>3. Harmless(S04!Evaluate(c))
  <2>1. S04!Risk1(c) \in 0..699 /\ S04!Risk2(c) \in 0..699
    BY <1>1 DEF S04!Risk1, S04!Risk2, S04!Pts
  <2> QED
    BY <2>1 DEF Harmless, Vetoed, S04!Evaluate, S04!ComputeVerdict, S04!Opinions
<1>4. Harmless(S05!Evaluate(c))
  <2>1. S05!Risk1(c) \in 0..699 /\ S05!Risk2(c) \in 0..699
    BY <1>1 DEF S05!Risk1, S05!Risk2, S05!Pts
  <2> QED
    BY <2>1 DEF Harmless, Vetoed, S05!Evaluate, S05!ComputeVerdict, S05!Opinions
<1>5. Harmless(S06!Evaluate(c))
  <2>1. S06!Risk1(c) \in 0..699 /\ S06!Risk2(c) \in 0..699
    BY <1>1 DEF S06!Risk1, S06!Risk2, S06!Pts
  <2> QED
    BY <2>1 DEF Harmless, Vetoed, S06!Evaluate, S06!ComputeVerdict, S06!Opinions
<1>6. Harmless(S11!Evaluate(c))
  <2>1. S11!Risk1(c) \in 0..699 /\ S11!Risk2(c) \in 0..699
    BY <1>1 DEF S11!Risk1, S11!Risk2, S11!Pts
  <2> QED
    BY <2>1 DEF Harmless, Vetoed, S11!Evaluate, S11!ComputeVerdict, S11!Opinions
<1>7. Harmless(S12!Evaluate(c))
  <2>1. S12!Risk1(c) \in 0..699 /\ S12!Risk2(c) \in 0..699
    BY <1>1 DEF S12!Risk1, S12!Risk2, S12!Pts
  <2> QED
    BY <2>1 DEF Harmless, Vetoed, S12!Evaluate, S12!ComputeVerdict, S12!Opinions
<1>8. Harmless(S14!Evaluate(c))
  <2>1. S14!Risk1(c) \in 0..699 /\ S14!Risk2(c) \in 0..699
    BY <1>1 DEF S14!Risk1, S14!Risk2, S14!Pts
  <2> QED
    BY <2>1 DEF Harmless, Vetoed, S14!Evaluate, S14!ComputeVerdict, S14!Opinions
<1>9. Harmless(S15!Evaluate(c))
  <2>1. S15!Risk1(c) \in 0..699 /\ S15!Risk2(c) \in 0..699
    BY <1>1 DEF S15!Risk1, S15!Risk2, S15!Pts
  <2> QED
    BY <2>1 DEF Harmless, Vetoed, S15!Evaluate, S15!ComputeVerdict, S15!Opinions
<1> QED
  BY <1>2, <1>3, <1>4, <1>5, <1>6, <1>7, <1>8, <1>9

\* With two checks missing, at most n - 2 pass.
LEMMA PassedWithoutTwo ==
    ASSUME NEW n \in Nat, NEW checks, DOMAIN checks = 1..n,
           NEW i \in 1..n, NEW j \in 1..n, i # j, ~ checks[i], ~ checks[j]
    PROVE  Cardinality({k \in DOMAIN checks : checks[k]}) \in 0..(n - 2)
<1> DEFINE rest == (1..n) \ {i}
           last == rest \ {j}
<1>1. IsFiniteSet(1..n) /\ Cardinality(1..n) = n
  BY FS_Interval
<1>2. IsFiniteSet(rest) /\ Cardinality(rest) = n - 1
  BY <1>1, FS_RemoveElement
<1>3. IsFiniteSet(last) /\ Cardinality(last) = n - 1 - 1
  <2>1. j \in rest
    OBVIOUS
  <2> HIDE DEF rest
  <2> QED
    BY <1>2, <2>1, FS_RemoveElement
<1>4. {k \in DOMAIN checks : checks[k]} \subseteq last
  OBVIOUS
<1> HIDE DEF last, rest
<1> QED
  BY <1>3, <1>4, FS_Subset, FS_CardinalityType

\* An OTE gap that is near the band and not in it leaves no setup.
LEMMA OteVetoHarmless ==
    ASSUME NEW c \in Contexts
    PROVE  Harmless(S07!Evaluate(c))
<1> DEFINE o1 == S07!Opp1(c)
           o2 == S07!Opp2(c)
           r1 == S07!Risk1(c)
           r2 == S07!Risk2(c)
<1>0. c.spreadHigh = FALSE
  BY ContextFields
<1>1. SUFFICES ASSUME r1 >= 700 \/ r2 >= 700
               PROVE  S07!Confidence(S07!Opinions(o1, o2, r1, r2)) < WaitThreshold
  BY DEF Harmless, Vetoed, S07!Evaluate, S07!ComputeVerdict, S07!Opinions
<1>2. r1 \in Int /\ r2 \in 100..250 /\ (r1 >= 700 => S07!NearMiss(c))
  BY <1>0 DEF S07!Risk1, S07!Risk2, S07!Pts
<1>3. r1 >= 700 /\ S07!Setups(c) = {}
  BY <1>1, <1>2 DEF S07!NearMiss
<1>4. o1 = 0 /\ o2 \in 0..600
  BY <1>3 DEF S07!Opp1, S07!Opp2, S07!Pts
<1>5. Confidence(Opinions(o1, o2, r1, r2)) < WaitThreshold
  <2> HIDE DEF o1, o2, r1, r2
  <2> QED
    BY <1>2, <1>3, <1>4, ConfidenceBelow
<1> QED
  BY <1>5 DEF Confidence, Opinions, Bounded, Lower, Higher, S07!Confidence, S07!Opinions,
              S07!Bounded, S07!Lower, S07!Higher

\* The market maker model objects when there is no reversal, and then has no score.
LEMMA MmmVetoHarmless ==
    ASSUME NEW c \in Contexts
    PROVE  Harmless(S09!Evaluate(c))
<1> DEFINE o1 == S09!Opp1(c)
           o2 == S09!Opp2(c)
           r1 == S09!Risk1(c)
           r2 == S09!Risk2(c)
<1>0. c.spreadHigh = FALSE
  BY ContextFields
<1>1. SUFFICES ASSUME r1 >= 700 \/ r2 >= 700
               PROVE  S09!Confidence(S09!Opinions(o1, o2, r1, r2)) < WaitThreshold
  BY DEF Harmless, Vetoed, S09!Evaluate, S09!ComputeVerdict, S09!Opinions
<1>2. r1 \in Int /\ r2 \in 100..250 /\ (r1 >= 700 => ~ S09!Reversal(c))
  BY <1>0 DEF S09!Risk1, S09!Risk2, S09!Pts
<1>3. o1 = 0 /\ o2 \in 0..550
  BY <1>1, <1>2 DEF S09!Opp1, S09!Opp2, S09!Pts
<1>4. Confidence(Opinions(o1, o2, r1, r2)) < WaitThreshold
  <2> HIDE DEF o1, o2, r1, r2
  <2> QED
    BY <1>1, <1>2, <1>3, ConfidenceBelow
<1> QED
  BY <1>4 DEF Confidence, Opinions, Bounded, Lower, Higher, S09!Confidence, S09!Opinions,
              S09!Bounded, S09!Lower, S09!Higher

\* Power of 3 objects to accumulation, or when there is neither a manipulation nor a
\* shift: 30 points at most speak for it.
LEMMA PowerVetoHarmless ==
    ASSUME NEW c \in Contexts
    PROVE  Harmless(S10!Evaluate(c))
<1> DEFINE o1 == S10!Opp1(c)
           o2 == S10!Opp2(c)
           r1 == S10!Risk1(c)
           r2 == S10!Risk2(c)
<1>0. c.spreadHigh = FALSE
  BY ContextFields
<1>1. SUFFICES ASSUME r1 >= 700 \/ r2 >= 700
               PROVE  S10!Confidence(S10!Opinions(o1, o2, r1, r2)) < WaitThreshold
  BY DEF Harmless, Vetoed, S10!Evaluate, S10!ComputeVerdict, S10!Opinions
<1>2. /\ r1 \in Int /\ r2 \in 100..200
      /\ r1 >= 700 => c.amd = "Accumulation" \/ ~ S10!HasManip(c)
  BY <1>0 DEF S10!Risk1, S10!Risk2, S10!Pts, S10!Bounded, S10!Lower, S10!Higher
<1>3. ~ S10!HasManip(c)
  BY <1>1, <1>2 DEF S10!HasManip
<1>4. o1 \in 0..300 /\ o2 \in 0..800
  BY <1>3 DEF S10!Opp1, S10!Opp2, S10!Pts
<1>5. Confidence(Opinions(o1, o2, r1, r2)) < WaitThreshold
  <2> HIDE DEF o1, o2, r1, r2
  <2> QED
    BY <1>1, <1>2, <1>4, ConfidenceBelow
<1> QED
  BY <1>5 DEF Confidence, Opinions, Bounded, Lower, Higher, S10!Confidence, S10!Opinions,
              S10!Bounded, S10!Lower, S10!Higher

\* A gap that has failed a test costs more than all that speaks for another.
LEMMA ReclaimedVetoHarmless ==
    ASSUME NEW c \in Contexts
    PROVE  Harmless(S13!Evaluate(c))
<1> DEFINE o1 == S13!Opp1(c)
           o2 == S13!Opp2(c)
           r1 == S13!Risk1(c)
           r2 == S13!Risk2(c)
<1>0. c.spreadHigh = FALSE
  BY ContextFields
<1>1. SUFFICES ASSUME r1 >= 700 \/ r2 >= 700
               PROVE  S13!Confidence(S13!Opinions(o1, o2, r1, r2)) < WaitThreshold
  BY DEF Harmless, Vetoed, S13!Evaluate, S13!ComputeVerdict, S13!Opinions
<1>2. r1 \in Int /\ r2 \in 100..250 /\ (r1 >= 700 => r1 = 900)
  BY <1>0 DEF S13!Risk1, S13!Risk2, S13!Pts
<1>3. o1 \in 0..800 /\ o2 \in 0..850
  BY DEF S13!Opp1, S13!Opp2, S13!Pts
<1>4. Confidence(Opinions(o1, o2, r1, r2)) < WaitThreshold
  <2> HIDE DEF o1, o2, r1, r2
  <2> QED
    BY <1>1, <1>2, <1>3, ConfidenceBelow
<1> QED
  BY <1>4 DEF Confidence, Opinions, Bounded, Lower, Higher, S13!Confidence, S13!Opinions,
              S13!Bounded, S13!Lower, S13!Higher

\* The Unicorn model objects to a neutral bias without a setup next to liquidity: two
\* of its four checks have failed by then.
LEMMA UnicornVetoHarmless ==
    ASSUME NEW c \in Contexts
    PROVE  Harmless(S01!Evaluate(c))
<1> DEFINE o1 == S01!Opp1(c)
           o2 == S01!Opp2(c)
           r1 == S01!Risk1(c)
           r2 == S01!Risk2(c)
<1>0. c.spreadHigh = FALSE
  BY ContextFields
<1>1. SUFFICES ASSUME r1 >= 700 \/ r2 >= 700
               PROVE  S01!Confidence(S01!Opinions(o1, o2, r1, r2)) < WaitThreshold
  BY DEF Harmless, Vetoed, S01!Evaluate, S01!ComputeVerdict, S01!Opinions
<1>2. /\ r1 \in Int /\ r2 \in 100..200
      /\ r1 >= 700 => S01!Pairs(c) = {} /\ c.bias = "neutral"
  BY <1>0 DEF S01!Risk1, S01!Risk2, S01!Pts
<1>3. S01!Pairs(c) = {} /\ c.bias = "neutral"
  BY <1>1, <1>2
<1>4. o1 \in 0..500
  <2> DEFINE checks == << S01!Pairs(c) # {}, c.sweeps # << >>, S01!RecentMss(c, 20) # {},
                          c.bias # "neutral" >>
  <2>1. DOMAIN checks = 1..4 /\ Len(checks) = 4 /\ ~ checks[1] /\ ~ checks[4]
    <3>1. (S01!Pairs(c) # {}) = FALSE /\ (c.bias # "neutral") = FALSE
      BY <1>3
    <3>2. checks = << FALSE, c.sweeps # << >>, S01!RecentMss(c, 20) # {}, FALSE >>
      BY <3>1
    <3>3. \A x, y : LET s == << FALSE, x, y, FALSE >>
                    IN  DOMAIN s = 1..4 /\ Len(s) = 4 /\ ~ s[1] /\ ~ s[4]
      OBVIOUS
    <3> HIDE DEF checks
    <3> QED
      BY <3>2, <3>3, Zenon
  <2>2. o1 = S01!Share(checks, 100)
    BY DEF S01!Opp1
  <2> HIDE DEF checks, o1
  <2>3. S01!Passed(checks) = Cardinality({k \in DOMAIN checks : checks[k]})
    BY DEF S01!Passed, S01!Cardinality, Cardinality
  <2>4. S01!Passed(checks) \in 0..2
    <3>1. 4 \in Nat /\ 1 \in 1..4 /\ 4 \in 1..4 /\ 1 # 4
      OBVIOUS
    <3>2. Cardinality({k \in DOMAIN checks : checks[k]}) \in 0..(4 - 2)
      BY <2>1, <3>1, PassedWithoutTwo, Zenon
    <3> QED
      BY <2>3, <3>2
  <2> QED
    BY <2>1, <2>2, <2>4 DEF S01!Share
<1>5. o2 \in 0..1000
  <2> DEFINE d == Displacement(c, 15)
             s == StructureClarity(c, 10)
             p == S01!Pts(c.zone = "silver_bullet_ny_am", 10)
  <2>1. S01!Displacement(c, 15) = d
    BY DEF Displacement, DisplacementStrength, Newest, Lower, Distance, Unknown,
           S01!Displacement, S01!DisplacementStrength, S01!Newest, S01!Lower, S01!Distance,
           S01!Unknown
  <2>2. S01!StructureClarity(c, 10) = s
    BY DEF StructureClarity, Lower, S01!StructureClarity, S01!Lower
  <2>3. o2 = S01!Bounded(500 + 0 + d + p + s)
    BY <1>3, <2>1, <2>2 DEF S01!Opp2
  <2>4. d \in Int /\ s \in Int
    BY DisplacementBound, StructureClarityBound
  <2>5. p \in Int
    BY DEF S01!Pts
  <2> HIDE DEF d, s, p, o2
  <2> QED
    BY <2>3, <2>4, <2>5 DEF S01!Bounded, S01!Lower, S01!Higher
<1>6. Confidence(Opinions(o1, o2, r1, r2)) < WaitThreshold
  <2> HIDE DEF o1, o2, r1, r2
  <2> QED
    BY <1>1, <1>2, <1>4, <1>5, ConfidenceBelow
<1> QED
  BY <1>6 DEF Confidence, Opinions, Bounded, Lower, Higher, S01!Confidence, S01!Opinions,
              S01!Bounded, S01!Lower, S01!Higher

\* The confirmation model objects to a neutral bias next to liquidity: two of its five
\* checks have failed by then, the second for want of a price.
LEMMA ConfirmationVetoHarmless ==
    ASSUME NEW c \in Contexts
    PROVE  Harmless(S03!Evaluate(c))
<1> DEFINE o1 == S03!Opp1(c)
           o2 == S03!Opp2(c)
           r1 == S03!Risk1(c)
           r2 == S03!Risk2(c)
<1>0. c.spreadHigh = FALSE
  BY ContextFields
<1>1. SUFFICES ASSUME r1 >= 700 \/ r2 >= 700
               PROVE  S03!Confidence(S03!Opinions(o1, o2, r1, r2)) < WaitThreshold
  BY DEF Harmless, Vetoed, S03!Evaluate, S03!ComputeVerdict, S03!Opinions
<1>2. /\ r1 \in Int /\ r2 \in 100..350
      /\ r1 >= 700 => c.bias = "neutral"
  BY <1>0 DEF S03!Risk1, S03!Risk2, S03!Pts
<1>3. c.bias = "neutral" /\ ~ S03!PdAligned(c)
  BY <1>1, <1>2 DEF S03!PdAligned
<1>4. o1 \in 0..540
  <2> DEFINE checks == S03!Checks(c)
             five == S03!Pts(S03!Passed(checks) = 5, 10)
  <2>1. DOMAIN checks = 1..5 /\ Len(checks) = 5 /\ ~ checks[4] /\ ~ checks[5]
    <3>1. (c.bias # "neutral") = FALSE /\ S03!PdAligned(c) = FALSE
      BY <1>3
    <3>2. checks = << S03!RecentSweeps(c, 10) # {}, S03!RecentMss(c, 20) # {},
                      S03!UsableFvgs(c) # {}, FALSE, FALSE >>
      BY <3>1 DEF S03!Checks
    <3>3. \A x, y, z : LET s == << x, y, z, FALSE, FALSE >>
                       IN  DOMAIN s = 1..5 /\ Len(s) = 5 /\ ~ s[4] /\ ~ s[5]
      OBVIOUS
    <3> HIDE DEF checks
    <3> QED
      BY <3>2, <3>3, Zenon
  <2>2. o1 = S03!Share(checks, 90) + five
    BY DEF S03!Opp1
  <2> HIDE DEF checks, o1
  <2>3. S03!Passed(checks) = Cardinality({k \in DOMAIN checks : checks[k]})
    BY DEF S03!Passed, S03!Cardinality, Cardinality
  <2>4. S03!Passed(checks) \in 0..3
    <3>1. 5 \in Nat /\ 4 \in 1..5 /\ 5 \in 1..5 /\ 4 # 5
      OBVIOUS
    <3>2. Cardinality({k \in DOMAIN checks : checks[k]}) \in 0..(5 - 2)
      BY <2>1, <3>1, PassedWithoutTwo, Zenon
    <3> QED
      BY <2>3, <3>2
  <2>5. five = 0
    BY <2>4 DEF S03!Pts
  <2> HIDE DEF five
  <2> QED
    BY <2>1, <2>2, <2>4, <2>5 DEF S03!Share
<1>5. o2 \in 0..1000
  <2> DEFINE d == Displacement(c, 20)
             s == StructureClarity(c, 15)
             p == S03!Pts(c.smt # "none", 5)
             f == IF S03!CleanFvgs(c) # {} THEN 150 ELSE -100
  <2>1. S03!Displacement(c, 20) = d
    BY DEF Displacement, DisplacementStrength, Newest, Lower, Distance, Unknown,
           S03!Displacement, S03!DisplacementStrength, S03!Newest, S03!Lower, S03!Distance,
           S03!Unknown
  <2>2. S03!StructureClarity(c, 15) = s
    BY DEF StructureClarity, Lower, S03!StructureClarity, S03!Lower
  <2>3. o2 = S03!Bounded(500 + d + f + s + p)
    BY <2>1, <2>2 DEF S03!Opp2
  <2>4. d \in Int /\ s \in Int /\ f \in Int
    BY DisplacementBound, StructureClarityBound
  <2>5. p \in Int
    BY DEF S03!Pts
  <2> HIDE DEF d, s, p, f, o2
  <2> QED
    BY <2>3, <2>4, <2>5 DEF S03!Bounded, S03!Lower, S03!Higher
<1>6. Confidence(Opinions(o1, o2, r1, r2)) < WaitThreshold
  <2> HIDE DEF o1, o2, r1, r2
  <2> QED
    BY <1>1, <1>2, <1>4, <1>5, ConfidenceBelow
<1> QED
  BY <1>6 DEF Confidence, Opinions, Bounded, Lower, Higher, S03!Confidence, S03!Opinions,
              S03!Bounded, S03!Lower, S03!Higher

\* The last n elements of a list of candles are candles.
LEMMA LastOfBars ==
    ASSUME NEW list \in Seq(BarType), NEW n \in Nat
    PROVE  LastOf(list, n) \in Seq(BarType)
BY DEF LastOf, Higher

\* A rejection block is a candle of the context, with a long wick.
LEMMA RejectionSetup ==
    ASSUME NEW c \in Contexts, S08!Setups(c) # {}
    PROVE  S08!Setup(c) \in BarType /\ S08!Rejects(S08!Setup(c))
<1> DEFINE list == S08!Candidates(c)
           I    == S08!Setups(c)
<1>1. S08!LastOf(c.m15, 5) = LastOf(c.m15, 5) /\ S08!LastOf(c.h1, 3) = LastOf(c.h1, 3)
  BY DEF S08!LastOf, S08!Higher, LastOf, Higher
<1>2. LastOf(c.m15, 5) \in Seq(BarType) /\ LastOf(c.h1, 3) \in Seq(BarType)
  BY ContextFields, LastOfBars
<1>3. list \in Seq(BarType)
  BY <1>1, <1>2 DEF S08!Candidates
<1>4. I \subseteq DOMAIN list /\ \A i \in I : S08!Rejects(list[i])
  BY DEF S08!Setups
<1>5. S08!Setup(c) = Newest(list, I)
  BY DEF S08!Setup, S08!Newest, Newest
<1> HIDE DEF list, I
<1>6. Len(list) \in Nat /\ I \in SUBSET (1..Len(list)) /\ I # {}
  BY <1>3, <1>4 DEF I
<1>7. PICK i \in I : Newest(list, I) = list[i]
  BY <1>6, NewestIsOne
<1>8. list[i] \in BarType
  BY <1>3, <1>6
<1> QED
  BY <1>4, <1>5, <1>7, <1>8

\* A rejection block that a later candle has penetrated has no score.
LEMMA RejectionVetoHarmless ==
    ASSUME NEW c \in Contexts
    PROVE  Harmless(S08!Evaluate(c))
<1> DEFINE o1 == S08!Opp1(c)
           o2 == S08!Opp2(c)
           r1 == S08!Risk1(c)
           r2 == S08!Risk2(c)
           bar == S08!Setup(c)
<1>0. c.spreadHigh = FALSE
  BY ContextFields
<1>1. SUFFICES ASSUME r1 >= 700 \/ r2 >= 700
               PROVE  S08!Confidence(S08!Opinions(o1, o2, r1, r2)) < WaitThreshold
  BY DEF Harmless, Vetoed, S08!Evaluate, S08!ComputeVerdict, S08!Opinions
<1>2. /\ r1 \in Int /\ r2 \in 100..250
      /\ r1 >= 700 => /\ S08!Setups(c) # {} /\ S08!Penetrated(c, bar)
                      /\ r1 >= 800
  BY <1>0 DEF S08!Risk1, S08!Risk2, S08!Pts, S08!Bounded, S08!Lower, S08!Higher
<1>3. o1 = 0
  BY <1>1, <1>2 DEF S08!Opp1
<1>4. o2 \in Int /\ o2 <= 850
  <2> DEFINE ratio == (50 * S08!Wick(bar)) \div S08!Body(bar)
             many  == S08!Pts(S08!Cardinality(S08!SameWicks(c)) >= 2, 10)
             main  == S08!Pts(c.zone \in S08!MainSessions, 10)
  <2>1. o2 = 450 + (S08!Lower(ratio, 200) + many) + main
    BY <1>1, <1>2 DEF S08!Opp2
  <2>2. many \in 0..100 /\ main \in 0..100
    BY DEF S08!Pts
  <2>3. ratio \in Int
    <3>1. bar \in BarType /\ S08!Rejects(bar)
      BY <1>1, <1>2, RejectionSetup
    <3>2. S08!Wick(bar) \in Int /\ S08!Body(bar) \in Int /\ S08!Body(bar) > 0
      <4> HIDE DEF bar
      <4> QED
        BY <3>1 DEF BarType, S08!Rejects, S08!LongWick, S08!Wick, S08!Body, S08!BodyHigh,
                    S08!BodyLow, S08!UpperWick, S08!LowerWick, S08!Higher, S08!Lower
    <3> QED
      <4> DEFINE a == 50 * S08!Wick(bar)
                 b == S08!Body(bar)
      <4>1. a \in Int /\ b \in Int /\ b > 0
        BY <3>2
      <4> HIDE DEF a, b
      <4>2. a \div b \in Int
        BY <4>1
      <4> QED
        BY <4>2 DEF a, b
  <2> HIDE DEF ratio, many, main, o2
  <2> QED
    BY <2>1, <2>2, <2>3 DEF S08!Lower
<1>5. Confidence(Opinions(o1, o2, r1, r2)) < WaitThreshold
  <2> HIDE DEF o1, o2, r1, r2, bar
  <2> QED
    BY <1>1, <1>2, <1>3, <1>4, ConfidenceBelow
<1> QED
  BY <1>5 DEF Confidence, Opinions, Bounded, Lower, Higher, S08!Confidence, S08!Opinions,
              S08!Bounded, S08!Lower, S08!Higher

\* Whatever scores a strategy combines, a risk agent with 70 points leaves too little
\* confidence for WAIT: the veto never decides anything.
THEOREM VetoNeverDecidesHolds == Spec => []VetoNeverDecides
<1>1. PassInv => VetoNeverDecides
  <2> SUFFICES ASSUME PassInv, NEW row \in Rows
               PROVE  Harmless(row.result)
    BY DEF VetoNeverDecides, Harmless, Vetoed
  <2>1. PICK c \in Contexts : row.result = Evaluate(row.strategy, c)
    BY RowIsResult
  <2>2. row.strategy \in Strategies
    BY RowIsResult
  <2> QED
    BY <2>1, <2>2, StrategyNames, MildRisks, UnicornVetoHarmless, ConfirmationVetoHarmless,
       OteVetoHarmless, RejectionVetoHarmless, MmmVetoHarmless, PowerVetoHarmless,
       ReclaimedVetoHarmless DEF Evaluate
<1> QED
  BY <1>1, PassHolds, PTL
-----------------------------------------------------------------------------
\* Signature and plan of a result name one direction.
Agrees(result) ==
    result.trade # NoTrade /\ result.signature # NoSignature =>
        (result.trade.direction = "buy") <=> (result.signature[1] = "bullish")

LEMMA ResultsAgree ==
    ASSUME NEW c, NEW s \in Strategies
    PROVE  Agrees(Evaluate(s, c))
<1>1. Agrees(S01!Evaluate(c))
  <2> DEFINE d == S01!Newest(c.mss, S01!RecentMss(c, 20)).direction
             r == S01!Evaluate(c)
  <2>1. SUFFICES ASSUME r.trade # NoTrade, r.signature # NoSignature
                 PROVE  (r.trade.direction = "buy") <=> (r.signature[1] = "bullish")
    BY DEF Agrees
  <2>2. r.trade = S01!Trade(c) /\ S01!Trade(c) # S01!NoTrade
    BY <2>1 DEF S01!Evaluate, S01!ComputeVerdict, S01!PlanOf, S01!NoTrade, NoTrade
  <2>3. r.trade.direction = IF d = "bullish" THEN "buy" ELSE "sell"
    BY <2>2 DEF S01!Trade, S01!RMultiple, S01!Plan
  <2>4. r.signature = S01!Signature(c) /\ r.signature # S01!NoSignature
    BY <2>1 DEF S01!Evaluate, S01!ComputeVerdict, S01!NoSignature, NoSignature
  <2>5. r.signature[1] = d
    BY <2>4 DEF S01!Signature
  <2> QED
    BY <2>3, <2>5
<1>2. Agrees(S02!Evaluate(c))
  <2> DEFINE d == c.bias
             r == S02!Evaluate(c)
  <2>1. SUFFICES ASSUME r.trade # NoTrade, r.signature # NoSignature
                 PROVE  (r.trade.direction = "buy") <=> (r.signature[1] = "bullish")
    BY DEF Agrees
  <2>2. r.trade = S02!Trade(c) /\ S02!Trade(c) # S02!NoTrade
    BY <2>1 DEF S02!Evaluate, S02!ComputeVerdict, S02!PlanOf, S02!NoTrade, NoTrade
  <2>3. r.trade.direction = IF d = "bullish" THEN "buy" ELSE "sell"
    BY <2>2 DEF S02!Trade, S02!LevelTarget, S02!Plan
  <2>4. r.signature = S02!Signature(c) /\ r.signature # S02!NoSignature
    BY <2>1 DEF S02!Evaluate, S02!ComputeVerdict, S02!NoSignature, NoSignature
  <2>5. r.signature[1] = d
    BY <2>4 DEF S02!Signature
  <2> QED
    BY <2>3, <2>5
<1>3. Agrees(S03!Evaluate(c))
  <2> DEFINE d == S03!Newest(c.mss, S03!RecentMss(c, 20)).direction
             r == S03!Evaluate(c)
  <2>1. SUFFICES ASSUME r.trade # NoTrade, r.signature # NoSignature
                 PROVE  (r.trade.direction = "buy") <=> (r.signature[1] = "bullish")
    BY DEF Agrees
  <2>2. r.trade = S03!Trade(c) /\ S03!Trade(c) # S03!NoTrade
    BY <2>1 DEF S03!Evaluate, S03!ComputeVerdict, S03!PlanOf, S03!NoTrade, NoTrade
  <2>3. r.trade.direction = IF d = "bullish" THEN "buy" ELSE "sell"
    BY <2>2 DEF S03!Trade, S03!RMultiple, S03!Plan
  <2>4. r.signature = S03!Signature(c) /\ r.signature # S03!NoSignature
    BY <2>1 DEF S03!Evaluate, S03!ComputeVerdict, S03!NoSignature, NoSignature
  <2>5. r.signature[1] = d
    BY <2>4 DEF S03!Signature
  <2> QED
    BY <2>3, <2>5
<1>4. Agrees(S04!Evaluate(c))
  <2> DEFINE d == S04!Newest(c.mss, S04!RecentMss(c, 15)).direction
             r == S04!Evaluate(c)
  <2>1. SUFFICES ASSUME r.trade # NoTrade, r.signature # NoSignature
                 PROVE  (r.trade.direction = "buy") <=> (r.signature[1] = "bullish")
    BY DEF Agrees
  <2>2. r.trade = S04!Trade(c) /\ S04!Trade(c) # S04!NoTrade
    BY <2>1 DEF S04!Evaluate, S04!ComputeVerdict, S04!PlanOf, S04!NoTrade, NoTrade
  <2>3. r.trade.direction = IF d = "bullish" THEN "buy" ELSE "sell"
    BY <2>2 DEF S04!Trade, S04!RMultiple, S04!Plan
  <2>4. r.signature = S04!Signature(c) /\ r.signature # S04!NoSignature
    BY <2>1 DEF S04!Evaluate, S04!ComputeVerdict, S04!NoSignature, NoSignature
  <2>5. r.signature[1] = d
    BY <2>4 DEF S04!Signature
  <2> QED
    BY <2>3, <2>5
<1>5. Agrees(S05!Evaluate(c))
  <2> DEFINE d == S05!Direction(c)
             r == S05!Evaluate(c)
  <2>1. SUFFICES ASSUME r.trade # NoTrade, r.signature # NoSignature
                 PROVE  (r.trade.direction = "buy") <=> (r.signature[1] = "bullish")
    BY DEF Agrees
  <2>2. r.trade = S05!Trade(c) /\ S05!Trade(c) # S05!NoTrade
    BY <2>1 DEF S05!Evaluate, S05!ComputeVerdict, S05!PlanOf, S05!NoTrade, NoTrade
  <2>3. r.trade.direction = IF d = "bullish" THEN "buy" ELSE "sell"
    BY <2>2 DEF S05!Trade, S05!RMultiple, S05!Plan
  <2>4. r.signature = S05!Signature(c) /\ r.signature # S05!NoSignature
    BY <2>1 DEF S05!Evaluate, S05!ComputeVerdict, S05!NoSignature, NoSignature
  <2>5. r.signature[1] = d
    BY <2>4 DEF S05!Signature
  <2> QED
    BY <2>3, <2>5
<1>6. Agrees(S06!Evaluate(c))
  <2> DEFINE d == S06!Newest(c.mss, S06!RecentMss(c, 20)).direction
             r == S06!Evaluate(c)
  <2>1. SUFFICES ASSUME r.trade # NoTrade, r.signature # NoSignature
                 PROVE  (r.trade.direction = "buy") <=> (r.signature[1] = "bullish")
    BY DEF Agrees
  <2>2. r.trade = S06!Trade(c) /\ S06!Trade(c) # S06!NoTrade
    BY <2>1 DEF S06!Evaluate, S06!ComputeVerdict, S06!PlanOf, S06!NoTrade, NoTrade
  <2>3. r.trade.direction = IF d = "bullish" THEN "buy" ELSE "sell"
    BY <2>2 DEF S06!Trade, S06!RMultiple, S06!Plan
  <2>4. r.signature = S06!Signature(c) /\ r.signature # S06!NoSignature
    BY <2>1 DEF S06!Evaluate, S06!ComputeVerdict, S06!NoSignature, NoSignature
  <2>5. r.signature[1] = d
    BY <2>4 DEF S06!Signature
  <2> QED
    BY <2>3, <2>5
<1>7. Agrees(S07!Evaluate(c))
  <2> DEFINE d == S07!Impulse(c)
             r == S07!Evaluate(c)
  <2>1. SUFFICES ASSUME r.trade # NoTrade, r.signature # NoSignature
                 PROVE  (r.trade.direction = "buy") <=> (r.signature[1] = "bullish")
    BY DEF Agrees
  <2>2. r.trade = S07!Trade(c) /\ S07!Trade(c) # S07!NoTrade
    BY <2>1 DEF S07!Evaluate, S07!ComputeVerdict, S07!PlanOf, S07!NoTrade, NoTrade
  <2>3. r.trade.direction = IF d = "bullish" THEN "buy" ELSE "sell"
    BY <2>2 DEF S07!Trade, S07!LevelTarget, S07!Plan
  <2>4. r.signature = S07!Signature(c) /\ r.signature # S07!NoSignature
    BY <2>1 DEF S07!Evaluate, S07!ComputeVerdict, S07!NoSignature, NoSignature
  <2>5. r.signature[1] = d
    BY <2>4 DEF S07!Signature
  <2> QED
    BY <2>3, <2>5
<1>8. Agrees(S08!Evaluate(c))
  <2> DEFINE d == S08!WickDirection(S08!Setup(c))
             r == S08!Evaluate(c)
  <2>1. SUFFICES ASSUME r.trade # NoTrade, r.signature # NoSignature
                 PROVE  (r.trade.direction = "buy") <=> (r.signature[1] = "bullish")
    BY DEF Agrees
  <2>2. r.trade = S08!Trade(c) /\ S08!Trade(c) # S08!NoTrade
    BY <2>1 DEF S08!Evaluate, S08!ComputeVerdict, S08!PlanOf, S08!NoTrade, NoTrade
  <2>3. r.trade.direction = IF d = "bullish" THEN "buy" ELSE "sell"
    BY <2>2 DEF S08!Trade, S08!RMultiple, S08!Plan
  <2>4. r.signature = S08!Signature(c) /\ r.signature # S08!NoSignature
    BY <2>1 DEF S08!Evaluate, S08!ComputeVerdict, S08!NoSignature, NoSignature
  <2>5. r.signature[1] = d
    BY <2>4 DEF S08!Signature
  <2> QED
    BY <2>3, <2>5
<1>9. Agrees(S09!Evaluate(c))
  <2> DEFINE d == c.mmm.direction
             r == S09!Evaluate(c)
  <2>1. SUFFICES ASSUME r.trade # NoTrade, r.signature # NoSignature
                 PROVE  (r.trade.direction = "buy") <=> (r.signature[1] = "bullish")
    BY DEF Agrees
  <2>2. r.trade = S09!Trade(c) /\ S09!Trade(c) # S09!NoTrade
    BY <2>1 DEF S09!Evaluate, S09!ComputeVerdict, S09!PlanOf, S09!NoTrade, NoTrade
  <2>3. r.trade.direction = IF d = "bullish" THEN "buy" ELSE "sell"
    BY <2>2 DEF S09!Trade, S09!Plan
  <2>4. r.signature = S09!Signature(c) /\ r.signature # S09!NoSignature
    BY <2>1 DEF S09!Evaluate, S09!ComputeVerdict, S09!NoSignature, NoSignature
  <2>5. r.signature[1] = d
    BY <2>4 DEF S09!Signature
  <2> QED
    BY <2>3, <2>5
<1>10. Agrees(S10!Evaluate(c))
  <2> DEFINE d == S10!Direction(c)
             r == S10!Evaluate(c)
  <2>1. SUFFICES ASSUME r.trade # NoTrade, r.signature # NoSignature
                 PROVE  (r.trade.direction = "buy") <=> (r.signature[1] = "bullish")
    BY DEF Agrees
  <2>2. r.trade = S10!Trade(c) /\ S10!Trade(c) # S10!NoTrade
    BY <2>1 DEF S10!Evaluate, S10!ComputeVerdict, S10!PlanOf, S10!NoTrade, NoTrade
  <2>3. r.trade.direction = IF d = "bullish" THEN "buy" ELSE "sell"
    BY <2>2 DEF S10!Trade, S10!Plan
  <2>4. r.signature = S10!Signature(c) /\ r.signature # S10!NoSignature
    BY <2>1 DEF S10!Evaluate, S10!ComputeVerdict, S10!NoSignature, NoSignature
  <2>5. r.signature[1] = d
    BY <2>4 DEF S10!Signature
  <2> QED
    BY <2>3, <2>5
<1>11. Agrees(S11!Evaluate(c))
  <2> DEFINE d == S11!Block(c).direction
             r == S11!Evaluate(c)
  <2>1. SUFFICES ASSUME r.trade # NoTrade, r.signature # NoSignature
                 PROVE  (r.trade.direction = "buy") <=> (r.signature[1] = "bullish")
    BY DEF Agrees
  <2>2. r.trade = S11!Trade(c) /\ S11!Trade(c) # S11!NoTrade
    BY <2>1 DEF S11!Evaluate, S11!ComputeVerdict, S11!PlanOf, S11!NoTrade, NoTrade
  <2>3. r.trade.direction = IF d = "bullish" THEN "buy" ELSE "sell"
    BY <2>2 DEF S11!Trade, S11!RMultiple, S11!Plan
  <2>4. r.signature = S11!Signature(c) /\ r.signature # S11!NoSignature
    BY <2>1 DEF S11!Evaluate, S11!ComputeVerdict, S11!NoSignature, NoSignature
  <2>5. r.signature[1] = d
    BY <2>4 DEF S11!Signature
  <2> QED
    BY <2>3, <2>5
<1>12. Agrees(S12!Evaluate(c))
  <2> DEFINE d == S12!Direction(c)
             r == S12!Evaluate(c)
  <2>1. SUFFICES ASSUME r.trade # NoTrade, r.signature # NoSignature
                 PROVE  (r.trade.direction = "buy") <=> (r.signature[1] = "bullish")
    BY DEF Agrees
  <2>2. r.trade = S12!Trade(c) /\ S12!Trade(c) # S12!NoTrade
    BY <2>1 DEF S12!Evaluate, S12!ComputeVerdict, S12!PlanOf, S12!NoTrade, NoTrade
  <2>3. r.trade.direction = IF d = "bullish" THEN "buy" ELSE "sell"
    BY <2>2 DEF S12!Trade, S12!RMultiple, S12!Plan
  <2>4. r.signature = S12!Signature(c) /\ r.signature # S12!NoSignature
    BY <2>1 DEF S12!Evaluate, S12!ComputeVerdict, S12!NoSignature, NoSignature
  <2>5. r.signature[1] = d
    BY <2>4 DEF S12!Signature
  <2> QED
    BY <2>3, <2>5
<1>13. Agrees(S13!Evaluate(c))
  <2> DEFINE d == S13!Setup(c).direction
             r == S13!Evaluate(c)
  <2>1. SUFFICES ASSUME r.trade # NoTrade, r.signature # NoSignature
                 PROVE  (r.trade.direction = "buy") <=> (r.signature[1] = "bullish")
    BY DEF Agrees
  <2>2. r.trade = S13!Trade(c) /\ S13!Trade(c) # S13!NoTrade
    BY <2>1 DEF S13!Evaluate, S13!ComputeVerdict, S13!PlanOf, S13!NoTrade, NoTrade
  <2>3. r.trade.direction = IF d = "bullish" THEN "buy" ELSE "sell"
    BY <2>2 DEF S13!Trade, S13!RMultiple, S13!Plan
  <2>4. r.signature = S13!Signature(c) /\ r.signature # S13!NoSignature
    BY <2>1 DEF S13!Evaluate, S13!ComputeVerdict, S13!NoSignature, NoSignature
  <2>5. r.signature[1] = d
    BY <2>4 DEF S13!Signature
  <2> QED
    BY <2>3, <2>5
<1>14. Agrees(S14!Evaluate(c))
  <2> DEFINE d == S14!Direction(c)
             r == S14!Evaluate(c)
  <2>1. SUFFICES ASSUME r.trade # NoTrade, r.signature # NoSignature
                 PROVE  (r.trade.direction = "buy") <=> (r.signature[1] = "bullish")
    BY DEF Agrees
  <2>2. r.trade = S14!Trade(c) /\ S14!Trade(c) # S14!NoTrade
    BY <2>1 DEF S14!Evaluate, S14!ComputeVerdict, S14!PlanOf, S14!NoTrade, NoTrade
  <2>3. r.trade.direction = IF d = "bullish" THEN "buy" ELSE "sell"
    BY <2>2 DEF S14!Trade, S14!RMultiple, S14!Plan
  <2>4. r.signature = S14!Signature(c) /\ r.signature # S14!NoSignature
    BY <2>1 DEF S14!Evaluate, S14!ComputeVerdict, S14!NoSignature, NoSignature
  <2>5. r.signature[1] = d
    BY <2>4 DEF S14!Signature
  <2> QED
    BY <2>3, <2>5
<1>15. Agrees(S15!Evaluate(c))
  <2> DEFINE d == S15!Block(c).direction
             r == S15!Evaluate(c)
  <2>1. SUFFICES ASSUME r.trade # NoTrade, r.signature # NoSignature
                 PROVE  (r.trade.direction = "buy") <=> (r.signature[1] = "bullish")
    BY DEF Agrees
  <2>2. r.trade = S15!Trade(c) /\ S15!Trade(c) # S15!NoTrade
    BY <2>1 DEF S15!Evaluate, S15!ComputeVerdict, S15!PlanOf, S15!NoTrade, NoTrade
  <2>3. r.trade.direction = IF d = "bullish" THEN "buy" ELSE "sell"
    BY <2>2 DEF S15!Trade, S15!RMultiple, S15!Plan
  <2>4. r.signature = S15!Signature(c) /\ r.signature # S15!NoSignature
    BY <2>1 DEF S15!Evaluate, S15!ComputeVerdict, S15!NoSignature, NoSignature
  <2>5. r.signature[1] = d
    BY <2>4 DEF S15!Signature
  <2> QED
    BY <2>3, <2>5
<1> QED
  BY StrategyNames, <1>1, <1>2, <1>3, <1>4, <1>5, <1>6, <1>7, <1>8, <1>9, <1>10, <1>11, <1>12, <1>13, <1>14, <1>15 DEF Evaluate

\* Clusters are formed by signature and traded by plan: the two never point in opposite
\* directions.
THEOREM SignatureAgreesHolds == Spec => []SignatureAgrees
<1>1. PassInv => SignatureAgrees
  <2> SUFFICES ASSUME PassInv, NEW row \in Rows
               PROVE  Agrees(row.result)
    BY DEF SignatureAgrees, Agrees
  <2>1. PICK c \in Contexts : row.result = Evaluate(row.strategy, c)
    BY RowIsResult
  <2> QED
    BY <2>1, RowIsResult, ResultsAgree
<1> QED
  BY <1>1, PassHolds, PTL
-----------------------------------------------------------------------------
\* A best element by three numbers: the greatest first, the least second, the least third.
HasBest(S, f, g, h) ==
    \E p \in S : \A q \in S :
        \/ f[q] < f[p]
        \/ f[q] = f[p] /\ (g[p] < g[q] \/ (g[p] = g[q] /\ h[p] <= h[q]))

LEMMA LexBest ==
    ASSUME NEW S, S # {}, NEW n \in Nat,
           NEW f \in [S -> 0..n], NEW g \in [S -> Nat], NEW h \in [S -> Nat]
    PROVE  HasBest(S, f, g, h)
<1> DEFINE F == {f[p] : p \in S}
<1>1. F \in SUBSET (0..n) /\ F # {}
  OBVIOUS
<1>2. PICK top \in F : \A y \in F : y <= top
  <2> HIDE DEF F
  <2> QED
    BY <1>1, GreatestElement
<1> DEFINE A == {p \in S : f[p] = top}
           G == {g[p] : p \in A}
<1>3. G \in SUBSET Nat /\ G # {}
  BY <1>2
<1>4. PICK low \in G : \A y \in G : low <= y
  <2> HIDE DEF G
  <2> QED
    BY <1>3, LeastElement
<1> DEFINE B == {p \in A : g[p] = low}
           H == {h[p] : p \in B}
<1>5. H \in SUBSET Nat /\ H # {}
  BY <1>4
<1>6. PICK least \in H : \A y \in H : least <= y
  <2> HIDE DEF H
  <2> QED
    BY <1>5, LeastElement
<1>7. PICK p \in B : h[p] = least
  BY <1>6
<1>8. p \in S /\ f[p] = top /\ g[p] = low
  BY <1>7
<1>9. ASSUME NEW q \in S
      PROVE  \/ f[q] < f[p]
             \/ f[q] = f[p] /\ (g[p] < g[q] \/ (g[p] = g[q] /\ h[p] <= h[q]))
  <2>1. f[q] \in F /\ f[q] \in 0..n /\ top \in 0..n
    BY <1>1
  <2>2. f[q] <= top
    BY <2>1, <1>2
  <2>3. CASE f[q] = top
    <3>1. g[q] \in G /\ g[q] \in Nat /\ low \in Nat
      BY <2>3, <1>3
    <3>2. low <= g[q]
      BY <3>1, <1>4
    <3>3. CASE g[q] = low
      <4>1. h[q] \in H
        BY <2>3, <3>3
      <4>2. least <= h[q]
        BY <4>1, <1>6
      <4> QED
        BY <2>3, <3>3, <4>2, <1>7, <1>8
    <3> QED
      BY <2>3, <3>1, <3>2, <3>3, <1>8
  <2> QED
    BY <2>1, <2>2, <2>3, <1>8
<1> QED
  BY <1>8, <1>9 DEF HasBest

\* A plan whose target is a multiple of its risk.
SoundPlan(trade, pays) ==
    /\ Sound(trade)
    /\ pays /\ trade # NoTrade => RrOk(trade)

LEMMA RMultipleIsSound ==
    ASSUME NEW d, NEW entry \in Int, NEW sl \in Int, NEW n \in 1..3
    PROVE  SoundPlan(RMultiple(d, entry, sl, n), n >= 2)
<1> DEFINE trade == RMultiple(d, entry, sl, n)
           risk  == RiskOf(d, entry, sl)
<1>1. risk \in Int
  BY DEF RiskOf
<1>2. CASE risk <= 0
  BY <1>2 DEF RMultiple, SoundPlan, Sound
<1>3. CASE ~ (risk <= 0) /\ d = "bullish"
  <2>1. /\ trade.direction = "buy" /\ trade.entry = entry /\ trade.sl = sl
        /\ trade.tp1 = entry + n * risk
    BY <1>3 DEF RMultiple, Plan
  <2>2. risk = entry - sl
    BY <1>3 DEF RiskOf
  <2>3. n * risk >= risk /\ n * risk \in Int /\ (n >= 2 => n * risk >= 2 * risk)
    BY <1>1, <1>3
  <2>4. trade # NoTrade
    BY <2>1 DEF NoTrade
  <2> HIDE DEF trade, risk
  <2> QED
    BY <1>1, <1>3, <2>1, <2>2, <2>3, <2>4 DEF SoundPlan, Sound, RrOk, Distance, trade
<1>4. CASE ~ (risk <= 0) /\ d # "bullish"
  <2>1. /\ trade.direction = "sell" /\ trade.entry = entry /\ trade.sl = sl
        /\ trade.tp1 = entry - n * risk
    BY <1>4 DEF RMultiple, Plan
  <2>2. risk = sl - entry
    BY <1>4 DEF RiskOf
  <2>3. n * risk >= risk /\ n * risk \in Int /\ (n >= 2 => n * risk >= 2 * risk)
    BY <1>1, <1>4
  <2>4. trade # NoTrade
    BY <2>1 DEF NoTrade
  <2> HIDE DEF trade, risk
  <2> QED
    BY <1>1, <1>4, <2>1, <2>2, <2>3, <2>4 DEF SoundPlan, Sound, RrOk, Distance, trade
<1> QED
  BY <1>1, <1>2, <1>3, <1>4

\* What a look-up finds has its type, and so do the prices made of it.
LEMMA NewestHasType ==
    ASSUME NEW T, NEW list \in Seq(T), NEW I \in SUBSET DOMAIN list, I # {}
    PROVE  Newest(list, I) \in T
<1>1. Len(list) \in Nat /\ I \in SUBSET (1..Len(list))
  OBVIOUS
<1>2. \E i \in I : Newest(list, I) = list[i]
  BY <1>1, NewestIsOne
<1> QED
  BY <1>2

LEMMA PricesAreIntegers ==
    /\ \A f \in FvgType : f.top \in Int /\ f.bottom \in Int /\ CeOf(f) \in Int
    /\ \A b \in BlockType : b.high \in Int /\ b.low \in Int
    /\ \A w \in SweepType : w.wick \in Int /\ w.level \in Int
    /\ \A a, b \in Int : /\ Midpoint(a, b) \in Int /\ Lower(a, b) \in Int
                         /\ Higher(a, b) \in Int
    /\ \A d, a, b : a \in Int /\ b \in Int => Beyond(d, a, b) \in Int
    /\ \A n \in Int : Pips(n) \in Int
<1>1. \A a, b \in Int : Midpoint(a, b) \in Int
  BY DEF Midpoint
<1>2. \A f \in FvgType : f.top \in Int /\ f.bottom \in Int
  BY DEF FvgType
<1>3. \A f \in FvgType : CeOf(f) \in Int
  BY <1>1, <1>2 DEF CeOf
<1>4. /\ \A b \in BlockType : b.high \in Int /\ b.low \in Int
      /\ \A w \in SweepType : w.wick \in Int /\ w.level \in Int
  BY DEF BlockType, SweepType
<1>5. \A a, b \in Int : Lower(a, b) \in Int /\ Higher(a, b) \in Int
  BY DEF Lower, Higher
<1>6. \A d, a, b : a \in Int /\ b \in Int => Beyond(d, a, b) \in Int
  BY DEF Beyond
<1>7. \A n \in Int : Pips(n) \in Int
  BY DEF Pips
<1> QED
  BY <1>1, <1>2, <1>3, <1>4, <1>5, <1>6, <1>7

\* The numbers of a list have a bound.
LEMMA ListIsBounded ==
    ASSUME NEW list \in Seq(Nat)
    PROVE  \E n \in Nat : \A i \in DOMAIN list : list[i] <= n
<1> DEFINE Bounds(k) == {n \in Nat : \A i \in 1..k : list[i] <= n}
           T == {k \in 0..Len(list) : Bounds(k) = {}}
<1>1. DOMAIN list = 1..Len(list) /\ Len(list) \in Nat
      /\ \A i \in 1..Len(list) : list[i] \in Nat
  OBVIOUS
<1>2. ASSUME T # {}
      PROVE  FALSE
  <2>1. T \in SUBSET Nat
    BY <1>1
  <2>2. PICK k \in T : \A j \in T : k <= j
    <3> HIDE DEF T
    <3> QED
      BY <1>2, <2>1, LeastElement
  <2>3. k # 0
    <3>1. 0 \in Bounds(0)
      OBVIOUS
    <3> QED
      BY <3>1, <2>2
  <2>4. k - 1 \in 0..Len(list) /\ k - 1 \notin T
    <3>1. k \in 0..Len(list)
      BY <2>2
    <3> HIDE DEF T
    <3> QED
      BY <3>1, <2>2, <2>3, <1>1
  <2>5. PICK n \in Nat : \A i \in 1..(k - 1) : list[i] <= n
    BY <2>4
  <2>6. list[k] \in Nat /\ k \in 1..Len(list)
    BY <1>1, <2>2, <2>3
  <2>7. n + list[k] \in Bounds(k)
    <3>1. ASSUME NEW i \in 1..k
          PROVE  list[i] <= n + list[k]
      <4>1. CASE i = k
        BY <4>1, <2>6
      <4>2. CASE i # k
        <5>1. i \in 1..(k - 1) /\ list[i] \in Nat
          BY <4>2, <2>6, <1>1
        <5> QED
          BY <5>1, <2>5, <2>6
      <4> QED
        BY <4>1, <4>2
    <3> QED
      BY <3>1, <2>6
  <2> QED
    BY <2>2, <2>7
<1>3. Bounds(Len(list)) # {}
  BY <1>1, <1>2
<1> QED
  BY <1>1, <1>3

\* The nearest of some prices is one of them.
LEMMA NearestHasType ==
    ASSUME NEW list \in Seq(Int), list # << >>, NEW price \in Int
    PROVE  Nearest(list, price) \in Int
<1> DEFINE S == DOMAIN list
           f == [i \in S |-> 0]
           g == [i \in S |-> Distance(list[i], price)]
           h == [i \in S |-> i]
<1>1. Len(list) \in S /\ S \in SUBSET Nat /\ \A i \in S : list[i] \in Int
  OBVIOUS
<1>2. \A i \in S : Distance(list[i], price) \in Nat
  BY <1>1 DEF Distance
<1>3. S # {} /\ f \in [S -> 0..0] /\ g \in [S -> Nat] /\ h \in [S -> Nat] /\ 0 \in Nat
  BY <1>1, <1>2
<1>4. HasBest(S, f, g, h)
  <2> HIDE DEF S, f, g, h
  <2> QED
    BY <1>3, LexBest
<1> PICK p \in S : \A q \in S :
              \/ f[q] < f[p]
              \/ f[q] = f[p] /\ (g[p] < g[q] \/ (g[p] = g[q] /\ h[p] <= h[q]))
  <2> HIDE DEF S, f, g, h
  <2> QED
    BY <1>4 DEF HasBest
<1>5. \A q \in S : \/ Distance(list[p], price) < Distance(list[q], price)
                   \/ Distance(list[p], price) = Distance(list[q], price) /\ p <= q
  OBVIOUS
<1> HIDE DEF S
<1>6. \E best \in S : Nearest(list, price) = list[best]
  BY <1>5 DEF Nearest, S
<1> QED
  BY <1>1, <1>6

\* The greatest pair, and the one with the greatest first and the least second number.
HasGreatestPair(S) ==
    \E p \in S : \A q \in S : q[1] < p[1] \/ (q[1] = p[1] /\ q[2] <= p[2])
HasFirstPair(S) ==
    \E p \in S : \A q \in S : q[1] < p[1] \/ (q[1] = p[1] /\ p[2] <= q[2])

LEMMA PairBest ==
    ASSUME NEW n \in Nat, NEW m \in Nat, NEW S \in SUBSET ((0..n) \X (0..m)), S # {}
    PROVE  HasGreatestPair(S) /\ HasFirstPair(S)
<1> DEFINE f == [p \in S |-> p[1]]
           g == [p \in S |-> p[2]]
           r == [p \in S |-> m - p[2]]
           h == [p \in S |-> 0]
<1>1. \A p \in S : p[1] \in 0..n /\ p[2] \in 0..m
  OBVIOUS
<1>2. /\ f \in [S -> 0..n] /\ g \in [S -> Nat] /\ r \in [S -> Nat] /\ h \in [S -> Nat]
  BY <1>1
<1>3. HasBest(S, f, r, h)
  <2> HIDE DEF f, g, r, h
  <2> QED
    BY <1>2, LexBest
<1>4. HasBest(S, f, g, h)
  <2> HIDE DEF f, g, r, h
  <2> QED
    BY <1>2, LexBest
<1>5. \E p \in S : \A q \in S : q[1] < p[1] \/ (q[1] = p[1] /\ q[2] <= p[2])
  <2>1. PICK p \in S : \A q \in S :
              \/ f[q] < f[p]
              \/ f[q] = f[p] /\ (r[p] < r[q] \/ (r[p] = r[q] /\ h[p] <= h[q]))
    <3> HIDE DEF f, g, r, h
    <3> QED
      BY <1>3 DEF HasBest
  <2> QED
    BY <1>1, <2>1
<1>6. \E p \in S : \A q \in S : q[1] < p[1] \/ (q[1] = p[1] /\ p[2] <= q[2])
  <2>1. PICK p \in S : \A q \in S :
              \/ f[q] < f[p]
              \/ f[q] = f[p] /\ (g[p] < g[q] \/ (g[p] = g[q] /\ h[p] <= h[q]))
    <3> HIDE DEF f, g, r, h
    <3> QED
      BY <1>4 DEF HasBest
  <2> QED
    BY <1>1, <2>1
<1> QED
  BY <1>5, <1>6 DEF HasGreatestPair, HasFirstPair
-----------------------------------------------------------------------------
LEMMA ConfirmationIsSound ==
    ASSUME NEW c \in Contexts
    PROVE  SoundPlan(S03!Trade(c), TRUE)
<1>1. CASE \/ S03!RecentSweeps(c, 10) = {} \/ S03!UsableFvgs(c) = {}
           \/ S03!RecentMss(c, 20) = {} \/ c.atr = S03!Unknown
  <2>1. S03!Trade(c) = NoTrade
    BY <1>1 DEF S03!Trade, S03!NoTrade, NoTrade
  <2> QED
    BY <2>1 DEF SoundPlan, Sound
<1>2. CASE ~ (\/ S03!RecentSweeps(c, 10) = {} \/ S03!UsableFvgs(c) = {}
              \/ S03!RecentMss(c, 20) = {} \/ c.atr = S03!Unknown)
  <2> DEFINE d == S03!Newest(c.mss, S03!RecentMss(c, 20)).direction
             entry == CeOf(Newest(c.fvgs, S03!UsableFvgs(c)))
             sl == Beyond(d, Newest(c.sweeps, S03!RecentSweeps(c, 10)).wick, (3 * c.atr) \div 4)
  <2>1. \A e, s : S03!RMultiple(d, e, s, 2) = RMultiple(d, e, s, 2)
    BY DEF S03!RMultiple, S03!RiskOf, S03!Plan, S03!NoTrade, RMultiple, RiskOf, Plan, NoTrade
  <2>2. S03!Trade(c) = S03!RMultiple(d, entry, sl, 2)
    BY <1>2 DEF S03!Trade, S03!CeOf, CeOf, S03!Midpoint, Midpoint, S03!Beyond, Beyond,
           S03!Newest, Newest
  <2>3. S03!UsableFvgs(c) \subseteq DOMAIN c.fvgs /\ S03!UsableFvgs(c) # {}
    BY <1>2 DEF S03!UsableFvgs
  <2>4. Newest(c.fvgs, S03!UsableFvgs(c)) \in FvgType
    BY <2>3, ContextFields, NewestHasType
  <2>5. S03!RecentSweeps(c, 10) \subseteq DOMAIN c.sweeps /\ S03!RecentSweeps(c, 10) # {}
    BY <1>2 DEF S03!RecentSweeps
  <2>6. Newest(c.sweeps, S03!RecentSweeps(c, 10)) \in SweepType
    BY <2>5, ContextFields, NewestHasType
  <2>7. (3 * c.atr) \div 4 \in Int
    <3>1. c.atr \in Nat
      BY ContextFields
    <3> QED
      BY <3>1
  <2>9. entry \in Int /\ sl \in Int
    BY <2>4, <2>6, <2>7, PricesAreIntegers
  <2>10. SoundPlan(RMultiple(d, entry, sl, 2), 2 >= 2)
    <3> HIDE DEF d, entry, sl
    <3> QED
      BY <2>9, RMultipleIsSound
  <2> QED
    <3> HIDE DEF d, entry, sl
    <3> QED
      BY <2>1, <2>2, <2>10 DEF SoundPlan
<1> QED
  BY <1>1, <1>2

LEMMA SilverBulletIsSound ==
    ASSUME NEW c \in Contexts
    PROVE  SoundPlan(S04!Trade(c), TRUE)
<1>1. CASE \/ ~ S04!InSbWindow(c) \/ S04!RecentSweeps(c, 10) = {} \/ S04!UsableFvgs(c) = {}
           \/ S04!RecentMss(c, 15) = {} \/ c.atr = S04!Unknown
  <2>1. S04!Trade(c) = NoTrade
    BY <1>1 DEF S04!Trade, S04!NoTrade, NoTrade
  <2> QED
    BY <2>1 DEF SoundPlan, Sound
<1>2. CASE ~ (\/ ~ S04!InSbWindow(c) \/ S04!RecentSweeps(c, 10) = {} \/ S04!UsableFvgs(c) = {}
              \/ S04!RecentMss(c, 15) = {} \/ c.atr = S04!Unknown)
  <2> DEFINE d == S04!Newest(c.mss, S04!RecentMss(c, 15)).direction
             entry == CeOf(Newest(c.fvgs, S04!UsableFvgs(c)))
             sl == Beyond(d, Newest(c.sweeps, S04!RecentSweeps(c, 10)).wick, c.atr \div 2)
  <2>1. \A e, s : S04!RMultiple(d, e, s, 2) = RMultiple(d, e, s, 2)
    BY DEF S04!RMultiple, S04!RiskOf, S04!Plan, S04!NoTrade, RMultiple, RiskOf, Plan, NoTrade
  <2>2. S04!Trade(c) = S04!RMultiple(d, entry, sl, 2)
    BY <1>2 DEF S04!Trade, S04!CeOf, CeOf, S04!Midpoint, Midpoint, S04!Beyond, Beyond,
           S04!Newest, Newest
  <2>3. S04!UsableFvgs(c) \subseteq DOMAIN c.fvgs /\ S04!UsableFvgs(c) # {}
    BY <1>2 DEF S04!UsableFvgs
  <2>4. Newest(c.fvgs, S04!UsableFvgs(c)) \in FvgType
    BY <2>3, ContextFields, NewestHasType
  <2>5. S04!RecentSweeps(c, 10) \subseteq DOMAIN c.sweeps /\ S04!RecentSweeps(c, 10) # {}
    BY <1>2 DEF S04!RecentSweeps
  <2>6. Newest(c.sweeps, S04!RecentSweeps(c, 10)) \in SweepType
    BY <2>5, ContextFields, NewestHasType
  <2>7. c.atr \div 2 \in Int
    <3>1. c.atr \in Nat
      BY ContextFields
    <3> QED
      BY <3>1
  <2>9. entry \in Int /\ sl \in Int
    BY <2>4, <2>6, <2>7, PricesAreIntegers
  <2>10. SoundPlan(RMultiple(d, entry, sl, 2), 2 >= 2)
    <3> HIDE DEF d, entry, sl
    <3> QED
      BY <2>9, RMultipleIsSound
  <2> QED
    <3> HIDE DEF d, entry, sl
    <3> QED
      BY <2>1, <2>2, <2>10 DEF SoundPlan
<1> QED
  BY <1>1, <1>2

LEMMA InverseIsSound ==
    ASSUME NEW c \in Contexts
    PROVE  SoundPlan(S06!Trade(c), TRUE)
<1>1. CASE \/ S06!InvertedFvgs(c) = {} \/ c.sweeps = << >> \/ c.atr = S06!Unknown
           \/ S06!RecentMss(c, 20) = {}
  <2>1. S06!Trade(c) = NoTrade
    BY <1>1 DEF S06!Trade, S06!NoTrade, NoTrade
  <2> QED
    BY <2>1 DEF SoundPlan, Sound
<1>2. CASE ~ (\/ S06!InvertedFvgs(c) = {} \/ c.sweeps = << >> \/ c.atr = S06!Unknown
              \/ S06!RecentMss(c, 20) = {})
  <2> DEFINE d == S06!Newest(c.mss, S06!RecentMss(c, 20)).direction
             entry == CeOf(Newest(c.fvgs, S06!InvertedFvgs(c)))
             sl == LET f == Newest(c.fvgs, S06!InvertedFvgs(c))
                       w == c.sweeps[Len(c.sweeps)].wick
                   IN  IF d = "bullish" THEN Lower(f.bottom - Pips(10), w)
                       ELSE Higher(f.top + Pips(10), w)
  <2>1. \A e, s : S06!RMultiple(d, e, s, 2) = RMultiple(d, e, s, 2)
    BY DEF S06!RMultiple, S06!RiskOf, S06!Plan, S06!NoTrade, RMultiple, RiskOf, Plan, NoTrade
  <2>2. S06!Trade(c) = S06!RMultiple(d, entry, sl, 2)
    BY <1>2 DEF S06!Trade, S06!Ifvg, S06!CeOf, CeOf, S06!Midpoint, Midpoint, S06!Lower,
           Lower, S06!Higher, Higher, S06!Pips, Pips, S06!Newest, Newest
  <2>3. S06!InvertedFvgs(c) \subseteq DOMAIN c.fvgs /\ S06!InvertedFvgs(c) # {}
    BY <1>2 DEF S06!InvertedFvgs
  <2>4. Newest(c.fvgs, S06!InvertedFvgs(c)) \in FvgType
    BY <2>3, ContextFields, NewestHasType
  <2>5. c.sweeps \in Seq(SweepType) /\ c.sweeps # << >>
    BY <1>2, ContextFields
  <2>6. c.sweeps[Len(c.sweeps)] \in SweepType
    BY <2>5
  <2>9. entry \in Int /\ sl \in Int
    <3> DEFINE f == Newest(c.fvgs, S06!InvertedFvgs(c))
               w == c.sweeps[Len(c.sweeps)].wick
    <3>1. f.top \in Int /\ f.bottom \in Int /\ CeOf(f) \in Int /\ w \in Int
      BY <2>4, <2>6, PricesAreIntegers
    <3>2. Lower(f.bottom - Pips(10), w) \in Int /\ Higher(f.top + Pips(10), w) \in Int
      BY <3>1 DEF Lower, Higher, Pips
    <3> QED
      BY <3>1, <3>2
  <2>10. SoundPlan(RMultiple(d, entry, sl, 2), 2 >= 2)
    <3> HIDE DEF d, entry, sl
    <3> QED
      BY <2>9, RMultipleIsSound
  <2> QED
    <3> HIDE DEF d, entry, sl
    <3> QED
      BY <2>1, <2>2, <2>10 DEF SoundPlan
<1> QED
  BY <1>1, <1>2

LEMMA ReclaimedIsSound ==
    ASSUME NEW c \in Contexts
    PROVE  SoundPlan(S13!Trade(c), TRUE)
<1>1. CASE S13!Reclaimed(c) = {}
  <2>1. S13!Trade(c) = NoTrade
    BY <1>1 DEF S13!Trade, S13!NoTrade, NoTrade
  <2> QED
    BY <2>1 DEF SoundPlan, Sound
<1>2. CASE ~ (S13!Reclaimed(c) = {})
  <2> DEFINE d == Newest(c.fvgs, S13!Reclaimed(c)).direction
             entry == CeOf(Newest(c.fvgs, S13!Reclaimed(c)))
             sl == LET f == Newest(c.fvgs, S13!Reclaimed(c))
                   IN  Beyond(d, IF d = "bullish" THEN f.bottom ELSE f.top, Pips(5))
  <2>1. \A e, s : S13!RMultiple(d, e, s, 2) = RMultiple(d, e, s, 2)
    BY DEF S13!RMultiple, S13!RiskOf, S13!Plan, S13!NoTrade, RMultiple, RiskOf, Plan, NoTrade
  <2>2. S13!Trade(c) = S13!RMultiple(d, entry, sl, 2)
    BY <1>2 DEF S13!Trade, S13!Setup, S13!CeOf, CeOf, S13!Midpoint, Midpoint, S13!Beyond,
           Beyond, S13!Pips, Pips, S13!Newest, Newest
  <2>3. S13!Reclaimed(c) \subseteq DOMAIN c.fvgs /\ S13!Reclaimed(c) # {}
    BY <1>2 DEF S13!Reclaimed
  <2>4. Newest(c.fvgs, S13!Reclaimed(c)) \in FvgType
    BY <2>3, ContextFields, NewestHasType
  <2>9. entry \in Int /\ sl \in Int
    <3>1. \A f \in FvgType : f.top \in Int /\ f.bottom \in Int /\ CeOf(f) \in Int
      BY PricesAreIntegers
    <3>2. \A e, x : x \in Int => Beyond(e, x, Pips(5)) \in Int
      BY DEF Beyond, Pips
    <3> QED
      BY <2>4, <3>1, <3>2
  <2>10. SoundPlan(RMultiple(d, entry, sl, 2), 2 >= 2)
    <3> HIDE DEF d, entry, sl
    <3> QED
      BY <2>9, RMultipleIsSound
  <2> QED
    <3> HIDE DEF d, entry, sl
    <3> QED
      BY <2>1, <2>2, <2>10 DEF SoundPlan
<1> QED
  BY <1>1, <1>2

LEMMA RejectionIsSound ==
    ASSUME NEW c \in Contexts
    PROVE  SoundPlan(S08!Trade(c), TRUE)
<1>1. CASE S08!Setups(c) = {} \/ S08!Penetrated(c, S08!Setup(c))
  <2>1. S08!Trade(c) = NoTrade
    BY <1>1 DEF S08!Trade, S08!NoTrade, NoTrade
  <2> QED
    BY <2>1 DEF SoundPlan, Sound
<1>2. CASE ~ (S08!Setups(c) = {} \/ S08!Penetrated(c, S08!Setup(c)))
  <2> DEFINE d == S08!WickDirection(S08!Setup(c))
             entry == LET bar == S08!Setup(c)
                      IN  IF d = "bullish" THEN S08!BodyLow(bar) ELSE S08!BodyHigh(bar)
             sl == Beyond(d, S08!Extreme(S08!Setup(c)), Pips(10))
  <2>1. \A e, s : S08!RMultiple(d, e, s, 3) = RMultiple(d, e, s, 3)
    BY DEF S08!RMultiple, S08!RiskOf, S08!Plan, S08!NoTrade, RMultiple, RiskOf, Plan, NoTrade
  <2>2. S08!Trade(c) = S08!RMultiple(d, entry, sl, 3)
    BY <1>2 DEF S08!Trade, S08!Beyond, Beyond, S08!Pips, Pips
  <2>3. S08!Setup(c) \in BarType
    BY <1>2, RejectionSetup
  <2>4. \A bar \in BarType : /\ S08!BodyLow(bar) \in Int /\ S08!BodyHigh(bar) \in Int
                              /\ S08!Extreme(bar) \in Int
    BY DEF BarType, S08!BodyLow, S08!BodyHigh, S08!Extreme, S08!Lower, S08!Higher
  <2>9. entry \in Int /\ sl \in Int
    <3>1. \A e, x : x \in Int => Beyond(e, x, Pips(10)) \in Int
      BY DEF Beyond, Pips
    <3> QED
      BY <2>3, <2>4, <3>1
  <2>10. SoundPlan(RMultiple(d, entry, sl, 3), 3 >= 2)
    <3> HIDE DEF d, entry, sl
    <3> QED
      BY <2>9, RMultipleIsSound
  <2> QED
    <3> HIDE DEF d, entry, sl
    <3> QED
      BY <2>1, <2>2, <2>10 DEF SoundPlan
<1> QED
  BY <1>1, <1>2

\* Elements of the lists of a context.
LEMMA ListElements ==
    ASSUME NEW c \in Contexts
    PROVE  /\ Len(c.fvgs) \in Nat /\ \A i \in 1..Len(c.fvgs) : c.fvgs[i] \in FvgType
           /\ Len(c.obs) \in Nat /\ \A i \in 1..Len(c.obs) : c.obs[i] \in BlockType
           /\ Len(c.gaps) \in Nat /\ \A i \in 1..Len(c.gaps) : c.gaps[i] \in GapType
           /\ Len(c.m5) \in Nat /\ \A i \in 1..Len(c.m5) : c.m5[i] \in BarType
           /\ DOMAIN c.fvgs = 1..Len(c.fvgs) /\ DOMAIN c.obs = 1..Len(c.obs)
           /\ DOMAIN c.gaps = 1..Len(c.gaps) /\ DOMAIN c.m5 = 1..Len(c.m5)
<1>1. /\ c.fvgs \in Seq(FvgType) /\ c.obs \in Seq(BlockType)
      /\ c.gaps \in Seq(GapType) /\ c.m5 \in Seq(BarType)
  BY ContextFields
<1>2. Len(c.fvgs) \in Nat /\ DOMAIN c.fvgs = 1..Len(c.fvgs)
      /\ \A i \in 1..Len(c.fvgs) : c.fvgs[i] \in FvgType
  BY <1>1
<1>3. Len(c.obs) \in Nat /\ DOMAIN c.obs = 1..Len(c.obs)
      /\ \A i \in 1..Len(c.obs) : c.obs[i] \in BlockType
  BY <1>1
<1>4. Len(c.gaps) \in Nat /\ DOMAIN c.gaps = 1..Len(c.gaps)
      /\ \A i \in 1..Len(c.gaps) : c.gaps[i] \in GapType
  BY <1>1
<1>5. Len(c.m5) \in Nat /\ DOMAIN c.m5 = 1..Len(c.m5)
      /\ \A i \in 1..Len(c.m5) : c.m5[i] \in BarType
  BY <1>1
<1> QED
  BY <1>2, <1>3, <1>4, <1>5

LEMMA UnicornSetup ==
    ASSUME NEW c \in Contexts, S01!Pairs(c) # {}
    PROVE  /\ c.fvgs[S01!Setup(c)[1]] \in FvgType
           /\ c.obs[S01!Setup(c)[2]] \in BlockType
<1> DEFINE S == S01!Pairs(c)
           n == Len(c.fvgs)
           m == Len(c.obs)
<1>1. \A p \in S : p[1] \in 1..n /\ p[2] \in 1..m /\ p \in (0..n) \X (0..m)
  BY ListElements DEF S01!Pairs, S01!UsableFvgs
<1>2. n \in Nat /\ m \in Nat /\ S \in SUBSET ((0..n) \X (0..m)) /\ S # {}
  BY <1>1, ListElements
<1>3. HasGreatestPair(S)
  <2> HIDE DEF S, n, m
  <2> QED
    BY <1>2, PairBest
<1>4. S01!Setup(c) \in S
  BY <1>3 DEF S01!Setup, HasGreatestPair
<1> QED
  BY <1>1, <1>4, ListElements

LEMMA UnicornIsSound ==
    ASSUME NEW c \in Contexts
    PROVE  SoundPlan(S01!Trade(c), FALSE)
<1>1. CASE S01!Pairs(c) = {} \/ c.atr = S01!Unknown \/ S01!RecentMss(c, 20) = {}
  <2>1. S01!Trade(c) = NoTrade
    BY <1>1 DEF S01!Trade, S01!NoTrade, NoTrade
  <2> QED
    BY <2>1 DEF SoundPlan, Sound
<1>2. CASE ~ (S01!Pairs(c) = {} \/ c.atr = S01!Unknown \/ S01!RecentMss(c, 20) = {})
  <2> DEFINE d == S01!Newest(c.mss, S01!RecentMss(c, 20)).direction
             entry == LET f == c.fvgs[S01!Setup(c)[1]]
                          b == c.obs[S01!Setup(c)[2]]
                      IN  Midpoint(Lower(f.top, b.high), Higher(f.bottom, b.low))
             sl == LET b == c.obs[S01!Setup(c)[2]]
                   IN  Beyond(d, IF d = "bullish" THEN b.low ELSE b.high,
                              Higher(Pips(10), c.atr \div 2))
  <2>1. \A e, s : S01!RMultiple(d, e, s, 1) = RMultiple(d, e, s, 1)
    BY DEF S01!RMultiple, S01!RiskOf, S01!Plan, S01!NoTrade, RMultiple, RiskOf, Plan, NoTrade
  <2>2. S01!Trade(c) = S01!RMultiple(d, entry, sl, 1)
    BY <1>2 DEF S01!Trade, S01!Midpoint, Midpoint, S01!Lower, Lower, S01!Higher, Higher,
           S01!Beyond, Beyond, S01!Pips, Pips
  <2>3. c.fvgs[S01!Setup(c)[1]] \in FvgType /\ c.obs[S01!Setup(c)[2]] \in BlockType
    BY <1>2, UnicornSetup
  <2>4. c.atr \div 2 \in Int /\ Pips(10) \in Int
    <3>1. c.atr \in Nat
      BY ContextFields
    <3> QED
      BY <3>1 DEF Pips
  <2>5. Higher(Pips(10), c.atr \div 2) \in Int
    BY <2>4 DEF Higher
  <2>9. entry \in Int /\ sl \in Int
    BY <2>3, <2>5, PricesAreIntegers
  <2>10. SoundPlan(RMultiple(d, entry, sl, 1), 1 >= 2)
    <3> HIDE DEF d, entry, sl
    <3> QED
      BY <2>9, RMultipleIsSound
  <2> QED
    <3> HIDE DEF d, entry, sl
    <3> QED
      BY <2>1, <2>2, <2>10 DEF SoundPlan
<1> QED
  BY <1>1, <1>2

LEMMA PropulsionSetup ==
    ASSUME NEW c \in Contexts, S11!Setups(c) # {}
    PROVE  S11!Block(c) \in BlockType
<1> DEFINE S == S11!Setups(c)
           n == Len(c.obs)
           m == Len(c.m5)
<1>1. \A p \in S : p[1] \in 1..n /\ p[2] \in 1..m /\ p \in (0..n) \X (0..m)
  BY ListElements DEF S11!Setups, S11!ValidBlocks
<1>2. n \in Nat /\ m \in Nat /\ S \in SUBSET ((0..n) \X (0..m)) /\ S # {}
  BY <1>1, ListElements
<1>3. HasFirstPair(S)
  <2> HIDE DEF S, n, m
  <2> QED
    BY <1>2, PairBest
<1>4. S11!Setup(c) \in S
  BY <1>3 DEF S11!Setup, HasFirstPair
<1> QED
  BY <1>1, <1>4, ListElements DEF S11!Block

LEMMA PropulsionIsSound ==
    ASSUME NEW c \in Contexts
    PROVE  SoundPlan(S11!Trade(c), TRUE)
<1>1. CASE S11!Setups(c) = {}
  <2>1. S11!Trade(c) = NoTrade
    BY <1>1 DEF S11!Trade, S11!NoTrade, NoTrade
  <2> QED
    BY <2>1 DEF SoundPlan, Sound
<1>2. CASE ~ (S11!Setups(c) = {})
  <2> DEFINE d == S11!Block(c).direction
             entry == Midpoint(S11!Block(c).high, S11!Block(c).low)
             sl == LET b == S11!Block(c)
                   IN  Beyond(d, IF d = "bullish" THEN b.low ELSE b.high, Pips(10))
  <2>1. \A e, s : S11!RMultiple(d, e, s, 2) = RMultiple(d, e, s, 2)
    BY DEF S11!RMultiple, S11!RiskOf, S11!Plan, S11!NoTrade, RMultiple, RiskOf, Plan, NoTrade
  <2>2. S11!Trade(c) = S11!RMultiple(d, entry, sl, 2)
    BY <1>2 DEF S11!Trade, S11!Midpoint, Midpoint, S11!Beyond, Beyond, S11!Pips, Pips
  <2>3. S11!Block(c) \in BlockType
    BY <1>2, PropulsionSetup
  <2>9. entry \in Int /\ sl \in Int
    <3>1. S11!Block(c).high \in Int /\ S11!Block(c).low \in Int
      BY <2>3, PricesAreIntegers
    <3>2. \A e, x : x \in Int => Beyond(e, x, Pips(10)) \in Int
      BY DEF Beyond, Pips
    <3> QED
      BY <3>1, <3>2, PricesAreIntegers
  <2>10. SoundPlan(RMultiple(d, entry, sl, 2), 2 >= 2)
    <3> HIDE DEF d, entry, sl
    <3> QED
      BY <2>9, RMultipleIsSound
  <2> QED
    <3> HIDE DEF d, entry, sl
    <3> QED
      BY <2>1, <2>2, <2>10 DEF SoundPlan
<1> QED
  BY <1>1, <1>2

LEMMA BprSetup ==
    ASSUME NEW c \in Contexts, S15!Setups(c) # {}
    PROVE  S15!Block(c) \in BlockType /\ S15!BprMid(c) \in Int
<1> DEFINE S == S15!Setups(c)
           n == Len(c.obs)
           f == [p \in S |-> p[1]]
           g == [p \in S |-> p[2]]
           h == [p \in S |-> p[3]]
<1>1. \A p \in S : p[1] \in 1..n /\ p[2] \in 1..Len(c.fvgs) /\ p[3] \in 1..Len(c.fvgs)
  BY ListElements DEF S15!Setups, S15!ValidBlocks
<1>2. /\ n \in Nat /\ S # {} /\ f \in [S -> 0..n] /\ g \in [S -> Nat] /\ h \in [S -> Nat]
  BY <1>1, ListElements
<1>3. HasBest(S, f, g, h)
  <2> HIDE DEF S, f, g, h, n
  <2> QED
    BY <1>2, LexBest
<1>4. \E p \in S : \A q \in S :
        \/ q[1] < p[1]
        \/ q[1] = p[1] /\ p[2] < q[2]
        \/ q[1] = p[1] /\ p[2] = q[2] /\ p[3] <= q[3]
  <2>1. PICK p \in S : \A q \in S :
              \/ f[q] < f[p]
              \/ f[q] = f[p] /\ (g[p] < g[q] \/ (g[p] = g[q] /\ h[p] <= h[q]))
    <3> HIDE DEF S, f, g, h, n
    <3> QED
      BY <1>3 DEF HasBest
  <2> HIDE DEF S
  <2> QED
    BY <2>1
<1>5. S15!Setup(c) \in S
  BY <1>4 DEF S15!Setup
<1>6. /\ S15!Block(c) \in BlockType
      /\ c.fvgs[S15!Setup(c)[2]] \in FvgType /\ c.fvgs[S15!Setup(c)[3]] \in FvgType
  BY <1>1, <1>5, ListElements DEF S15!Block
<1>7. \A a, b \in Int : (a + b) \div 2 \in Int
  OBVIOUS
<1>8. /\ S15!BprTop(c, S15!Setup(c)[2], S15!Setup(c)[3]) \in Int
      /\ S15!BprBottom(c, S15!Setup(c)[2], S15!Setup(c)[3]) \in Int
  BY <1>6, PricesAreIntegers DEF S15!BprTop, S15!BprBottom, S15!Lower, S15!Higher
<1> QED
  BY <1>6, <1>7, <1>8 DEF S15!BprMid, S15!Midpoint

LEMMA BprIsSound ==
    ASSUME NEW c \in Contexts
    PROVE  SoundPlan(S15!Trade(c), TRUE)
<1>1. CASE S15!Setups(c) = {}
  <2>1. S15!Trade(c) = NoTrade
    BY <1>1 DEF S15!Trade, S15!NoTrade, NoTrade
  <2> QED
    BY <2>1 DEF SoundPlan, Sound
<1>2. CASE ~ (S15!Setups(c) = {})
  <2> DEFINE d == S15!Block(c).direction
             entry == S15!BprMid(c)
             sl == LET b == S15!Block(c)
                   IN  Beyond(d, IF d = "bullish" THEN b.low ELSE b.high, Pips(10))
  <2>1. \A e, s : S15!RMultiple(d, e, s, 2) = RMultiple(d, e, s, 2)
    BY DEF S15!RMultiple, S15!RiskOf, S15!Plan, S15!NoTrade, RMultiple, RiskOf, Plan, NoTrade
  <2>2. S15!Trade(c) = S15!RMultiple(d, entry, sl, 2)
    BY <1>2 DEF S15!Trade, S15!Beyond, Beyond, S15!Pips, Pips
  <2>3. S15!Block(c) \in BlockType
    BY <1>2, BprSetup
  <2>9. entry \in Int /\ sl \in Int
    <3>1. S15!Block(c).high \in Int /\ S15!Block(c).low \in Int
      BY <2>3, PricesAreIntegers
    <3>2. \A e, x : x \in Int => Beyond(e, x, Pips(10)) \in Int
      BY DEF Beyond, Pips
    <3> QED
      BY <3>1, <3>2, <1>2, BprSetup, PricesAreIntegers
  <2>10. SoundPlan(RMultiple(d, entry, sl, 2), 2 >= 2)
    <3> HIDE DEF d, entry, sl
    <3> QED
      BY <2>9, RMultipleIsSound
  <2> QED
    <3> HIDE DEF d, entry, sl
    <3> QED
      BY <2>1, <2>2, <2>10 DEF SoundPlan
<1> QED
  BY <1>1, <1>2

LEMMA VacuumGap ==
    ASSUME NEW c \in Contexts, S12!Found(c)
    PROVE  S12!Gap(c) \in GapType
<1> DEFINE S == S12!Open(c)
           far(k) == S12!Distance(S12!CeOf(c.gaps[k]), S12!Here(c))
           f == [i \in S |-> 0]
           g == [i \in S |-> far(i)]
           h == [i \in S |-> i]
<1>1. \A i \in S : i \in 1..Len(c.gaps) /\ i \in Nat /\ c.gaps[i] \in GapType
  BY ListElements DEF S12!Open
<1>2. S12!Here(c) \in Int
  <2>1. c.price = Unknown /\ c.m1 \in Seq(BarType)
    BY ContextFields
  <2>2. c.m1 # << >>
    BY <2>1 DEF S12!Found, S12!Priced, S12!Unknown, Unknown
  <2>3. c.m1[Len(c.m1)] \in BarType
    BY <2>1, <2>2
  <2>4. S12!Here(c) = c.m1[Len(c.m1)].c
    BY <2>1 DEF S12!Here, S12!Unknown, Unknown
  <2> QED
    BY <2>3, <2>4 DEF BarType
<1>3. \A i \in S : far(i) \in Nat
  <2>1. \A x \in GapType : x.top \in Int /\ x.bottom \in Int
    BY DEF GapType
  <2>2. \A a, b \in Int : (a + b) \div 2 \in Int
    OBVIOUS
  <2>3. \A i \in S : S12!CeOf(c.gaps[i]) \in Int
    BY <1>1, <2>1, <2>2 DEF S12!CeOf, S12!Midpoint
  <2>4. \A a, b \in Int : S12!Distance(a, b) \in Nat
    BY DEF S12!Distance
  <2> QED
    BY <1>2, <2>3, <2>4
<1>4. /\ 0 \in Nat /\ S # {} /\ f \in [S -> 0..0] /\ g \in [S -> Nat] /\ h \in [S -> Nat]
  BY <1>1, <1>3 DEF S12!Found
<1>5. HasBest(S, f, g, h)
  <2> HIDE DEF S, f, g, h
  <2> QED
    BY <1>4, LexBest
<1>6. \E i \in S : \A j \in S : far(i) < far(j) \/ (far(i) = far(j) /\ i <= j)
  <2>1. PICK i \in S : \A j \in S :
              \/ f[j] < f[i]
              \/ f[j] = f[i] /\ (g[i] < g[j] \/ (g[i] = g[j] /\ h[i] <= h[j]))
    <3> HIDE DEF S, f, g, h
    <3> QED
      BY <1>5 DEF HasBest
  <2> HIDE DEF S
  <2> QED
    BY <2>1
<1>7. \E i \in S : S12!Gap(c) = c.gaps[i]
  BY <1>6 DEF S12!Gap
<1> QED
  BY <1>1, <1>7

LEMMA VacuumIsSound ==
    ASSUME NEW c \in Contexts
    PROVE  SoundPlan(S12!Trade(c), TRUE)
<1>1. CASE ~ S12!Found(c)
  <2>1. S12!Trade(c) = NoTrade
    BY <1>1 DEF S12!Trade, S12!NoTrade, NoTrade
  <2> QED
    BY <2>1 DEF SoundPlan, Sound
<1>2. CASE ~ (~ S12!Found(c))
  <2> DEFINE d == S12!Direction(c)
             entry == CeOf(S12!Gap(c))
             sl == LET x == S12!Gap(c)
                   IN  Beyond(d, IF d = "bullish" THEN x.bottom ELSE x.top, Pips(5))
  <2>1. \A e, s : S12!RMultiple(d, e, s, 2) = RMultiple(d, e, s, 2)
    BY DEF S12!RMultiple, S12!RiskOf, S12!Plan, S12!NoTrade, RMultiple, RiskOf, Plan, NoTrade
  <2>2. S12!Trade(c) = S12!RMultiple(d, entry, sl, 2)
    BY <1>2 DEF S12!Trade, S12!CeOf, CeOf, S12!Midpoint, Midpoint, S12!Beyond, Beyond,
           S12!Pips, Pips
  <2>3. S12!Gap(c) \in GapType
    BY <1>2, VacuumGap
  <2>9. entry \in Int /\ sl \in Int
    <3>1. S12!Gap(c).top \in Int /\ S12!Gap(c).bottom \in Int
      BY <2>3 DEF GapType
    <3>2. \A e, x : x \in Int => Beyond(e, x, Pips(5)) \in Int
      BY DEF Beyond, Pips
    <3> QED
      BY <3>1, <3>2, PricesAreIntegers DEF CeOf
  <2>10. SoundPlan(RMultiple(d, entry, sl, 2), 2 >= 2)
    <3> HIDE DEF d, entry, sl
    <3> QED
      BY <2>9, RMultipleIsSound
  <2> QED
    <3> HIDE DEF d, entry, sl
    <3> QED
      BY <2>1, <2>2, <2>10 DEF SoundPlan
<1> QED
  BY <1>1, <1>2

LEMMA NestedSetup ==
    ASSUME NEW c \in Contexts, S05!Legs(c) # {}
    PROVE  S05!LastFvg(c) \in FvgType
<1> DEFINE L == S05!Legs(c)
           n == Len(c.m15)
           S == S05!Stack(c)
           N == Len(c.fvgs)
           times == [i \in 1..N |-> c.fvgs[i].c1]
<1>1. n \in Nat
  BY ContextFields
<1>2. \A p \in L : p \in (0..n) \X (0..n)
  BY <1>1 DEF S05!Legs
<1>3. S05!Leg(c) \in L
  <2>1. HasGreatestPair(L)
    <3>1. L \in SUBSET ((0..n) \X (0..n)) /\ L # {}
      BY <1>2
    <3> HIDE DEF L, n
    <3> QED
      BY <1>1, <3>1, PairBest
  <2> QED
    BY <2>1 DEF S05!Leg, HasGreatestPair
<1>4. S # {}
  <2>1. S05!Cardinality(S) >= 3
    BY <1>3 DEF S05!Legs, S05!Stack
  <2>2. S05!Cardinality({}) = 0
    <3>1. S05!Cardinality({}) = Cardinality({})
      BY DEF S05!Cardinality, Cardinality
    <3> QED
      BY <3>1, FS_EmptySet
  <2> QED
    BY <2>1, <2>2
<1>5. N \in Nat /\ \A i \in S : i \in 1..N
  BY ListElements DEF S05!Stack, S05!StackIn
<1>6. times \in Seq(Nat) /\ DOMAIN times = 1..N
  <2>1. \A i \in 1..N : c.fvgs[i].c1 \in Nat
    BY ListElements DEF FvgType
  <2> HIDE DEF N
  <2> QED
    BY <1>5, <2>1
<1>7. PICK top \in Nat : \A i \in 1..N : times[i] <= top
  <2> HIDE DEF times, N
  <2> QED
    BY <1>6, ListIsBounded
<1> DEFINE f == [i \in S |-> c.fvgs[i].c1]
           g == [i \in S |-> N - i]
           h == [i \in S |-> 0]
<1>8. f \in [S -> 0..top] /\ g \in [S -> Nat] /\ h \in [S -> Nat]
  <2>1. \A i \in 1..N : c.fvgs[i].c1 \in Nat /\ c.fvgs[i].c1 <= top
    BY <1>7, ListElements DEF FvgType
  <2> HIDE DEF N, S
  <2> QED
    BY <1>5, <2>1
<1>9. HasBest(S, f, g, h)
  <2> HIDE DEF S, f, g, h
  <2> QED
    BY <1>4, <1>8, LexBest
<1>10. \E i \in S : \A j \in S : S05!Before(c, j, i)
  <2>1. PICK i \in S : \A j \in S :
              \/ f[j] < f[i]
              \/ f[j] = f[i] /\ (g[i] < g[j] \/ (g[i] = g[j] /\ h[i] <= h[j]))
    <3> HIDE DEF S, f, g, h
    <3> QED
      BY <1>9 DEF HasBest
  <2>2. \A j \in S : \/ c.fvgs[j].c1 < c.fvgs[i].c1
                     \/ c.fvgs[j].c1 = c.fvgs[i].c1 /\ N - i <= N - j
    <3> HIDE DEF S, N
    <3> QED
      BY <2>1, <1>5
  <2> HIDE DEF S, N
  <2> QED
    BY <2>2, <1>5 DEF S05!Before
<1>11. \E i \in S : S05!LastFvg(c) = c.fvgs[i]
  BY <1>10 DEF S05!LastFvg
<1> QED
  BY <1>5, <1>11, ListElements

LEMMA NestedIsSound ==
    ASSUME NEW c \in Contexts
    PROVE  SoundPlan(S05!Trade(c), TRUE)
<1>1. CASE S05!Legs(c) = {}
  <2>1. S05!Trade(c) = NoTrade
    BY <1>1 DEF S05!Trade, S05!NoTrade, NoTrade
  <2> QED
    BY <2>1 DEF SoundPlan, Sound
<1>2. CASE ~ (S05!Legs(c) = {})
  <2> DEFINE d == S05!Direction(c)
             entry == CeOf(S05!LastFvg(c))
             sl == LET f == S05!LastFvg(c)
                   IN  Beyond(d, IF d = "bullish" THEN f.bottom ELSE f.top, Pips(5))
  <2>1. \A e, s : S05!RMultiple(d, e, s, 2) = RMultiple(d, e, s, 2)
    BY DEF S05!RMultiple, S05!RiskOf, S05!Plan, S05!NoTrade, RMultiple, RiskOf, Plan, NoTrade
  <2>2. S05!Trade(c) = S05!RMultiple(d, entry, sl, 2)
    BY <1>2 DEF S05!Trade, S05!CeOf, CeOf, S05!Midpoint, Midpoint, S05!Beyond, Beyond,
           S05!Pips, Pips
  <2>3. S05!LastFvg(c) \in FvgType
    BY <1>2, NestedSetup
  <2>9. entry \in Int /\ sl \in Int
    <3>1. /\ S05!LastFvg(c).top \in Int /\ S05!LastFvg(c).bottom \in Int
          /\ CeOf(S05!LastFvg(c)) \in Int
      BY <2>3, PricesAreIntegers
    <3>2. \A e, x : x \in Int => Beyond(e, x, Pips(5)) \in Int
      BY DEF Beyond, Pips
    <3> QED
      BY <3>1, <3>2
  <2>10. SoundPlan(RMultiple(d, entry, sl, 2), 2 >= 2)
    <3> HIDE DEF d, entry, sl
    <3> QED
      BY <2>9, RMultipleIsSound
  <2> QED
    <3> HIDE DEF d, entry, sl
    <3> QED
      BY <2>1, <2>2, <2>10 DEF SoundPlan
<1> QED
  BY <1>1, <1>2

\* Key levels are prices.
LEMMA KeyLevelsType ==
    ASSUME NEW c \in Contexts
    PROVE  KeyLevels(c) \in Seq(Int)
<1> DEFINE last == LastOf(c.swings, 10)
           n == Len(c.obs)
           a == [i \in 1..Len(last) |-> last[i].price]
           b == [i \in 1..(2 * n) |-> IF i % 2 = 1 THEN c.obs[(i + 1) \div 2].high
                                      ELSE c.obs[i \div 2].low]
<1>1. a \in Seq(Int)
  <2>1. last \in Seq(SwingType)
    <3>1. c.swings \in Seq(SwingType)
      BY ContextFields
    <3> QED
      BY <3>1 DEF LastOf, Higher
  <2> HIDE DEF last
  <2>2. Len(last) \in Nat /\ \A i \in 1..Len(last) : last[i] \in SwingType
    <3> HIDE DEF SwingType
    <3> QED
      BY <2>1
  <2>3. \A s \in SwingType : s.price \in Int
    BY DEF SwingType
  <2>4. \A i \in 1..Len(last) : last[i].price \in Int
    BY <2>2, <2>3
  <2> QED
    BY <2>2, <2>4
<1>2. b \in Seq(Int)
  <2>1. n \in Nat /\ \A i \in 1..n : c.obs[i].high \in Int /\ c.obs[i].low \in Int
    BY ListElements DEF BlockType
  <2> HIDE DEF n
  <2>2. \A i \in 1..(2 * n) : /\ i % 2 = 1 => (i + 1) \div 2 \in 1..n
                              /\ i % 2 # 1 => i \div 2 \in 1..n
    BY <2>1
  <2>3. 2 * n \in Nat
    BY <2>1
  <2>4. \A i \in 1..(2 * n) : b[i] \in Int
    BY <2>1, <2>2
  <2> QED
    BY <2>3, <2>4
<1>3. KeyLevels(c) = a \o b
  BY DEF KeyLevels
<1> HIDE DEF a, b
<1> QED
  BY <1>1, <1>2, <1>3

LEMMA CisdSetup ==
    ASSUME NEW c \in Contexts, S14!Found(c)
    PROVE  S14!Key(c) \in Int
<1> DEFINE S == S14!Setups(c, S14!Direction(c))
           n == Len(c.m5)
           f == [p \in S |-> p[1]]
           g == [p \in S |-> p[3]]
           h == [p \in S |-> 0]
<1>1. \A p \in S : /\ p[1] \in 0..n /\ p[3] \in 1..n
                   /\ S14!Delivers(c, S14!Direction(c), p[1], p[2], p[3])
  BY ListElements DEF S14!Setups
<1>2. S # {}
  BY DEF S14!Found, S14!Direction, S14!Directions
<1>3. n \in Nat /\ f \in [S -> 0..n] /\ g \in [S -> Nat] /\ h \in [S -> Nat]
  BY <1>1, ListElements
<1>4. HasBest(S, f, g, h)
  <2> HIDE DEF S, f, g, h, n
  <2> QED
    BY <1>2, <1>3, LexBest
<1>5. \E p \in S : \A q \in S : q[1] < p[1] \/ (q[1] = p[1] /\ p[3] <= q[3])
  <2>1. PICK p \in S : \A q \in S :
              \/ f[q] < f[p]
              \/ f[q] = f[p] /\ (g[p] < g[q] \/ (g[p] = g[q] /\ h[p] <= h[q]))
    <3> HIDE DEF S, f, g, h, n
    <3> QED
      BY <1>4 DEF HasBest
  <2>2. \A q \in S : q[1] < p[1] \/ (q[1] = p[1] /\ p[3] <= q[3])
    <3>1. \A q \in S : p[3] \in Nat /\ q[3] \in Nat
      BY <1>1
    <3> HIDE DEF S
    <3> QED
      BY <2>1, <3>1
  <2> QED
    BY <2>2
<1>6. S14!Setup(c) \in S
  BY <1>5 DEF S14!Setup
<1>7. S14!Delivery(c) \in BarType
  BY <1>1, <1>6, ListElements DEF S14!Delivery
<1>8. S14!KeyLevels(c) = KeyLevels(c)
  BY DEF S14!KeyLevels, S14!LastOf, S14!Higher, KeyLevels, LastOf, Higher
<1>9. KeyLevels(c) # << >>
  BY <1>1, <1>6, <1>8 DEF S14!Delivers, S14!HasKeyLevel
<1>10. S14!Key(c) = Nearest(KeyLevels(c), S14!Delivery(c).c)
  BY <1>8 DEF S14!Key, S14!Nearest, S14!Distance, Nearest, Distance
<1>11. S14!Delivery(c).c \in Int
  BY <1>7 DEF BarType
<1> QED
  BY <1>9, <1>10, <1>11, KeyLevelsType, NearestHasType

\* The delivery's stop is beyond the key level or the newest sweep.
LEMMA CisdIsSound ==
    ASSUME NEW c \in Contexts
    PROVE  SoundPlan(S14!Trade(c), TRUE)
<1>1. CASE \/ ~ S14!Found(c)
           \/ S14!UsableOf(c, S14!Direction(c)) = {} /\ S14!ValidBlocksOf(c, S14!Direction(c)) = {}
  <2>1. S14!Trade(c) = NoTrade
    BY <1>1 DEF S14!Trade, S14!NoTrade, NoTrade
  <2> QED
    BY <2>1 DEF SoundPlan, Sound
<1>2. CASE /\ S14!Found(c)
           /\ S14!UsableOf(c, S14!Direction(c)) # {} \/ S14!ValidBlocksOf(c, S14!Direction(c)) # {}
  <2> DEFINE d == S14!Direction(c)
             entry == LET b == Newest(c.obs, S14!ValidBlocksOf(c, d))
                      IN  IF S14!UsableOf(c, d) # {} THEN CeOf(Newest(c.fvgs, S14!UsableOf(c, d)))
                          ELSE Midpoint(b.high, b.low)
             sl == LET wick == IF c.sweeps # << >> THEN c.sweeps[Len(c.sweeps)].wick ELSE S14!Key(c)
                   IN  Beyond(d, IF d = "bullish" THEN Lower(wick, S14!Key(c)) ELSE Higher(wick, S14!Key(c)), Pips(5))
  <2>1. \A e, s : S14!RMultiple(d, e, s, 2) = RMultiple(d, e, s, 2)
    BY DEF S14!RMultiple, S14!RiskOf, S14!Plan, S14!NoTrade, RMultiple, RiskOf, Plan, NoTrade
  <2>2. S14!Trade(c) = S14!RMultiple(d, entry, sl, 2)
    <3>1. \A q, U : S14!Newest(q, U) = Newest(q, U)
      BY DEF S14!Newest, Newest
    <3>2. \A f : S14!CeOf(f) = CeOf(f)
      BY DEF S14!CeOf, CeOf, S14!Midpoint, Midpoint
    <3>3. \A a, b : /\ S14!Midpoint(a, b) = Midpoint(a, b)
                    /\ S14!Lower(a, b) = Lower(a, b)
                    /\ S14!Higher(a, b) = Higher(a, b)
      BY DEF S14!Midpoint, Midpoint, S14!Lower, Lower, S14!Higher, Higher
    <3>4. \A e, x, g : S14!Beyond(e, x, S14!Pips(g)) = Beyond(e, x, Pips(g))
      BY DEF S14!Beyond, Beyond, S14!Pips, Pips
    <3> QED
      BY <1>2, <3>1, <3>2, <3>3, <3>4 DEF S14!Trade
  <2>3. entry \in Int
    <3>1. CASE S14!UsableOf(c, d) # {}
      <4>1. S14!UsableOf(c, d) \subseteq DOMAIN c.fvgs
        BY DEF S14!UsableOf, S14!UsableFvgs
      <4> HIDE DEF d
      <4>2. Newest(c.fvgs, S14!UsableOf(c, d)) \in FvgType
        BY <3>1, <4>1, ContextFields, NewestHasType
      <4> QED
        BY <3>1, <4>2, PricesAreIntegers
    <3>2. CASE S14!UsableOf(c, d) = {}
      <4>1. S14!ValidBlocksOf(c, d) \subseteq DOMAIN c.obs /\ S14!ValidBlocksOf(c, d) # {}
        BY <1>2, <3>2 DEF S14!ValidBlocksOf, S14!ValidBlocks
      <4> HIDE DEF d
      <4>2. Newest(c.obs, S14!ValidBlocksOf(c, d)) \in BlockType
        BY <4>1, ContextFields, NewestHasType
      <4> QED
        BY <3>2, <4>2, PricesAreIntegers
    <3> QED
      BY <3>1, <3>2
  <2>4. S14!Key(c) \in Int
    <3>1. S14!Found(c)
      BY <1>2
    <3> QED
      BY <3>1, CisdSetup
  <2>5. (IF c.sweeps # << >> THEN c.sweeps[Len(c.sweeps)].wick ELSE S14!Key(c)) \in Int
    <3>1. CASE c.sweeps # << >>
      <4>1. c.sweeps \in Seq(SweepType)
        BY ContextFields
      <4>2. c.sweeps[Len(c.sweeps)] \in SweepType
        BY <3>1, <4>1
      <4> QED
        BY <3>1, <4>2, PricesAreIntegers
    <3> QED
      BY <2>4, <3>1
  <2>9. entry \in Int /\ sl \in Int
    <3>1. \A a, b \in Int : Lower(a, b) \in Int /\ Higher(a, b) \in Int
      BY PricesAreIntegers
    <3>2. \A e, x : x \in Int => Beyond(e, x, Pips(5)) \in Int
      BY DEF Beyond, Pips
    <3> QED
      BY <2>3, <2>4, <2>5, <3>1, <3>2
  <2>10. SoundPlan(RMultiple(d, entry, sl, 2), 2 >= 2)
    <3> HIDE DEF d, entry, sl
    <3> QED
      BY <2>9, RMultipleIsSound
  <2> QED
    <3> HIDE DEF d, entry, sl
    <3> QED
      BY <2>1, <2>2, <2>10 DEF SoundPlan
<1> QED
  BY <1>1, <1>2

\* A stored plan is its strategy's plan, or none.
LEMMA ResultsAreSound ==
    ASSUME NEW c \in Contexts, NEW s \in Strategies \ LevelTargets
    PROVE  SoundPlan(Evaluate(s, c).trade, s # "01_unicorn")
<1>1. SoundPlan(NoTrade, TRUE) /\ SoundPlan(NoTrade, FALSE)
  BY DEF SoundPlan, Sound
<1>2. SoundPlan(S01!Evaluate(c).trade, FALSE)
  <2>1. S01!Evaluate(c).trade \in {NoTrade, S01!Trade(c)}
    BY DEF S01!Evaluate, S01!ComputeVerdict, S01!PlanOf, S01!NoTrade, NoTrade
  <2> QED
    BY <1>1, <2>1, UnicornIsSound
<1>3. SoundPlan(S03!Evaluate(c).trade, TRUE)
  <2>1. S03!Evaluate(c).trade \in {NoTrade, S03!Trade(c)}
    BY DEF S03!Evaluate, S03!ComputeVerdict, S03!PlanOf, S03!NoTrade, NoTrade
  <2> QED
    BY <1>1, <2>1, ConfirmationIsSound
<1>4. SoundPlan(S04!Evaluate(c).trade, TRUE)
  <2>1. S04!Evaluate(c).trade \in {NoTrade, S04!Trade(c)}
    BY DEF S04!Evaluate, S04!ComputeVerdict, S04!PlanOf, S04!NoTrade, NoTrade
  <2> QED
    BY <1>1, <2>1, SilverBulletIsSound
<1>5. SoundPlan(S05!Evaluate(c).trade, TRUE)
  <2>1. S05!Evaluate(c).trade \in {NoTrade, S05!Trade(c)}
    BY DEF S05!Evaluate, S05!ComputeVerdict, S05!PlanOf, S05!NoTrade, NoTrade
  <2> QED
    BY <1>1, <2>1, NestedIsSound
<1>6. SoundPlan(S06!Evaluate(c).trade, TRUE)
  <2>1. S06!Evaluate(c).trade \in {NoTrade, S06!Trade(c)}
    BY DEF S06!Evaluate, S06!ComputeVerdict, S06!PlanOf, S06!NoTrade, NoTrade
  <2> QED
    BY <1>1, <2>1, InverseIsSound
<1>7. SoundPlan(S08!Evaluate(c).trade, TRUE)
  <2>1. S08!Evaluate(c).trade \in {NoTrade, S08!Trade(c)}
    BY DEF S08!Evaluate, S08!ComputeVerdict, S08!PlanOf, S08!NoTrade, NoTrade
  <2> QED
    BY <1>1, <2>1, RejectionIsSound
<1>8. SoundPlan(S11!Evaluate(c).trade, TRUE)
  <2>1. S11!Evaluate(c).trade \in {NoTrade, S11!Trade(c)}
    BY DEF S11!Evaluate, S11!ComputeVerdict, S11!PlanOf, S11!NoTrade, NoTrade
  <2> QED
    BY <1>1, <2>1, PropulsionIsSound
<1>9. SoundPlan(S12!Evaluate(c).trade, TRUE)
  <2>1. S12!Evaluate(c).trade \in {NoTrade, S12!Trade(c)}
    BY DEF S12!Evaluate, S12!ComputeVerdict, S12!PlanOf, S12!NoTrade, NoTrade
  <2> QED
    BY <1>1, <2>1, VacuumIsSound
<1>10. SoundPlan(S13!Evaluate(c).trade, TRUE)
  <2>1. S13!Evaluate(c).trade \in {NoTrade, S13!Trade(c)}
    BY DEF S13!Evaluate, S13!ComputeVerdict, S13!PlanOf, S13!NoTrade, NoTrade
  <2> QED
    BY <1>1, <2>1, ReclaimedIsSound
<1>11. SoundPlan(S14!Evaluate(c).trade, TRUE)
  <2>1. S14!Evaluate(c).trade \in {NoTrade, S14!Trade(c)}
    BY DEF S14!Evaluate, S14!ComputeVerdict, S14!PlanOf, S14!NoTrade, NoTrade
  <2> QED
    BY <1>1, <2>1, CisdIsSound
<1>12. SoundPlan(S15!Evaluate(c).trade, TRUE)
  <2>1. S15!Evaluate(c).trade \in {NoTrade, S15!Trade(c)}
    BY DEF S15!Evaluate, S15!ComputeVerdict, S15!PlanOf, S15!NoTrade, NoTrade
  <2> QED
    BY <1>1, <2>1, BprIsSound
<1> QED
  BY StrategyNames, <1>2, <1>3, <1>4, <1>5, <1>6, <1>7, <1>8, <1>9, <1>10, <1>11, <1>12 DEF Evaluate, LevelTargets

\* Whatever FVGs, sweeps and shifts a strategy combines, and whatever the market does, its
\* stop lies on the losing side of the entry, its target on the winning side, and the
\* reward meets the gate's floor, but for the Unicorn model.
THEOREM PlansAreSoundHolds == Spec => []PlansAreSound
<1>1. PassInv => PlansAreSound
  <2> SUFFICES ASSUME PassInv, NEW row \in Rows, row.strategy \notin LevelTargets
               PROVE  SoundPlan(row.result.trade, row.strategy # "01_unicorn")
    BY DEF PlansAreSound, SoundPlan
  <2>1. PICK c \in Contexts : row.result = Evaluate(row.strategy, c)
    BY RowIsResult
  <2>2. row.strategy \in Strategies \ LevelTargets
    BY RowIsResult
  <2> QED
    BY <2>1, <2>2, ResultsAreSound
<1> QED
  BY <1>1, PassHolds, PTL
-----------------------------------------------------------------------------
\* Scores and confidence are numbers.
LEMMA SharesAreIntegers ==
    ASSUME NEW n \in Nat \ {0}, NEW checks, DOMAIN checks = 1..n, Len(checks) = n,
           NEW points \in Nat
    PROVE  Share(checks, points) \in Int
<1> DEFINE passed == Cardinality({i \in DOMAIN checks : checks[i]})
<1>1. passed \in 0..n
  BY PassedBound
<1>2. Share(checks, points) = (passed * 10 * points) \div n
  BY DEF Share, Passed
<1> HIDE DEF passed
<1>3. passed * 10 * points \in Int
  BY <1>1
<1>4. \A x \in Int : x \div n \in Int
  OBVIOUS
<1> QED
  BY <1>2, <1>3, <1>4

LEMMA ShareLists ==
    /\ \A w, x, p : p \in Nat => Share(<< w, x >>, p) \in Int
    /\ \A w, x, y, p : p \in Nat => Share(<< w, x, y >>, p) \in Int
    /\ \A w, x, y, z, p : p \in Nat => Share(<< w, x, y, z >>, p) \in Int
    /\ \A v, w, x, y, z, p : p \in Nat => Share(<< v, w, x, y, z >>, p) \in Int
<1>1. /\ \A w, x : DOMAIN << w, x >> = 1..2 /\ Len(<< w, x >>) = 2
      /\ \A w, x, y : DOMAIN << w, x, y >> = 1..3 /\ Len(<< w, x, y >>) = 3
      /\ \A w, x, y, z : DOMAIN << w, x, y, z >> = 1..4 /\ Len(<< w, x, y, z >>) = 4
      /\ \A v, w, x, y, z : /\ DOMAIN << v, w, x, y, z >> = 1..5
                            /\ Len(<< v, w, x, y, z >>) = 5
  OBVIOUS
<1>2. /\ 2 \in Nat \ {0} /\ 3 \in Nat \ {0} /\ 4 \in Nat \ {0} /\ 5 \in Nat \ {0}
  OBVIOUS
<1> QED
  BY <1>1, <1>2, SharesAreIntegers, Zenon

LEMMA ConfidenceRange ==
    ASSUME NEW opp1 \in Int, NEW opp2 \in Int, NEW risk1 \in Int, NEW risk2 \in Int
    PROVE  Confidence(Opinions(opp1, opp2, risk1, risk2)) \in 0..1000
<1> DEFINE x == (3 * opp1 + 2 * opp2 - 3 * risk1 - 2 * risk2 + 5005) \div 10
<1>1. x \in Int
  OBVIOUS
<1>2. Confidence(Opinions(opp1, opp2, risk1, risk2)) = Bounded(x)
  BY DEF Confidence, Opinions
<1> HIDE DEF x
<1> QED
  BY <1>1, <1>2 DEF Bounded, Lower, Higher

\* The result of a strategy fits the table: a known verdict, a confidence of up to 100
\* points, and no plan where the verdict refuses.
Fits(result) ==
    /\ result.verdict \in {"VALID", "WAIT", "NO_TRADE"}
    /\ result.confidence \in 0..1000
    /\ result.trade # NoTrade => result.verdict # "NO_TRADE"

LEMMA OverlapIsInteger ==
    ASSUME NEW a \in Int, NEW b \in Int, NEW x \in Int, NEW y \in Int
    PROVE  FvgOverlapPct(a, b, x, y) \in Int
<1> DEFINE size    == Lower(a - b, x - y)
           overlap == Lower(a, x) - Higher(b, y)
<1>1. size \in Int /\ overlap \in Int
  BY DEF Lower, Higher
<1>2. \A m, n \in Int : n > 0 => Lower((100 * m) \div n, 100) \in Int
  <2>1. \A m, n \in Int : n > 0 => m \div n \in Int
    OBVIOUS
  <2>2. \A m \in Int : 100 * m \in Int
    OBVIOUS
  <2> QED
    BY <2>1, <2>2 DEF Lower
<1>3. FvgOverlapPct(a, b, x, y)
      = IF size <= 0 \/ overlap <= 0 THEN 0 ELSE Lower((100 * overlap) \div size, 100)
  BY DEF FvgOverlapPct
<1> HIDE DEF size, overlap
<1> QED
  BY <1>1, <1>2, <1>3

LEMMA UnicornFits ==
    ASSUME NEW c \in Contexts
    PROVE  Fits(S01!Evaluate(c))
<1>1. S01!Opp1(c) \in Int
  <2>1. \A q, p : S01!Share(q, p) = Share(q, p)
    BY DEF S01!Share, S01!Passed, S01!Cardinality, Share, Passed, Cardinality
  <2> QED
    BY <2>1, ShareLists DEF S01!Opp1
<1>2. S01!Opp2(c) \in Int
  <2> DEFINE d == Displacement(c, 15)
             s == StructureClarity(c, 10)
             p == S01!Pts(c.zone = "silver_bullet_ny_am", 10)
             f == IF S01!Pairs(c) = {} THEN 0
                  ELSE S01!Lower(3 * S01!Overlap(c, S01!Setup(c)[1], S01!Setup(c)[2]), 250)
  <2>1. S01!Displacement(c, 15) = d
    BY DEF Displacement, DisplacementStrength, Newest, Lower, Distance, Unknown,
           S01!Displacement, S01!DisplacementStrength, S01!Newest, S01!Lower, S01!Distance,
           S01!Unknown
  <2>2. S01!StructureClarity(c, 10) = s
    BY DEF StructureClarity, Lower, S01!StructureClarity, S01!Lower
  <2>3. S01!Opp2(c) = S01!Bounded(500 + f + d + p + s)
    BY <2>1, <2>2 DEF S01!Opp2
  <2>4. d \in Int /\ s \in Int
    BY DisplacementBound, StructureClarityBound
  <2>5. p \in Int
    BY DEF S01!Pts
  <2>6. f \in Int
    <3>1. CASE S01!Pairs(c) = {}
      BY <3>1
    <3>2. CASE S01!Pairs(c) # {}
      <4> DEFINE x == c.fvgs[S01!Setup(c)[1]]
                 y == c.obs[S01!Setup(c)[2]]
                 overlap == S01!Overlap(c, S01!Setup(c)[1], S01!Setup(c)[2])
      <4>1. x.top \in Int /\ x.bottom \in Int /\ y.high \in Int /\ y.low \in Int
        BY <3>2, UnicornSetup, PricesAreIntegers
      <4>2. overlap = FvgOverlapPct(x.top, x.bottom, y.high, y.low)
        BY DEF S01!Overlap, S01!FvgOverlapPct, S01!Lower, S01!Higher, FvgOverlapPct, Lower,
               Higher
      <4> HIDE DEF x, y, overlap
      <4>3. overlap \in Int
        BY <4>1, <4>2, OverlapIsInteger
      <4>4. 3 * overlap \in Int
        BY <4>3
      <4>5. S01!Lower(3 * overlap, 250) \in Int
        BY <4>4 DEF S01!Lower
      <4> QED
        BY <3>2, <4>5 DEF overlap
    <3> QED
      BY <3>1, <3>2
  <2> HIDE DEF d, s, p, f
  <2> QED
    BY <2>3, <2>4, <2>5, <2>6 DEF S01!Bounded, S01!Lower, S01!Higher
<1>3. S01!Risk1(c) \in Int /\ S01!Risk2(c) \in Int
  BY DEF S01!Risk1, S01!Risk2, S01!Pts
<1> DEFINE o1 == S01!Opp1(c)
           o2 == S01!Opp2(c)
           r1 == S01!Risk1(c)
           r2 == S01!Risk2(c)
<1>4. Confidence(Opinions(o1, o2, r1, r2)) \in 0..1000
  <2>1. o1 \in Int /\ o2 \in Int /\ r1 \in Int /\ r2 \in Int
    BY <1>1, <1>2, <1>3
  <2> HIDE DEF o1, o2, r1, r2
  <2> QED
    BY <2>1, ConfidenceRange, Zenon
<1>5. S01!Confidence(S01!Opinions(o1, o2, r1, r2)) \in 0..1000
  BY <1>4 DEF Confidence, Opinions, Bounded, Lower, Higher, S01!Confidence, S01!Opinions,
              S01!Bounded, S01!Lower, S01!Higher
<1> QED
  BY <1>5 DEF Fits, S01!Evaluate, S01!ComputeVerdict, S01!Verdict, S01!PlanOf, S01!NoTrade,
              NoTrade

LEMMA JudasFits ==
    ASSUME NEW c \in Contexts
    PROVE  Fits(S02!Evaluate(c))
<1>1. S02!Opp1(c) \in Int
  <2>1. \A q, p : S02!Share(q, p) = Share(q, p)
    BY DEF S02!Share, S02!Passed, S02!Cardinality, Share, Passed, Cardinality
  <2> QED
    BY <2>1, ShareLists DEF S02!Opp1
<1>2. S02!Opp2(c) \in Int
  <2> DEFINE size == c.asian.high - c.asian.low
             d == Displacement(c, 20)
             s == StructureClarity(c, 15)
             p == S02!Pts(S02!AsianRangeValid(c) /\ size >= S02!Pips(15), 15)
             f == S02!Pts(S02!AsianRangeValid(c) /\ size < S02!Pips(8), 15)
  <2>1. S02!Displacement(c, 20) = d
    BY DEF Displacement, DisplacementStrength, Newest, Lower, Distance, Unknown,
           S02!Displacement, S02!DisplacementStrength, S02!Newest, S02!Lower, S02!Distance,
           S02!Unknown
  <2>2. S02!StructureClarity(c, 15) = s
    BY DEF StructureClarity, Lower, S02!StructureClarity, S02!Lower
  <2>3. S02!Opp2(c) = S02!Bounded(500 + d + p - f + s)
    BY <2>1, <2>2 DEF S02!Opp2
  <2>4. d \in Int /\ s \in Int
    BY DisplacementBound, StructureClarityBound
  <2>5. p \in Int
    BY DEF S02!Pts
  <2>6. f \in Int
    BY DEF S02!Pts
  <2> HIDE DEF d, s, p, f
  <2> QED
    BY <2>3, <2>4, <2>5, <2>6 DEF S02!Bounded, S02!Lower, S02!Higher
<1>3. S02!Risk1(c) \in Int /\ S02!Risk2(c) \in Int
  BY DEF S02!Risk1, S02!Risk2, S02!Pts
<1> DEFINE o1 == S02!Opp1(c)
           o2 == S02!Opp2(c)
           r1 == S02!Risk1(c)
           r2 == S02!Risk2(c)
<1>4. Confidence(Opinions(o1, o2, r1, r2)) \in 0..1000
  <2>1. o1 \in Int /\ o2 \in Int /\ r1 \in Int /\ r2 \in Int
    BY <1>1, <1>2, <1>3
  <2> HIDE DEF o1, o2, r1, r2
  <2> QED
    BY <2>1, ConfidenceRange, Zenon
<1>5. S02!Confidence(S02!Opinions(o1, o2, r1, r2)) \in 0..1000
  BY <1>4 DEF Confidence, Opinions, Bounded, Lower, Higher, S02!Confidence, S02!Opinions,
              S02!Bounded, S02!Lower, S02!Higher
<1> QED
  BY <1>5 DEF Fits, S02!Evaluate, S02!ComputeVerdict, S02!Verdict, S02!PlanOf, S02!NoTrade,
              NoTrade

LEMMA ConfirmationFits ==
    ASSUME NEW c \in Contexts
    PROVE  Fits(S03!Evaluate(c))
<1>1. S03!Opp1(c) \in Int
  <2>1. \A q, p : S03!Share(q, p) = Share(q, p)
    BY DEF S03!Share, S03!Passed, S03!Cardinality, Share, Passed, Cardinality
  <2> QED
    BY <2>1, ShareLists DEF S03!Opp1, S03!Checks, S03!Pts
<1>2. S03!Opp2(c) \in Int
  <2> DEFINE d == Displacement(c, 20)
             s == StructureClarity(c, 15)
             p == S03!Pts(c.smt # "none", 5)
             f == IF S03!CleanFvgs(c) # {} THEN 150 ELSE -100
  <2>1. S03!Displacement(c, 20) = d
    BY DEF Displacement, DisplacementStrength, Newest, Lower, Distance, Unknown,
           S03!Displacement, S03!DisplacementStrength, S03!Newest, S03!Lower, S03!Distance,
           S03!Unknown
  <2>2. S03!StructureClarity(c, 15) = s
    BY DEF StructureClarity, Lower, S03!StructureClarity, S03!Lower
  <2>3. S03!Opp2(c) = S03!Bounded(500 + d + f + s + p)
    BY <2>1, <2>2 DEF S03!Opp2
  <2>4. d \in Int /\ s \in Int /\ f \in Int
    BY DisplacementBound, StructureClarityBound
  <2>5. p \in Int
    BY DEF S03!Pts
  <2> HIDE DEF d, s, p, f
  <2> QED
    BY <2>3, <2>4, <2>5 DEF S03!Bounded, S03!Lower, S03!Higher
<1>3. S03!Risk1(c) \in Int /\ S03!Risk2(c) \in Int
  BY DEF S03!Risk1, S03!Risk2, S03!Pts
<1> DEFINE o1 == S03!Opp1(c)
           o2 == S03!Opp2(c)
           r1 == S03!Risk1(c)
           r2 == S03!Risk2(c)
<1>4. Confidence(Opinions(o1, o2, r1, r2)) \in 0..1000
  <2>1. o1 \in Int /\ o2 \in Int /\ r1 \in Int /\ r2 \in Int
    BY <1>1, <1>2, <1>3
  <2> HIDE DEF o1, o2, r1, r2
  <2> QED
    BY <2>1, ConfidenceRange, Zenon
<1>5. S03!Confidence(S03!Opinions(o1, o2, r1, r2)) \in 0..1000
  BY <1>4 DEF Confidence, Opinions, Bounded, Lower, Higher, S03!Confidence, S03!Opinions,
              S03!Bounded, S03!Lower, S03!Higher
<1> QED
  BY <1>5 DEF Fits, S03!Evaluate, S03!ComputeVerdict, S03!Verdict, S03!PlanOf, S03!NoTrade,
              NoTrade

LEMMA SilverBulletFits ==
    ASSUME NEW c \in Contexts
    PROVE  Fits(S04!Evaluate(c))
<1>1. S04!Opp1(c) \in Int
  <2>1. \A q, p : S04!Share(q, p) = Share(q, p)
    BY DEF S04!Share, S04!Passed, S04!Cardinality, Share, Passed, Cardinality
  <2> QED
    BY <2>1, ShareLists DEF S04!Opp1
<1>2. S04!Opp2(c) \in Int
  <2> DEFINE d == Displacement(c, 25)
             s == StructureClarity(c, 15)
             p == S04!Pts(c.bias # "neutral", 10)
  <2>1. S04!Displacement(c, 25) = d
    BY DEF Displacement, DisplacementStrength, Newest, Lower, Distance, Unknown,
           S04!Displacement, S04!DisplacementStrength, S04!Newest, S04!Lower, S04!Distance,
           S04!Unknown
  <2>2. S04!StructureClarity(c, 15) = s
    BY DEF StructureClarity, Lower, S04!StructureClarity, S04!Lower
  <2>3. S04!Opp2(c) = S04!Bounded(500 + d + s + p)
    BY <2>1, <2>2 DEF S04!Opp2
  <2>4. d \in Int /\ s \in Int
    BY DisplacementBound, StructureClarityBound
  <2>5. p \in Int
    BY DEF S04!Pts
  <2> HIDE DEF d, s, p
  <2> QED
    BY <2>3, <2>4, <2>5 DEF S04!Bounded, S04!Lower, S04!Higher
<1>3. S04!Risk1(c) \in Int /\ S04!Risk2(c) \in Int
  BY DEF S04!Risk1, S04!Risk2, S04!Pts
<1> DEFINE o1 == S04!Opp1(c)
           o2 == S04!Opp2(c)
           r1 == S04!Risk1(c)
           r2 == S04!Risk2(c)
<1>4. Confidence(Opinions(o1, o2, r1, r2)) \in 0..1000
  <2>1. o1 \in Int /\ o2 \in Int /\ r1 \in Int /\ r2 \in Int
    BY <1>1, <1>2, <1>3
  <2> HIDE DEF o1, o2, r1, r2
  <2> QED
    BY <2>1, ConfidenceRange, Zenon
<1>5. S04!Confidence(S04!Opinions(o1, o2, r1, r2)) \in 0..1000
  BY <1>4 DEF Confidence, Opinions, Bounded, Lower, Higher, S04!Confidence, S04!Opinions,
              S04!Bounded, S04!Lower, S04!Higher
<1> QED
  BY <1>5 DEF Fits, S04!Evaluate, S04!ComputeVerdict, S04!Verdict, S04!PlanOf, S04!NoTrade,
              NoTrade

LEMMA NestedFits ==
    ASSUME NEW c \in Contexts
    PROVE  Fits(S05!Evaluate(c))
<1>1. S05!Opp1(c) \in Int
  <2>1. \A q, p : S05!Share(q, p) = Share(q, p)
    BY DEF S05!Share, S05!Passed, S05!Cardinality, Share, Passed, Cardinality
  <2> QED
    BY <2>1, ShareLists DEF S05!Opp1
<1>2. S05!Opp2(c) \in Int
  BY DEF S05!Opp2, S05!Pts
<1>3. S05!Risk1(c) \in Int /\ S05!Risk2(c) \in Int
  BY DEF S05!Risk1, S05!Risk2, S05!Pts
<1> DEFINE o1 == S05!Opp1(c)
           o2 == S05!Opp2(c)
           r1 == S05!Risk1(c)
           r2 == S05!Risk2(c)
<1>4. Confidence(Opinions(o1, o2, r1, r2)) \in 0..1000
  <2>1. o1 \in Int /\ o2 \in Int /\ r1 \in Int /\ r2 \in Int
    BY <1>1, <1>2, <1>3
  <2> HIDE DEF o1, o2, r1, r2
  <2> QED
    BY <2>1, ConfidenceRange, Zenon
<1>5. S05!Confidence(S05!Opinions(o1, o2, r1, r2)) \in 0..1000
  BY <1>4 DEF Confidence, Opinions, Bounded, Lower, Higher, S05!Confidence, S05!Opinions,
              S05!Bounded, S05!Lower, S05!Higher
<1> QED
  BY <1>5 DEF Fits, S05!Evaluate, S05!ComputeVerdict, S05!Verdict, S05!PlanOf, S05!NoTrade,
              NoTrade

LEMMA InverseFits ==
    ASSUME NEW c \in Contexts
    PROVE  Fits(S06!Evaluate(c))
<1>1. S06!Opp1(c) \in Int
  <2>1. \A q, p : S06!Share(q, p) = Share(q, p)
    BY DEF S06!Share, S06!Passed, S06!Cardinality, Share, Passed, Cardinality
  <2> QED
    BY <2>1, ShareLists DEF S06!Opp1
<1>2. S06!Opp2(c) \in Int
  <2> DEFINE d == Displacement(c, 15)
             s == StructureClarity(c, 10)
             p == S06!Pts(c.zone \in S06!NyWindows, 10)
             f == IF c.smt # "none" THEN 200 ELSE -100
  <2>1. S06!Displacement(c, 15) = d
    BY DEF Displacement, DisplacementStrength, Newest, Lower, Distance, Unknown,
           S06!Displacement, S06!DisplacementStrength, S06!Newest, S06!Lower, S06!Distance,
           S06!Unknown
  <2>2. S06!StructureClarity(c, 10) = s
    BY DEF StructureClarity, Lower, S06!StructureClarity, S06!Lower
  <2>3. S06!Opp2(c) = S06!Bounded(500 + f + d + p + s)
    BY <2>1, <2>2 DEF S06!Opp2
  <2>4. d \in Int /\ s \in Int /\ f \in Int
    BY DisplacementBound, StructureClarityBound
  <2>5. p \in Int
    BY DEF S06!Pts
  <2> HIDE DEF d, s, p, f
  <2> QED
    BY <2>3, <2>4, <2>5 DEF S06!Bounded, S06!Lower, S06!Higher
<1>3. S06!Risk1(c) \in Int /\ S06!Risk2(c) \in Int
  BY DEF S06!Risk1, S06!Risk2, S06!Pts
<1> DEFINE o1 == S06!Opp1(c)
           o2 == S06!Opp2(c)
           r1 == S06!Risk1(c)
           r2 == S06!Risk2(c)
<1>4. Confidence(Opinions(o1, o2, r1, r2)) \in 0..1000
  <2>1. o1 \in Int /\ o2 \in Int /\ r1 \in Int /\ r2 \in Int
    BY <1>1, <1>2, <1>3
  <2> HIDE DEF o1, o2, r1, r2
  <2> QED
    BY <2>1, ConfidenceRange, Zenon
<1>5. S06!Confidence(S06!Opinions(o1, o2, r1, r2)) \in 0..1000
  BY <1>4 DEF Confidence, Opinions, Bounded, Lower, Higher, S06!Confidence, S06!Opinions,
              S06!Bounded, S06!Lower, S06!Higher
<1> QED
  BY <1>5 DEF Fits, S06!Evaluate, S06!ComputeVerdict, S06!Verdict, S06!PlanOf, S06!NoTrade,
              NoTrade

LEMMA OteFits ==
    ASSUME NEW c \in Contexts
    PROVE  Fits(S07!Evaluate(c))
<1>1. S07!Opp1(c) \in Int
  <2>1. \A q, p : S07!Share(q, p) = Share(q, p)
    BY DEF S07!Share, S07!Passed, S07!Cardinality, Share, Passed, Cardinality
  <2> QED
    BY <2>1, ShareLists DEF S07!Opp1
<1>2. S07!Opp2(c) \in Int
  <2>1. CASE S07!Setups(c) = {}
    BY <2>1 DEF S07!Opp2, S07!Pts
  <2>2. CASE S07!Setups(c) # {}
    <3> DEFINE f == S07!Setup(c)
               overlap == S07!OverlapOf(c, f)
    <3>1. f.top \in Int /\ f.bottom \in Int
      <4>1. f = Newest(c.fvgs, S07!Setups(c))
        BY DEF S07!Setup, S07!Newest, Newest
      <4>2. S07!Setups(c) \subseteq DOMAIN c.fvgs
        BY DEF S07!Setups, S07!M15Fvgs, S07!UsableFvgs
      <4>3. f \in FvgType
        <5> HIDE DEF f
        <5> QED
          BY <2>2, <4>1, <4>2, ContextFields, NewestHasType
      <4> QED
        BY <4>3, PricesAreIntegers
    <3>2. S07!OteLow(c) \in Int /\ S07!OteHigh(c) \in Int
      BY FibType DEF S07!OteLow, S07!OteHigh, S07!FibLevel, S07!Lower, S07!Higher
    <3> HIDE DEF f
    <3>3. overlap \in Int
      BY <3>1, <3>2 DEF S07!OverlapOf, S07!Lower, S07!Higher
    <3> HIDE DEF overlap
    <3>4. S07!Lower(2 * overlap, 200) \in Int
      BY <3>3 DEF S07!Lower
    <3> QED
      BY <2>2, <3>4 DEF S07!Opp2, S07!Pts, f, overlap
  <2> QED
    BY <2>1, <2>2
<1>3. S07!Risk1(c) \in Int /\ S07!Risk2(c) \in Int
  BY DEF S07!Risk1, S07!Risk2, S07!Pts
<1> DEFINE o1 == S07!Opp1(c)
           o2 == S07!Opp2(c)
           r1 == S07!Risk1(c)
           r2 == S07!Risk2(c)
<1>4. Confidence(Opinions(o1, o2, r1, r2)) \in 0..1000
  <2>1. o1 \in Int /\ o2 \in Int /\ r1 \in Int /\ r2 \in Int
    BY <1>1, <1>2, <1>3
  <2> HIDE DEF o1, o2, r1, r2
  <2> QED
    BY <2>1, ConfidenceRange, Zenon
<1>5. S07!Confidence(S07!Opinions(o1, o2, r1, r2)) \in 0..1000
  BY <1>4 DEF Confidence, Opinions, Bounded, Lower, Higher, S07!Confidence, S07!Opinions,
              S07!Bounded, S07!Lower, S07!Higher
<1> QED
  BY <1>5 DEF Fits, S07!Evaluate, S07!ComputeVerdict, S07!Verdict, S07!PlanOf, S07!NoTrade,
              NoTrade

LEMMA RejectionRatio ==
    ASSUME NEW c \in Contexts, S08!Setups(c) # {}
    PROVE  (50 * S08!Wick(S08!Setup(c))) \div S08!Body(S08!Setup(c)) \in Int
<1> DEFINE bar == S08!Setup(c)
           a == 50 * S08!Wick(bar)
           b == S08!Body(bar)
<1>1. bar \in BarType /\ S08!Rejects(bar)
  BY RejectionSetup
<1>2. S08!Wick(bar) \in Int /\ b \in Int /\ b > 0
  <2> HIDE DEF bar
  <2> QED
    BY <1>1 DEF BarType, S08!Rejects, S08!LongWick, S08!Wick, S08!Body, S08!BodyHigh,
                S08!BodyLow, S08!UpperWick, S08!LowerWick, S08!Higher, S08!Lower
<1>3. a \in Int
  BY <1>2
<1> HIDE DEF a, b
<1>4. a \div b \in Int
  BY <1>2, <1>3
<1> QED
  BY <1>4 DEF a, b

LEMMA RejectionFits ==
    ASSUME NEW c \in Contexts
    PROVE  Fits(S08!Evaluate(c))
<1>1. S08!Opp1(c) \in Int
  <2>1. \A q, p : S08!Share(q, p) = Share(q, p)
    BY DEF S08!Share, S08!Passed, S08!Cardinality, Share, Passed, Cardinality
  <2> QED
    BY <2>1, ShareLists DEF S08!Opp1
<1>2. S08!Opp2(c) \in Int
  <2>1. CASE S08!Setups(c) = {}
    BY <2>1 DEF S08!Opp2, S08!Pts
  <2>2. CASE S08!Setups(c) # {}
    <3> DEFINE bar == S08!Setup(c)
               ratio == (50 * S08!Wick(bar)) \div S08!Body(bar)
    <3>1. ratio \in Int
      BY <2>2, RejectionRatio
    <3> HIDE DEF ratio
    <3>2. S08!Lower(ratio, 200) \in Int
      BY <3>1 DEF S08!Lower
    <3> QED
      BY <2>2, <3>2 DEF S08!Opp2, S08!Pts, ratio
  <2> QED
    BY <2>1, <2>2
<1>3. S08!Risk1(c) \in Int /\ S08!Risk2(c) \in Int
  BY DEF S08!Risk1, S08!Risk2, S08!Pts, S08!Bounded, S08!Lower, S08!Higher
<1> DEFINE o1 == S08!Opp1(c)
           o2 == S08!Opp2(c)
           r1 == S08!Risk1(c)
           r2 == S08!Risk2(c)
<1>4. Confidence(Opinions(o1, o2, r1, r2)) \in 0..1000
  <2>1. o1 \in Int /\ o2 \in Int /\ r1 \in Int /\ r2 \in Int
    BY <1>1, <1>2, <1>3
  <2> HIDE DEF o1, o2, r1, r2
  <2> QED
    BY <2>1, ConfidenceRange, Zenon
<1>5. S08!Confidence(S08!Opinions(o1, o2, r1, r2)) \in 0..1000
  BY <1>4 DEF Confidence, Opinions, Bounded, Lower, Higher, S08!Confidence, S08!Opinions,
              S08!Bounded, S08!Lower, S08!Higher
<1> QED
  BY <1>5 DEF Fits, S08!Evaluate, S08!ComputeVerdict, S08!Verdict, S08!PlanOf, S08!NoTrade,
              NoTrade

LEMMA MarketMakerFits ==
    ASSUME NEW c \in Contexts
    PROVE  Fits(S09!Evaluate(c))
<1>1. S09!Opp1(c) \in Int
  <2>1. \A q, p : S09!Share(q, p) = Share(q, p)
    BY DEF S09!Share, S09!Passed, S09!Cardinality, Share, Passed, Cardinality
  <2> QED
    BY <2>1, ShareLists DEF S09!Opp1
<1>2. S09!Opp2(c) \in Int
  BY DEF S09!Opp2, S09!Pts
<1>3. S09!Risk1(c) \in Int /\ S09!Risk2(c) \in Int
  BY DEF S09!Risk1, S09!Risk2, S09!Pts
<1> DEFINE o1 == S09!Opp1(c)
           o2 == S09!Opp2(c)
           r1 == S09!Risk1(c)
           r2 == S09!Risk2(c)
<1>4. Confidence(Opinions(o1, o2, r1, r2)) \in 0..1000
  <2>1. o1 \in Int /\ o2 \in Int /\ r1 \in Int /\ r2 \in Int
    BY <1>1, <1>2, <1>3
  <2> HIDE DEF o1, o2, r1, r2
  <2> QED
    BY <2>1, ConfidenceRange, Zenon
<1>5. S09!Confidence(S09!Opinions(o1, o2, r1, r2)) \in 0..1000
  BY <1>4 DEF Confidence, Opinions, Bounded, Lower, Higher, S09!Confidence, S09!Opinions,
              S09!Bounded, S09!Lower, S09!Higher
<1> QED
  BY <1>5 DEF Fits, S09!Evaluate, S09!ComputeVerdict, S09!Verdict, S09!PlanOf, S09!NoTrade,
              NoTrade

LEMMA PowerFits ==
    ASSUME NEW c \in Contexts
    PROVE  Fits(S10!Evaluate(c))
<1>1. S10!Opp1(c) \in Int
  <2>1. \A q, p : S10!Share(q, p) = Share(q, p)
    BY DEF S10!Share, S10!Passed, S10!Cardinality, Share, Passed, Cardinality
  <2> QED
    BY <2>1, ShareLists DEF S10!Opp1, S10!Lower
<1>2. S10!Opp2(c) \in Int
  BY DEF S10!Opp2, S10!Pts
<1>3. S10!Risk1(c) \in Int /\ S10!Risk2(c) \in Int
  BY DEF S10!Risk1, S10!Risk2, S10!Pts, S10!Bounded, S10!Lower, S10!Higher
<1> DEFINE o1 == S10!Opp1(c)
           o2 == S10!Opp2(c)
           r1 == S10!Risk1(c)
           r2 == S10!Risk2(c)
<1>4. Confidence(Opinions(o1, o2, r1, r2)) \in 0..1000
  <2>1. o1 \in Int /\ o2 \in Int /\ r1 \in Int /\ r2 \in Int
    BY <1>1, <1>2, <1>3
  <2> HIDE DEF o1, o2, r1, r2
  <2> QED
    BY <2>1, ConfidenceRange, Zenon
<1>5. S10!Confidence(S10!Opinions(o1, o2, r1, r2)) \in 0..1000
  BY <1>4 DEF Confidence, Opinions, Bounded, Lower, Higher, S10!Confidence, S10!Opinions,
              S10!Bounded, S10!Lower, S10!Higher
<1> QED
  BY <1>5 DEF Fits, S10!Evaluate, S10!ComputeVerdict, S10!Verdict, S10!PlanOf, S10!NoTrade,
              NoTrade

\* The strong candle of a propulsion block is one of the M5 candles, and has a range.
LEMMA PropulsionBar ==
    ASSUME NEW c \in Contexts, S11!Setups(c) # {}
    PROVE  S11!Propulsion(c) \in BarType /\ S11!Propulsion(c).h > S11!Propulsion(c).l
<1> DEFINE S == S11!Setups(c)
           n == Len(c.obs)
           m == Len(c.m5)
<1>1. \A p \in S : p[2] \in 1..m /\ p \in (0..n) \X (0..m) /\ c.m5[p[2]].h > c.m5[p[2]].l
  BY ListElements DEF S11!Setups, S11!ValidBlocks, S11!Propels
<1>2. n \in Nat /\ m \in Nat /\ S \in SUBSET ((0..n) \X (0..m)) /\ S # {}
  BY <1>1, ListElements
<1>3. HasFirstPair(S)
  <2> HIDE DEF S, n, m
  <2> QED
    BY <1>2, PairBest
<1>4. S11!Setup(c) \in S
  BY <1>3 DEF S11!Setup, HasFirstPair
<1> QED
  BY <1>1, <1>4, ListElements DEF S11!Propulsion

LEMMA PropulsionFits ==
    ASSUME NEW c \in Contexts
    PROVE  Fits(S11!Evaluate(c))
<1>1. S11!Opp1(c) \in Int
  <2>1. \A q, p : S11!Share(q, p) = Share(q, p)
    BY DEF S11!Share, S11!Passed, S11!Cardinality, Share, Passed, Cardinality
  <2> QED
    BY <2>1, ShareLists DEF S11!Opp1
<1>2. S11!Opp2(c) \in Int
  <2>1. CASE S11!Setups(c) = {}
    BY <2>1 DEF S11!Opp2, S11!Pts
  <2>2. CASE S11!Setups(c) # {}
    <3> DEFINE bar == S11!Propulsion(c)
    <3>1. bar \in BarType /\ bar.h > bar.l
      BY <2>2, PropulsionBar
    <3> HIDE DEF bar
    <3>2. 150 * S11!Distance(bar.c, bar.o) \in Int /\ bar.h - bar.l \in Int
          /\ bar.h - bar.l > 0
      BY <3>1 DEF BarType, S11!Distance
    <3>3. \A a, b \in Int : b > 0 => a \div b \in Int
      OBVIOUS
    <3>4. S11!Ratio(bar) \in Int
      BY <3>2, <3>3 DEF S11!Ratio
    <3> QED
      BY <2>2, <3>4 DEF S11!Opp2, S11!Pts, bar
  <2> QED
    BY <2>1, <2>2
<1>3. S11!Risk1(c) \in Int /\ S11!Risk2(c) \in Int
  BY DEF S11!Risk1, S11!Risk2, S11!Pts
<1> DEFINE o1 == S11!Opp1(c)
           o2 == S11!Opp2(c)
           r1 == S11!Risk1(c)
           r2 == S11!Risk2(c)
<1>4. Confidence(Opinions(o1, o2, r1, r2)) \in 0..1000
  <2>1. o1 \in Int /\ o2 \in Int /\ r1 \in Int /\ r2 \in Int
    BY <1>1, <1>2, <1>3
  <2> HIDE DEF o1, o2, r1, r2
  <2> QED
    BY <2>1, ConfidenceRange, Zenon
<1>5. S11!Confidence(S11!Opinions(o1, o2, r1, r2)) \in 0..1000
  BY <1>4 DEF Confidence, Opinions, Bounded, Lower, Higher, S11!Confidence, S11!Opinions,
              S11!Bounded, S11!Lower, S11!Higher
<1> QED
  BY <1>5 DEF Fits, S11!Evaluate, S11!ComputeVerdict, S11!Verdict, S11!PlanOf, S11!NoTrade,
              NoTrade

LEMMA VacuumFits ==
    ASSUME NEW c \in Contexts
    PROVE  Fits(S12!Evaluate(c))
<1>1. S12!Opp1(c) \in Int
  <2>1. \A q, p : S12!Share(q, p) = Share(q, p)
    BY DEF S12!Share, S12!Passed, S12!Cardinality, Share, Passed, Cardinality
  <2> QED
    BY <2>1, ShareLists DEF S12!Opp1
<1>2. S12!Opp2(c) \in Int
  <2>1. CASE ~ S12!Found(c)
    BY <2>1 DEF S12!Opp2, S12!Pts
  <2>2. CASE S12!Found(c)
    <3>1. S12!Gap(c).score \in Int
      BY <2>2, VacuumGap DEF GapType
    <3> QED
      BY <2>2, <3>1 DEF S12!Opp2, S12!Pts
  <2> QED
    BY <2>1, <2>2
<1>3. S12!Risk1(c) \in Int /\ S12!Risk2(c) \in Int
  BY DEF S12!Risk1, S12!Risk2, S12!Pts
<1> DEFINE o1 == S12!Opp1(c)
           o2 == S12!Opp2(c)
           r1 == S12!Risk1(c)
           r2 == S12!Risk2(c)
<1>4. Confidence(Opinions(o1, o2, r1, r2)) \in 0..1000
  <2>1. o1 \in Int /\ o2 \in Int /\ r1 \in Int /\ r2 \in Int
    BY <1>1, <1>2, <1>3
  <2> HIDE DEF o1, o2, r1, r2
  <2> QED
    BY <2>1, ConfidenceRange, Zenon
<1>5. S12!Confidence(S12!Opinions(o1, o2, r1, r2)) \in 0..1000
  BY <1>4 DEF Confidence, Opinions, Bounded, Lower, Higher, S12!Confidence, S12!Opinions,
              S12!Bounded, S12!Lower, S12!Higher
<1> QED
  BY <1>5 DEF Fits, S12!Evaluate, S12!ComputeVerdict, S12!Verdict, S12!PlanOf, S12!NoTrade,
              NoTrade

LEMMA ReclaimedFits ==
    ASSUME NEW c \in Contexts
    PROVE  Fits(S13!Evaluate(c))
<1>1. S13!Opp1(c) \in Int
  BY DEF S13!Opp1, S13!Pts
<1>2. S13!Opp2(c) \in Int
  BY DEF S13!Opp2, S13!Pts
<1>3. S13!Risk1(c) \in Int /\ S13!Risk2(c) \in Int
  BY DEF S13!Risk1, S13!Risk2, S13!Pts
<1> DEFINE o1 == S13!Opp1(c)
           o2 == S13!Opp2(c)
           r1 == S13!Risk1(c)
           r2 == S13!Risk2(c)
<1>4. Confidence(Opinions(o1, o2, r1, r2)) \in 0..1000
  <2>1. o1 \in Int /\ o2 \in Int /\ r1 \in Int /\ r2 \in Int
    BY <1>1, <1>2, <1>3
  <2> HIDE DEF o1, o2, r1, r2
  <2> QED
    BY <2>1, ConfidenceRange, Zenon
<1>5. S13!Confidence(S13!Opinions(o1, o2, r1, r2)) \in 0..1000
  BY <1>4 DEF Confidence, Opinions, Bounded, Lower, Higher, S13!Confidence, S13!Opinions,
              S13!Bounded, S13!Lower, S13!Higher
<1> QED
  BY <1>5 DEF Fits, S13!Evaluate, S13!ComputeVerdict, S13!Verdict, S13!PlanOf, S13!NoTrade,
              NoTrade

LEMMA CisdFits ==
    ASSUME NEW c \in Contexts
    PROVE  Fits(S14!Evaluate(c))
<1>1. S14!Opp1(c) \in Int
  <2>1. \A q, p : S14!Share(q, p) = Share(q, p)
    BY DEF S14!Share, S14!Passed, S14!Cardinality, Share, Passed, Cardinality
  <2> QED
    BY <2>1, ShareLists DEF S14!Opp1, S14!Lower
<1>2. S14!Opp2(c) \in Int
  BY DEF S14!Opp2, S14!Pts
<1>3. S14!Risk1(c) \in Int /\ S14!Risk2(c) \in Int
  BY DEF S14!Risk1, S14!Risk2, S14!Pts
<1> DEFINE o1 == S14!Opp1(c)
           o2 == S14!Opp2(c)
           r1 == S14!Risk1(c)
           r2 == S14!Risk2(c)
<1>4. Confidence(Opinions(o1, o2, r1, r2)) \in 0..1000
  <2>1. o1 \in Int /\ o2 \in Int /\ r1 \in Int /\ r2 \in Int
    BY <1>1, <1>2, <1>3
  <2> HIDE DEF o1, o2, r1, r2
  <2> QED
    BY <2>1, ConfidenceRange, Zenon
<1>5. S14!Confidence(S14!Opinions(o1, o2, r1, r2)) \in 0..1000
  BY <1>4 DEF Confidence, Opinions, Bounded, Lower, Higher, S14!Confidence, S14!Opinions,
              S14!Bounded, S14!Lower, S14!Higher
<1> QED
  BY <1>5 DEF Fits, S14!Evaluate, S14!ComputeVerdict, S14!Verdict, S14!PlanOf, S14!NoTrade,
              NoTrade

LEMMA BprFits ==
    ASSUME NEW c \in Contexts
    PROVE  Fits(S15!Evaluate(c))
<1>1. S15!Opp1(c) \in Int
  <2>1. \A q, p : S15!Share(q, p) = Share(q, p)
    BY DEF S15!Share, S15!Passed, S15!Cardinality, Share, Passed, Cardinality
  <2> QED
    BY <2>1, ShareLists DEF S15!Opp1
<1>2. S15!Opp2(c) \in Int
  BY DEF S15!Opp2, S15!Pts
<1>3. S15!Risk1(c) \in Int /\ S15!Risk2(c) \in Int
  BY DEF S15!Risk1, S15!Risk2, S15!Pts
<1> DEFINE o1 == S15!Opp1(c)
           o2 == S15!Opp2(c)
           r1 == S15!Risk1(c)
           r2 == S15!Risk2(c)
<1>4. Confidence(Opinions(o1, o2, r1, r2)) \in 0..1000
  <2>1. o1 \in Int /\ o2 \in Int /\ r1 \in Int /\ r2 \in Int
    BY <1>1, <1>2, <1>3
  <2> HIDE DEF o1, o2, r1, r2
  <2> QED
    BY <2>1, ConfidenceRange, Zenon
<1>5. S15!Confidence(S15!Opinions(o1, o2, r1, r2)) \in 0..1000
  BY <1>4 DEF Confidence, Opinions, Bounded, Lower, Higher, S15!Confidence, S15!Opinions,
              S15!Bounded, S15!Lower, S15!Higher
<1> QED
  BY <1>5 DEF Fits, S15!Evaluate, S15!ComputeVerdict, S15!Verdict, S15!PlanOf, S15!NoTrade,
              NoTrade

\* Every stored row fits the table: whatever the market does, a confidence is a number of
\* points of 0 to 100, and a refused result bears no plan.
THEOREM PassIsTyped == Spec => []TypeOK
<1>1. PassInv => TypeOK
  <2> SUFFICES ASSUME PassInv
               PROVE  TypeOK
    OBVIOUS
  <2>1. pass = Idle \/ pass.next \in 1..Len(Order)
    BY FifteenStrategies DEF PassInv, Typed
  <2>2. ASSUME NEW row \in Rows
        PROVE  row.strategy \in Strategies /\ Fits(row.result)
    <3>1. PICK c \in Contexts : row.result = Evaluate(row.strategy, c)
      BY <2>2, RowIsResult
    <3>2. row.strategy \in Strategies
      BY <2>2, RowIsResult
    <3> QED
      BY <3>1, <3>2, StrategyNames, UnicornFits, JudasFits, ConfirmationFits,
         SilverBulletFits, NestedFits, InverseFits, OteFits, RejectionFits, MarketMakerFits,
         PowerFits, PropulsionFits, VacuumFits, ReclaimedFits, CisdFits, BprFits DEF Evaluate
  <2> QED
    BY <2>1, <2>2 DEF TypeOK, Strategies, Fits, Accepted
<1> QED
  BY <1>1, PassHolds, PTL
=============================================================================
