---------------------------- MODULE StrategyPass ----------------------------
(***************************************************************************)
(* The strategy orchestrator: it takes one context after the other from    *)
(* context_q, evaluates the fifteen strategies on it in a fixed order and  *)
(* stores each result under the key (strategy_id, signature, t).  A        *)
(* strategy that raises is skipped.  scripts/replay_day.py evaluates ticks *)
(* of a past day, and may do so again.  What happens to a stored signal is *)
(* in TradeDesk.                                                           *)
(***************************************************************************)
EXTENDS Debate

S01 == INSTANCE Unicorn
S02 == INSTANCE JudasSwing
S03 == INSTANCE ConfirmationModel
S04 == INSTANCE SilverBullet
S05 == INSTANCE NestedFvg
S06 == INSTANCE InverseFvg
S07 == INSTANCE OteFvg
S08 == INSTANCE RejectionBlock
S09 == INSTANCE MarketMakerModel
S10 == INSTANCE PowerOfThree
S11 == INSTANCE PropulsionBlock
S12 == INSTANCE VacuumBlock
S13 == INSTANCE ReclaimedFvg
S14 == INSTANCE Cisd
S15 == INSTANCE BprInBlock

CONSTANTS Contexts,    \* the contexts the pipeline may build
          Watched,     \* bound: the contexts on which faults and replays are explored
          MaxTicks,    \* bound: ticks of the live pipeline
          MaxReplays,  \* bound: ticks evaluated by the replay script
          MaxFaults    \* bound: strategies that raise

\* The pipeline fills in neither current_price nor current_spread_pips.
ASSUME ContextAssumption ==
    /\ Contexts \subseteq ContextType
    /\ \A c \in Contexts : c.price = Unknown /\ ~ c.spreadHigh
    /\ Watched \subseteq Contexts
ASSUME PassAssumption == MaxTicks \in Nat /\ MaxReplays \in Nat /\ MaxFaults \in Nat

VARIABLES pass,     \* the running pass: context, time and next strategy
          signals,  \* table signals, in order of id
          taken,    \* history: the passes begun, << time, context >> in order
          failed    \* history: << pass, strategy >> that raised

vars == << pass, signals, taken, failed >>

\* ALL_STRATEGIES.
Order == << "03_confirmation", "04_silver_bullet", "02_judas", "01_unicorn", "06_ifvg",
            "05_nested_fvg", "07_ote_fvg", "08_rejection_block", "09_mmm", "10_po3",
            "11_propulsion", "12_vacuum", "13_reclaimed_fvg", "14_cisd", "15_bpr_ob" >>

Evaluate(strategy, c) ==
    CASE strategy = "01_unicorn"         -> S01!Evaluate(c)
      [] strategy = "02_judas"           -> S02!Evaluate(c)
      [] strategy = "03_confirmation"    -> S03!Evaluate(c)
      [] strategy = "04_silver_bullet"   -> S04!Evaluate(c)
      [] strategy = "05_nested_fvg"      -> S05!Evaluate(c)
      [] strategy = "06_ifvg"            -> S06!Evaluate(c)
      [] strategy = "07_ote_fvg"         -> S07!Evaluate(c)
      [] strategy = "08_rejection_block" -> S08!Evaluate(c)
      [] strategy = "09_mmm"             -> S09!Evaluate(c)
      [] strategy = "10_po3"             -> S10!Evaluate(c)
      [] strategy = "11_propulsion"      -> S11!Evaluate(c)
      [] strategy = "12_vacuum"          -> S12!Evaluate(c)
      [] strategy = "13_reclaimed_fvg"   -> S13!Evaluate(c)
      [] strategy = "14_cisd"            -> S14!Evaluate(c)
      [] OTHER                           -> S15!Evaluate(c)

Idle == [ctx |-> << >>, t |-> 0, next |-> 0]

\* A live tick bears the wall clock, a replayed one the time of its candle, and the
\* two never agree: live times are positive here, the one replayed time is not.
PastTime == -1
LiveTicks == Cardinality({n \in DOMAIN taken : taken[n][1] > 0})

Row(strategy, t, result) == [strategy |-> strategy, t |-> t, result |-> result]

\* UNIQUE (strategy_id, signature, t); a NULL signature equals no other.
\* (IsDuplicateNever has no such constraint.)
IsDuplicateNever(strategy, t, result) == FALSE
IsDuplicate(strategy, t, result) ==
    /\ result.signature # NoSignature
    /\ \E i \in DOMAIN signals : /\ signals[i].strategy = strategy
                                 /\ signals[i].result.signature = result.signature
                                 /\ signals[i].t = t
-----------------------------------------------------------------------------
Init == /\ pass = Idle
        /\ signals = << >>
        /\ taken = << >>
        /\ failed = {}

\* Bound: a context that is not watched is the only one of its behaviour.
Offered == IF taken = << >> THEN Contexts
           ELSE IF taken[1][2] \in Watched THEN Watched ELSE {}

Begin(t, c) ==
    /\ pass' = [ctx |-> c, t |-> t, next |-> 1]
    /\ taken' = Append(taken, << t, c >>)
    /\ UNCHANGED << signals, failed >>

\* context_q.get
Take ==
    /\ pass = Idle
    /\ LiveTicks < MaxTicks
    /\ \E c \in Offered : Begin(LiveTicks + 1, c)

\* replay_day: a tick of the past, with a context made of the candles that are the
\* newest now, so that the same tick may come with another context.
Replay ==
    /\ pass = Idle
    /\ Len(taken) - LiveTicks < MaxReplays
    /\ \E c \in Offered \cap Watched : Begin(PastTime, c)

\* (AbortPass leaves the loop.)
AbortPass == Idle
Advance == IF pass.next = Len(Order) THEN Idle ELSE [pass EXCEPT !.next = @ + 1]

\* The next strategy is evaluated and its result stored, unless it is a duplicate.
Step ==
    /\ pass # Idle
    /\ LET strategy == Order[pass.next]
           result   == Evaluate(strategy, pass.ctx)
       IN  signals' = IF IsDuplicate(strategy, pass.t, result) THEN signals
                      ELSE Append(signals, Row(strategy, pass.t, result))
    /\ pass' = Advance
    /\ UNCHANGED << taken, failed >>

\* An exception in a strategy, its evidence or its insert is logged.
Fail ==
    /\ pass # Idle
    /\ Cardinality(failed) < MaxFaults
    /\ pass.ctx \in Watched
    /\ failed' = failed \cup {<< Len(taken), Order[pass.next] >>}
    /\ pass' = Advance
    /\ UNCHANGED << signals, taken >>

Next == Take \/ Replay \/ Step \/ Fail

Spec == Init /\ [][Next]_vars
-----------------------------------------------------------------------------
Rows == {signals[i] : i \in DOMAIN signals}
Accepted(row) == row.result.verdict # "NO_TRADE"

\* Every row has the type of its table, and a plan only with an accepted verdict.
TypeOK ==
    /\ pass = Idle \/ pass.next \in 1..Len(Order)
    /\ \A row \in Rows :
          /\ row.strategy \in {Order[i] : i \in DOMAIN Order}
          /\ row.result.verdict \in {"VALID", "WAIT", "NO_TRADE"}
          /\ row.result.confidence \in 0..1000
          /\ row.result.trade # NoTrade => Accepted(row)

\* Strategies whose plan has a price level for target, which nothing compares with
\* the entry.
LevelTargets == {"02_judas", "07_ote_fvg", "09_mmm", "10_po3"}

Sound(trade) ==
    \/ trade = NoTrade
    \/ trade.direction = "buy" /\ trade.sl < trade.entry /\ trade.entry < trade.tp1
    \/ trade.direction = "sell" /\ trade.tp1 < trade.entry /\ trade.entry < trade.sl

\* Whichever FVG, sweep and structure shift a strategy combines, and they may be of
\* opposite directions and far apart, its stop lies on the losing and its target on
\* the winning side of the entry; and but for the Unicorn model, whose first target
\* is the risk itself, the reward meets the gate's floor.
PlansAreSound ==
    \A row \in Rows : row.strategy \notin LevelTargets =>
        /\ Sound(row.result.trade)
        /\ row.strategy # "01_unicorn" /\ row.result.trade # NoTrade
              => RrOk(row.result.trade)

\* Power of 3 in its manipulation phase is held to 64 points, below the 65 that its
\* own strict rule asks for: it is refused, where the documents say "at most WAIT".
ManipulationNeverWaits ==
    [][\A i \in (Len(signals) + 1)..Len(signals') :
          signals'[i].strategy = "10_po3" /\ Accepted(signals'[i])
              => pass.ctx.amd = "Distribution"]_vars

\* A signature, built apart from the plan, names the plan's direction: clusters are
\* formed by signature and traded by plan.
SignatureAgrees ==
    \A row \in Rows :
        row.result.trade # NoTrade /\ row.result.signature # NoSignature =>
            (row.result.trade.direction = "buy") <=> (row.result.signature[1] = "bullish")

\* The manual promises NO_TRADE when a risk agent opposes with 70 points or more, the
\* code asks for more than 70.  It makes no difference: whatever scores a strategy
\* combines, such a result has too little confidence for WAIT anyway.
VetoNeverDecides ==
    \A row \in Rows :
        row.result.opinions.risk1 >= 700 \/ row.result.opinions.risk2 >= 700
            => row.result.confidence < WaitThreshold

\* When a pass is over, every strategy has a row of its time or has raised in it: a
\* strategy that raises takes nothing from the others.
TickCovered ==
    \A n \in DOMAIN taken : n < Len(taken) \/ pass = Idle =>
        \A i \in DOMAIN Order :
            \/ << n, Order[i] >> \in failed
            \/ \E row \in Rows : row.strategy = Order[i] /\ row.t = taken[n][1]

\* The replay script calls itself idempotent.  A tick replayed a second time in the
\* same context stores a signed result again only where its strategy had raised;
\* results without a signature, plans among them, are stored once more each time.
ReplayAddsUnsigned ==
    [][pass.t = PastTime /\ Len(signals') > Len(signals) =>
          LET row == signals'[Len(signals')]
          IN  \A n \in 1..(Len(taken) - 1) : taken[n] = << PastTime, pass.ctx >> =>
                  \/ row.result.signature = NoSignature
                  \/ << n, row.strategy >> \in failed]_vars
-----------------------------------------------------------------------------
(* What the code does against its documents; no promise of the program.     *)

\* strategy_07_ote_fvg.py: "SL: 100% fib + 15 pips.  TP1=0%", one at each end of the
\* impulse.  For a buy the code takes both from level 0.0, its low: an OTE buy has its
\* first target below its entry, and risks more than the way there.
OteBuysNeverPay ==
    \A row \in Rows : row.strategy = "07_ote_fvg" /\ row.result.trade.direction = "buy" =>
        row.result.trade.tp1 <= row.result.trade.entry /\ ~ RrOk(row.result.trade)
=============================================================================
