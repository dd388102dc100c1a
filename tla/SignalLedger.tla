---------------------------- MODULE SignalLedger ----------------------------
(***************************************************************************)
(* What the signal desk promises, with every decision atomic: a signal is  *)
(* recorded, then vetoed or published for good; a published one that may   *)
(* be traded is proposed as a trade at most once; and no signal is         *)
(* published once the present month is full.  No queue, no gate in several *)
(* steps, no failures: TradeDesk has all of them and implements this, see  *)
(* DeskLedger.                                                             *)
(***************************************************************************)
EXTENDS Integers, Sequences, FiniteSets

CONSTANTS Cap,          \* published VALID signals a month holds
          MonthOf       \* minute |-> first minute of its month

VARIABLES time,
          ledger        \* one entry for each signal, in the order of its id

States == {"pending", "vetoed", "published", "traded"}

\* Whether an entry counts against the cap, and whether it may be traded.
Entry(t, valid, tradable) ==
    [t |-> t, valid |-> valid, tradable |-> tradable, state |-> "pending"]

\* The entries that fill the present month.
ThisMonth == {i \in DOMAIN ledger : /\ ledger[i].valid
                                    /\ ledger[i].state \in {"published", "traded"}
                                    /\ ledger[i].t >= MonthOf[time]}

Record(t, valid, tradable) ==
    /\ t <= time
    /\ ledger' = Append(ledger, Entry(t, valid, tradable))
    /\ UNCHANGED time

Become(i, from, to) ==
    /\ ledger[i].state = from
    /\ ledger' = [ledger EXCEPT ![i].state = to]
    /\ UNCHANGED time

Veto(i) == Become(i, "pending", "vetoed")

Publish(i) == Cardinality(ThisMonth) < Cap /\ Become(i, "pending", "published")

Propose(i) == ledger[i].tradable /\ Become(i, "published", "traded")

Pass == time' = time + 1 /\ UNCHANGED ledger

LedgerInit == time = 0 /\ ledger = << >>

LedgerNext ==
    \/ \E t \in DOMAIN MonthOf, valid, tradable \in BOOLEAN : Record(t, valid, tradable)
    \/ \E i \in DOMAIN ledger : Veto(i) \/ Publish(i) \/ Propose(i)
    \/ Pass

LedgerSpec == LedgerInit /\ [][LedgerNext]_<< time, ledger >>
=============================================================================
