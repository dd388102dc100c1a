----------------------------- MODULE DeskLedger -----------------------------
(***************************************************************************)
(* The refinement mapping from the desk to the ledger: the tables alone    *)
(* are the ledger, whatever the queue, the gate and the threads hold.      *)
(***************************************************************************)
EXTENDS TradeDesk

HasTrade(i) == \E j \in DOMAIN trades : trades[j].signal = i

\* What has become of the signal with id i.
StateOf(i) ==
    CASE signals[i].gate = "pending" -> "pending"
      [] signals[i].gate = "published" -> IF HasTrade(i) THEN "traded" ELSE "published"
      [] OTHER -> "vetoed"

LedgerOfDesk ==
    [i \in DOMAIN signals |->
        [t |-> signals[i].t, valid |-> Cand(i).verdict = "VALID",
         tradable |-> Cand(i).verdict # "NO_TRADE", state |-> StateOf(i)]]

Ledger == INSTANCE SignalLedger
          WITH Cap <- MaxMonthlyTrades, MonthOf <- MonthStart,
               time <- now, ledger <- LedgerOfDesk

\* Queue, gate, clustering and publisher, in steps that crashes and lock timeouts
\* may separate for ever and on counts read before they are used, are one atomic
\* ledger to whoever reads the tables.
DeskIsLedger == Ledger!LedgerSpec
=============================================================================
