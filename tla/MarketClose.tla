----------------------------- MODULE MarketClose -----------------------------
(***************************************************************************)
(* close_session (scheduled_tasks.py) from the moment it holds the cycle   *)
(* lock: cancel, take a snapshot, sell everything, wait until snapshots    *)
(* show the sale filled, and write the day's records                       *)
(* (scheduler_market_close.py).  One ticker; beside the sale of the close  *)
(* there may be another sale of it in the book, and a purchase: orders of  *)
(* the day, or of a person, which are filled as long as they are there,    *)
(* and which stay there when the close cannot cancel them.                 *)
(***************************************************************************)
EXTENDS Integers

CONSTANTS
    SharesHeld,     \* shares of the ticker at the close
    SharesOnOrder,  \* the largest purchase in the book at the close
    ClosePolls      \* _market_close_poll_attempts(timeout, poll)

ASSUME CloseAssumption ==
    {SharesHeld, SharesOnOrder} \subseteq Nat /\ ClosePolls \in Nat \ {0}

VARIABLES
    closePc,       \* where close_session is
    held,          \* the brokerage: shares in the account
    soldToday,     \* the brokerage: shares sold today
    otherSale,     \* the brokerage: shares of the other sale in the book
    openBuy,       \* the brokerage: shares of the purchase in the book
    closeSale,     \* the brokerage: shares of the close's sale in the book
    baseline,      \* baseline_state
    toSell,        \* the quantity of accounts.positions()
    expected,      \* _market_close_expectations: shares of the trade
    lastState,     \* last_state
    reading,       \* the orders of a snapshot whose holdings are not yet read
    polls,         \* snapshots asked for
    settled,       \* last_status.completed
    otherFilled,   \* history: fills of the other sale since the baseline
    boughtLate     \* history: shares bought since the close read the positions

broker == <<held, soldToday, otherSale, openBuy, closeSale, boughtLate>>
closeVars == <<closePc, broker, baseline, toSell, expected, lastState,
               reading, polls, settled, otherFilled>>

NoState == [ready |-> FALSE, sells |-> 0, holding |-> 0]
NoOrders == [ok |-> FALSE, sells |-> 0]
Steps == {"cancel", "baseline", "baseline_holdings", "positions", "sell",
          "wait", "wait_holdings", "run_summary", "report",
          "trade_summary", "message", "export", "digest", "slack",
          "returned", "raised"}

CloseInit ==
    /\ closePc = "cancel"
    /\ held = SharesHeld /\ soldToday = 0
    /\ otherSale = 0 /\ openBuy = 0 /\ closeSale = 0
    /\ baseline = NoState /\ toSell = 0 /\ expected = 0
    /\ lastState = NoState /\ reading = NoOrders /\ polls = 0 /\ settled = FALSE
    /\ otherFilled = 0 /\ boughtLate = 0

CloseTypeOK ==
    /\ closePc \in Steps
    /\ held \in Nat /\ soldToday \in Nat
    /\ otherSale \in Nat /\ openBuy \in Nat /\ closeSale \in Nat
    /\ baseline \in [ready : BOOLEAN, sells : Nat, holding : Nat]
    /\ lastState \in [ready : BOOLEAN, sells : Nat, holding : Nat]
    /\ reading \in [ok : BOOLEAN, sells : Nat]
    /\ toSell \in Nat /\ expected \in Nat
    /\ polls \in 0..ClosePolls /\ settled \in BOOLEAN
    /\ otherFilled \in Nat /\ boughtLate \in Nat

-----------------------------------------------------------------------------
(* The brokerage.  It sells no share that is not there.                    *)

OtherPlaced ==
    /\ closePc = "cancel" /\ otherSale = 0 /\ soldToday = 0
    /\ otherSale' \in 1..held
    /\ UNCHANGED <<closePc, held, soldToday, openBuy, closeSale, baseline, toSell,
                   expected, lastState, reading, polls, settled,
                   otherFilled, boughtLate>>

BuyPlaced ==
    /\ closePc = "cancel" /\ openBuy = 0 /\ held + soldToday = SharesHeld
    /\ openBuy' \in 1..SharesOnOrder
    /\ UNCHANGED <<closePc, held, soldToday, otherSale, closeSale, baseline, toSell,
                   expected, lastState, reading, polls, settled,
                   otherFilled, boughtLate>>

PositionsRead ==
    closePc \notin {"cancel", "baseline", "baseline_holdings", "positions"}

BuyFills ==
    /\ openBuy > 0
    /\ openBuy' = openBuy - 1 /\ held' = held + 1
    /\ boughtLate' = IF PositionsRead THEN boughtLate + 1 ELSE boughtLate
    /\ UNCHANGED <<closePc, soldToday, otherSale, closeSale, baseline, toSell,
                   expected, lastState, reading, polls, settled, otherFilled>>

OtherFills ==
    /\ otherSale > 0 /\ held > 0
    /\ otherSale' = otherSale - 1
    /\ held' = held - 1 /\ soldToday' = soldToday + 1
    /\ otherFilled' = otherFilled + 1
    /\ UNCHANGED <<closePc, openBuy, closeSale, baseline, toSell, expected, lastState,
                   reading, polls, settled, boughtLate>>

CloseSaleFills ==
    /\ closeSale > 0 /\ held > 0
    /\ closeSale' = closeSale - 1
    /\ held' = held - 1 /\ soldToday' = soldToday + 1
    /\ UNCHANGED <<closePc, otherSale, openBuy, baseline, toSell, expected, lastState,
                   reading, polls, settled, otherFilled, boughtLate>>

-----------------------------------------------------------------------------
\* _cancel_unfilled_orders_for_market_close: a failure is logged, no more, and
\* leaves in the book whatever was not cancelled before it.
CancelUnfilled ==
    /\ closePc = "cancel" /\ closePc' = "baseline"
    /\ otherSale' \in {0, otherSale} /\ openBuy' \in {0, openBuy}
    /\ UNCHANGED <<held, soldToday, closeSale, baseline, toSell, expected, lastState,
                   reading, polls, settled, otherFilled, boughtLate>>

(* live_kis_monitor_state reads the orders first and the holdings later;   *)
(* a source that fails is empty and not ok.                                *)
ReadOrders ==
    /\ \/ closePc = "baseline" /\ closePc' = "baseline_holdings"
          /\ otherFilled' = 0
       \/ closePc = "wait" /\ expected > 0 /\ polls < ClosePolls
          /\ closePc' = "wait_holdings"
          /\ UNCHANGED otherFilled
    /\ reading' \in {[ok |-> TRUE, sells |-> soldToday], NoOrders}
    /\ UNCHANGED broker
    /\ UNCHANGED <<baseline, toSell, expected, lastState, polls, settled>>

Snapshot(holdings_ok) ==
    [ready |-> reading.ok /\ holdings_ok,
     sells |-> reading.sells,
     holding |-> IF holdings_ok THEN held ELSE 0]

TakeBaseline ==
    /\ closePc = "baseline_holdings" /\ closePc' = "positions"
    /\ \E holdings_ok \in BOOLEAN : baseline' = Snapshot(holdings_ok)
    /\ lastState' = baseline'
    /\ UNCHANGED broker
    /\ UNCHANGED <<toSell, expected, reading, polls, settled,
                   otherFilled>>

\* accounts.positions() and monitor.poll(..., end_of_day=True)
ReadPositions ==
    /\ closePc = "positions" /\ closePc' = "sell"
    /\ toSell' = held
    /\ UNCHANGED broker
    /\ UNCHANGED <<baseline, expected, lastState, reading, polls, settled,
                   otherFilled>>

(* The executor: the order is taken, refused, or taken without an answer;  *)
(* only what was answered is a trade the wait expects.                     *)
Sell ==
    /\ closePc = "sell" /\ closePc' = "wait"
    /\ \/ closeSale' = toSell /\ expected' = toSell
       \/ closeSale' \in {0, toSell} /\ expected' = 0
    /\ UNCHANGED <<held, soldToday, otherSale, openBuy, baseline, toSell, lastState,
                   reading, polls, settled, otherFilled, boughtLate>>

\* No expectation: the baseline is the state of the report.
NothingExpected ==
    /\ closePc = "wait" /\ expected = 0 /\ closePc' = "run_summary"
    /\ UNCHANGED broker
    /\ UNCHANGED <<baseline, toSell, expected, lastState, reading, polls, settled,
                   otherFilled>>

Mutant_Completed(state) ==          \* a source that failed counts as read
    LET sell_delta == state.sells - baseline.sells
        expected_holding == baseline.holding - expected
    IN  /\ sell_delta >= expected
        /\ state.holding <= expected_holding \/ state.holding = 0

\* _market_close_settlement_status
Completed(state) ==
    LET sell_delta == state.sells - baseline.sells
        expected_holding == baseline.holding - expected
    IN  /\ baseline.ready /\ state.ready
        /\ sell_delta >= expected
        /\ state.holding <= expected_holding \/ state.holding = 0

\* One round of _wait_for_market_close_settlement whose snapshot is written.
Poll ==
    /\ closePc = "wait_holdings"
    /\ \E holdings_ok \in BOOLEAN : lastState' = Snapshot(holdings_ok)
    /\ settled' = Completed(lastState')
    /\ polls' = polls + 1
    /\ closePc' = IF settled' THEN "run_summary" ELSE "wait"
    /\ UNCHANGED broker
    /\ UNCHANGED <<baseline, toSell, expected, reading, otherFilled>>

\* The snapshot raised: last_state and last_status stay.
PollRaises ==
    /\ closePc = "wait_holdings" /\ closePc' = "wait"
    /\ polls' = polls + 1
    /\ UNCHANGED broker
    /\ UNCHANGED <<baseline, toSell, expected, lastState, reading, settled,
                   otherFilled>>

\* MARKET_CLOSE_FILL_CONFIRMATION_TIMEOUT
WaitTimesOut ==
    /\ closePc = "wait" /\ expected > 0 /\ polls = ClosePolls
    /\ closePc' = "run_summary"
    /\ UNCHANGED broker
    /\ UNCHANGED <<baseline, toSell, expected, lastState, reading, polls, settled,
                   otherFilled>>

-----------------------------------------------------------------------------
(* The records of the day, in this order; what they say is not modelled.   *)
(* A record that cannot be written is logged and left out; only the daily  *)
(* report lets its exception out.                                          *)

Following ==
    [run_summary |-> "report", report |-> "trade_summary",
     trade_summary |-> "message", message |-> "export",
     export |-> "digest", digest |-> "slack", slack |-> "returned"]

WriteRecord(record) ==
    /\ closePc = record /\ closePc' = Following[record]
    /\ UNCHANGED broker
    /\ UNCHANGED <<baseline, toSell, expected, lastState, reading, polls, settled,
                   otherFilled>>

\* save_strategy_review_export: no workbook, no digest; no digest, no Slack.
RecordFails(record) ==
    /\ closePc = record /\ record # "report"
    /\ closePc' = IF record \in {"export", "digest"} THEN "returned"
                  ELSE Following[record]
    /\ UNCHANGED broker
    /\ UNCHANGED <<baseline, toSell, expected, lastState, reading, polls, settled,
                   otherFilled>>

\* What raises out of close_session: the job ends without the rest.
Raises ==
    /\ closePc \in {"baseline_holdings", "positions", "sell", "report"}
    /\ closePc' = "raised"
    /\ closeSale' \in IF closePc = "sell" THEN {0, toSell} ELSE {closeSale}
    /\ UNCHANGED <<held, soldToday, otherSale, openBuy, baseline, toSell, expected,
                   lastState, reading, polls, settled, otherFilled, boughtLate>>

CloseNext ==
    \/ OtherPlaced \/ OtherFills \/ BuyPlaced \/ BuyFills \/ CloseSaleFills
    \/ CancelUnfilled \/ ReadOrders \/ TakeBaseline \/ ReadPositions \/ Sell
    \/ NothingExpected \/ Poll \/ PollRaises \/ WaitTimesOut \/ Raises
    \/ \E record \in DOMAIN Following : WriteRecord(record) \/ RecordFails(record)

CloseSpec == CloseInit /\ [][CloseNext]_closeVars

-----------------------------------------------------------------------------
(* A close that counts as settled has sold every share that was in the     *)
(* account when it read the positions: neither a source that could not be  *)
(* read, nor fills of earlier sales or purchases, nor an order that is     *)
(* still in the book passes for the sale.  What is held can only be shares *)
(* of a purchase whose cancellation failed and that was filled later: they *)
(* stay open overnight.  Excluded by name: fills of another sale after the *)
(* snapshot the close counts from; they are counted as its own, and the    *)
(* position stays open overnight too.                                      *)
SettledMeansSold == settled /\ otherFilled = 0 => held <= boughtLate
=============================================================================
