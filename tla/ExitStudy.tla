----------------------------- MODULE ExitStudy -----------------------------
(***************************************************************************)
(* The record from which exit rules are judged: table                      *)
(* entry_profit_snapshot, which scheduler_state.persist_live_snapshot      *)
(* keeps (repositories.py: a row per purchase, the profit after n minutes, *)
(* the exit), and exit_rule_simulation.py, which asks of each completed    *)
(* row what another rule would have earned.  One ticker, one trade date;   *)
(* purchases, sales and their fills happen around the job, which may break *)
(* off.  Prices are whole, and a profit is a difference to the entry.      *)
(***************************************************************************)
EXTENDS Integers, Sequences

CONSTANTS
    StudyPrices,      \* prices of the ticker
    SnapshotMinutes,  \* SNAPSHOT_MINUTES
    LastMinute,       \* bound: minutes of the session
    MaxPurchases,     \* bound: purchases of the ticker
    MaxSaleOrders,    \* bound: sales of the ticker that are submitted
    StudyParams       \* ExitRuleSimulationParams

ASSUME StudyAssumption ==
    /\ StudyPrices \subseteq Nat /\ SnapshotMinutes \subseteq Nat \ {0}
    /\ {LastMinute, MaxPurchases, MaxSaleOrders} \subseteq Nat

VARIABLES
    minute, quote,
    sharesHeld,
    purchases,   \* fills of purchases: [at, price]
    orders,      \* trade_history, the sales: [at], one per submission
    openSale,    \* an accepted sale that is not filled
    sales,       \* fills of sales: [at, price]
    studyRows,   \* entry_profit_snapshot: [at, price, profits, final, rate]
    job,         \* the persisting job: what it read of the account
    savedSales,  \* fills of sales in fill_history
    leftAt,      \* history, per purchase: when nothing of it was left
    unseen,      \* history: the position was sold and no job has finished since
    covered      \* history: purchases followed by another while unseen

studyVars == <<minute, quote, sharesHeld, purchases, orders, openSale, sales,
               studyRows, job, savedSales, leftAt, unseen, covered>>
tradeVars == <<minute, quote, sharesHeld, purchases, orders, openSale, sales,
               leftAt, covered>>
Unset == -1000
NoJob == [busy |-> FALSE, late |-> FALSE, held |-> 0, price |-> 0, purchases |-> 0, sales |-> 0]

StudyInit ==
    /\ minute = 0
    /\ quote \in StudyPrices /\ \A price \in StudyPrices : quote <= price
    /\ sharesHeld = 0 /\ purchases = <<>> /\ orders = <<>> /\ sales = <<>>
    /\ openSale = FALSE /\ studyRows = <<>> /\ job = NoJob
    /\ savedSales = 0 /\ leftAt = <<>>
    /\ unseen = FALSE /\ covered = {}

StudyTypeOK ==
    /\ minute \in 0 .. LastMinute /\ sharesHeld \in 0 .. 2 * MaxPurchases
    /\ Len(leftAt) = Len(purchases) /\ Len(studyRows) <= Len(purchases)
    /\ savedSales \in 0 .. Len(sales)
    /\ covered \subseteq DOMAIN purchases
    /\ \A i \in DOMAIN studyRows : DOMAIN studyRows[i].profits = SnapshotMinutes

-----------------------------------------------------------------------------
\* A minute passes; a job takes less than one, but may begin late in it.
MinutePasses ==
    /\ minute < LastMinute /\ ~(job.busy /\ job.late)
    /\ minute' = minute + 1 /\ quote' \in StudyPrices
    /\ job' = IF job.busy THEN [job EXCEPT !.late = TRUE] ELSE job
    /\ UNCHANGED <<sharesHeld, purchases, orders, openSale, sales, studyRows,
                   savedSales, leftAt, unseen, covered>>

\* The fill of a purchase: two shares, a new entry or one more on top.
Purchased ==
    /\ Len(purchases) < MaxPurchases /\ ~openSale
    /\ \A i \in DOMAIN purchases : purchases[i].at # minute
    /\ purchases' = Append(purchases, [at |-> minute, price |-> quote])
    /\ leftAt' = Append(leftAt, Unset)
    /\ sharesHeld' = sharesHeld + 2
    /\ covered' = IF unseen THEN DOMAIN purchases ELSE covered
    /\ UNCHANGED <<minute, quote, orders, openSale, sales, studyRows, job,
                   savedSales, unseen>>

\* An exit is submitted and saved, also when the order is refused.
SaleOrdered(accepted) ==
    /\ sharesHeld > 0 /\ ~openSale /\ Len(orders) < MaxSaleOrders
    /\ orders' = Append(orders, [at |-> minute])
    /\ openSale' = accepted
    /\ UNCHANGED <<minute, quote, sharesHeld, purchases, sales, studyRows, job,
                   savedSales, leftAt, unseen, covered>>

\* It fills, in part (half of the shares) or whole.
SaleFilled(quantity) ==
    /\ openSale /\ quantity \in {sharesHeld \div 2, sharesHeld}
    /\ sharesHeld' = sharesHeld - quantity /\ openSale' = FALSE
    /\ sales' = Append(sales, [at |-> minute, price |-> quote])
    /\ leftAt' = [i \in DOMAIN leftAt |->
                    IF leftAt[i] = Unset /\ quantity = sharesHeld
                    THEN minute ELSE leftAt[i]]
    /\ unseen' = (unseen \/ quantity = sharesHeld)
    /\ UNCHANGED <<minute, quote, purchases, orders, studyRows, job, savedSales,
                   covered>>

SaleCancelled ==
    /\ openSale /\ openSale' = FALSE
    /\ UNCHANGED <<minute, quote, sharesHeld, purchases, orders, sales, studyRows,
                   job, savedSales, leftAt, unseen, covered>>

-----------------------------------------------------------------------------
(* persist_live_snapshot *)

\* live_kis_monitor_state: holdings, with their price, and fills.
JobReads ==
    /\ ~job.busy
    /\ job' = [busy |-> TRUE, late |-> FALSE, held |-> sharesHeld, price |-> quote,
               purchases |-> Len(purchases), sales |-> Len(sales)]
    /\ UNCHANGED <<tradeVars, studyRows, savedSales, unseen>>

\* save_entry_profit_snapshots: a row for each purchase that has none yet.
WithEntries(rows) ==
    rows \o [i \in 1 .. job.purchases - Len(rows) |->
              [at |-> purchases[Len(rows) + i].at,
               price |-> purchases[Len(rows) + i].price,
               profits |-> [n \in SnapshotMinutes |-> Unset],
               final |-> FALSE, rate |-> Unset]]

Mutant_WithProfits(rows) ==
    [i \in DOMAIN rows |-> [rows[i] EXCEPT !.profits =
        [n \in SnapshotMinutes |->
            IF /\ job.held > 0
               /\ @[n] = Unset /\ minute - rows[i].at >= n
            THEN job.price - rows[i].price ELSE @[n]]]]
\* update_entry_profit_snapshots: each profit once, when its minute has come,
\* while the ticker is held and the row has no exit.
WithProfits(rows) ==
    [i \in DOMAIN rows |-> [rows[i] EXCEPT !.profits =
        [n \in SnapshotMinutes |->
            IF /\ job.held > 0 /\ ~rows[i].final
               /\ @[n] = Unset /\ minute - rows[i].at >= n
            THEN job.price - rows[i].price ELSE @[n]]]]

\* update_entry_profit_snapshot_finals: once a sale was submitted after the
\* entry, with the profit of the first saved fill after it, if there is one.
WithFinals(rows, fills) ==
    [i \in DOMAIN rows |->
        LET after == {s \in 1 .. fills : sales[s].at >= rows[i].at}
            first == CHOOSE s \in after : \A t \in after : s <= t
        IN  IF ~rows[i].final /\ \E o \in DOMAIN orders : orders[o].at >= rows[i].at
            THEN [rows[i] EXCEPT !.final = TRUE,
                    !.rate = IF after = {} THEN Unset
                             ELSE sales[first].price - rows[i].price]
            ELSE rows[i]]

JobEnds == job' = NoJob /\ UNCHANGED tradeVars

JobFinishes ==
    /\ job.busy
    /\ studyRows' = WithFinals(WithProfits(WithEntries(studyRows)), job.sales)
    /\ savedSales' = job.sales
    /\ unseen' = (unseen /\ Len(sales) > job.sales)
    /\ JobEnds

\* It breaks off before the fills are saved, after (a notification raises, say),
\* or between the profits and the exits.
JobBreaksOff ==
    /\ job.busy
    /\ \/ UNCHANGED <<studyRows, savedSales>>
       \/ studyRows' = WithEntries(studyRows) /\ savedSales' = job.sales
       \/ /\ studyRows' = WithProfits(WithEntries(studyRows))
          /\ savedSales' = job.sales
    /\ JobEnds /\ UNCHANGED unseen

StudyNext ==
    \/ MinutePasses \/ Purchased
    \/ \E accepted \in BOOLEAN : SaleOrdered(accepted)
    \/ \E quantity \in 1 .. sharesHeld : SaleFilled(quantity)
    \/ SaleCancelled
    \/ JobReads \/ JobFinishes \/ JobBreaksOff

StudySpec == StudyInit /\ [][StudyNext]_studyVars

-----------------------------------------------------------------------------
(* exit_rule_simulation.py, on one row *)

Recorded(row) == {n \in SnapshotMinutes : row.profits[n] # Unset}
Skipped == [triggered |-> FALSE, judged |-> FALSE, rate |-> 0, exit |-> 0]
Kept(row) == [Skipped EXCEPT !.judged = TRUE, !.rate = row.rate]
Fires(rate, n) == [triggered |-> TRUE, judged |-> TRUE, rate |-> rate, exit |-> n]

\* _single_snapshot_rule, strict or not
SingleSnapshot(row, n, threshold, strict) ==
    CASE row.rate = Unset \/ n \notin Recorded(row) -> Skipped
      [] row.rate # Unset /\ n \in Recorded(row) ->
            IF \/ row.profits[n] < threshold
               \/ ~strict /\ row.profits[n] = threshold
            THEN Fires(row.profits[n], n) ELSE Kept(row)

\* _first_trigger_minute, and the two rules that start from it
FirstReached(row, trigger, simulated) ==
    LET reached == {n \in Recorded(row) : row.profits[n] >= trigger} IN
    CASE row.rate = Unset \/ Recorded(row) = {} -> Skipped
      [] row.rate # Unset /\ Recorded(row) # {} ->
            IF reached = {} THEN Kept(row)
            ELSE Fires(simulated, CHOOSE n \in reached : \A m \in reached : n <= m)

\* _rule_definitions; a partial profit is counted twice over, as it is halved.
Judgements(row) ==
    {SingleSnapshot(row, n, StudyParams.threshold, strict) :
        n \in SnapshotMinutes, strict \in BOOLEAN}
    \cup {FirstReached(row, StudyParams.protection_trigger,
             IF row.rate > StudyParams.protection_floor THEN row.rate
             ELSE StudyParams.protection_floor),
          FirstReached(row, StudyParams.partial_trigger,
             (StudyParams.partial_trigger + row.rate) \div 2)}

-----------------------------------------------------------------------------
\* No exit rule is judged with hindsight: where a rule would have sold n
\* minutes after a purchase, the shares of that purchase were still there to be
\* sold.  Whether the price of that minute was to be had is not asked.  A job has
\* up to a minute between its reading and its writing.  Excepted is a purchase
\* after which the position was sold and no job finished before the next one:
\* its row is still open when the ticker is held again.
NoHindsight ==
    \A i \in DOMAIN studyRows : \A outcome \in Judgements(studyRows[i]) :
        outcome.triggered =>
            \/ leftAt[i] = Unset
            \/ studyRows[i].at + outcome.exit <= leftAt[i] + 1
            \/ i \in covered
=============================================================================
