------------------------- MODULE TradeAttribution -------------------------
(***************************************************************************)
(* What the reports make of one trade date: which evaluation a sale is     *)
(* credited to, and whether the figures are called complete.  The tables   *)
(* fill up as candidates are evaluated, ordered, bought and sold;          *)
(* export_strategy_review.py reads them into sheets, any of which may      *)
(* fail, and the performance digest matches sales to candidates twice: by  *)
(* counting rows of the day and ticker (performance_digest_matching.py),   *)
(* and by order numbers, marks and times (..._candidate_matching.py).      *)
(* Fills carry the time of day in Seoul, evaluations that in UTC.          *)
(***************************************************************************)
EXTENDS Integers, Sequences, FiniteSets, FiniteSetsExt

CONSTANTS
    Symbols,
    OpenHour,       \* of the session, in Seoul: 22 in New York's summer, 23 in its winter
    LastHour,       \* bound: hours of the session
    Profits,        \* of a row of a sale, or NoProfit
    SheetFailures,  \* which sheets may fail together
    SampleSize,     \* 30 sales
    OkGap, FailGap, \* 1 and 50 dollars
    MaxScored,      \* bound: evaluations
    MaxSold         \* bound: rows of sales

NoProfit == -1000       \* profit_usd IS NULL: the entry price was not known
NotCounted == -1           \* a count that cannot be told

ASSUME AttributionAssumption ==
    /\ OpenHour \in {22, 23} /\ LastHour \in 0 .. 8
    /\ Profits \subseteq Int /\ {SampleSize, OkGap, FailGap} \subseteq Nat

VARIABLES
    judged,         \* candidate_evaluations
    coming,         \* orders not yet filled: [order, own]
    bought, sold,   \* fill_history
    ownerOf,        \* history: the evaluations that bought what is held
    runProfit,      \* realized_profit_usd of daily_run_summary
    sessionHour

attributionVars == <<judged, coming, bought, sold, ownerOf, runProfit, sessionHour>>

AttributionInit ==
    /\ judged = <<>> /\ coming = {} /\ bought = <<>> /\ sold = <<>>
    /\ ownerOf = [s \in Symbols |-> {}]
    /\ runProfit = 0 /\ sessionHour = 0

AttributionTypeOK ==
    /\ \A i \in DOMAIN judged :
          /\ judged[i].symbol \in Symbols /\ judged[i].order \in 0 .. MaxScored
          /\ judged[i].decision \in {"BLOCKED", "BUY_ALLOWED", "NOT_SUBMITTED", "ORDER_SUBMITTED"}
    /\ \A order \in coming : order.own \in DOMAIN judged
    /\ \A s \in Symbols : ownerOf[s] \subseteq DOMAIN judged
    /\ \A k \in DOMAIN sold : sold[k].own # {}
    /\ runProfit \in Int /\ sessionHour \in 0 .. LastHour

RowsOfSymbol(table, s) == {i \in DOMAIN table : table[i].symbol = s}
ProfitOf(k) == IF sold[k].profit = NoProfit THEN 0 ELSE sold[k].profit
ProfitSum(rows) == MapThenSumSet(ProfitOf, rows)

-----------------------------------------------------------------------------
\* An order follows an evaluation at once, is refused, or is not tried.  The
\* marks take the latest row that was allowed, which is this one; that another
\* job evaluates the same ticker in between, and retries of stale orders, are
\* left to CandidateRecord.
Evaluates(s, decision, marked) ==
    /\ Len(judged) < MaxScored
    /\ marked \/ decision \in {"NOT_SUBMITTED", "ORDER_SUBMITTED"}
    /\ LET i == Len(judged) + 1
           submits == decision = "ORDER_SUBMITTED" IN
       /\ judged' = Append(judged,
                       [symbol |-> s, at |-> sessionHour,
                        decision |-> IF marked \/ decision = "BLOCKED" THEN decision
                                     ELSE "BUY_ALLOWED",
                        order |-> IF submits /\ marked THEN i ELSE 0])
       /\ coming' = IF submits THEN coming \cup {[order |-> i, own |-> i]} ELSE coming
    /\ UNCHANGED <<bought, sold, ownerOf, runProfit, sessionHour>>

\* Bound: within an hour sales follow purchases of the same ticker.
Buys(order) ==
    /\ LET s == judged[order.own].symbol IN
       /\ \A k \in RowsOfSymbol(sold, s) : sold[k].at < sessionHour
       /\ bought' = Append(bought, [symbol |-> s, at |-> sessionHour, order |-> order.order])
       /\ ownerOf' = [ownerOf EXCEPT ![s] = @ \cup {order.own}]
    /\ coming' = coming \ {order}
    /\ UNCHANGED <<judged, sold, runProfit, sessionHour>>

\* An order that sells a part or all, filled in one row or several.  The run
\* summary is saved again if a profit is known, or that fails.
Sells(s, profits, whole, saved) ==
    /\ ownerOf[s] # {} /\ Len(sold) + Len(profits) <= MaxSold
    /\ sold' = sold \o [k \in DOMAIN profits |->
                          [symbol |-> s, at |-> sessionHour, own |-> ownerOf[s],
                           order |-> Len(sold) + 1, profit |-> profits[k]]]
    /\ ownerOf' = IF whole THEN [ownerOf EXCEPT ![s] = {}] ELSE ownerOf
    /\ saved => \E k \in DOMAIN profits : profits[k] # NoProfit
    /\ runProfit' = IF saved THEN ProfitSum(DOMAIN sold)' ELSE runProfit
    /\ UNCHANGED <<judged, coming, bought, sessionHour>>

SessionHourPasses ==
    /\ sessionHour < LastHour /\ sessionHour' = sessionHour + 1
    /\ UNCHANGED <<judged, coming, bought, sold, ownerOf, runProfit>>

AttributionNext ==
    \/ \E s \in Symbols, marked \in BOOLEAN,
          decision \in {"BLOCKED", "BUY_ALLOWED", "NOT_SUBMITTED", "ORDER_SUBMITTED"} :
          Evaluates(s, decision, marked)
    \/ \E order \in coming : Buys(order)
    \/ \E s \in Symbols, n \in 1 .. 2, whole, saved \in BOOLEAN :
          \E profits \in [1 .. n -> Profits] : Sells(s, profits, whole, saved)
    \/ SessionHourPasses

AttributionSpec == AttributionInit /\ [][AttributionNext]_attributionVars

-----------------------------------------------------------------------------
(* The sheets of the date.  One that fails has no rows.                    *)
EligibleRows(s) == {i \in RowsOfSymbol(judged, s) : judged[i].decision # "BLOCKED"}

\* candidate_orders_sql: the latest of a ticker alone stands for its sales, if
\* it was submitted or the ticker was bought.
Mutant_CandidateRows(s) == EligibleRows(s)
CandidateRows(s) == {i \in EligibleRows(s) : \A k \in EligibleRows(s) : k <= i}
AllCandidateRows == UNION {CandidateRows(s) : s \in Symbols}
SalesOf(i) ==
    IF judged[i].decision = "ORDER_SUBMITTED" \/ RowsOfSymbol(bought, judged[i].symbol) # {}
    THEN RowsOfSymbol(sold, judged[i].symbol)
    ELSE {}
\* pnl_by_score_bucket and pnl_by_source group the same rows.
MatchedCount == LET count(i) == Cardinality(SalesOf(i)) IN MapThenSumSet(count, AllCandidateRows)
MatchedProfit == LET profit(i) == ProfitSum(SalesOf(i)) IN MapThenSumSet(profit, AllCandidateRows)
\* pnl_by_exit_reason leaves out what has no profit.
ExitReasonProfit == ProfitSum({k \in DOMAIN sold : sold[k].profit # NoProfit})

Sheet(name, failing, value, otherwise) == IF name \in failing THEN otherwise ELSE value

-----------------------------------------------------------------------------
(* collect_scope_stats: the counts and the state of the data.              *)
FillRows(failing) == Sheet("fill_history", failing, Len(sold), 0)
ByDay(failing) == "pnl_by_day" \notin failing /\ sold # <<>>
RealizedCount(failing) == IF ByDay(failing) THEN Len(sold) ELSE FillRows(failing)
RealizedProfit(failing) ==
    IF ByDay(failing) \/ "fill_history" \notin failing THEN ProfitSum(DOMAIN sold) ELSE 0
\* The larger of the counts of two sheets that count the same rows.
MatchedTrades(failing) ==
    IF {"pnl_by_score_bucket", "pnl_by_source"} \subseteq failing THEN NotCounted
    ELSE MatchedCount
\* safe_buy_count and safe_fill_history_sell_rows
CountsFills(failing) ==
    /\ "fill_history" \notin failing
    /\ sold # <<>> \/ bought # <<>> \/ RealizedCount(failing) = 0

Unsound == {"WARN", "FAIL"}
RatioStatus(failing) ==
    LET realized == RealizedCount(failing)
        matched == MatchedTrades(failing) IN
    CASE matched = NotCounted -> "WARN"
      [] matched # NotCounted /\ realized = 0 -> "OK"
      [] OTHER -> IF 2 * matched < realized THEN "FAIL"
                  ELSE IF 5 * matched < 4 * realized THEN "WARN" ELSE "OK"
CountStatus(failing) ==
    LET ratio == RatioStatus(failing) IN
    IF ratio \in Unsound THEN ratio
    ELSE IF ~CountsFills(failing) \/ RealizedCount(failing) # Len(sold) THEN "WARN" ELSE "OK"

Distance(x, y) == IF x < y THEN y - x ELSE x - y
\* reconciliation_metrics; a summary that was never saved counts as nothing.
Gap(failing) == Distance(RealizedProfit(failing),
                         Sheet("summary_reconciliation", failing, runProfit, 0))
GapStatus(failing) ==
    CASE Gap(failing) <= OkGap -> "OK"
      [] Gap(failing) > OkGap ->
            IF Gap(failing) <= FailGap \/ "summary_reconciliation" \in failing
            THEN "WARN" ELSE "FAIL"

\* limited_notes, of which one is enough.
HasNotes(failing) ==
    \/ failing # {} \/ ~CountsFills(failing) \/ CountStatus(failing) # "OK"
    \/ MatchedTrades(failing) # NotCounted /\ MatchedTrades(failing) < RealizedCount(failing)
    \/ RealizedCount(failing) < SampleSize
DataStatus(failing) ==
    CASE "FAIL" \in {GapStatus(failing), CountStatus(failing)} -> "FAIL"
      [] OTHER -> IF GapStatus(failing) = "WARN" \/ HasNotes(failing) THEN "WARN" ELSE "OK"

\* interpretation
Confidence(failing) ==
    CASE DataStatus(failing) # "OK" -> "LOW"
      [] OTHER -> IF RealizedCount(failing) < SampleSize THEN "MEDIUM" ELSE "HIGH"
ScoreSourceConfidence(failing) ==
    IF RatioStatus(failing) = "FAIL" THEN "LOW" ELSE Confidence(failing)

-----------------------------------------------------------------------------
(* Which evaluation a sale is credited to, from complete sheets.           *)
SeoulHour(hour) == (OpenHour + hour) % 24
UtcHour(hour) == (OpenHour + hour + 15) % 24

\* build_matching_ledger.  Sheets of candidates count the orders that sold,
\* the ledger its rows: the capacity is used up in the order of Seoul's clock.
\* A candidate without score or source is credited with nothing.
SoldBefore(k) ==
    {j \in RowsOfSymbol(sold, sold[k].symbol) :
       \/ SeoulHour(sold[j].at) < SeoulHour(sold[k].at)
       \/ SeoulHour(sold[j].at) = SeoulHour(sold[k].at) /\ j < k}
Capacity(i) == Cardinality({sold[k].order : k \in SalesOf(i)})
CreditByCount(k) ==
    {i \in EligibleRows(sold[k].symbol) :
       /\ EligibleRows(sold[k].symbol) = {i}
       /\ Cardinality(SoldBefore(k)) < Capacity(i)}

\* unmatched_reason: the rows of the day that count alone cannot tell apart.
ManyCandidates(k) == Cardinality(EligibleRows(sold[k].symbol)) > 1

\* The last purchase before the sale, by Seoul's time of day; a purchase of
\* the evening counts as later than a sale of the night.
EarlierPurchases(k) ==
    {p \in RowsOfSymbol(bought, sold[k].symbol) :
       SeoulHour(bought[p].at) <= SeoulHour(sold[k].at)}
LastPurchase(k) ==
    {p \in EarlierPurchases(k) :
       \A q \in EarlierPurchases(k) :
          \/ SeoulHour(bought[q].at) < SeoulHour(bought[p].at)
          \/ SeoulHour(bought[q].at) = SeoulHour(bought[p].at) /\ q <= p}
\* _candidate_before_or_at compares that with the time of day in UTC.
BeforePurchase(k) ==
    {i \in RowsOfSymbol(judged, sold[k].symbol) :
       \A p \in LastPurchase(k) : UtcHour(judged[i].at) <= SeoulHour(bought[p].at)}
ActiveFor(k) ==
    {i \in BeforePurchase(k) : judged[i].decision \in {"BUY_ALLOWED", "ORDER_SUBMITTED"}}
Linked(k) == {i \in ActiveFor(k) : \E p \in LastPurchase(k) : judged[i].order = bought[p].order}
SubmittedFor(k) == {i \in ActiveFor(k) : judged[i].decision = "ORDER_SUBMITTED"}

\* resolve_active_candidate: what it is sure of, by order number or because
\* there is only one, and what it holds likely; LOW and NONE count alike.
Mutant_Unique(rows) == {i \in rows : \A k \in rows : k <= i}
Unique(rows) == IF Cardinality(rows) = 1 THEN rows ELSE {}
CreditByTime(k) == IF Linked(k) # {} THEN Unique(Linked(k)) ELSE Unique(SubmittedFor(k))
LikelyCredit(k) ==
    IF SubmittedFor(k) = {} /\ ActiveFor(k) = BeforePurchase(k) THEN Unique(ActiveFor(k)) ELSE {}
StillAmbiguous(k) == ManyCandidates(k) /\ CreditByTime(k) = {} /\ LikelyCredit(k) = {}
\* score_source_analysis_allowed of the packet
AnalysisAllowed ==
    /\ 2 * MatchedTrades({}) >= RealizedCount({})
    /\ \A k \in DOMAIN sold : ~StillAmbiguous(k)

-----------------------------------------------------------------------------
\* Though evaluations and fills are compared across two clocks, one of which
\* passes midnight in the session: a sale that is credited for sure is credited
\* to an evaluation that bought what was sold, if the marks of that ticker were
\* saved; and where the analysis by score and source is allowed, no sale of a
\* ticker that was a candidate several times is missing from it.
CreditedIsOwn ==
    \A k \in DOMAIN sold :
       /\ CreditByCount(k) \subseteq sold[k].own
       /\ (\A i \in sold[k].own : judged[i].decision = "ORDER_SUBMITTED")
          => CreditByTime(k) \subseteq sold[k].own
       /\ AnalysisAllowed /\ ManyCandidates(k) => CreditByTime(k) # {}

\* On a date with candidates, whichever sheets fail: what is called sound, or
\* trusted more than little, was read in full, from enough sales, each behind
\* exactly one candidate, with the same profit by day, by exit reason, by score
\* and by source, and in the summary of the day within the gap allowed.
OkCoversEverySale ==
    judged # <<>> => \A failing \in SheetFailures :
       (DataStatus(failing) = "OK" \/ ScoreSourceConfidence(failing) # "LOW")
       => /\ failing = {} /\ Len(sold) >= SampleSize
          /\ \A k \in DOMAIN sold :
                Cardinality({i \in AllCandidateRows : k \in SalesOf(i)}) = 1
          /\ {RealizedProfit(failing), MatchedProfit, ExitReasonProfit} = {ProfitSum(DOMAIN sold)}
          /\ Distance(ProfitSum(DOMAIN sold), runProfit) <= OkGap
=============================================================================
