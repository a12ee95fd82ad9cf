--------------------------- MODULE TradingSession ---------------------------
(***************************************************************************)
(* The trading jobs of scheduled_tasks.py at work on one brokerage         *)
(* account: intraday_watch, intraday_recheck and close_session, which      *)
(* share cycle_lock (module CycleLock), and dry_run, mock_buy and          *)
(* cancel_unfilled, which do not take it.                                  *)
(*                                                                         *)
(* A job is cut where it calls the brokerage (KIS): between two calls      *)
(* orders fill, grow old, and the other jobs run.  What the jobs share is  *)
(* the in-memory record `latest` (_LatestRunState), the trades they save   *)
(* in the database, and the broker's order book and holdings.  A restart   *)
(* of the process loses the first and leaves the others.                   *)
(*                                                                         *)
(* The broker is external: it is modelled from what the adapters send to   *)
(* it and expect from it.  An order is for Lot shares and fills one share  *)
(* at a time.                                                              *)
(***************************************************************************)
EXTENDS Integers, FiniteSets, FiniteSetsExt, Functions

CONSTANTS
    Tickers,            \* the symbols that may be traded
    Lot,                \* shares of a buy order
    MaxRounds,          \* settings.max_intraday_entry_rounds
    RoundCap,           \* settings.max_intraday_buy_intents_per_round
    Pyramiding,         \* settings.enable_pyramiding
    PartialTakeProfit,  \* settings.partial_take_profit_enabled
    Faults,             \* the failures that are explored
    Slots,              \* bound: orders in the book at a time
    MaxHeld,            \* bound: shares of a ticker, held or on order
    MaxFaults,          \* bound: failures in a behaviour, but for "raise"
    MaxDate,            \* bound: the last trade date
    LastPhase           \* bound: how far the last trade date is explored

FaultKinds ==
    {"reject", "lost", "twice", "save", "lookup", "cancel", "raise", "restart"}

ASSUME TickersAssumption == IsFiniteSet(Tickers)
ASSUME LotAssumption == Lot \in Nat \ {0}
ASSUME RoundAssumption == MaxRounds \in Nat /\ RoundCap \in Nat
ASSUME FaultAssumption == Faults \subseteq FaultKinds
ASSUME SwitchAssumption == Pyramiding \in BOOLEAN /\ PartialTakeProfit \in BOOLEAN
ASSUME MaxAssumption == {Slots, MaxHeld, MaxFaults} \subseteq Nat /\ MaxDate \in Nat \ {0}
ASSUME PhaseAssumption == LastPhase \in {"before", "open", "late", "after"}

Cycles == {"watch", "recheck"}
Jobs == Cycles \cup {"close", "buy", "cancel"}

Steps == {"idle", "acquire", "gate", "wait", "poll", "sell", "list", "cancel",
          "screen", "filter", "submit", "over"}

\* Exits of the whole position; TRAILING_STOP stands for every reason of one
\* but the two that matter elsewhere.
Full == {"STOP_LOSS", "TRAILING_STOP", "EOD"}
Kinds == Full \cup {"PARTIAL_TAKE_PROFIT", "ENTRY"}

VARIABLES
    today, closeDate, lock,            \* as in CycleLock
    phase,       \* the clock: before the session, open, from 15:55 on, after
    pc,          \* the step each job has reached
    work,        \* the local variables of each job
    latest,      \* _LatestRunState
    stopped,     \* the database: tickers with a stop loss saved today
    orders,      \* the broker: the order book, by order number
    held,        \* the broker: shares of each ticker in the account
    entries,     \* history: entries of the cycles today
    uncounted,   \* history: rounds that saved entries of today and then raised,
                 \* and rounds that a restart has forgotten
    faults,      \* history: failures so far
    doubled,     \* history: mock_buy submitted during the session, or the
                 \* executor sent an order again whose reply was lost
    clean,       \* history: the close has cancelled what it found
    closed       \* history: the last date on which the close went well, in
                 \* this process

clock == <<today, phase, closeDate>>
broker == <<orders, held>>
db == <<stopped, entries, uncounted>>
history == <<faults, doubled, clean, closed>>
vars == <<today, phase, closeDate, lock, pc, work, latest, stopped, orders, held,
          entries, uncounted, faults, doubled, clean, closed>>

NoWork == [exits |-> {}, todo |-> {}, done |-> {}, intents |-> {}, held |-> {},
           blind |-> {}]
Free == "free"

Exits == [ticker : Tickers, kind : Kinds, qty : Nat \ {0}]
\* `known`: a sale that this process has seen acknowledged and has saved.
Orders == [ticker : Tickers, side : {"buy", "sell", "sell part"},
           left : Nat \ {0}, stale : BOOLEAN, known : BOOLEAN]
\* an order that was filled or cancelled, or never placed
Gone == [ticker |-> "none", side |-> "none", left |-> 0, stale |-> FALSE,
         known |-> FALSE]

Work == [exits : SUBSET Exits, todo : SUBSET (1..Slots), done : SUBSET Tickers,
         intents : SUBSET Tickers, held : SUBSET Tickers, blind : SUBSET Tickers]
Latest == [result : SUBSET Tickers, bought : SUBSET Tickers, addOn : SUBSET Tickers,
           retried : SUBSET Tickers, pending : SUBSET Tickers,
           partial : SUBSET Tickers, rounds : Nat]

TypeOK ==
    /\ today \in 1..MaxDate /\ closeDate \in 0..MaxDate /\ closed \in 0..MaxDate
    /\ phase \in {"before", "open", "late", "after"}
    /\ lock \in {"watch", "recheck", "close", Free}
    /\ pc \in [Jobs -> Steps] /\ work \in [Jobs -> Work] /\ latest \in Latest
    /\ stopped \subseteq Tickers
    /\ orders \in [1..Slots -> Orders \cup {Gone}] /\ held \in [Tickers -> Nat]
    /\ entries \in Nat /\ uncounted \in Nat /\ faults \in 0..MaxFaults
    /\ doubled \in BOOLEAN /\ clean \in BOOLEAN

\* _LatestRunState() of a process that starts
Fresh == [result |-> {}, bought |-> {}, addOn |-> {}, retried |-> {},
          pending |-> {}, partial |-> {}, rounds |-> 0]

Init ==
    /\ today = 1 /\ phase = "before" /\ closeDate = 0 /\ lock = Free
    /\ pc = [j \in Jobs |-> "idle"]
    /\ work = [j \in Jobs |-> NoWork]
    /\ latest = Fresh
    /\ stopped = {} /\ entries = 0 /\ uncounted = 0
    /\ orders = [i \in 1..Slots |-> Gone] /\ held = [t \in Tickers |-> 0]
    /\ faults = 0 /\ doubled = FALSE /\ clean = FALSE /\ closed = 0

-----------------------------------------------------------------------------
(* The broker                                                              *)

Live(i) == orders[i].left > 0
LiveOrders == {i \in 1..Slots : Live(i)}
IsBuy(o) == o.side = "buy"

\* The tickers with an order in the book: nccs_qty > 0.
UnfilledTickers == {orders[i].ticker : i \in LiveOrders}

\* Shares of t in the buy orders or in the sell orders of the book, by order.
BuySide == {"buy"}
SellSides == {"sell", "sell part"}
OrdersOf(t, sides) ==
    {i \in LiveOrders : orders[i].ticker = t /\ orders[i].side \in sides}
SharesInBook(t, sides) ==
    UNION {{i} \X (1..orders[i].left) : i \in OrdersOf(t, sides)}
InBook(t, sides) == Cardinality(SharesInBook(t, sides))

InSession == phase \in {"open", "late"}

Mutant_Rest(o) == [o EXCEPT !.left = @ - 1]     \* a filled order stays listed
Rest(o) == IF o.left = 1 THEN Gone ELSE [o EXCEPT !.left = @ - 1]

\* One share of an order is exchanged.
Fill(i) ==
    /\ InSession
    /\ Live(i)
    /\ LET o == orders[i] IN
       /\ ~IsBuy(o) => held[o.ticker] > 0
       /\ orders' = [orders EXCEPT ![i] = Rest(o)]
       /\ held' = [held EXCEPT ![o.ticker] = IF IsBuy(o) THEN @ + 1 ELSE @ - 1]
    /\ UNCHANGED <<clock, lock, pc, work, latest, db, history>>

\* mock_unfilled_reorder_minutes pass; only the cycles, in the session, look.
Age(i) ==
    /\ InSession
    /\ Live(i) /\ IsBuy(orders[i]) /\ ~orders[i].stale
    /\ orders' = [orders EXCEPT ![i].stale = TRUE]
    /\ UNCHANGED <<clock, lock, pc, work, latest, db, held, history>>

\* A failure of this kind happens.
Fails(kind) == kind \in Faults /\ faults < MaxFaults /\ faults' = faults + 1

\* What one submission through the executors comes to, after their retries
\* (module OrderSubmission).  "twice": sent again after its reply was lost.
Outcomes == {"acked"} \cup (Faults \cap {"reject", "lost", "twice"})

\* The broker refuses a sale of shares that are already on sale.
Sellable(e) == e.qty <= held[e.ticker] - InBook(e.ticker, SellSides)

Copies(out) == CASE out = "reject" -> 0 [] out = "twice" -> 2 [] OTHER -> 1
Acknowledged(out) == out \in {"acked", "twice"}

Buy(t) ==
    [ticker |-> t, side |-> "buy", left |-> Lot, stale |-> FALSE, known |-> FALSE]
Sale(e) ==
    [ticker |-> e.ticker, left |-> e.qty, stale |-> FALSE, known |-> FALSE,
     side |-> IF e.kind = "PARTIAL_TAKE_PROFIT" THEN "sell part" ELSE "sell"]

\* The trade of an order is saved; only of sales is that of interest later.
Saved(o) == IF IsBuy(o) THEN o ELSE [o EXCEPT !.known = TRUE]

\* An order number that no job has read and that is not in the book.
Unused == {i \in 1..Slots : ~Live(i) /\ \A j \in Jobs : i \notin work[j].todo}

\* The broker notes the orders new[x], as many of each as it accepted, under
\* numbers of its own.
Accepted(out) == UNION {{x} \X (1..Copies(out[x])) : x \in DOMAIN out}
Numberings(out) == Injection(Accepted(out), Unused)

Book(out, new) ==
    /\ Numberings(out) # {}
    /\ LET number == CHOOSE f \in Numberings(out) : TRUE IN
       orders' = [i \in 1..Slots |->
                     IF \E a \in Accepted(out) : number[a] = i
                        THEN new[(CHOOSE a \in Accepted(out) : number[a] = i)[1]]
                        ELSE orders[i]]

-----------------------------------------------------------------------------
(* Steps that several jobs take                                            *)

Goto(j, step) == pc' = [pc EXCEPT ![j] = step]

Mutant_Leave(j) ==             \* a job that ends does not release the lock
    /\ Goto(j, IF j \in Cycles THEN "idle" ELSE "over")
    /\ work' = [work EXCEPT ![j] = NoWork]
    /\ UNCHANGED lock

\* A job ends: a cycle and the close release the lock in `finally` and `with`.
Leave(j) ==
    /\ Goto(j, IF j \in Cycles THEN "idle" ELSE "over")
    /\ work' = [work EXCEPT ![j] = NoWork]
    /\ lock' = IF lock = j THEN Free ELSE lock

\* The trading guard skips the job, or a read (positions, rows, screening, a
\* database lookup outside a try) raises: nothing more of the body happens.
Raise(j) ==
    /\ "raise" \in Faults
    /\ pc[j] \in {"poll", "screen", "filter"} \/ (j = "cancel" /\ pc[j] = "list")
    /\ Leave(j)
    /\ UNCHANGED <<clock, latest, broker, db, history>>

\* cancel_stale_mock_buy_orders has cancelled every request: the tickers count
\* as retried and release_cancelled_buy_tickers gives them back to the rounds.
\* The watch goes on only if something was cancelled.
Released(done) ==
    latest' = [latest EXCEPT !.retried = @ \cup done, !.bought = @ \ done,
                             !.addOn = @ \ done]

CancelsDone(j, done) ==
    CASE j = "watch" /\ done = {} -> Leave(j) /\ UNCHANGED latest
      [] j = "watch" /\ done # {} ->
            /\ Goto(j, "screen") /\ Released(done) /\ UNCHANGED lock
            /\ work' = [work EXCEPT ![j] = [NoWork EXCEPT !.done = done]]
      [] j = "recheck" ->
            /\ Goto(j, "filter") /\ Released(done) /\ UNCHANGED lock
            /\ work' = [work EXCEPT ![j].todo = {}, ![j].done = done]
      [] j = "close" ->
            /\ Goto(j, "poll") /\ UNCHANGED <<latest, lock>>
            /\ work' = [work EXCEPT ![j] = [NoWork EXCEPT !.done = done]]
      [] j = "cancel" -> Leave(j) /\ UNCHANGED latest

Mutant_Requests(j) ==      \* the close, too, cancels only what is stale
    {i \in LiveOrders : /\ IsBuy(orders[i]) /\ orders[i].stale
                        /\ orders[i].ticker \notin latest.retried}

\* stale_unfilled_buy_cancel_requests / unfilled_cancel_requests over the rows.
Requests(j) ==
    IF j \in Cycles
       THEN {i \in LiveOrders : /\ IsBuy(orders[i]) /\ orders[i].stale
                                /\ orders[i].ticker \notin latest.retried}
       ELSE LiveOrders

\* mock_order_rows, and the requests that follow from the rows.
List(j) ==
    /\ pc[j] = "list"
    /\ IF Requests(j) = {}
          THEN CancelsDone(j, {})
          ELSE /\ Goto(j, "cancel")
               /\ work' = [work EXCEPT ![j].todo = Requests(j)]
               /\ UNCHANGED <<latest, lock>>
    /\ UNCHANGED <<clock, broker, db, history>>

\* The cycles and the close take a lookup that raises for an empty list.
ListFails(j) ==
    /\ pc[j] = "list"
    /\ Fails("lookup")
    /\ j # "cancel"
    /\ CancelsDone(j, {})
    /\ clean' = (clean /\ j # "close")
    /\ UNCHANGED <<clock, broker, db, doubled, closed>>

\* An order that is still in the book is taken out of it.
CancelOne(j, i) ==
    /\ Live(i)
    /\ orders' = [orders EXCEPT ![i] = Gone]
    /\ LET done == work[j].done \cup {orders[i].ticker} IN
       IF work[j].todo = {i}
          THEN CancelsDone(j, done)
          ELSE /\ work' = [work EXCEPT ![j].todo = @ \ {i}, ![j].done = done]
               /\ UNCHANGED <<pc, latest, lock>>
    /\ UNCHANGED <<clean, faults>>

\* An order that is not, or any other failure, raises: the rest of the requests
\* is given up and neither retried_buy_tickers nor the released tickers are
\* recorded.  Only _cancel_unfilled_orders_for_market_close goes on.
CancelRaises(j, i) ==
    /\ \/ ~Live(i) /\ UNCHANGED faults
       \/ Live(i) /\ Fails("cancel")
    /\ IF j = "close"
          THEN CancelsDone(j, {})
          ELSE Leave(j) /\ UNCHANGED latest
    /\ clean' = (clean /\ j # "close")
    /\ UNCHANGED orders

Cancel(j) ==
    /\ pc[j] = "cancel"
    /\ \E i \in work[j].todo : CancelOne(j, i) \/ CancelRaises(j, i)
    /\ UNCHANGED <<clock, held, db, doubled, closed>>

Holdings == {t \in Tickers : held[t] > 0}

\* The executors submit every intent x, whose order is new[x] and whose kind is
\* kind[x], and then save the trades that were acknowledged.
TradedOf(out, new, kind, k) ==
    {new[x].ticker : x \in {y \in DOMAIN out : Acknowledged(out[y]) /\ kind[y] = k}}

SaveTrades(j, out, new, kind) ==
    /\ stopped' = stopped \cup TradedOf(out, new, kind, "STOP_LOSS")
    /\ entries' = IF j \in Cycles
                     THEN entries + Cardinality(TradedOf(out, new, kind, "ENTRY"))
                     ELSE entries

Submitted(j, out, new, kind) ==
    /\ faults' = faults + Cardinality({x \in DOMAIN out : out[x] # "acked"})
    /\ faults' <= MaxFaults
    /\ Book(out, [x \in DOMAIN out |->
                     IF Acknowledged(out[x]) THEN Saved(new[x]) ELSE new[x]])
    /\ SaveTrades(j, out, new, kind) /\ UNCHANGED uncounted

\* If the save, or the log after it, raises, the job ends before it records
\* anything in `latest`.
SaveRaises(j, out, new, kind) ==
    /\ Fails("save")
    /\ \A x \in DOMAIN out : out[x] = "acked"
    /\ Book(out, new)
    /\ \/ /\ SaveTrades(j, out, new, kind)
          /\ uncounted' = IF entries' > entries THEN uncounted + 1 ELSE uncounted
       \/ UNCHANGED db
    /\ Leave(j)
    /\ UNCHANGED <<latest, closed>>

\* A sale that is sent again finds the shares of the first one on sale.
ResendSells(e) == 2 * e.qty <= held[e.ticker] - InBook(e.ticker, SellSides)

\* SellIntentExecutor.execute: the exits, their orders and kinds.
Sellables(j) == {e \in work[j].exits : Sellable(e)}
SaleOrders(j) == [e \in Sellables(j) |-> Sale(e)]
SaleKinds(j) == [e \in Sellables(j) |-> e.kind]

\* Every exit has been acknowledged, and nothing had failed before.
AllSold(j, out) ==
    clean /\ \A e \in work[j].exits : e \in DOMAIN out /\ out[e] = "acked"

\* `done` is what follows the sale in the job.
SellAll(j, done) ==
    /\ pc[j] = "sell"
    /\ \E out \in [Sellables(j) -> Outcomes] :
          /\ \A e \in Sellables(j) : out[e] = "twice" => ResendSells(e)
          /\ \/ /\ Submitted(j, out, SaleOrders(j), SaleKinds(j))
                /\ done
                /\ closed' = IF j = "close" /\ AllSold(j, out) THEN today ELSE closed
             \/ SaveRaises(j, out, SaleOrders(j), SaleKinds(j))
    /\ UNCHANGED <<clock, held, doubled, clean>>

\* apply_stop_loss_entry_guards: a ticker that was stopped out today is not
\* bought, and nothing is after too many stop losses in a row.  A lookup that
\* raises counts as no stop loss.
Guards(j, intents) ==
    \/ /\ work' = [work EXCEPT ![j].intents = intents \ stopped]
       /\ UNCHANGED faults
    \/ /\ stopped # {}
       /\ work' = [work EXCEPT ![j].intents = {}]
       /\ UNCHANGED faults
    \/ /\ Fails("lookup")
       /\ \E t \in intents \cap stopped :
             work' = [work EXCEPT ![j].intents = intents \ (stopped \ {t}),
                                  ![j].blind = {t}]

Room(t) == held[t] + InBook(t, BuySide) + Lot <= MaxHeld

\* BuyIntentExecutor.execute; record[traded] is what the job makes of `latest`.
BuyOrders(j) == [t \in work[j].intents |-> Buy(t)]
BuyKinds(j) == [t \in work[j].intents |-> "ENTRY"]

BuyAll(j, record) ==
    /\ pc[j] = "submit"
    /\ \A t \in work[j].intents : Room(t)
    /\ \E out \in [work[j].intents -> Outcomes] :
          /\ \/ /\ Submitted(j, out, BuyOrders(j), BuyKinds(j))
                /\ latest' = record[\E t \in DOMAIN out : Acknowledged(out[t])]
                /\ Leave(j)
                /\ UNCHANGED closed
             \/ SaveRaises(j, out, BuyOrders(j), BuyKinds(j))
          /\ doubled' = \/ doubled
                        \/ j = "buy" /\ phase = "open"
                        \/ \E t \in DOMAIN out : out[t] = "twice"
    /\ UNCHANGED <<clock, held, clean>>

-----------------------------------------------------------------------------
(* The gate and the lock: the steps of CycleLock                           *)


CloseStarted == closeDate = today

Mutant_LockFree == TRUE        \* a busy lock does not keep the cycle out
LockFree == lock = Free

Start(c) ==
    /\ pc[c] = "idle"
    /\ InSession /\ ~CloseStarted
    /\ Goto(c, "acquire")
    /\ UNCHANGED <<clock, lock, work, latest, broker, db, history>>

TryLock(c) ==
    /\ pc[c] = "acquire"
    /\ IF LockFree
          THEN lock' = c /\ Goto(c, "gate")
          ELSE Goto(c, "idle") /\ UNCHANGED lock
    /\ UNCHANGED <<clock, work, latest, broker, db, history>>

FirstStep(c) == IF c = "watch" THEN "poll" ELSE "screen"

SecondLook(c) ==
    /\ pc[c] = "gate"
    /\ IF CloseStarted
          THEN Leave(c)
          ELSE Goto(c, FirstStep(c)) /\ UNCHANGED <<work, lock>>
    /\ UNCHANGED <<clock, latest, broker, db, history>>

-----------------------------------------------------------------------------
(* intraday_watch                                                          *)

Mutant_StillPending == {}      \* pending_exits is made anew in every cycle
StillPending == latest.pending \cap Holdings

\* Positions, quotes and partial sales done; `pending_exits` forgets what is
\* not held any more and holds back a second exit of what is.
WatchPoll ==
    /\ pc["watch"] = "poll"
    /\ \E exits \in SUBSET [ticker : Holdings, kind : {"STOP_LOSS", "TRAILING_STOP"}
                                \cup (IF PartialTakeProfit
                                         THEN {"PARTIAL_TAKE_PROFIT"} ELSE {})] :
          /\ \A e, f \in exits : e.ticker = f.ticker => e = f
          /\ \A e \in exits : e.kind = "PARTIAL_TAKE_PROFIT" =>
                e.ticker \notin latest.partial
          /\ LET qty(e) == IF e.kind = "PARTIAL_TAKE_PROFIT"
                              THEN Max({1, held[e.ticker] \div 2})
                              ELSE held[e.ticker] IN
             /\ latest' = [latest EXCEPT !.pending = StillPending]
             /\ work' = [work EXCEPT !["watch"].exits =
                   {[ticker |-> e.ticker, kind |-> e.kind, qty |-> qty(e)] :
                       e \in {x \in exits : x.ticker \notin StillPending}}]
    /\ Goto("watch", "sell")
    /\ UNCHANGED <<clock, lock, broker, db, history>>

\* Every executable exit counts as done, whatever became of its order.
WatchRemembers ==
    LET of(kinds) == {e.ticker : e \in {x \in work["watch"].exits : x.kind \in kinds}} IN
    /\ latest' = [latest EXCEPT !.partial = @ \cup of({"PARTIAL_TAKE_PROFIT"}),
                                !.pending = @ \cup of(Full)]
    /\ Goto("watch", "list")
    /\ work' = [work EXCEPT !["watch"] = NoWork]
    /\ UNCHANGED lock

WatchSell == SellAll("watch", WatchRemembers)

-----------------------------------------------------------------------------
(* Screening, filter and purchase: the recheck, and the retry in the watch  *)

\* runtime.run() finds any candidates; the positions are read after it.
Screen(c) ==
    /\ pc[c] = "screen"
    /\ \E result \in SUBSET Tickers : latest' = [latest EXCEPT !.result = result]
    /\ work' = [work EXCEPT ![c].held = Holdings]
    /\ Goto(c, IF c = "watch" THEN "filter" ELSE "list")
    /\ UNCHANGED <<clock, lock, broker, db, history>>

Mutant_Unfilled(c) == {}       \* the order book is not looked at
\* unfilled_order_tickers without what was cancelled a moment ago
Unfilled(c) == UnfilledTickers \ work[c].done

Mutant_RoundsLeft == latest.rounds <= MaxRounds       \* off by one
RoundsLeft == latest.rounds < MaxRounds

\* limited_intraday_buy_intents: the rounds, the book, the holdings and what
\* was submitted before.  The profit a held ticker has made decides whether it
\* may be added to; the order of the candidates decides whom the cap leaves.
Eligible(c) ==
    {t \in latest.result \ Unfilled(c) :
        /\ RoundsLeft
        /\ IF t \in work[c].held
              THEN Pyramiding /\ t \notin latest.addOn
              ELSE t \notin latest.bought}

\* ... and the stop-loss guards, all under the lock.
Filter(c) ==
    /\ pc[c] = "filter"
    /\ \E intents \in SUBSET Eligible(c) :
          /\ Cardinality(intents) <= RoundCap
          /\ Eligible(c) \ work[c].held # {} /\ RoundCap > 0 => intents # {}
          /\ Guards(c, intents)
    /\ Goto(c, "submit")
    /\ UNCHANGED <<clock, lock, latest, broker, db, doubled, clean, closed>>

\* A round counts when it submitted an order; only the recheck notes add-ons.
CycleRecord(c, traded) ==
    LET intents == work[c].intents
        addOn == IF c = "recheck" THEN intents \cap work[c].held ELSE {} IN
    IF traded THEN [latest EXCEPT !.rounds = @ + 1, !.bought = @ \cup intents,
                                  !.addOn = @ \cup addOn]
              ELSE latest

Submit(c) == BuyAll(c, [traded \in BOOLEAN |-> CycleRecord(c, traded)])

-----------------------------------------------------------------------------
(* close_session                                                           *)

\* The gate is shut first.  By the clock (15:58 in New York) the job of 15:55
\* has read the order book; its cancellations may still be going on.
CloseStart ==
    /\ pc["close"] = "idle"
    /\ phase = "late"
    /\ pc["cancel"] # "list"
    /\ closeDate' = today
    /\ Goto("close", "wait")
    /\ UNCHANGED <<today, phase, lock, work, latest, broker, db, history>>

CloseAcquire ==
    /\ pc["close"] = "wait"
    /\ LockFree
    /\ lock' = "close"
    /\ clean' = TRUE
    /\ Goto("close", "list")
    /\ UNCHANGED <<clock, work, latest, broker, db, faults, doubled, closed>>

\* monitor.poll(positions, end_of_day=True): everything held is to be sold.
ClosePoll ==
    /\ pc["close"] = "poll"
    /\ work' = [work EXCEPT !["close"] = [NoWork EXCEPT !.exits =
          {[ticker |-> t, kind |-> "EOD", qty |-> held[t]] : t \in Holdings}]]
    /\ Goto("close", "sell")
    /\ UNCHANGED <<clock, lock, latest, broker, db, history>>

CloseRemembers == Leave("close") /\ UNCHANGED latest

CloseSell == SellAll("close", CloseRemembers)

-----------------------------------------------------------------------------
(* The jobs without the lock                                               *)

\* 22:35-22:45 KST, before or after the opening
Early == phase \in {"before", "open"}

\* dry_run replaces the remembered candidates.
DryRun ==
    /\ Early
    /\ \E result \in SUBSET Tickers : latest' = [latest EXCEPT !.result = result]
    /\ UNCHANGED <<clock, lock, pc, work, broker, db, history>>

\* mock_buy takes every remembered candidate that was not stopped out today,
\* whatever is submitted, in the book or held already.
MockBuy ==
    /\ pc["buy"] = "idle"
    /\ Early
    /\ latest.result # {}
    /\ Guards("buy", latest.result)
    /\ Goto("buy", "submit")
    /\ UNCHANGED <<clock, lock, latest, broker, db, doubled, clean, closed>>

MockBuySubmit ==
    BuyAll("buy", [traded \in BOOLEAN |->
        [latest EXCEPT !.bought = @ \cup work["buy"].intents]])

\* cancel_unfilled, at 15:55
CancelUnfilled ==
    /\ pc["cancel"] = "idle"
    /\ phase = "late" /\ pc["close"] = "idle"
    /\ Goto("cancel", "list")
    /\ UNCHANGED <<clock, lock, work, latest, broker, db, history>>

-----------------------------------------------------------------------------
(* The clock                                                               *)

AllEnded == \A j \in Jobs : pc[j] \in {"idle", "over"}

\* The purchase of 22:45 is over hours before 15:55 in New York.
\* A job that is still running at 16:00 does nothing that it could not do a
\* moment before, when orders were filled as well; so the session ends after it.
Bell ==
    /\ today = MaxDate => phase # LastPhase
    /\ \/ phase = "before" /\ phase' = "open"
       \/ phase = "open" /\ phase' = "late" /\ pc["buy"] # "submit"
       \/ phase = "late" /\ phase' = "after" /\ AllEnded
    /\ pc' = IF phase' = "late" THEN [pc EXCEPT !["buy"] = "over"] ELSE pc
    /\ UNCHANGED <<today, closeDate, lock, work, latest, broker, db, history>>

\* Orders are good for the day.  `latest` belongs to the process and stays.
NextDate ==
    /\ phase = "after" /\ today < MaxDate
    /\ AllEnded
    /\ today' = today + 1 /\ phase' = "before"
    /\ pc' = [j \in Jobs |-> "idle"]
    /\ orders' = [i \in 1..Slots |-> Gone]
    /\ stopped' = {} /\ entries' = 0 /\ uncounted' = 0
    /\ UNCHANGED <<closeDate, lock, work, latest, held, history>>

\* The process dies and another one is started, whatever the jobs were doing.
\* (One that dies inside a call to the brokerage leaves what a failed call
\* leaves: an order whose trade is not saved, or orders that were not sent.)
\* `latest`, with the gate, and the lock are new; the start-up twins are cycles
\* that may start at once.  A job whose hour has come does not run again.
Restart ==
    /\ Fails("restart")
    /\ closeDate' = 0 /\ lock' = Free /\ latest' = Fresh
    /\ pc' = [j \in Jobs |->
                 IF j \in Cycles \/ pc[j] = "idle" THEN "idle" ELSE "over"]
    /\ work' = [j \in Jobs |-> NoWork]
    /\ orders' = [i \in 1..Slots |-> [orders[i] EXCEPT !.known = FALSE]]
    /\ uncounted' = uncounted + latest.rounds
    /\ closed' = 0
    /\ UNCHANGED <<today, phase, stopped, held, entries, doubled, clean>>

CycleStep(c) ==
    TryLock(c) \/ SecondLook(c) \/ Screen(c) \/ Filter(c) \/ Submit(c)

JobStep(j) ==
    \/ j \in Cycles /\ CycleStep(j)
    \/ j = "watch" /\ (WatchPoll \/ WatchSell)
    \/ j = "close" /\ (CloseAcquire \/ ClosePoll \/ CloseSell)
    \/ j = "buy" /\ MockBuySubmit
    \/ List(j) \/ ListFails(j) \/ Cancel(j) \/ Raise(j)

StartStep ==
    (\E c \in Cycles : Start(c)) \/ CloseStart \/ DryRun \/ MockBuy \/ CancelUnfilled

BrokerStep == \E i \in 1..Slots : Fill(i) \/ Age(i)

Next ==
    (\E j \in Jobs : JobStep(j)) \/ StartStep \/ BrokerStep \/ Bell \/ NextDate \/ Restart

Spec == Init /\ [][Next]_vars

-----------------------------------------------------------------------------
(* Properties                                                              *)

\* The jobs keep to the lock and the gate as CycleLock describes them.
LockStep == [s \in Steps |->
                CASE s = "gate" -> "recheck"
                  [] s = "over" -> "idle"
                  [] s \in {"idle", "acquire", "wait"} -> s
                  [] OTHER -> "body"]
LockPC == [j \in Cycles \cup {"close"} |-> LockStep[pc[j]]]

\* close_session of this process has had the lock today.
CloseShut == CloseStarted /\ pc["close"] \notin {"idle", "wait"}

CL == INSTANCE CycleLock WITH
          Closer <- "close", pc <- LockPC,
          shut <- CloseShut,
          session <- IF phase = "late" THEN "open" ELSE phase

FollowsCycleLock == CL!Spec

\* A ticker never has two buy orders in the book, whatever is refused, cannot
\* be cancelled or gets lost on its way to the database: the cycles read the
\* book and submit under one hold of the lock.  Two things break it: a purchase
\* of 22:45 that falls into the session, because mock_buy takes no lock, and an
\* executor that sends an order again.
OneEntryInBook ==
    \A i, k \in {n \in LiveOrders : IsBuy(orders[n])} :
        orders[i].ticker = orders[k].ticker => i = k

OneLiveEntry == ~doubled => OneEntryInBook

\* No more tickers are entered by the cycles of a day than its rounds allow, and
\* one more round for each that raised after its trades were saved or that the
\* process forgot when it was restarted.
RoundsBounded == entries <= (MaxRounds + uncounted) * RoundCap

\* A cycle that is about to buy knows of every stop loss saved today, unless
\* the lookup of it raised: no stop loss is saved between its look and its order.
StopLossRespected ==
    \A c \in Cycles : pc[c] = "submit" =>
        work[c].intents \cap stopped \subseteq work[c].blind

LiveExit(t, sides) == \E i \in OrdersOf(t, sides) : orders[i].known

\* The watch never submits a second sale of a whole position while its first,
\* which the process knows of, is still in the book.  A process that is started
\* knows of no sale.
NoSecondFullExit ==
    pc["watch"] = "sell" =>
        \A e \in work["watch"].exits : e.kind \in Full => ~LiveExit(e.ticker, {"sell"})

\* After a close in which every call succeeded, and as long as its process lives,
\* nothing can be bought any more and every share that is held is on sale.
CloseLeavesNothingOpen ==
    closed = today =>
        \A t \in Tickers : InBook(t, BuySide) = 0 /\ held[t] = InBook(t, SellSides)

\* No more tickers are entered on a day than its rounds allow.
RoundsPerDay == entries <= MaxRounds * RoundCap

\* A day without an entry of its own has rounds left (with any rounds at all).
RoundsArePerDay ==
    /\ MaxRounds > 0
    /\ entries = 0
    => latest.rounds < MaxRounds

\* The watch submits no sale of a ticker that it already has in the book.
NoDuplicateSale ==
    pc["watch"] = "sell" =>
        \A e \in work["watch"].exits :
            ~LiveExit(e.ticker, SellSides)
=============================================================================
