---------------------------- MODULE PositionLife ----------------------------
(***************************************************************************)
(* One ticker under the one-minute watch (intraday_watch, exit_planner.py, *)
(* quote_polling.py): bought, watched, sold in part or in full, and bought *)
(* again.  The scheduler remembers highs, partial sales and pending exits  *)
(* by ticker, never by position, and loses all three when it restarts; the *)
(* entry time comes from the fills of the day.  Prices are per cent of the *)
(* entry price, times are ticks of ten minutes.                            *)
(***************************************************************************)
EXTENDS Integers

CONSTANTS
    Quotes,      \* prices a quote or the account may show
    ExitRules,   \* TradingSettings: the exit rules that may be in force
    Midnight,    \* tick of the session that is midnight in Korea
    DayTicks,    \* ticks of a day
    LastTick     \* bound: ticks of the session

Entry == 100     \* the average purchase price

ASSUME QuotesAssumption == Quotes \subseteq Nat \ {0}
ASSUME RulesAssumption ==
    \A r \in ExitRules :
        /\ r.chosen = TRUE
        /\ {r.trailing_activation, r.protection_trigger} \subseteq Int
ASSUME TicksAssumption ==
    /\ Midnight \in Nat /\ DayTicks \in Nat /\ LastTick \in Nat
    /\ Midnight <= LastTick /\ LastTick < DayTicks

VARIABLES
    rules,        \* the settings of the session
    tick,         \* now
    qty,          \* shares held
    enteredAt,    \* tick of the purchase of the position
    firstFill,    \* position_entry_times: MIN(fill_time) of the ticker's buys
    saleOrder,    \* shares of the sale in the book
    saleReason,   \* reason of the sale the last watch planned
    highs,        \* latest.highs.get(ticker)
    partialKnown, \* ticker \in latest.partial_take_profit_tickers
    partialSaved, \* trade_history has a partial sale of the ticker
    pendingExit,  \* ticker \in latest.pending_exits
    ownHigh,      \* history: highest price known of the position itself
    foreignHigh,  \* history: highs comes from an earlier position
    stopSeen,     \* history: the last watch of the position saw its stop loss
    exitTried,    \* history: a full sale of this position was planned
    carriedExit,  \* history: the pending exit is of an earlier position
    partials,     \* history: partial sales submitted, counted to 2
    partialLost   \* history: a partial sale is on no record

saleMemory == <<highs, partialKnown, pendingExit>>
history == <<ownHigh, foreignHigh, stopSeen, exitTried, carriedExit, partials,
             partialLost>>
lifeVars == <<rules, tick, qty, enteredAt, firstFill, saleOrder, saleReason,
              saleMemory, partialSaved, history>>

NoPrice == 0
NoTick == -1
Higher(a, b) == IF a > b THEN a ELSE b
Lower(a, b) == IF a < b THEN a ELSE b

LifeInit ==
    /\ rules = [chosen |-> FALSE] /\ tick = 0
    /\ qty = 0 /\ enteredAt = NoTick /\ firstFill = NoTick
    /\ saleOrder = 0 /\ saleReason = "none"
    /\ highs = NoPrice /\ partialKnown = FALSE /\ pendingExit = FALSE
    /\ partialSaved = FALSE
    /\ ownHigh = NoPrice /\ foreignHigh = FALSE /\ stopSeen = FALSE
    /\ exitTried = FALSE /\ carriedExit = FALSE
    /\ partials = 0 /\ partialLost = FALSE

Settings ==
    /\ ~rules.chosen /\ rules' \in ExitRules
    /\ UNCHANGED <<tick, qty, enteredAt, firstFill, saleOrder, saleReason,
                   saleMemory, partialSaved, history>>

LifeTypeOK ==
    /\ rules \in ExitRules \cup {[chosen |-> FALSE]} /\ tick \in 0 .. LastTick
    /\ qty \in 0 .. 2 /\ saleOrder \in 0 .. 2 /\ partials \in 0 .. 2
    /\ {enteredAt, firstFill} \subseteq {NoTick} \cup 0 .. LastTick
    /\ {highs, ownHigh} \subseteq {NoPrice, Entry} \cup Quotes
    /\ {partialKnown, partialSaved, pendingExit, foreignHigh, stopSeen, exitTried,
        carriedExit, partialLost} \subseteq BOOLEAN

-----------------------------------------------------------------------------
(* exit_planner.py.  A position p has last, high and minutes (NoTick when  *)
(* its entry time is not known).                                           *)

Rate(price) == price - Entry

HardStop(p) == Rate(p.last) <= rules.max_position_loss
ProfitProtection(p) ==
    /\ rules.profit_protection
    /\ Rate(p.high) >= rules.protection_trigger
    /\ Rate(p.last) <= rules.protection_floor
EarlyNegative(p) ==
    /\ rules.early_negative /\ p.held # NoTick
    /\ p.held >= rules.early_negative_ticks
    /\ Rate(p.last) <= rules.early_negative_rate
TimeStop(p) ==
    /\ rules.time_stop /\ p.held # NoTick
    /\ p.held >= rules.time_stop_ticks
    /\ Rate(p.last) < rules.time_stop_min_profit
TakeProfit(p) == Rate(p.last) >= rules.take_profit

\* execution.py: once the high has activated it, a fall by the drop is enough.
TrailingStop(p) ==
    /\ rules.trailing_activation > 0 => Rate(p.high) >= rules.trailing_activation
    /\ p.last * 1000 <= p.high * (1000 - rules.trailing_drop)

\* _exit_reason
ExitReason(p, end_of_day, partial_done) ==
    IF end_of_day THEN "EOD"
    ELSE IF HardStop(p) THEN "STOP_LOSS"
    ELSE IF ProfitProtection(p) THEN "PROFIT_PROTECTION"
    ELSE IF EarlyNegative(p) THEN "EARLY_NEGATIVE_EXIT"
    ELSE IF TimeStop(p) THEN "TIME_STOP_EXIT"
    ELSE IF TakeProfit(p) /\ ~rules.partial_take_profit THEN "TAKE_PROFIT"
    ELSE IF TakeProfit(p) /\ ~partial_done THEN "PARTIAL_TAKE_PROFIT"
    ELSE IF TrailingStop(p) THEN "TRAILING_STOP"
    ELSE "none"

ExitQuantity(reason) ==
    IF reason = "PARTIAL_TAKE_PROFIT" THEN Higher(1, qty \div 2) ELSE qty

(* position_holding_minutes with position_entry_times: the entry time is   *)
(* the trade date, which is the day the session begins, with the clock of  *)
(* the smallest fill time.  Fill times are in Korean time, and a fill      *)
(* after midnight there has the smaller clock.                             *)
Clock(t) == IF t < Midnight THEN t ELSE t - DayTicks
HeldTicks == Higher(0, tick - Clock(firstFill))

-----------------------------------------------------------------------------
\* The brokerage fills a purchase.  Its price is the entry price.
Bought ==
    /\ rules.chosen /\ qty = 0 /\ saleOrder = 0
    /\ qty' = 2 /\ enteredAt' = tick
    /\ firstFill' = IF firstFill = NoTick \/ Clock(tick) < Clock(firstFill)
                    THEN tick ELSE firstFill
    /\ saleReason' = "none"
    /\ ownHigh' = Entry /\ stopSeen' = FALSE /\ exitTried' = FALSE
    /\ foreignHigh' = (highs # NoPrice)
    /\ carriedExit' = pendingExit
    /\ UNCHANGED <<rules, tick, saleOrder, saleMemory, partialSaved, partials,
                   partialLost>>

\* The brokerage fills the sale in the book.
Sold ==
    /\ saleOrder > 0
    /\ qty' = qty - Lower(saleOrder, qty) /\ saleOrder' = 0
    /\ UNCHANGED <<rules, tick, enteredAt, firstFill, saleReason, saleMemory,
                   partialSaved, history>>

\* The sale leaves the book unfilled: cancelled, or refused after its receipt.
SaleDies ==
    /\ saleOrder > 0 /\ saleOrder' = 0
    /\ UNCHANGED <<rules, tick, qty, enteredAt, firstFill, saleReason,
                   saleMemory, partialSaved, history>>

Tick ==
    /\ rules.chosen /\ tick < LastTick /\ tick' = tick + 1
    /\ UNCHANGED <<rules, qty, enteredAt, firstFill, saleOrder, saleReason,
                   saleMemory, partialSaved, history>>

\* `latest` starts empty; the database stays.
Restart ==
    /\ rules.chosen
    /\ highs' = NoPrice /\ partialKnown' = FALSE /\ pendingExit' = FALSE
    /\ foreignHigh' = FALSE /\ carriedExit' = FALSE /\ exitTried' = FALSE
    /\ stopSeen' = FALSE /\ ownHigh' = IF qty > 0 THEN Entry ELSE NoPrice
    /\ saleReason' = "none"
    /\ UNCHANGED <<rules, tick, qty, enteredAt, firstFill, saleOrder,
                   partialSaved, partials, partialLost>>

-----------------------------------------------------------------------------
(* intraday_watch.  The account shows price `shown` and the quote `quote`, *)
(* or the quote fails and the position stays as the account has it.        *)

\* _remembered_highs, then PollingExitMonitor.poll
Watched(shown, quote) ==
    LET account == Higher(Higher(Entry, shown), highs)
    IN  [last |-> IF quote = NoPrice THEN shown ELSE quote,
         high |-> Higher(account, quote)]

Mutant_RememberHigh(p) == highs' = p.last
RememberHigh(p) == highs' = p.high    \* latest.highs.update

Mutant_ExecutionEnds(reason) ==       \* a partial sale is a pending exit too
    /\ partialKnown' = (partialKnown \/ reason = "PARTIAL_TAKE_PROFIT")
    /\ pendingExit' = TRUE

\* latest.partial_take_profit_tickers.update, latest.pending_exits.update
ExecutionEnds(reason) ==
    /\ partialKnown' = (partialKnown \/ reason = "PARTIAL_TAKE_PROFIT")
    /\ pendingExit' = (pendingExit \/ reason # "PARTIAL_TAKE_PROFIT")

Mutant_PartialDone(lookup) == partialKnown       \* the database is not asked

\* latest.partial_take_profit_tickers | saved_partial_take_profit_tickers(...)
PartialDone(lookup) == partialKnown \/ (partialSaved /\ lookup)

\* History: the only record of a partial sale cannot be read.
Unread(lookup) == partialSaved /\ ~partialKnown /\ ~lookup

(* The brokerage takes the sale, refuses it, or takes it and the reply is  *)
(* lost; it sells no share twice.  save_trades writes a sale that was      *)
(* acknowledged, or raises, and the watch ends before it remembers it.     *)
Outcomes == {"submitted", "refused", "unheard", "unsaved"}

Execute(reason, outcome, lookup) ==
    LET placed == outcome # "refused"
        partial == reason = "PARTIAL_TAKE_PROFIT"
    IN  /\ saleOrder' = IF placed THEN Lower(qty, saleOrder + ExitQuantity(reason))
                        ELSE saleOrder
        /\ saleReason' = reason
        /\ partials' = IF placed /\ partial THEN Lower(2, partials + 1)
                       ELSE partials
        /\ partialSaved' = (partialSaved \/ (partial /\ outcome = "submitted"))
        /\ partialLost' = \/ partialLost \/ Unread(lookup)
                          \/ partial /\ outcome # "submitted"
        /\ exitTried' = (exitTried \/ ~partial)
        /\ IF outcome = "unsaved" THEN UNCHANGED <<partialKnown, pendingExit>>
           ELSE ExecutionEnds(reason)

\* Nothing to sell, or an exit of the ticker is pending.
NothingToExecute(lookup) ==
    /\ saleReason' = "none"
    /\ partialLost' = (partialLost \/ Unread(lookup))
    /\ UNCHANGED <<saleOrder, partials, partialSaved, exitTried, partialKnown,
                   pendingExit>>

\* `times` and `lookup`: the two database lookups of the watch succeed.
WatchHeld(shown, quote, times, lookup) ==
    LET seen == Watched(shown, quote)
        p == [last |-> seen.last, high |-> seen.high,
              held |-> IF times THEN HeldTicks ELSE NoTick]
        reason == ExitReason(p, FALSE, PartialDone(lookup))
    IN  /\ rules.chosen /\ qty > 0
        /\ RememberHigh(p)
        /\ ownHigh' = Higher(ownHigh, Higher(shown, quote))
        /\ stopSeen' = HardStop(p)
        /\ \/ reason # "none" /\ ~pendingExit
              /\ \E outcome \in Outcomes : Execute(reason, outcome, lookup)
           \/ (reason = "none" \/ pendingExit) /\ NothingToExecute(lookup)
        /\ UNCHANGED <<rules, tick, qty, enteredAt, firstFill, foreignHigh,
                       carriedExit>>

\* The ticker is not held: pending_exits.intersection_update drops it.
WatchFlat ==
    /\ rules.chosen /\ qty = 0
    /\ pendingExit' = FALSE /\ carriedExit' = FALSE
    /\ saleReason' = "none"
    /\ UNCHANGED <<rules, tick, qty, enteredAt, firstFill, saleOrder, highs,
                   partialKnown, partialSaved, ownHigh, foreignHigh, stopSeen,
                   exitTried, partials, partialLost>>

\* The lookup of the partial sales tells something only of one that was saved.
LifeNext ==
    \/ Settings \/ Bought \/ Sold \/ SaleDies \/ Tick \/ Restart \/ WatchFlat
    \/ \E shown \in Quotes, quote \in Quotes \cup {NoPrice},
          times \in BOOLEAN, lookup \in {TRUE, ~partialSaved} :
          WatchHeld(shown, quote, times, lookup)

LifeSpec == LifeInit /\ [][LifeNext]_lifeVars

-----------------------------------------------------------------------------
(* The high a position is judged by is its own: since its purchase, or     *)
(* since the scheduler started if that was later, the watch has remembered *)
(* exactly the highest price it saw, so no fall is missed, and a sale for  *)
(* TRAILING_STOP or PROFIT_PROTECTION follows a rise of this position.     *)
(* Excluded by name: a position whose ticker was watched before in an      *)
(* earlier position, whose high the dictionary still holds; such a high    *)
(* may set off a sale of the new position.                                 *)
HighIsOwn ==
    qty > 0 /\ ~foreignHigh =>
        /\ highs \in {NoPrice, ownHigh}
        /\ saleReason = "TRAILING_STOP" =>
               Rate(ownHigh) >= rules.trailing_activation
        /\ saleReason = "PROFIT_PROTECTION" =>
               Rate(ownHigh) >= rules.protection_trigger

(* Whenever the watch sees a position at its stop loss, a sale of all of   *)
(* it has been planned, now or at an earlier watch, although sales, quotes *)
(* and both lookups fail, partial sales come before it and the scheduler   *)
(* restarts.  Planned is not submitted: an exit that was refused counts as *)
(* pending, and nothing here says that it is tried again.  Excluded by     *)
(* name: a ticker sold and bought again between two watches, whose pending *)
(* exit passes to the new position.                                        *)
StopLossTaken == qty > 0 /\ stopSeen => exitTried \/ carriedExit

(* A ticker is sold in part once a day, also across a restart between two  *)
(* watches: the memory and the database make up for each other.  Excluded  *)
(* by name: a partial sale that neither of them got to know, or that the   *)
(* only one that knows could not tell.                                     *)
OnePartial == partials > 1 => partialLost

(* What the minutes of EARLY_NEGATIVE_EXIT and TIME_STOP_EXIT mean: the    *)
(* position has been held that long.                                       *)
TimeExitsAreDue ==
    /\ saleReason = "EARLY_NEGATIVE_EXIT" =>
           tick - enteredAt >= rules.early_negative_ticks
    /\ saleReason = "TIME_STOP_EXIT" =>
           tick - enteredAt >= rules.time_stop_ticks
=============================================================================
